-------------------------- MODULE AppRuntimeProofs ---------------------------
(***************************************************************************)
(* Proofs about what one process of the application keeps in memory:       *)
(* WorkspaceObservations, for any workspaces and any bounds of the         *)
(* semaphore, the queue and the audit buffer; BackgroundPlanning, which    *)
(* its lanes call, for any sessions, devices and limits of the policy; and *)
(* ConnectionPool, for any number of callers and any sizes.                *)
(***************************************************************************)
EXTENDS WorkspaceObservations, BackgroundPlanning, ConnectionPool,
        FiniteSetTheorems, SequenceTheorems, TLAPS

-----------------------------------------------------------------------------
(* Observations.  The inductive invariant is what the runs check, taken    *)
(* together: that a place given back is one that was taken needs the       *)
(* count, the order of a lane needs the versions.                          *)

ObservationsInv == TypeOK /\ PendingCoversWork /\ QueueInOrder

Versions == 1 .. MaxContext

\* The parts about one lane.
LaneOK(w) ==
    /\ queue[w] \in Seq(Versions)
    /\ lane[w] \in {"NONE", "WAITING", "BUSY"}
    /\ lane[w] = "NONE" <=> queue[w] = <<>>
    /\ \A i, j \in 1 .. Len(queue[w]) : i < j => queue[w][i] < queue[w][j]
    /\ \A i \in 1 .. Len(queue[w]) : queue[w][i] <= context[w]

LanesOK ==
    /\ queue \in [Workspaces -> Seq(Versions)]
    /\ lane \in [Workspaces -> {"NONE", "WAITING", "BUSY"}]
    /\ context \in [Workspaces -> Versions]
    /\ \A w \in Workspaces : LaneOK(w)

CountOK ==
    /\ pending \in 0 .. MaxPending
    /\ Cardinality(Work) <= pending

RestOK ==
    /\ life \in [Workspaces -> {"NONE", "LIVE", "GONE"}]
    /\ processed \in [Workspaces -> 0 .. MaxContext]
    /\ room \in 0 .. MaxFacts
    /\ door \in {"OPEN", "CLOSING", "WOKEN", "CLOSED"}

\* The invariant in the three parts the steps are proved for.
LEMMA PartsOfInv == ObservationsInv <=> LanesOK /\ CountOK /\ RestOK
<1>1. ObservationsInv => LanesOK /\ CountOK /\ RestOK
  BY DEF ObservationsInv, TypeOK, PendingCoversWork, QueueInOrder, LanesOK, LaneOK, CountOK, RestOK, Versions
<1>2. LanesOK /\ CountOK /\ RestOK => ObservationsInv
  BY DEF ObservationsInv, TypeOK, PendingCoversWork, QueueInOrder, LanesOK, LaneOK, CountOK, RestOK, Versions
<1> QED BY <1>1, <1>2

-----------------------------------------------------------------------------
(* The work that is counted.                                               *)

\* Lanes are finite, and so is what they have to work off.
LEMMA WorkFinite ==
    ASSUME queue \in [Workspaces -> Seq(Versions)]
    PROVE  IsFiniteSet(Work) /\ Cardinality(Work) \in Nat
<1> DEFINE Places(w) == {w} \X (1 .. Len(queue[w]))
           places == [w \in Workspaces |-> Places(w)]
           lanes == {Places(w) : w \in Workspaces}
<1>1. ASSUME NEW w \in Workspaces PROVE IsFiniteSet(Places(w))
  <2>1. Len(queue[w]) \in Nat
    BY LenProperties
  <2>2. IsFiniteSet(1 .. Len(queue[w]))
    BY <2>1, FS_Interval
  <2>3. IsFiniteSet({w})
    BY FS_Singleton
  <2> QED BY <2>2, <2>3, FS_Product
<1>2. places \in Surjection(Workspaces, lanes)
  <2>1. places \in [Workspaces -> lanes]
    OBVIOUS
  <2>2. ASSUME NEW T \in lanes PROVE \E w \in Workspaces : places[w] = T
    OBVIOUS
  <2> HIDE DEF places, lanes
  <2> QED BY <2>1, <2>2 DEF Surjection
<1>3. IsFiniteSet(lanes)
  <2> HIDE DEF places, lanes
  <2> QED BY <1>2, ObservationsAssumption, FS_Surjection
<1>4. \A T \in lanes : IsFiniteSet(T)
  BY <1>1
<1>5. Work = UNION lanes
  BY DEF Work
<1>6. IsFiniteSet(Work)
  <2> HIDE DEF lanes
  <2> QED BY <1>3, <1>4, <1>5, FS_UNION
<1> QED BY <1>6, FS_CardinalityType

\* A place is work as long as the lane reaches it.
LEMMA WorkPlaces ==
    \A w, i : <<w, i>> \in Work <=> w \in Workspaces /\ i \in 1 .. Len(queue[w])
BY DEF Work

\* Work is made of places.
LEMMA WorkIsPlaces ==
    \A p \in Work : p = <<p[1], p[2]>> /\ p[1] \in Workspaces /\ p[2] \in 1 .. Len(queue[p[1]])
BY DEF Work

-----------------------------------------------------------------------------
(* What is put into a lane and what is taken out of it.                    *)

\* An accepted observation is newer than what is queued, and is counted.
LEMMA SubmitMoves ==
    ASSUME LanesOK, CountOK, NEW w \in Workspaces,
           pending < MaxPending, context[w] < MaxContext,
           context' = [context EXCEPT ![w] = @ + 1],
           Submit(w, context[w] + 1)
    PROVE  LanesOK' /\ CountOK'
<1>1. /\ queue \in [Workspaces -> Seq(Versions)]
      /\ context \in [Workspaces -> Versions]
      /\ lane \in [Workspaces -> {"NONE", "WAITING", "BUSY"}]
      /\ MaxContext \in Nat /\ MaxPending \in Nat
  BY ObservationsAssumption DEF LanesOK
<1>2. context[w] + 1 \in Versions /\ context[w] \in Nat
  BY <1>1 DEF Versions
<1>3. /\ queue' = [queue EXCEPT ![w] = Append(queue[w], context[w] + 1)]
      /\ queue'[w] = Append(queue[w], context[w] + 1)
      /\ queue'[w] \in Seq(Versions)
      /\ Len(queue'[w]) = Len(queue[w]) + 1
      /\ Len(queue[w]) \in Nat
      /\ \A i \in 1 .. Len(queue[w]) : queue'[w][i] = queue[w][i]
      /\ queue'[w][Len(queue[w]) + 1] = context[w] + 1
  <2>1. queue' = [queue EXCEPT ![w] = Append(queue[w], context[w] + 1)]
    BY <1>1 DEF Submit
  <2>2. queue'[w] = Append(queue[w], context[w] + 1)
    BY <1>1, <2>1
  <2>3. queue[w] \in Seq(Versions)
    BY <1>1
  <2> QED BY <1>2, <2>1, <2>2, <2>3, AppendProperties, LenProperties
<1>4. LanesOK'
  <2>1. queue' \in [Workspaces -> Seq(Versions)]
    BY <1>1, <1>3
  <2>2. lane' \in [Workspaces -> {"NONE", "WAITING", "BUSY"}]
    BY <1>1 DEF Submit
  <2>3. context' \in [Workspaces -> Versions]
    BY <1>1, <1>2
  <2>4. ASSUME NEW u \in Workspaces PROVE LaneOK(u)'
    <3>1. CASE u # w
      <4>1. queue'[u] = queue[u] /\ lane'[u] = lane[u] /\ context'[u] = context[u]
        BY <1>1, <1>3, <3>1 DEF Submit
      <4>2. LaneOK(u)
        BY DEF LanesOK
      <4> QED BY <4>1, <4>2 DEF LaneOK
    <3>2. CASE u = w
      <4>1. lane'[w] \in {"WAITING", "BUSY"}
        BY <1>1 DEF Submit
      <4>2. queue'[w] # <<>>
        <5>1. Len(queue'[w]) # 0
          BY <1>3
        <5> QED BY <5>1
      <4>3. context'[w] = context[w] + 1
        BY <1>1
      <4>4. LaneOK(w)
        BY DEF LanesOK
      <4>5. \A i \in 1 .. Len(queue'[w]) : queue'[w][i] <= context'[w]
        <5>1. ASSUME NEW i \in 1 .. Len(queue'[w]) PROVE queue'[w][i] <= context'[w]
          <6>1. i \in 1 .. Len(queue[w]) \/ i = Len(queue[w]) + 1
            BY <1>3
          <6>2. CASE i \in 1 .. Len(queue[w])
            <7>1. queue[w][i] <= context[w] /\ queue[w][i] \in Versions
              BY <1>1, <4>4, <6>2, ElementOfSeq DEF LaneOK
            <7> QED BY <1>2, <1>3, <4>3, <6>2, <7>1 DEF Versions
          <6> QED BY <1>2, <1>3, <4>3, <6>1, <6>2
        <5> QED BY <5>1
      <4>6. \A i, j \in 1 .. Len(queue'[w]) : i < j => queue'[w][i] < queue'[w][j]
        <5>1. ASSUME NEW i \in 1 .. Len(queue'[w]), NEW j \in 1 .. Len(queue'[w]), i < j
              PROVE  queue'[w][i] < queue'[w][j]
          <6>1. i \in 1 .. Len(queue[w])
            BY <1>3, <5>1
          <6>2. queue[w][i] <= context[w] /\ queue[w][i] \in Versions
            BY <1>1, <4>4, <6>1, ElementOfSeq DEF LaneOK
          <6>3. CASE j = Len(queue[w]) + 1
            BY <1>2, <1>3, <6>1, <6>2, <6>3 DEF Versions
          <6>4. CASE j \in 1 .. Len(queue[w])
            BY <1>3, <4>4, <5>1, <6>1, <6>4 DEF LaneOK
          <6> QED BY <1>3, <6>3, <6>4
        <5> QED BY <5>1
      <4> QED BY <1>3, <2>2, <3>2, <4>1, <4>2, <4>5, <4>6 DEF LaneOK
    <3> QED BY <3>1, <3>2
  <2> QED BY <2>1, <2>2, <2>3, <2>4 DEF LanesOK
<1>5. CountOK'
  <2> DEFINE new == <<w, Len(queue[w]) + 1>>
  <2>1. Work' = Work \cup {new}
    <3>1. \A u \in Workspaces : 1 .. Len(queue'[u]) =
            IF u = w THEN 1 .. Len(queue[u]) \cup {Len(queue[w]) + 1} ELSE 1 .. Len(queue[u])
      <4>1. 1 .. Len(queue'[w]) = 1 .. Len(queue[w]) \cup {Len(queue[w]) + 1}
        BY <1>3
      <4>2. \A u \in Workspaces \ {w} : queue'[u] = queue[u]
        BY <1>1, <1>3
      <4> QED BY <4>1, <4>2
    <3>2. \A u \in Workspaces : {u} \X (1 .. Len(queue'[u])) =
            IF u = w THEN ({u} \X (1 .. Len(queue[u]))) \cup {new} ELSE {u} \X (1 .. Len(queue[u]))
      <4>1. ASSUME NEW u \in Workspaces, u # w PROVE 1 .. Len(queue'[u]) = 1 .. Len(queue[u])
        BY <3>1, <4>1
      <4>2. 1 .. Len(queue'[w]) = 1 .. Len(queue[w]) \cup {Len(queue[w]) + 1}
        BY <3>1
      <4>3. \A S, x : {w} \X (S \cup {x}) = ({w} \X S) \cup {<<w, x>>}
        OBVIOUS
      <4> QED BY <4>1, <4>2, <4>3
    <3>3. Work' \subseteq Work \cup {new}
      <4>1. ASSUME NEW u \in Workspaces, NEW p \in {u} \X (1 .. Len(queue'[u]))
            PROVE  p \in Work \cup {new}
        BY <3>2 DEF Work
      <4> QED BY <4>1 DEF Work
    <3>4. Work \subseteq Work'
      <4>1. ASSUME NEW u \in Workspaces, NEW p \in {u} \X (1 .. Len(queue[u]))
            PROVE  p \in Work'
        <5>1. p \in {u} \X (1 .. Len(queue'[u]))
          BY <3>2
        <5> QED BY <5>1 DEF Work
      <4> QED BY <4>1 DEF Work
    <3>5. new \in Work'
      <4>1. new \in {w} \X (1 .. Len(queue'[w]))
        BY <3>2
      <4> QED BY <4>1 DEF Work
    <3> QED BY <3>3, <3>4, <3>5
  <2>2. new \notin Work
    BY <1>3, WorkPlaces
  <2>3. IsFiniteSet(Work) /\ Cardinality(Work) \in Nat
    BY <1>1, WorkFinite
  <2>4. Cardinality(Work') = Cardinality(Work) + 1
    <3> HIDE DEF new
    <3> QED BY <2>1, <2>2, <2>3, FS_AddElement
  <2>5. pending' = pending + 1
    BY DEF Submit
  <2> QED BY <1>1, <2>3, <2>4, <2>5 DEF CountOK
<1> QED BY <1>4, <1>5

\* What leaves a lane leaves at least one place of work.
LEMMA LessWork ==
    ASSUME LanesOK, CountOK, NEW w \in Workspaces, queue[w] # <<>>,
           queue' \in [Workspaces -> Seq(Versions)],
           \A u \in Workspaces \ {w} : queue'[u] = queue[u],
           Len(queue'[w]) < Len(queue[w])
    PROVE  /\ pending > 0
           /\ Cardinality(Work') <= pending - 1
           /\ IsFiniteSet(Work') /\ Cardinality(Work') \in Nat
<1> DEFINE last == <<w, Len(queue[w])>>
<1>1. queue \in [Workspaces -> Seq(Versions)] /\ pending \in Int
  BY DEF LanesOK, CountOK
<1>2. Len(queue[w]) \in Nat /\ Len(queue'[w]) \in Nat
  BY <1>1, LenProperties
<1>3. last \in Work
  BY <1>2, WorkPlaces
<1>4. Work' \subseteq Work \ {last}
  <2>1. \A u \in Workspaces : \A i \in 1 .. Len(queue'[u]) : i \in 1 .. Len(queue[u]) /\ <<u, i>> # last
    BY <1>2
  <2> QED BY <2>1 DEF Work
<1>5. IsFiniteSet(Work) /\ Cardinality(Work) \in Nat
  BY <1>1, WorkFinite
<1>6. IsFiniteSet(Work \ {last}) /\ Cardinality(Work \ {last}) = Cardinality(Work) - 1
  <2> HIDE DEF last
  <2> QED BY <1>3, <1>5, FS_RemoveElement
<1>7. /\ IsFiniteSet(Work') /\ Cardinality(Work') <= Cardinality(Work \ {last})
      /\ Cardinality(Work') \in Nat
  <2> HIDE DEF last
  <2> QED BY <1>4, <1>6, FS_Subset, FS_CardinalityType
<1>8. Cardinality(Work) <= pending
  BY DEF CountOK
<1> QED BY <1>1, <1>5, <1>6, <1>7, <1>8

\* An observation leaves its lane, or the lane is dropped: one place is given
\* back, and when it was the last one nothing is left to work off.
LEMMA TakenOut ==
    ASSUME LanesOK, CountOK, door \in {"OPEN", "CLOSING", "WOKEN", "CLOSED"},
           NEW w \in Workspaces, lane[w] # "NONE",
           UNCHANGED context,
           Leave(w) \/ Lose(w)
    PROVE  /\ LanesOK' /\ CountOK'
           /\ door' # door => door' = "WOKEN" /\ Work' = {}
           /\ door' \in {"OPEN", "CLOSING", "WOKEN", "CLOSED"}
<1>1. /\ queue \in [Workspaces -> Seq(Versions)]
      /\ context \in [Workspaces -> Versions]
      /\ lane \in [Workspaces -> {"NONE", "WAITING", "BUSY"}]
      /\ pending \in 0 .. MaxPending /\ MaxPending \in Nat
      /\ LaneOK(w) /\ queue[w] # <<>>
  BY ObservationsAssumption DEF LanesOK, LaneOK, CountOK
<1>2. Len(queue[w]) \in Nat /\ Len(queue[w]) > 0
  BY <1>1, EmptySeq, LenProperties
<1>3. Through(1)
  BY DEF Leave, Lose, GivesBack
<1>4. /\ queue' \in [Workspaces -> Seq(Versions)]
      /\ lane' \in [Workspaces -> {"NONE", "WAITING", "BUSY"}]
      /\ Len(queue'[w]) < Len(queue[w])
      /\ \A u \in Workspaces \ {w} : queue'[u] = queue[u] /\ lane'[u] = lane[u]
      /\ lane'[w] = "NONE" <=> queue'[w] = <<>>
      /\ \A i \in 1 .. Len(queue'[w]) : queue'[w][i] = queue[w][i + 1]
      /\ \A i \in 1 .. Len(queue'[w]) : i + 1 \in 1 .. Len(queue[w])
  <2>1. CASE Leave(w)
    <3>1. /\ queue' = [queue EXCEPT ![w] = Tail(queue[w])]
          /\ lane' = [lane EXCEPT ![w] = IF Len(queue[w]) = 1 THEN "NONE" ELSE "WAITING"]
      BY <2>1 DEF Leave
    <3>2. /\ Tail(queue[w]) \in Seq(Versions)
          /\ Len(Tail(queue[w])) = Len(queue[w]) - 1
          /\ \A i \in 1 .. Len(queue[w]) - 1 : Tail(queue[w])[i] = queue[w][i + 1]
      BY <1>1, <1>2, HeadTailProperties
    <3>3. Tail(queue[w]) = <<>> <=> Len(queue[w]) = 1
      <4>1. Tail(queue[w]) = <<>> <=> Len(Tail(queue[w])) = 0
        BY <3>2, EmptySeq
      <4> QED BY <1>2, <3>2, <4>1
    <3> QED BY <1>1, <1>2, <3>1, <3>2, <3>3
  <2>2. CASE Lose(w)
    <3>1. queue' = [queue EXCEPT ![w] = <<>>] /\ lane' = [lane EXCEPT ![w] = "NONE"]
      BY <2>2 DEF Lose
    <3>2. <<>> \in Seq(Versions) /\ Len(<<>>) = 0
      BY EmptySeq
    <3> QED BY <1>1, <1>2, <3>1, <3>2
  <2> QED BY <2>1, <2>2
<1>5. LanesOK'
  <2>1. ASSUME NEW u \in Workspaces PROVE LaneOK(u)'
    <3>1. CASE u # w
      <4>1. LaneOK(u)
        BY DEF LanesOK
      <4> QED BY <1>4, <3>1, <4>1 DEF LaneOK
    <3>2. CASE u = w
      <4>1. \A i, j \in 1 .. Len(queue'[w]) : i < j => queue'[w][i] < queue'[w][j]
        BY <1>1, <1>4 DEF LaneOK
      <4>2. \A i \in 1 .. Len(queue'[w]) : queue'[w][i] <= context'[w]
        BY <1>1, <1>4 DEF LaneOK
      <4> QED BY <1>4, <3>2, <4>1, <4>2 DEF LaneOK
    <3> QED BY <3>1, <3>2
  <2> QED BY <1>1, <1>4, <2>1 DEF LanesOK
<1>6. pending > 0 /\ Cardinality(Work') <= pending - 1 /\ IsFiniteSet(Work') /\ Cardinality(Work') \in Nat
  BY <1>1, <1>4, LessWork
<1>7. CountOK'
  BY <1>1, <1>3, <1>6 DEF CountOK, Through
<1>8. door' # door => door' = "WOKEN" /\ Work' = {}
  <2>1. ASSUME door' # door PROVE door' = "WOKEN" /\ Cardinality(Work') = 0
    BY <1>1, <1>3, <1>6, <2>1 DEF Through
  <2> QED BY <1>6, <2>1, FS_EmptySet
<1>9. door' \in {"OPEN", "CLOSING", "WOKEN", "CLOSED"}
  BY <1>3 DEF Through
<1> QED BY <1>5, <1>7, <1>8, <1>9

\* The room of the audit buffer is never exceeded, nor overdrawn.
LEMMA RoomStays ==
    ASSUME room \in 0 .. MaxFacts, NEW w, NEW n \in Nat
    PROVE  RoomAfter(w, n) \in 0 .. MaxFacts
BY ObservationsAssumption DEF RoomAfter

\* Lanes that are left alone stay as they are when their workspaces move on.
LEMMA LanesStay ==
    ASSUME LanesOK, CountOK, UNCHANGED laneVars,
           context' \in [Workspaces -> Versions],
           \A w \in Workspaces : context[w] <= context'[w]
    PROVE  LanesOK' /\ CountOK'
<1>1. UNCHANGED <<queue, lane, pending>>
  BY DEF laneVars
<1>2. /\ queue \in [Workspaces -> Seq(Versions)]
      /\ context \in [Workspaces -> Versions]
      /\ Versions \subseteq Int
  BY DEF LanesOK, Versions
<1>3. ASSUME NEW w \in Workspaces PROVE LaneOK(w)'
  <2>1. LaneOK(w)
    BY DEF LanesOK
  <2>2. ASSUME NEW i \in 1 .. Len(queue[w]) PROVE queue[w][i] <= context'[w]
    <3>1. queue[w][i] \in Int
      BY <1>2, ElementOfSeq
    <3>2. context[w] \in Int /\ context'[w] \in Int /\ context[w] <= context'[w] /\ queue[w][i] <= context[w]
      BY <1>2, <2>1 DEF LaneOK
    <3> QED BY <3>1, <3>2
  <2> QED BY <1>1, <2>1, <2>2 DEF LaneOK
<1>4. LanesOK'
  BY <1>1, <1>3 DEF LanesOK
<1>5. Work' = Work
  BY <1>1 DEF Work
<1> QED BY <1>1, <1>4, <1>5 DEF CountOK

\* An observation is accepted as far as its publications find room.
LEMMA EnterMoves ==
    ASSUME LanesOK, CountOK, room \in 0 .. MaxFacts, NEW w \in Workspaces, NEW n \in Nat,
           pending < MaxPending, Enter(w, n)
    PROVE  LanesOK' /\ CountOK' /\ room' \in 0 .. MaxFacts
<1>1. room' \in 0 .. MaxFacts
  <2>1. n + AcceptedFacts \in Nat
    BY DEF AcceptedFacts
  <2> QED BY <2>1, RoomStays DEF Enter
<1>2. context \in [Workspaces -> Versions] /\ MaxContext \in Nat
  BY ObservationsAssumption DEF LanesOK
<1>3. CASE Fits(w, n + AcceptedFacts)
  <2>1. Fits(w, n)
    BY <1>3 DEF Fits, AcceptedFacts
  <2>2. /\ context' = [context EXCEPT ![w] = @ + 1]
        /\ context[w] < MaxContext
        /\ Submit(w, context[w] + 1)
    BY <1>2, <1>3, <2>1 DEF Enter
  <2> QED BY <1>1, <2>2, SubmitMoves
<1>4. CASE ~Fits(w, n + AcceptedFacts)
  <2>1. UNCHANGED laneVars
    BY <1>4 DEF Enter
  <2>2. context' \in [Workspaces -> Versions] /\ \A u \in Workspaces : context[u] <= context'[u]
    BY <1>2 DEF Enter, Versions
  <2> QED BY <1>1, <2>1, <2>2, LanesStay
<1> QED BY <1>3, <1>4

\* The first observation of a lane with a task has a version.
LEMMA HeadIsVersion ==
    ASSUME LanesOK, NEW w \in Workspaces, lane[w] # "NONE"
    PROVE  Head(queue[w]) \in Versions
<1>1. queue[w] \in Seq(Versions) /\ queue[w] # <<>>
  BY DEF LanesOK, LaneOK
<1> QED BY <1>1, HeadTailProperties

\* An observation that was worked off, with or without a failure.
LEMMA FinishMoves ==
    ASSUME LanesOK, CountOK, RestOK, NEW w \in Workspaces, lane[w] # "NONE",
           UNCHANGED <<life, context>>, Finish(w)
    PROVE  /\ LanesOK' /\ CountOK' /\ RestOK'
           /\ door' # door => Work' = {}
<1>1. Leave(w) \/ Lose(w)
  BY DEF Finish
<1>2. room' \in 0 .. MaxFacts
  BY RoomStays DEF Finish, RestOK, CompletedFacts
<1>3. processed' \in [Workspaces -> 0 .. MaxContext]
  BY HeadIsVersion DEF Finish, RestOK, Versions
<1>4. /\ LanesOK' /\ CountOK'
      /\ door' # door => Work' = {}
      /\ door' \in {"OPEN", "CLOSING", "WOKEN", "CLOSED"}
  BY <1>1, TakenOut DEF RestOK
<1> QED BY <1>2, <1>3, <1>4 DEF RestOK

\* A publication about an observation that leaves its lane either way.
LEMMA LeavingMoves ==
    ASSUME LanesOK, CountOK, RestOK, NEW w \in Workspaces, lane[w] # "NONE",
           UNCHANGED <<life, context, processed>>, room' \in 0 .. MaxFacts,
           Leave(w) \/ Lose(w)
    PROVE  /\ LanesOK' /\ CountOK' /\ RestOK'
           /\ door' # door => Work' = {}
<1>1. /\ LanesOK' /\ CountOK'
      /\ door' # door => Work' = {}
      /\ door' \in {"OPEN", "CLOSING", "WOKEN", "CLOSED"}
  BY TakenOut DEF RestOK
<1> QED BY <1>1 DEF RestOK

-----------------------------------------------------------------------------
(* Every action keeps the invariant, and the broker's close goes on only   *)
(* when nothing is left to work off.                                       *)

\* A lane begins its next observation: superseded, started or failed.
LEMMA BeginMoves ==
    ASSUME LanesOK, CountOK, RestOK, NEW w \in Workspaces, Begin(w)
    PROVE  /\ LanesOK' /\ CountOK' /\ RestOK'
           /\ door' # door => Work' = {}
<1>1. lane[w] = "WAITING" /\ UNCHANGED <<life, context>>
  BY DEF Begin
<1>2. CASE ~Live(w) /\ Leave(w) /\ UNCHANGED <<processed, room>>
  <2>1. room' \in 0 .. MaxFacts
    BY <1>2 DEF RestOK
  <2> QED BY <1>1, <1>2, <2>1, LeavingMoves
<1>3. CASE Supersede(w)
  <2>1. room' \in 0 .. MaxFacts
    BY <1>3, RoomStays DEF Supersede, RestOK
  <2>2. (Leave(w) \/ Lose(w)) /\ UNCHANGED processed
    BY <1>3 DEF Supersede
  <2> QED BY <1>1, <2>1, <2>2, LeavingMoves
<1>4. CASE Start(w)
  <2>1. CASE Finish(w)
    BY <1>1, <2>1, FinishMoves
  <2>2. CASE room' = RoomAfter(w, 1) /\ UNCHANGED processed /\ Lose(w)
    <3>1. room' \in 0 .. MaxFacts
      BY <2>2, RoomStays DEF RestOK
    <3> QED BY <1>1, <2>2, <3>1, LeavingMoves
  <2>3. CASE /\ room' = RoomAfter(w, 1) /\ UNCHANGED processed
             /\ lane' = [lane EXCEPT ![w] = "BUSY"] /\ UNCHANGED <<queue, pending, door>>
    <3>1. room' \in 0 .. MaxFacts
      BY <2>3, RoomStays DEF RestOK
    <3>2. queue[w] # <<>> /\ lane' \in [Workspaces -> {"NONE", "WAITING", "BUSY"}]
      BY <1>1, <2>3 DEF LanesOK, LaneOK
    <3>3. ASSUME NEW u \in Workspaces PROVE LaneOK(u)'
      <4>1. LaneOK(u)
        BY DEF LanesOK
      <4>2. lane'[u] = IF u = w THEN "BUSY" ELSE lane[u]
        BY <2>3 DEF LanesOK
      <4> QED BY <1>1, <2>3, <3>2, <4>1, <4>2 DEF LaneOK
    <3>4. LanesOK'
      BY <1>1, <2>3, <3>2, <3>3 DEF LanesOK
    <3>5. Work' = Work
      BY <2>3 DEF Work
    <3> QED BY <1>1, <2>3, <3>1, <3>4, <3>5 DEF CountOK, RestOK
  <2> QED BY <1>4, <2>1, <2>2, <2>3 DEF Start
<1> QED BY <1>2, <1>3, <1>4 DEF Begin

\* What only publishes, forgets, drains, or opens and closes the door.
LEMMA AsideMoves ==
    ASSUME LanesOK, CountOK, UNCHANGED <<context, laneVars>>
    PROVE  LanesOK' /\ CountOK'
<1>1. context' \in [Workspaces -> Versions] /\ \A w \in Workspaces : context[w] <= context'[w]
  BY DEF LanesOK, Versions
<1> QED BY <1>1, LanesStay

\* No work at all when the count is zero.
LEMMA NoWorkAtZero ==
    ASSUME LanesOK, CountOK, pending = 0
    PROVE  Work = {}
<1>1. IsFiniteSet(Work) /\ Cardinality(Work) \in Nat
  BY WorkFinite DEF LanesOK
<1>2. Cardinality(Work) = 0
  BY <1>1 DEF CountOK
<1> QED BY <1>1, <1>2, FS_EmptySet

\* Every step keeps lanes and count together.
LEMMA StepMoves ==
    ASSUME LanesOK, CountOK, RestOK, Next
    PROVE  /\ LanesOK' /\ CountOK' /\ RestOK'
           /\ (door' # door /\ door' # "CLOSING" /\ door # "WOKEN") => Work' = {}
<1> USE ObservationsAssumption
<1>1. ASSUME NEW w \in Workspaces, Create(w)
      PROVE  LanesOK' /\ CountOK' /\ RestOK' /\ door' = door
  <2>1. life' \in [Workspaces -> {"NONE", "LIVE", "GONE"}] /\ UNCHANGED <<processed, door>>
    BY <1>1 DEF Create, RestOK
  <2>2. CASE pending < MaxPending /\ Enter(w, 1)
    <3>1. LanesOK' /\ CountOK' /\ room' \in 0 .. MaxFacts
      BY <2>2, EnterMoves DEF RestOK
    <3> QED BY <2>1, <3>1 DEF RestOK
  <2>3. CASE pending >= MaxPending /\ room' = RoomAfter(w, 1) /\ UNCHANGED <<context, laneVars>>
    <3>1. LanesOK' /\ CountOK'
      BY <2>3, AsideMoves
    <3>2. room' \in 0 .. MaxFacts
      BY <2>3, RoomStays DEF RestOK
    <3> QED BY <2>1, <3>1, <3>2 DEF RestOK
  <2> QED BY <1>1, <2>2, <2>3 DEF Create
<1>2. ASSUME NEW w \in Workspaces, NEW n \in 1 .. 2, Observe(w) \/ Bridge(w, n)
      PROVE  LanesOK' /\ CountOK' /\ RestOK' /\ door' = door
  <2>1. PICK k \in Nat : Enter(w, k)
    BY <1>2 DEF Observe, Bridge
  <2>2. pending < MaxPending /\ UNCHANGED <<life, processed, door>>
    BY <1>2 DEF Observe, Bridge
  <2>3. LanesOK' /\ CountOK' /\ room' \in 0 .. MaxFacts
    BY <2>1, <2>2, EnterMoves DEF RestOK
  <2> QED BY <2>2, <2>3 DEF RestOK
<1>3. ASSUME NEW w \in Workspaces, NEW n \in 1 .. 2, BridgeAtOnce(w, n)
      PROVE  LanesOK' /\ CountOK' /\ RestOK' /\ door' = door
  <2>1. /\ context \in [Workspaces -> Versions]
        /\ context[w] < MaxContext
        /\ UNCHANGED <<life, laneVars, door>>
    BY <1>3 DEF BridgeAtOnce, LanesOK
  <2> DEFINE before == n + AcceptedFacts + 1 + CoordinateFacts
  <2>2. /\ context' = [context EXCEPT ![w] = IF Fits(w, n) THEN @ + 1 ELSE @]
        /\ processed' = [processed EXCEPT ![w] = IF Fits(w, before) THEN context[w] + 1 ELSE @]
        /\ room' = RoomAfter(w, before + 1)
    BY <1>3 DEF BridgeAtOnce
  <2>3. before + 1 \in Nat
    BY DEF AcceptedFacts
  <2>4. context' \in [Workspaces -> Versions] /\ \A u \in Workspaces : context[u] <= context'[u]
    BY <2>1, <2>2 DEF Versions
  <2>5. processed' \in [Workspaces -> 0 .. MaxContext]
    BY <2>1, <2>2 DEF RestOK, Versions
  <2>6. room' \in 0 .. MaxFacts
    BY <2>2, <2>3, RoomStays DEF RestOK
  <2>7. LanesOK' /\ CountOK'
    BY <2>1, <2>4, LanesStay
  <2> QED BY <2>1, <2>5, <2>6, <2>7 DEF RestOK
<1>4. ASSUME NEW w \in Workspaces, Begin(w)
      PROVE  LanesOK' /\ CountOK' /\ RestOK' /\ (door' # door => Work' = {})
  BY <1>4, BeginMoves
<1>5. ASSUME NEW w \in Workspaces, Complete(w)
      PROVE  LanesOK' /\ CountOK' /\ RestOK' /\ (door' # door => Work' = {})
  BY <1>5, FinishMoves DEF Complete
<1>6. ASSUME NEW w \in Workspaces, Raise(w)
      PROVE  LanesOK' /\ CountOK' /\ RestOK' /\ (door' # door => Work' = {})
  <2>1. room' \in 0 .. MaxFacts
    BY <1>6, RoomStays DEF Raise, RestOK
  <2>2. /\ lane[w] # "NONE" /\ UNCHANGED <<life, context, processed>>
        /\ Leave(w) \/ Lose(w)
    BY <1>6 DEF Raise
  <2> QED BY <2>1, <2>2, LeavingMoves
<1>7. ASSUME NEW w \in Workspaces, Publish(w) \/ Prune(w)
      PROVE  LanesOK' /\ CountOK' /\ RestOK' /\ door' = door
  <2>1. UNCHANGED <<context, laneVars, processed, door>>
    BY <1>7 DEF Publish, Prune
  <2>2. room' \in 0 .. MaxFacts /\ life' \in [Workspaces -> {"NONE", "LIVE", "GONE"}]
    BY <1>7 DEF Publish, Prune, RestOK
  <2> QED BY <2>1, <2>2, AsideMoves DEF RestOK
<1>8. ASSUME Drain
      PROVE  LanesOK' /\ CountOK' /\ RestOK' /\ door' = door
  <2>1. UNCHANGED <<life, context, laneVars, processed, door>> /\ room' \in 0 .. MaxFacts
    BY <1>8 DEF Drain, RestOK
  <2> QED BY <2>1, AsideMoves DEF RestOK
<1>9. ASSUME Close
      PROVE  LanesOK' /\ CountOK' /\ RestOK' /\ (door' # "CLOSING" => Work' = {})
  <2>1. UNCHANGED <<life, context, laneVars, processed, room>>
    BY <1>9 DEF Close
  <2>2. LanesOK' /\ CountOK' /\ Work' = Work
    BY <2>1, AsideMoves DEF Work, laneVars
  <2>3. RestOK'
    BY <1>9, <2>1 DEF Close, RestOK
  <2>4. door' # "CLOSING" => pending = 0
    BY <1>9 DEF Close
  <2> QED BY <1>9, <2>2, <2>3, <2>4, NoWorkAtZero DEF Close
<1>10. ASSUME Closed
      PROVE  LanesOK' /\ CountOK' /\ RestOK' /\ door = "WOKEN"
  <2>1. UNCHANGED <<life, context, laneVars, processed, room>> /\ door = "WOKEN" /\ door' = "CLOSED"
    BY <1>10 DEF Closed
  <2>2. LanesOK' /\ CountOK'
    BY <2>1, AsideMoves
  <2>3. RestOK'
    BY <2>1 DEF RestOK
  <2> QED BY <2>1, <2>2, <2>3
<1> QED
  <2>1. CASE \E w \in Workspaces : Create(w)
    BY <1>1, <2>1
  <2>2. CASE \E w \in Workspaces : Observe(w) \/ (\E n \in 1 .. 2 : Bridge(w, n))
    <3>1. \E w \in Workspaces : \E n \in 1 .. 2 : Observe(w) \/ Bridge(w, n)
      BY <2>2
    <3> QED BY <1>2, <3>1
  <2>3. CASE \E w \in Workspaces : \E n \in 1 .. 2 : BridgeAtOnce(w, n)
    BY <1>3, <2>3
  <2>4. CASE \E w \in Workspaces : Begin(w)
    BY <1>4, <2>4
  <2>5. CASE \E w \in Workspaces : Complete(w)
    BY <1>5, <2>5
  <2>6. CASE \E w \in Workspaces : Raise(w)
    BY <1>6, <2>6
  <2>7. CASE \E w \in Workspaces : Publish(w) \/ Prune(w)
    BY <1>7, <2>7
  <2>8. CASE Drain
    BY <1>8, <2>8
  <2>9. CASE Close
    BY <1>9, <2>9
  <2>10. CASE Closed
    BY <1>10, <2>10
  <2> QED BY <2>1, <2>2, <2>3, <2>4, <2>5, <2>6, <2>7, <2>8, <2>9, <2>10 DEF Next

\* No lane has work.
LEMMA InvInit == Init => ObservationsInv
<1> SUFFICES ASSUME Init PROVE LanesOK /\ CountOK /\ RestOK
  BY PartsOfInv
<1>1. LanesOK
  <2>1. <<>> \in Seq(Versions) /\ Len(<<>>) = 0
    BY EmptySeq
  <2>2. 1 \in Versions
    BY ObservationsAssumption DEF Versions
  <2>3. ASSUME NEW w \in Workspaces PROVE LaneOK(w)
    <3>1. queue[w] = <<>> /\ lane[w] = "NONE"
      BY DEF Init
    <3> QED BY <2>1, <3>1 DEF LaneOK
  <2> QED BY <2>1, <2>2, <2>3 DEF LanesOK, Init
<1>2. CountOK
  <2>1. \A w \in Workspaces : 1 .. Len(queue[w]) = {}
    BY EmptySeq DEF Init
  <2>2. Work = {}
    BY <2>1 DEF Work
  <2> QED BY <2>2, FS_EmptySet, ObservationsAssumption DEF CountOK, Init
<1>3. RestOK
  BY ObservationsAssumption DEF RestOK, Init
<1> QED BY <1>1, <1>2, <1>3

\* Every step keeps the invariant.
LEMMA InvStep == ObservationsInv /\ [Next]_vars => ObservationsInv'
<1> SUFFICES ASSUME LanesOK, CountOK, RestOK, [Next]_vars PROVE ObservationsInv'
  BY PartsOfInv
<1>1. LanesOK' /\ CountOK' /\ RestOK'
  <2>1. CASE Next
    BY <2>1, StepMoves
  <2>2. CASE UNCHANGED vars
    <3>1. UNCHANGED <<context, laneVars>> /\ UNCHANGED <<life, processed, room, door>>
      BY <2>2 DEF vars
    <3> QED BY <3>1, AsideMoves DEF RestOK
  <2> QED BY <2>1, <2>2
<1> QED
  BY <1>1 DEF ObservationsInv, TypeOK, PendingCoversWork, QueueInOrder, LanesOK, LaneOK, CountOK, RestOK,
              Versions

-----------------------------------------------------------------------------
(* The theorems.                                                           *)

\* The dispatcher's count, the order of the lanes and the types hold together
\* in every state that can be reached.
THEOREM ObservationsInvariant == Spec => []ObservationsInv
BY InvInit, InvStep, PTL DEF Spec

\* Every variable has its type: the queue and the audit buffer stay within
\* their bounds, and no count goes below zero.
THEOREM ObservationTypes == Spec => []TypeOK
<1>1. ObservationsInv => TypeOK
  BY DEF ObservationsInv
<1> QED BY <1>1, ObservationsInvariant, PTL

\* The dispatcher never counts less than it has to work off, whatever fails.
THEOREM CountCoversWork == Spec => []PendingCoversWork
<1>1. ObservationsInv => PendingCoversWork
  BY DEF ObservationsInv
<1> QED BY <1>1, ObservationsInvariant, PTL

\* A lane holds its observations in the order of their context versions.
THEOREM LanesKeepOrder == Spec => []QueueInOrder
<1>1. ObservationsInv => QueueInOrder
  BY DEF ObservationsInv
<1> QED BY <1>1, ObservationsInvariant, PTL

\* The broker's close goes on only at a moment when no lane has anything left.
THEOREM CloseWaitsForLanes == Spec => CloseDrainsObservations
<1>1. ASSUME ObservationsInv, Next, door # door', door' \in {"WOKEN", "CLOSED"}, door # "WOKEN"
      PROVE  \A w \in Workspaces : queue'[w] = <<>>
  <2>1. LanesOK' /\ Work' = {}
    BY <1>1, PartsOfInv, StepMoves
  <2>2. ASSUME NEW w \in Workspaces PROVE queue'[w] = <<>>
    <3>1. queue'[w] \in Seq(Versions)
      BY <2>1 DEF LanesOK
    <3>2. Len(queue'[w]) = 0
      <4>1. \A i : i \notin 1 .. Len(queue'[w])
        <5>1. ASSUME NEW i \in 1 .. Len(queue'[w]) PROVE FALSE
          <6>1. <<w, i>> \in {w} \X (1 .. Len(queue'[w]))
            BY <5>1
          <6>2. <<w, i>> \in Work'
            BY <6>1 DEF Work
          <6> QED BY <2>1, <6>2
        <5> QED BY <5>1
      <4>2. Len(queue'[w]) \in Nat
        BY <3>1, LenProperties
      <4>3. 1 \notin 1 .. Len(queue'[w])
        BY <4>1
      <4> QED BY <4>2, <4>3
    <3> QED BY <3>1, <3>2, EmptySeq
  <2> QED BY <2>2
<1>2. ObservationsInv /\ [Next]_vars =>
        [door # door' /\ door' \in {"WOKEN", "CLOSED"} /\ door # "WOKEN"
           => \A w \in Workspaces : queue'[w] = <<>>]_vars
  BY <1>1
<1>3. ObservationsInv /\ ObservationsInv' /\ [Next]_vars =>
        [door # door' /\ door' \in {"WOKEN", "CLOSED"} /\ door # "WOKEN"
           => \A w \in Workspaces : queue'[w] = <<>>]_vars
  BY <1>2
<1> QED BY <1>3, ObservationsInvariant, PTL DEF Spec, CloseDrainsObservations

-----------------------------------------------------------------------------
(* Background planning.  What the planner was asked is part of what was    *)
(* reserved: a session's last reservation is no older than its last call,  *)
(* and the next one keeps the distance.  A lane that waits for the planner *)
(* has taken up nothing since, so what is shown is never newer.            *)

Calls == [session : PlanningSessions, device : Devices, at : 0 .. MaxTime]

PlanningTypeOK ==
    /\ clock \in 0 .. MaxTime
    /\ observed \in [PlanningWorkspaces -> 0 .. MaxVersion]
    /\ plan \in [PlanningWorkspaces -> (0 .. MaxVersion) \cup {NoPlan}]
    /\ planned \in [PlanningSessions -> 0 .. MaxVersion]
    /\ session \in [PlanningSessions -> Seq(0 .. MaxTime)]
    /\ device \in [Devices -> [0 .. Day(MaxTime) -> Nat]]
    /\ shown \in [PlanningWorkspaces -> 0 .. MaxVersion]
    /\ requests \in Seq(Calls)

\* A session's calls, its reservations and its limits.
SessionOK(s) ==
    /\ Cardinality(CallsOf(s)) <= Len(session[s])
    /\ Len(session[s]) <= MaxPerSession
    /\ \A i \in CallsOf(s) : session[s] # <<>> /\ requests[i].at <= session[s][Len(session[s])]
    /\ \A i, j \in CallsOf(s) : i < j => requests[j].at >= requests[i].at + MinInterval

DeviceOK(d, day) ==
    /\ Cardinality(CallsOn(d, day)) <= device[d][day]
    /\ device[d][day] <= MaxPerDay

PlanLaneOK(w) ==
    /\ shown[w] <= observed[w]
    /\ plan[w] # NoPlan => plan[w] = observed[w]

PlanningInv ==
    /\ PlanningTypeOK
    /\ \A s \in PlanningSessions : SessionOK(s)
    /\ \A d \in Devices, day \in 0 .. Day(MaxTime) : DeviceOK(d, day)
    /\ \A w \in PlanningWorkspaces : PlanLaneOK(w)

\* A workspace has a session and a device.
LEMMA BelongsTo ==
    ASSUME NEW w \in PlanningWorkspaces
    PROVE  SessionOf[w] \in PlanningSessions /\ DeviceOf[w] \in Devices
BY DEF PlanningSessions, Devices

\* The coordinator's clock shows one of the days that are counted.
LEMMA DayIsCounted ==
    ASSUME NEW t \in 0 .. MaxTime PROVE Day(t) \in 0 .. Day(MaxTime)
<1>1. t \in Nat /\ MaxTime \in Nat /\ DayLength \in Nat /\ DayLength > 0 /\ t <= MaxTime
  BY PlanningAssumption
<1> QED BY <1>1 DEF Day

\* There are finitely many calls.
LEMMA CallsAreFinite ==
    ASSUME requests \in Seq(Calls)
    PROVE  /\ \A s : IsFiniteSet(CallsOf(s)) /\ Cardinality(CallsOf(s)) \in Nat
           /\ \A d, day : IsFiniteSet(CallsOn(d, day)) /\ Cardinality(CallsOn(d, day)) \in Nat
<1>1. IsFiniteSet(1 .. Len(requests))
  BY FS_Interval
<1>2. /\ \A s : CallsOf(s) \subseteq 1 .. Len(requests)
      /\ \A d, day : CallsOn(d, day) \subseteq 1 .. Len(requests)
  BY DEF CallsOf, CallsOn
<1> QED BY <1>1, <1>2, FS_Subset, FS_CardinalityType

\* One more call is one of its session, and one of its device and day.
LEMMA CallsGrow ==
    ASSUME requests \in Seq(Calls), NEW q \in Calls, requests' = Append(requests, q)
    PROVE  LET n == Len(requests) + 1
           IN  /\ n \in Nat
               /\ requests' \in Seq(Calls)
               /\ requests'[n] = q
               /\ \A i \in 1 .. Len(requests) : requests'[i] = requests[i]
               /\ \A s : CallsOf(s)' = IF s = q.session THEN CallsOf(s) \cup {n} ELSE CallsOf(s)
               /\ \A d, day : CallsOn(d, day)' =
                    IF d = q.device /\ day = Day(q.at) THEN CallsOn(d, day) \cup {n}
                                                       ELSE CallsOn(d, day)
<1> DEFINE n == Len(requests) + 1
<1>1. /\ Len(requests) \in Nat
      /\ n \in Nat
      /\ requests' \in Seq(Calls)
      /\ Len(requests') = n
      /\ requests'[n] = q
      /\ \A i \in 1 .. Len(requests) : requests'[i] = requests[i]
  OBVIOUS
<1>2. 1 .. Len(requests') = 1 .. Len(requests) \cup {n} /\ n \notin 1 .. Len(requests)
  BY <1>1
<1>3. ASSUME NEW s
      PROVE  CallsOf(s)' = IF s = q.session THEN CallsOf(s) \cup {n} ELSE CallsOf(s)
  BY <1>1, <1>2 DEF CallsOf
<1>4. ASSUME NEW d, NEW day
      PROVE  CallsOn(d, day)' = IF d = q.device /\ day = Day(q.at)
                                THEN CallsOn(d, day) \cup {n} ELSE CallsOn(d, day)
  BY <1>1, <1>2 DEF CallsOn
<1> QED BY <1>1, <1>3, <1>4

\* Nothing is observed, reserved or asked.
LEMMA PlanningInvInit == PlanningInit => PlanningInv
<1> SUFFICES ASSUME PlanningInit PROVE PlanningInv
  OBVIOUS
<1>1. PlanningTypeOK
  BY PlanningAssumption DEF PlanningInit, PlanningTypeOK
<1>2. \A s \in PlanningSessions : CallsOf(s) = {}
  BY DEF PlanningInit, CallsOf
<1>3. \A d \in Devices, day \in 0 .. Day(MaxTime) : CallsOn(d, day) = {}
  BY DEF PlanningInit, CallsOn
<1>4. Cardinality({}) = 0
  BY FS_EmptySet
<1>5. ASSUME NEW s \in PlanningSessions PROVE SessionOK(s)
  <2>1. session[s] = <<>> /\ Len(session[s]) = 0
    BY <1>5 DEF PlanningInit
  <2>2. CallsOf(s) = {} /\ Cardinality(CallsOf(s)) = 0
    BY <1>2, <1>4, <1>5
  <2> QED BY <2>1, <2>2, PlanningAssumption DEF SessionOK
<1>6. ASSUME NEW d \in Devices, NEW day \in 0 .. Day(MaxTime) PROVE DeviceOK(d, day)
  <2>1. device[d][day] = 0
    BY <1>6 DEF PlanningInit
  <2>2. Cardinality(CallsOn(d, day)) = 0
    BY <1>3, <1>4, <1>6
  <2> QED BY <2>1, <2>2, PlanningAssumption DEF DeviceOK
<1>7. ASSUME NEW w \in PlanningWorkspaces PROVE PlanLaneOK(w)
  BY DEF PlanLaneOK, PlanningInit
<1> QED BY <1>1, <1>5, <1>6, <1>7 DEF PlanningInv

\* What is reserved within the policy keeps it, with the call that it is for
\* and without.
LEMMA ReserveKeepsPolicy ==
    ASSUME PlanningInv, NEW w \in PlanningWorkspaces,
           Allowed(SessionOf[w], DeviceOf[w]), Reserve(SessionOf[w], DeviceOf[w]),
           \/ requests' = Append(requests, [session |-> SessionOf[w], device |-> DeviceOf[w], at |-> clock])
           \/ UNCHANGED requests,
           UNCHANGED clock
    PROVE  /\ session' \in [PlanningSessions -> Seq(0 .. MaxTime)]
           /\ device' \in [Devices -> [0 .. Day(MaxTime) -> Nat]]
           /\ requests' \in Seq(Calls)
           /\ \A s \in PlanningSessions : SessionOK(s)'
           /\ \A d \in Devices, day \in 0 .. Day(MaxTime) : DeviceOK(d, day)'
<1> DEFINE mine == SessionOf[w]
           its == DeviceOf[w]
           q == [session |-> mine, device |-> its, at |-> clock]
           n == Len(requests) + 1
<1>1. /\ mine \in PlanningSessions /\ its \in Devices
      /\ q.session = mine /\ q.device = its /\ q.at = clock
      /\ clock \in 0 .. MaxTime
      /\ session \in [PlanningSessions -> Seq(0 .. MaxTime)]
      /\ device \in [Devices -> [0 .. Day(MaxTime) -> Nat]]
      /\ requests \in Seq(Calls)
      /\ q \in Calls
  BY BelongsTo DEF PlanningInv, PlanningTypeOK, Calls
<1>2. Day(clock) \in 0 .. Day(MaxTime)
  BY <1>1, DayIsCounted
<1>3. /\ session' = [session EXCEPT ![mine] = Append(@, clock)]
      /\ device' = [device EXCEPT ![its][Day(clock)] = @ + 1]
  BY DEF Reserve
<1>4. session' \in [PlanningSessions -> Seq(0 .. MaxTime)]
  BY <1>1, <1>3
<1>5. device' \in [Devices -> [0 .. Day(MaxTime) -> Nat]]
  <2>1. device[its] \in [0 .. Day(MaxTime) -> Nat] /\ device[its][Day(clock)] + 1 \in Nat
    <3>1. device[its] \in [0 .. Day(MaxTime) -> Nat]
      BY <1>1
    <3>2. device[its][Day(clock)] \in Nat
      BY <1>2, <3>1
    <3> QED BY <3>1, <3>2
  <2>2. device' = [device EXCEPT ![its] = [device[its] EXCEPT ![Day(clock)] = device[its][Day(clock)] + 1]]
    BY <1>3
  <2>3. [device[its] EXCEPT ![Day(clock)] = device[its][Day(clock)] + 1] \in [0 .. Day(MaxTime) -> Nat]
    BY <1>2, <2>1
  <2> QED BY <1>1, <2>2, <2>3
<1>6. requests' \in Seq(Calls)
  BY <1>1, CallsGrow
<1>7. \A s : IsFiniteSet(CallsOf(s)) /\ Cardinality(CallsOf(s)) \in Nat
  BY <1>1, CallsAreFinite
<1>8. \A d, day : IsFiniteSet(CallsOn(d, day)) /\ Cardinality(CallsOn(d, day)) \in Nat
  BY <1>1, CallsAreFinite
<1>9. ASSUME NEW s \in PlanningSessions PROVE SessionOK(s)'
  <2>1. SessionOK(s)
    BY DEF PlanningInv
  <2>2. CASE s # mine
    <3>1. session'[s] = session[s] /\ CallsOf(s)' = CallsOf(s)
      BY <1>1, <1>3, <2>2, CallsGrow DEF CallsOf
    <3>2. \A i \in CallsOf(s) : requests'[i] = requests[i]
      BY <1>1, CallsGrow DEF CallsOf
    <3> QED BY <2>1, <3>1, <3>2 DEF SessionOK
  <2>3. CASE s = mine
    <3>1. /\ session'[s] = Append(session[s], clock)
          /\ session[s] \in Seq(0 .. MaxTime)
          /\ Len(session[s]) \in Nat
          /\ Len(session'[s]) = Len(session[s]) + 1
          /\ session'[s] # <<>>
          /\ session'[s][Len(session'[s])] = clock
      <4>1. session'[s] = Append(session[s], clock) /\ session[s] \in Seq(0 .. MaxTime)
        BY <1>1, <1>3, <2>3
      <4> QED BY <1>1, <4>1, AppendProperties, LenProperties
    <3>2. Len(session[s]) < MaxPerSession /\ IntervalOver(s)
      BY <2>3 DEF Allowed
    <3>3. \A i \in CallsOf(s) : requests[i].at \in Nat /\ requests[i].at + MinInterval <= clock
      <4>1. ASSUME NEW i \in CallsOf(s)
            PROVE  requests[i].at \in Nat /\ requests[i].at + MinInterval <= clock
        <5>1. session[s] # <<>> /\ requests[i].at <= session[s][Len(session[s])]
          BY <2>1 DEF SessionOK
        <5>2. requests[i].at \in 0 .. MaxTime
          <6>1. i \in 1 .. Len(requests)
            BY DEF CallsOf
          <6>2. requests[i] \in Calls
            BY <1>1, <6>1, ElementOfSeq
          <6> QED BY <6>2 DEF Calls
        <5>3. session[s][Len(session[s])] \in 0 .. MaxTime
          <6>1. Len(session[s]) \in 1 .. Len(session[s])
            BY <3>1, <5>1, EmptySeq
          <6> QED BY <3>1, <6>1, ElementOfSeq
        <5>4. clock >= session[s][Len(session[s])] + MinInterval
          BY <3>2, <5>1 DEF IntervalOver
        <5> QED BY <1>1, <5>1, <5>2, <5>3, <5>4, PlanningAssumption
      <4> QED BY <4>1
    <3>4. CASE UNCHANGED requests
      <4>1. CallsOf(s)' = CallsOf(s)
        BY <3>4 DEF CallsOf
      <4>2. \A i \in CallsOf(s) : requests'[i].at <= clock
        BY <1>1, <3>3, <3>4, PlanningAssumption
      <4> QED BY <1>7, <2>1, <3>1, <3>2, <3>4, <4>1, <4>2, PlanningAssumption DEF SessionOK
    <3>5. CASE requests' = Append(requests, q)
      <4>1. /\ CallsOf(s)' = CallsOf(s) \cup {n}
            /\ n \notin CallsOf(s)
            /\ requests'[n].at = clock
            /\ \A i \in CallsOf(s) : requests'[i] = requests[i] /\ i \in Nat /\ i < n
            /\ n \in Nat
        BY <1>1, <2>3, <3>5, CallsGrow DEF CallsOf
      <4>2. Cardinality(CallsOf(s)') = Cardinality(CallsOf(s)) + 1
        BY <1>7, <4>1, FS_AddElement
      <4>3. \A i \in CallsOf(s)' : requests'[i].at <= clock
        BY <1>1, <3>3, <4>1, PlanningAssumption
      <4>4. ASSUME NEW i \in CallsOf(s)', NEW j \in CallsOf(s)', i < j
            PROVE  requests'[j].at >= requests'[i].at + MinInterval
        <5>1. i \in CallsOf(s)
          BY <4>1, <4>4
        <5> QED BY <1>1, <2>1, <3>3, <4>1, <4>4, <5>1, PlanningAssumption DEF SessionOK
      <4> QED BY <1>7, <2>1, <3>1, <3>2, <4>2, <4>3, <4>4, PlanningAssumption DEF SessionOK
    <3> QED BY <3>4, <3>5
  <2> QED BY <2>2, <2>3
<1>10. ASSUME NEW d \in Devices, NEW day \in 0 .. Day(MaxTime) PROVE DeviceOK(d, day)'
  <2>1. DeviceOK(d, day) /\ device[d][day] \in Nat
    BY <1>1 DEF PlanningInv
  <2>2. device'[d][day] = IF d = its /\ day = Day(clock) THEN device[d][day] + 1 ELSE device[d][day]
    BY <1>1, <1>2, <1>3
  <2>3. d = its /\ day = Day(clock) => device[d][day] < MaxPerDay
    BY DEF Allowed, DayOpen
  <2>4. n \notin CallsOn(d, day)
    BY <1>1 DEF CallsOn
  <2>5. \/ CallsOn(d, day)' = CallsOn(d, day)
        \/ d = its /\ day = Day(clock) /\ CallsOn(d, day)' = CallsOn(d, day) \cup {n}
    <3>1. CASE UNCHANGED requests
      BY <3>1 DEF CallsOn
    <3>2. CASE requests' = Append(requests, q)
      BY <1>1, <3>2, CallsGrow
    <3> QED BY <3>1, <3>2
  <2>6. CASE CallsOn(d, day)' = CallsOn(d, day)
    BY <1>8, <2>1, <2>2, <2>3, <2>6, PlanningAssumption DEF DeviceOK
  <2>7. CASE d = its /\ day = Day(clock) /\ CallsOn(d, day)' = CallsOn(d, day) \cup {n}
    <3>1. Cardinality(CallsOn(d, day)') = Cardinality(CallsOn(d, day)) + 1
      <4>1. Cardinality(CallsOn(d, day) \cup {n}) = Cardinality(CallsOn(d, day)) + 1
        BY <1>8, <2>4, FS_AddElement
      <4> QED BY <2>7, <4>1
    <3> QED BY <1>8, <2>1, <2>2, <2>3, <2>7, <3>1, PlanningAssumption DEF DeviceOK
  <2> QED BY <2>5, <2>6, <2>7
<1> QED BY <1>4, <1>5, <1>6, <1>9, <1>10

\* A step that reserves and asks nothing keeps the policy.
LEMMA NoReservation ==
    ASSUME PlanningInv, UNCHANGED <<session, device, requests>>
    PROVE  /\ \A s \in PlanningSessions : SessionOK(s)'
           /\ \A d \in Devices, day \in 0 .. Day(MaxTime) : DeviceOK(d, day)'
BY DEF PlanningInv, SessionOK, DeviceOK, CallsOf, CallsOn

\* What a lane takes up is newer than what it has taken up.
LEMMA TakesNewer ==
    ASSUME PlanningInv, NEW w \in PlanningWorkspaces, Takes(w)
    PROVE  /\ observed' \in [PlanningWorkspaces -> 0 .. MaxVersion]
           /\ observed'[w] > observed[w]
           /\ \A u \in PlanningWorkspaces \ {w} : observed'[u] = observed[u]
           /\ plan[w] = NoPlan
BY PlanningAssumption DEF PlanningInv, PlanningTypeOK, Takes, Ready

\* Every step keeps the invariant, and no workspace is shown an older outcome.
LEMMA PlanningInvStep ==
    ASSUME PlanningInv, [PlanningNext]_planningVars
    PROVE  PlanningInv' /\ \A w \in PlanningWorkspaces : shown'[w] >= shown[w]
<1>1. /\ clock \in 0 .. MaxTime
      /\ observed \in [PlanningWorkspaces -> 0 .. MaxVersion]
      /\ plan \in [PlanningWorkspaces -> (0 .. MaxVersion) \cup {NoPlan}]
      /\ planned \in [PlanningSessions -> 0 .. MaxVersion]
      /\ session \in [PlanningSessions -> Seq(0 .. MaxTime)]
      /\ device \in [Devices -> [0 .. Day(MaxTime) -> Nat]]
      /\ shown \in [PlanningWorkspaces -> 0 .. MaxVersion]
      /\ requests \in Seq(Calls)
      /\ MaxVersion \in Nat /\ MaxTime \in Nat /\ NoPlan \notin Nat
  BY PlanningAssumption DEF PlanningInv, PlanningTypeOK
<1>2. \A w \in PlanningWorkspaces : PlanLaneOK(w)
  BY DEF PlanningInv
<1> DEFINE Goal == PlanningInv' /\ \A w \in PlanningWorkspaces : shown'[w] >= shown[w]
<1>3. ASSUME NEW w \in PlanningWorkspaces, Skip(w) PROVE Goal
  <2>1. PlanningTypeOK'
    BY <1>1, <1>3, TakesNewer DEF Skip, Shows, PlanningTypeOK
  <2>2. \A u \in PlanningWorkspaces : PlanLaneOK(u)' /\ shown'[u] >= shown[u]
    BY <1>1, <1>2, <1>3, TakesNewer DEF Skip, Shows, PlanLaneOK
  <2> QED BY <1>3, <2>1, <2>2, NoReservation DEF PlanningInv, Skip
<1>4. ASSUME NEW w \in PlanningWorkspaces, Dispatch(w) PROVE Goal
  <2>1. /\ Takes(w) /\ Allowed(SessionOf[w], DeviceOf[w]) /\ Reserve(SessionOf[w], DeviceOf[w])
        /\ plan' = [plan EXCEPT ![w] = observed'[w]]
        /\ requests' = Append(requests, [session |-> SessionOf[w], device |-> DeviceOf[w], at |-> clock])
        /\ UNCHANGED <<clock, planned, shown>>
    BY <1>4 DEF Dispatch, Admitted
  <2>2. PlanningTypeOK'
    BY <1>1, <2>1, TakesNewer, ReserveKeepsPolicy DEF PlanningTypeOK
  <2>3. \A u \in PlanningWorkspaces : PlanLaneOK(u)' /\ shown'[u] >= shown[u]
    BY <1>1, <1>2, <2>1, TakesNewer DEF PlanLaneOK
  <2> QED BY <2>1, <2>2, <2>3, ReserveKeepsPolicy DEF PlanningInv
<1>5. ASSUME NEW w \in PlanningWorkspaces, AnnounceFails(w) PROVE Goal
  <2>1. /\ Takes(w) /\ Allowed(SessionOf[w], DeviceOf[w]) /\ Reserve(SessionOf[w], DeviceOf[w])
        /\ UNCHANGED <<clock, plan, planned, shown, requests>>
    BY <1>5 DEF AnnounceFails, Admitted
  <2>2. PlanningTypeOK'
    BY <1>1, <2>1, TakesNewer, ReserveKeepsPolicy DEF PlanningTypeOK
  <2>3. \A u \in PlanningWorkspaces : PlanLaneOK(u)' /\ shown'[u] >= shown[u]
    BY <1>1, <1>2, <2>1, TakesNewer DEF PlanLaneOK
  <2> QED BY <2>1, <2>2, <2>3, ReserveKeepsPolicy DEF PlanningInv
<1>6. ASSUME NEW w \in PlanningWorkspaces, PlannerEnds(w) PROVE Goal
  <2>1. SessionOf[w] \in PlanningSessions /\ plan[w] \in 0 .. MaxVersion
    BY <1>1, <1>6, BelongsTo DEF PlannerEnds
  <2>2. PlanningTypeOK'
    BY <1>1, <1>6, <2>1 DEF PlannerEnds, Shows, PlanningTypeOK
  <2>3. \A u \in PlanningWorkspaces : PlanLaneOK(u)' /\ shown'[u] >= shown[u]
    BY <1>1, <1>2, <1>6, <2>1 DEF PlannerEnds, Shows, PlanLaneOK
  <2> QED BY <1>6, <2>2, <2>3, NoReservation DEF PlanningInv, PlannerEnds
<1>7. ASSUME NEW w \in PlanningWorkspaces, PlannerCancelled(w) PROVE Goal
  <2>1. PlanningTypeOK'
    BY <1>1, <1>7 DEF PlannerCancelled, PlanningTypeOK
  <2>2. \A u \in PlanningWorkspaces : PlanLaneOK(u)' /\ shown'[u] >= shown[u]
    BY <1>1, <1>2, <1>7 DEF PlannerCancelled, PlanLaneOK
  <2> QED BY <1>7, <2>1, <2>2, NoReservation DEF PlanningInv, PlannerCancelled
<1>8. CASE PlanningTick \/ UNCHANGED planningVars
  <2>1. PlanningTypeOK'
    BY <1>1, <1>8 DEF PlanningTick, planningVars, PlanningTypeOK
  <2>2. UNCHANGED <<observed, plan, session, device, shown, requests>>
    BY <1>8 DEF PlanningTick, planningVars
  <2>3. \A u \in PlanningWorkspaces : PlanLaneOK(u)' /\ shown'[u] >= shown[u]
    BY <1>1, <1>2, <2>2 DEF PlanLaneOK
  <2> QED BY <2>1, <2>2, <2>3, NoReservation DEF PlanningInv
<1> QED BY <1>3, <1>4, <1>5, <1>6, <1>7, <1>8 DEF PlanningNext

\* Reservations cover the calls, and every outcome is that of an observation
\* its lane has taken up.
THEOREM PlanningInvariant == PlanningSpec => []PlanningInv
<1>1. PlanningInv /\ [PlanningNext]_planningVars => PlanningInv'
  BY PlanningInvStep
<1> QED BY <1>1, PlanningInvInit, PTL DEF PlanningSpec

\* For any workspaces, sessions, devices and limits the planner is asked
\* within the policy (reserve, plan).
THEOREM CallsStayInPolicy == PlanningSpec => []PlannerCallsKeepPolicy
<1>1. PlanningInv => PlannerCallsKeepPolicy
  <2> SUFFICES ASSUME PlanningInv PROVE PlannerCallsKeepPolicy
    OBVIOUS
  <2>1. /\ session \in [PlanningSessions -> Seq(0 .. MaxTime)]
        /\ device \in [Devices -> [0 .. Day(MaxTime) -> Nat]]
        /\ requests \in Seq(Calls)
    BY DEF PlanningInv, PlanningTypeOK
  <2>2. /\ \A s : Cardinality(CallsOf(s)) \in Nat
        /\ \A d, day : Cardinality(CallsOn(d, day)) \in Nat
    BY <2>1, CallsAreFinite
  <2>3. ASSUME NEW s \in PlanningSessions
        PROVE  /\ Cardinality(CallsOf(s)) <= MaxPerSession
               /\ \A i, j \in CallsOf(s) : i < j => requests[j].at >= requests[i].at + MinInterval
    <3>1. SessionOK(s) /\ Len(session[s]) \in Nat
      BY <2>1 DEF PlanningInv
    <3> QED BY <2>2, <3>1, PlanningAssumption DEF SessionOK
  <2>4. ASSUME NEW d \in Devices, NEW day \in 0 .. Day(MaxTime)
        PROVE  Cardinality(CallsOn(d, day)) <= MaxPerDay
    <3>1. DeviceOK(d, day) /\ device[d][day] \in Nat
      BY <2>1 DEF PlanningInv
    <3> QED BY <2>2, <3>1, PlanningAssumption DEF DeviceOK
  <2> QED BY <2>3, <2>4 DEF PlannerCallsKeepPolicy
<1> QED BY <1>1, PlanningInvariant, PTL

\* For any workspaces no outcome that is shown is replaced by that of an
\* older observation (_run_background_planning).
THEOREM OutcomesNeverGoBack == PlanningSpec => OutcomeNeverOlder
<1>1. PlanningInv /\ [PlanningNext]_planningVars
        => [\A w \in PlanningWorkspaces : shown'[w] >= shown[w]]_planningVars
  BY PlanningInvStep
<1> QED BY <1>1, PlanningInvariant, PTL DEF PlanningSpec, OutcomeNeverOlder

-----------------------------------------------------------------------------
(* The pool.  In the inductive invariant who creates the pool holds the    *)
(* lock, and as long as there is no pool it has no connection; so a pool   *)
(* is created at most once, and a creation cannot meet connections that    *)
(* are out.                                                                *)

CreationIsLocked ==
    /\ \A c \in Callers : caller[c] = "CREATE" => holder = c /\ pool = "NONE"
    /\ pool = "NONE" => free = 0 /\ used = 0

PoolInv == PoolTypeOK /\ PoolCountersTrue /\ CreationIsLocked

Lacking == {"ENSURE", "CREATE", "ACQUIRE", "GOT"}
Holding == {"GOT", "LEASED"}

\* A caller that goes from one state to another is counted in and out.
LEMMA InMoves ==
    ASSUME PoolTypeOK, NEW c \in Callers, NEW state, NEW S, Become(c, state)
    PROVE  /\ Cardinality(In(S)) \in Nat
           /\ caller[c] \in S => Cardinality(In(S)) > 0
           /\ Cardinality(In(S)') =
                CASE caller[c] \in S /\ state \notin S -> Cardinality(In(S)) - 1
                  [] caller[c] \notin S /\ state \in S -> Cardinality(In(S)) + 1
                  [] OTHER -> Cardinality(In(S))
<1>1. /\ caller' = [caller EXCEPT ![c] = state]
      /\ caller \in [Callers -> {"IDLE", "ENSURE", "CREATE", "ACQUIRE", "GOT", "LEASED", "RELEASED"}]
  BY DEF PoolTypeOK, Become
<1>2. IsFiniteSet(In(S)) /\ Cardinality(In(S)) \in Nat
  <2>1. In(S) \subseteq Callers
    BY DEF In
  <2> QED BY <2>1, PoolAssumption, FS_Subset, FS_CardinalityType
<1>3. c \in In(S) <=> caller[c] \in S
  BY DEF In
<1>4. caller[c] \in S => Cardinality(In(S)) > 0
  BY <1>2, <1>3, FS_EmptySet
<1>5. In(S)' = IF state \in S THEN In(S) \cup {c} ELSE In(S) \ {c}
  BY <1>1 DEF In
<1>6. CASE caller[c] \in S /\ state \notin S
  <2>1. In(S)' = In(S) \ {c} /\ c \in In(S)
    BY <1>3, <1>5, <1>6
  <2> QED BY <1>2, <1>4, <1>6, <2>1, FS_RemoveElement
<1>7. CASE caller[c] \notin S /\ state \in S
  <2>1. In(S)' = In(S) \cup {c} /\ c \notin In(S)
    BY <1>3, <1>5, <1>7
  <2> QED BY <1>2, <1>7, <2>1, FS_AddElement
<1>8. CASE (caller[c] \in S) = (state \in S)
  <2>1. In(S)' = In(S)
    BY <1>3, <1>5, <1>8
  <2> QED BY <1>2, <1>4, <1>8, <2>1
<1> QED BY <1>2, <1>4, <1>6, <1>7, <1>8

\* Nothing is created and nobody waits.
LEMMA PoolInvInit == PoolInit => PoolInv
<1> SUFFICES ASSUME PoolInit PROVE PoolInv
  OBVIOUS
<1>1. PoolTypeOK /\ CreationIsLocked
  <2>1. caller \in [Callers -> {"IDLE"}] /\ holder = NoHolder /\ pool = "NONE" /\ free = 0 /\ used = 0
        /\ shut = FALSE /\ active = 0 /\ waiting = 0
    BY DEF PoolInit
  <2>2. MaxSize \in Nat
    BY PoolAssumption
  <2>3. CreationIsLocked
    BY <2>1 DEF CreationIsLocked
  <2>4. caller \in [Callers -> {"IDLE", "ENSURE", "CREATE", "ACQUIRE", "GOT", "LEASED", "RELEASED"}]
    BY <2>1
  <2>5. free + used <= MaxSize
    BY <2>1, <2>2
  <2> QED BY <2>1, <2>3, <2>4, <2>5 DEF PoolTypeOK
<1>2. In({"LEASED"}) = {} /\ In({"ENSURE", "CREATE", "ACQUIRE", "GOT"}) = {} /\ In({"GOT", "LEASED"}) = {}
  BY DEF PoolInit, In
<1>3. PoolCountersTrue
  BY <1>2, FS_EmptySet DEF PoolInit, PoolCountersTrue
<1> QED BY <1>1, <1>3 DEF PoolInv

\* The counters after a step of one caller, if each was moved as the caller
\* was.
LEMMA CountersStep ==
    ASSUME PoolInv, NEW c \in Callers, NEW state, Become(c, state),
           active' = CASE caller[c] = "LEASED" /\ state # "LEASED" -> active - 1
                       [] caller[c] # "LEASED" /\ state = "LEASED" -> active + 1
                       [] OTHER -> active,
           waiting' = CASE caller[c] \in Lacking /\ state \notin Lacking -> waiting - 1
                        [] caller[c] \notin Lacking /\ state \in Lacking -> waiting + 1
                        [] OTHER -> waiting,
           used' = CASE caller[c] \in Holding /\ state \notin Holding -> used - 1
                     [] caller[c] \notin Holding /\ state \in Holding -> used + 1
                     [] OTHER -> used
    PROVE  PoolCountersTrue'
<1>1. active' = Cardinality(In({"LEASED"})')
  BY InMoves DEF PoolInv, PoolCountersTrue
<1>2. waiting' = Cardinality(In({"ENSURE", "CREATE", "ACQUIRE", "GOT"})')
  BY InMoves DEF PoolInv, PoolCountersTrue, Lacking
<1>3. used' = Cardinality(In({"GOT", "LEASED"})')
  BY InMoves DEF PoolInv, PoolCountersTrue, Holding
<1> QED BY <1>1, <1>2, <1>3 DEF PoolCountersTrue, In

\* Who waits or holds is counted, so counting down never meets zero.
LEMMA Counted ==
    ASSUME PoolInv, NEW c \in Callers
    PROVE  /\ caller[c] = "LEASED" => active > 0 /\ AtMostDown(active) = active - 1
           /\ caller[c] \in Lacking => waiting > 0 /\ AtMostDown(waiting) = waiting - 1
           /\ caller[c] \in Holding => used > 0
<1>1. IsFiniteSet(In({"LEASED"})) /\ IsFiniteSet(In(Lacking)) /\ IsFiniteSet(In(Holding))
  <2>1. In({"LEASED"}) \subseteq Callers /\ In(Lacking) \subseteq Callers /\ In(Holding) \subseteq Callers
    BY DEF In
  <2> QED BY <2>1, PoolAssumption, FS_Subset
<1>2. caller[c] = "LEASED" => active > 0
  <2>1. caller[c] = "LEASED" => In({"LEASED"}) # {}
    BY DEF In
  <2> QED BY <1>1, <2>1, FS_EmptySet, FS_CardinalityType DEF PoolInv, PoolCountersTrue
<1>3. caller[c] \in Lacking => waiting > 0
  <2>1. caller[c] \in Lacking => In(Lacking) # {}
    BY DEF In
  <2> QED BY <1>1, <2>1, FS_EmptySet, FS_CardinalityType DEF PoolInv, PoolCountersTrue, Lacking
<1>4. caller[c] \in Holding => used > 0
  <2>1. caller[c] \in Holding => In(Holding) # {}
    BY DEF In
  <2> QED BY <1>1, <2>1, FS_EmptySet, FS_CardinalityType DEF PoolInv, PoolCountersTrue, Holding
<1> QED BY <1>2, <1>3, <1>4 DEF AtMostDown, PoolInv, PoolTypeOK

\* A step of one caller keeps the types if it keeps those of the driver.
LEMMA CallerTyped ==
    ASSUME PoolTypeOK, NEW c \in Callers,
           NEW state \in {"IDLE", "ENSURE", "CREATE", "ACQUIRE", "GOT", "LEASED", "RELEASED"},
           Become(c, state)
    PROVE  caller' \in [Callers -> {"IDLE", "ENSURE", "CREATE", "ACQUIRE", "GOT", "LEASED", "RELEASED"}]
BY DEF PoolTypeOK, Become

\* A caller that asks is one more that waits.
LEMMA AskStep == ASSUME PoolInv, NEW c \in Callers, Ask(c) PROVE PoolInv'
<1>1. PICK state \in {"ENSURE", "ACQUIRE"} : Become(c, state)
  BY DEF Ask
<1>2. PoolCountersTrue'
  BY <1>1, CountersStep DEF Ask, Lacking, Holding, driverVars
<1>3. PoolTypeOK'
  BY <1>1, CallerTyped DEF Ask, PoolInv, PoolTypeOK, driverVars
<1>4. CreationIsLocked'
  BY <1>1 DEF Ask, PoolInv, PoolTypeOK, CreationIsLocked, Become, driverVars
<1> QED BY <1>2, <1>3, <1>4 DEF PoolInv

\* The caller takes the lock, or waits for it, or finds the pool there.
LEMMA EnsureStep == ASSUME PoolInv, NEW c \in Callers, Ensure(c) PROVE PoolInv'
<1>1. CASE shut /\ GiveUp(c) /\ UNCHANGED holder
  <2>1. PoolCountersTrue'
    BY <1>1, CountersStep, Counted DEF Ensure, GiveUp, Lacking, Holding, driverVars
  <2>2. PoolTypeOK'
    BY <1>1, CallerTyped, Counted DEF Ensure, GiveUp, PoolInv, PoolTypeOK, driverVars, Lacking
  <2>3. CreationIsLocked'
    BY <1>1 DEF Ensure, GiveUp, PoolInv, PoolTypeOK, CreationIsLocked, Become, driverVars
  <2> QED BY <2>1, <2>2, <2>3 DEF PoolInv
<1>2. CASE ~shut /\ ~Missing /\ Become(c, "ACQUIRE") /\ UNCHANGED <<holder, waiting>>
  <2>1. PoolCountersTrue'
    BY <1>2, CountersStep DEF Ensure, Lacking, Holding, driverVars
  <2>2. PoolTypeOK'
    BY <1>2, CallerTyped DEF Ensure, PoolInv, PoolTypeOK, driverVars
  <2>3. CreationIsLocked'
    BY <1>2 DEF Ensure, PoolInv, PoolTypeOK, CreationIsLocked, Become, driverVars
  <2> QED BY <2>1, <2>2, <2>3 DEF PoolInv
<1>3. CASE ~shut /\ Missing /\ Become(c, "CREATE") /\ holder' = c /\ UNCHANGED waiting
  <2>1. PoolCountersTrue'
    BY <1>3, CountersStep DEF Ensure, Lacking, Holding, driverVars
  <2>2. PoolTypeOK'
    BY <1>3, CallerTyped DEF Ensure, PoolInv, PoolTypeOK, driverVars
  <2>3. CreationIsLocked'
    BY <1>3, PoolAssumption DEF Ensure, Missing, PoolInv, PoolTypeOK, CreationIsLocked, Become, driverVars
  <2> QED BY <2>1, <2>2, <2>3 DEF PoolInv
<1> QED BY <1>1, <1>2, <1>3 DEF Ensure

\* The pool is there with its first connections, or its creation failed.
LEMMA CreateStep == ASSUME PoolInv, NEW c \in Callers, CreatePool(c) PROVE PoolInv'
<1>0. pool = "NONE" /\ free = 0 /\ used = 0 /\ \A d \in Callers : caller[d] = "CREATE" => d = c
  BY DEF CreatePool, PoolInv, CreationIsLocked
<1>1. CASE /\ pool' = "OPEN" /\ free' = MinSize
           /\ Become(c, "ACQUIRE")
           /\ holder' = NoHolder
           /\ UNCHANGED <<used, waiting>>
  <2>1. PoolCountersTrue'
    BY <1>1, CountersStep DEF CreatePool, Lacking, Holding
  <2>2. PoolTypeOK'
    <3>1. MinSize \in Nat /\ MaxSize \in Nat /\ MinSize <= MaxSize
      BY PoolAssumption
    <3> QED BY <1>0, <1>1, <3>1, CallerTyped DEF CreatePool, PoolInv, PoolTypeOK
  <2>3. CreationIsLocked'
    BY <1>0, <1>1 DEF CreatePool, PoolInv, PoolTypeOK, CreationIsLocked, Become
  <2> QED BY <2>1, <2>2, <2>3 DEF PoolInv
<1>2. CASE GiveUp(c) /\ holder' = NoHolder /\ UNCHANGED driverVars
  <2>1. PoolCountersTrue'
    BY <1>2, CountersStep, Counted DEF CreatePool, GiveUp, Lacking, Holding, driverVars
  <2>2. PoolTypeOK'
    BY <1>2, CallerTyped, Counted DEF CreatePool, GiveUp, PoolInv, PoolTypeOK, driverVars, Lacking
  <2>3. CreationIsLocked'
    BY <1>0, <1>2 DEF CreatePool, GiveUp, PoolInv, PoolTypeOK, CreationIsLocked, Become, driverVars
  <2> QED BY <2>1, <2>2, <2>3 DEF PoolInv
<1> QED BY <1>1, <1>2 DEF CreatePool

\* A lease leaves the free ones and is counted as acquired.
LEMMA AcquireStep == ASSUME PoolInv, NEW c \in Callers, Acquire(c) PROVE PoolInv'
<1>1. PoolCountersTrue'
  BY CountersStep DEF Acquire, Lacking, Holding
<1>2. PoolTypeOK'
  <2>1. MaxSize \in Nat
    BY PoolAssumption
  <2> QED BY <2>1, CallerTyped DEF Acquire, PoolInv, PoolTypeOK
<1>3. CreationIsLocked'
  BY DEF Acquire, PoolInv, PoolTypeOK, CreationIsLocked, Become
<1> QED BY <1>1, <1>2, <1>3 DEF PoolInv

\* A failed acquire holds nothing, and neither does a caller that is cancelled.
LEMMA AcquireFailsStep ==
    ASSUME PoolInv, NEW c \in Callers, AcquireFails(c) \/ Cancelled(c) PROVE PoolInv'
<1>1. PoolCountersTrue'
  BY CountersStep, Counted DEF AcquireFails, Cancelled, GiveUp, Lacking, Holding, driverVars
<1>2. PoolTypeOK'
  BY CallerTyped, Counted DEF AcquireFails, Cancelled, GiveUp, PoolInv, PoolTypeOK, driverVars, Lacking
<1>3. CreationIsLocked'
  BY DEF AcquireFails, Cancelled, GiveUp, PoolInv, PoolTypeOK, CreationIsLocked, Become, driverVars
<1> QED BY <1>1, <1>2, <1>3 DEF PoolInv

\* The lease is handed out, or given back when the pool was shut meanwhile.
LEMMA LeaseStep == ASSUME PoolInv, NEW c \in Callers, Lease(c) PROVE PoolInv'
<1>0. /\ waiting > 0 /\ waiting' = waiting - 1 /\ used > 0
      /\ pool # "NONE"
  BY Counted DEF Lease, Lacking, Holding, PoolInv, PoolTypeOK, CreationIsLocked
<1>1. CASE ShutMeanwhile(c) /\ Become(c, "IDLE") /\ HandsBack(c) /\ UNCHANGED active
  <2>1. PoolCountersTrue'
    BY <1>0, <1>1, CountersStep DEF Lease, HandsBack, TakeBack, Lacking, Holding
  <2>2. PoolTypeOK'
    <3>1. MaxSize \in Nat
      BY PoolAssumption
    <3> QED BY <1>0, <1>1, <3>1, CallerTyped DEF Lease, HandsBack, TakeBack, PoolInv, PoolTypeOK
  <2>3. CreationIsLocked'
    BY <1>0, <1>1 DEF Lease, HandsBack, TakeBack, PoolInv, PoolTypeOK, CreationIsLocked, Become
  <2> QED BY <2>1, <2>2, <2>3 DEF PoolInv
<1>2. CASE ~ShutMeanwhile(c) /\ Become(c, "LEASED") /\ active' = active + 1 /\ UNCHANGED driverVars
  <2>1. PoolCountersTrue'
    BY <1>0, <1>2, CountersStep DEF Lease, driverVars, Lacking, Holding
  <2>2. PoolTypeOK'
    BY <1>0, <1>2, CallerTyped DEF Lease, driverVars, PoolInv, PoolTypeOK
  <2>3. CreationIsLocked'
    BY <1>0, <1>2 DEF Lease, driverVars, PoolInv, PoolTypeOK, CreationIsLocked, Become
  <2> QED BY <2>1, <2>2, <2>3 DEF PoolInv
<1> QED BY <1>1, <1>2 DEF Lease

\* A returned lease is counted as released.
LEMMA CloseLeaseStep == ASSUME PoolInv, NEW c \in Callers, CloseLease(c) PROVE PoolInv'
<1>0. caller[c] = "LEASED" /\ Become(c, "RELEASED") /\ TakeBack
  BY DEF CloseLease, Released
<1>1. active > 0 /\ active' = active - 1 /\ used > 0 /\ pool # "NONE"
  BY <1>0, Counted DEF CloseLease, Holding, PoolInv, PoolTypeOK, CreationIsLocked
<1>2. PoolCountersTrue'
  BY <1>0, <1>1, CountersStep DEF CloseLease, TakeBack, Lacking, Holding
<1>3. PoolTypeOK'
  <2>1. MaxSize \in Nat
    BY PoolAssumption
  <2> QED BY <1>0, <1>1, <2>1, CallerTyped DEF CloseLease, TakeBack, PoolInv, PoolTypeOK
<1>4. CreationIsLocked'
  BY <1>0, <1>1 DEF CloseLease, TakeBack, PoolInv, PoolTypeOK, CreationIsLocked, Become
<1> QED BY <1>2, <1>3, <1>4 DEF PoolInv

\* The caller is as it was before it asked.
LEMMA ForgetStep == ASSUME PoolInv, NEW c \in Callers, Forget(c) PROVE PoolInv'
<1>1. PoolCountersTrue'
  BY CountersStep DEF Forget, Lacking, Holding, driverVars
<1>2. PoolTypeOK'
  BY CallerTyped DEF Forget, PoolInv, PoolTypeOK, driverVars
<1>3. CreationIsLocked'
  BY DEF Forget, PoolInv, PoolTypeOK, CreationIsLocked, Become, driverVars
<1> QED BY <1>1, <1>2, <1>3 DEF PoolInv

\* close moves no caller and no counter.
LEMMA CloseStep == ASSUME PoolInv, ClosePool \/ PoolClosed PROVE PoolInv'
<1>1. UNCHANGED <<caller, holder, used, active, waiting>> /\ (free' = 0 \/ free' = free)
  BY DEF ClosePool, PoolClosed
<1>2. PoolCountersTrue'
  BY <1>1 DEF PoolInv, PoolCountersTrue, In
<1>3. PoolTypeOK'
  <2>1. MaxSize \in Nat /\ free \in Nat /\ used \in Nat /\ free + used <= MaxSize
    BY PoolAssumption DEF PoolInv, PoolTypeOK
  <2>2. free' \in Nat /\ used' \in Nat /\ free' + used' <= MaxSize
    BY <1>1, <2>1
  <2>3. shut' \in BOOLEAN /\ pool' \in {"NONE", "OPEN", "CLOSING", "CLOSED"}
    BY DEF ClosePool, PoolClosed, PoolInv, PoolTypeOK
  <2> QED BY <1>1, <2>2, <2>3 DEF PoolInv, PoolTypeOK
<1>4. CreationIsLocked'
  BY <1>1, PoolAssumption DEF ClosePool, PoolClosed, PoolInv, PoolTypeOK, CreationIsLocked
<1> QED BY <1>2, <1>3, <1>4 DEF PoolInv

\* Every step keeps the parts together.
LEMMA PoolInvStep == PoolInv /\ [PoolNext]_poolVars => PoolInv'
<1> SUFFICES ASSUME PoolInv, [PoolNext]_poolVars PROVE PoolInv'
  OBVIOUS
<1>1. CASE UNCHANGED poolVars
  BY <1>1 DEF poolVars, driverVars, PoolInv, PoolTypeOK, PoolCountersTrue, CreationIsLocked, In
<1>2. ASSUME NEW c \in Callers, Use(c) PROVE PoolInv'
  BY <1>2, AskStep, EnsureStep, CreateStep, AcquireStep, AcquireFailsStep, LeaseStep,
     CloseLeaseStep, ForgetStep DEF Use
<1> QED BY <1>1, <1>2, CloseStep DEF PoolNext

-----------------------------------------------------------------------------
(* What it says.                                                           *)

\* The inductive invariant holds in every reachable state.
THEOREM PoolInvariant == PoolSpec => []PoolInv
BY PoolInvInit, PoolInvStep, PTL DEF PoolSpec

\* There are never more connections than the pool's size.
THEOREM PoolTypes == PoolSpec => []PoolTypeOK
<1>1. PoolInv => PoolTypeOK
  BY DEF PoolInv
<1> QED BY <1>1, PoolInvariant, PTL

\* The pool's counters count its callers, whatever failed or was closed twice.
THEOREM CountersAreTrue == PoolSpec => []PoolCountersTrue
<1>1. PoolInv => PoolCountersTrue
  BY DEF PoolInv
<1> QED BY <1>1, PoolInvariant, PTL

\* Nobody becomes a leaseholder of a pool that is shut.
LEMMA ShutStep ==
    ASSUME PoolTypeOK, [PoolNext]_poolVars, shut, NEW c \in Callers, caller'[c] = "LEASED"
    PROVE  caller[c] = "LEASED"
<1>1. CASE UNCHANGED caller
  BY <1>1
<1>2. ASSUME NEW d \in Callers, NEW state, state # "LEASED", Become(d, state)
      PROVE  caller[c] = "LEASED"
  BY <1>2 DEF Become, PoolTypeOK
<1>3. ASSUME NEW d \in Callers, Use(d) PROVE \E state : state # "LEASED" /\ Become(d, state)
  BY <1>3 DEF Use, Ask, Ensure, Cancelled, CreatePool, Acquire, AcquireFails, Lease, CloseLease, Forget,
              GiveUp, ShutMeanwhile
<1> QED BY <1>1, <1>2, <1>3 DEF PoolNext, ClosePool, PoolClosed, poolVars

\* Once close has begun no lease is given out any more.
THEOREM NoLeaseAfterClose == PoolSpec => NoLeaseOnceShut
<1>1. PoolTypeOK /\ [PoolNext]_poolVars =>
        [shut => {c \in Callers : caller'[c] = "LEASED"} \subseteq In({"LEASED"})]_poolVars
  BY ShutStep DEF In
<1> QED BY <1>1, PoolTypes, PTL DEF PoolSpec, NoLeaseOnceShut
==============================================================================
