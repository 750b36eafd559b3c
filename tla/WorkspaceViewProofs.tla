------------------------- MODULE WorkspaceViewProofs -------------------------
(***************************************************************************)
(* Proofs about WorkspaceView, for any workspaces, requests and bounds of  *)
(* snapshots, queues and what is kept.                                     *)
(***************************************************************************)
EXTENDS WorkspaceView, FiniteSetTheorems, SequenceTheorems, TLAPS

-----------------------------------------------------------------------------
(* The view of the browser.  A snapshot, a reply that is still on its way  *)
(* and what a stream has brought are all of a moment of the history, which *)
(* only grows.  While it is short a snapshot shows a prefix of it, and a   *)
(* stream brings what follows on; an event that was never offered leaves a *)
(* hole that no later event of the stream fills, and no event turns up     *)
(* before one that is shown.  Of two prefixes the one with more events is  *)
(* not the older one.                                                      *)

Kinds == {"ACCEPTED", "STARTED", "COMPLETED"}
Marks == [kind : Kinds, context : Nat, offered : BOOLEAN]
SomeWorkspace == ViewedWorkspaces \cup {NoWorkspace}
ShownEvents == [workspace : ViewedWorkspaces, sequence : Nat]
Views == [workspace : SomeWorkspace, events : Seq(ShownEvents), context : Nat, working : BOOLEAN]
Feeds == [phase : {"NONE", "CONNECTING", "OPEN", "ABORTED"}, workspace : SomeWorkspace,
          last : Nat, queue : Seq(Nat), subscribed : BOOLEAN]
Asked == [op : {"CREATE", "OBSERVE"}, token : Generations, workspace : ViewedWorkspaces, reply : Views]

ViewTypeOK ==
    /\ history \in [ViewedWorkspaces -> Seq(Marks)]
    /\ view \in Views
    /\ generation \in Generations
    /\ request \in [ViewRequests -> Asked \cup {NoRequest}]
    /\ feed \in [Generations -> Feeds]

\* A history up to a moment.
Till(h, n) == SubSeq(h, 1, n)

\* An event tells a version there was, and an accepted observation the newest.
MarksOK(h) ==
    \A i \in 1 .. Len(h) :
        IF h[i].kind = "ACCEPTED" THEN h[i].context = ContextOf(Till(h, i))
                                  ELSE h[i].context <= ContextOf(Till(h, i))

\* A reply is a snapshot of some moment.
ReplyOK(q) ==
    (request[q] # NoRequest /\ request[q].reply # Nothing) =>
        \E m \in 0 .. Len(history[request[q].workspace]) :
            request[q].reply = Snapshot(request[q].workspace, Till(history[request[q].workspace], m))

\* A workspace is asked for under the generation, once, until its answer is taken.
Creates(q) == request[q] # NoRequest /\ request[q].op = "CREATE" /\ request[q].token = generation

AsksOK ==
    /\ \A q \in ViewRequests : request[q] # NoRequest => request[q].token <= generation
    /\ \A q \in ViewRequests : Creates(q) =>
         /\ view.workspace = NoWorkspace
         /\ \A r \in ViewRequests : Creates(r) => r = q

\* A stream brings events there are, in their order and none twice.
Ascends(f, h) ==
    /\ f.last <= Len(h)
    /\ \A i \in 1 .. Len(f.queue) : f.queue[i] \in f.last + 1 .. Len(h)
    /\ \A i, j \in 1 .. Len(f.queue) : i < j => f.queue[i] < f.queue[j]

FeedOK(g) ==
    /\ feed[g].phase = "NONE" => feed[g].queue = <<>> /\ ~feed[g].subscribed
    /\ feed[g].phase # "NONE" =>
         /\ feed[g].workspace \in ViewedWorkspaces
         /\ Ascends(feed[g], history[feed[g].workspace])

\* It brings those of a short history one by one, all of them as long as it is
\* subscribed, if all of them are offered.
FollowsOn(f, h) ==
    (f.phase # "NONE" /\ Len(h) <= Recents /\ Whole(h)) =>
        /\ \A i \in 1 .. Len(f.queue) : f.queue[i] = f.last + i
        /\ f.last + Len(f.queue) <= Len(h)
        /\ f.subscribed => f.last + Len(f.queue) = Len(h)

CurrentOK ==
    /\ \A g \in Generations : g > generation => feed[g].phase = "NONE"
    /\ feed[generation].phase # "ABORTED"
    /\ FollowsOn(feed[generation], history[feed[generation].workspace])

\* The events that the view v shows of the history h.
Shown(v, h) == [i \in 1 .. Len(v.events) |-> h[v.events[i].sequence]]

\* The view v shows some events of the history h, in their order, and what they
\* lead to; those after the event that the stream has brought last have none
\* missing before them.
Trail(v, h, last) ==
    /\ \A i \in 1 .. Len(v.events) :
         /\ v.events[i].workspace = v.workspace
         /\ v.events[i].sequence \in i .. Len(h)
         /\ h[v.events[i].sequence].context <= v.context
         /\ \/ v.events[i].sequence <= last
            \/ \A j \in 1 .. i : v.events[j].sequence = j
    /\ \A i, j \in 1 .. Len(v.events) : i < j => v.events[i].sequence < v.events[j].sequence
    /\ v.working = AtWork(Shown(v, h))

\* The rows of the first n events.
Row(w, n) == [i \in 1 .. n |-> Event(w, i)]

\* The view v shows the first n events of the history h, and their context.
ShowsFirst(v, h, n) ==
    /\ v.events = Row(v.workspace, n)
    /\ v.context = ContextOf(Till(h, n))
    /\ v.working = AtWork(Till(h, n))

\* The view v shows a prefix of the history h, as far as the stream has come.
Prefix(v, h, last) ==
    /\ ShowsFirst(v, h, Len(v.events))
    /\ Len(v.events) <= Len(h)
    /\ last <= Len(v.events)

\* The view agrees with its stream and its history.
Follows(v, h, last) ==
    Len(h) <= Recents => Trail(v, h, last) /\ (Whole(h) => Prefix(v, h, last))

ShownOK ==
    /\ feed[generation].phase # "NONE" => view.workspace = feed[generation].workspace
    /\ view.workspace # NoWorkspace =>
         Follows(view, history[view.workspace], feed[generation].last)

ViewInv ==
    /\ ViewTypeOK
    /\ \A w \in ViewedWorkspaces : MarksOK(history[w])
    /\ \A q \in ViewRequests : ReplyOK(q)
    /\ AsksOK
    /\ \A g \in Generations : FeedOK(g)
    /\ CurrentOK
    /\ ShownOK

-----------------------------------------------------------------------------
(* Moments of a history.                                                   *)

\* The events of a moment are the first ones, and one more event changes none.
LEMMA Moments ==
    ASSUME NEW h \in Seq(Marks), NEW n \in 0 .. Len(h)
    PROVE  /\ Till(h, n) \in Seq(Marks)
           /\ Len(Till(h, n)) = n
           /\ \A i \in 1 .. n : Till(h, n)[i] = h[i]
           /\ Till(h, Len(h)) = h
<1>1. Len(h) \in Nat /\ n \in Int /\ \A i \in 1 .. n : h[i] \in Marks
  OBVIOUS
<1>2. /\ Till(h, n) \in Seq(Marks)
      /\ Len(Till(h, n)) = IF 1 <= n THEN n - 1 + 1 ELSE 0
      /\ \A i \in 1 .. n - 1 + 1 : Till(h, n)[i] = h[1 + i - 1]
  BY <1>1, SubSeqProperties DEF Till
<1>3. Till(h, Len(h)) = h
  BY SubSeqFull DEF Till
<1> QED BY <1>1, <1>2, <1>3

LEMMA MomentsStay ==
    ASSUME NEW h \in Seq(Marks), NEW e \in Marks, NEW n \in 0 .. Len(h)
    PROVE  Till(Append(h, e), n) = Till(h, n)
<1>1. /\ Append(h, e) \in Seq(Marks)
      /\ Len(Append(h, e)) = Len(h) + 1
      /\ n \in 0 .. Len(Append(h, e))
      /\ \A i \in 1 .. n : Append(h, e)[i] = h[i]
  OBVIOUS
<1>2. /\ Till(Append(h, e), n) \in Seq(Marks) /\ Len(Till(Append(h, e), n)) = n
      /\ \A i \in 1 .. n : Till(Append(h, e), n)[i] = Append(h, e)[i]
  BY <1>1, Moments
<1>3. /\ Till(h, n) \in Seq(Marks) /\ Len(Till(h, n)) = n
      /\ \A i \in 1 .. n : Till(h, n)[i] = h[i]
  BY Moments
<1> QED BY <1>1, <1>2, <1>3, SeqEqual

\* The context of a moment counts the observations accepted until then.
LEMMA ContextCounts ==
    ASSUME NEW h \in Seq(Marks), NEW n \in 0 .. Len(h)
    PROVE  LET accepted == {i \in 1 .. n : h[i].kind = "ACCEPTED"}
           IN  /\ IsFiniteSet(accepted)
               /\ ContextOf(Till(h, n)) = Cardinality(accepted)
               /\ ContextOf(Till(h, n)) \in Nat
<1> DEFINE accepted == {i \in 1 .. n : h[i].kind = "ACCEPTED"}
<1>1. IsFiniteSet(1 .. n) /\ accepted \subseteq 1 .. n
  <2>1. 1 \in Int /\ n \in Int /\ accepted \subseteq 1 .. n
    OBVIOUS
  <2> QED BY <2>1, FS_Interval
<1>2. IsFiniteSet(accepted) /\ Cardinality(accepted) \in Nat
  BY <1>1, FS_Subset, FS_CardinalityType
<1>3. Len(Till(h, n)) = n /\ \A i \in 1 .. n : Till(h, n)[i] = h[i]
  BY Moments
<1>4. {i \in 1 .. Len(Till(h, n)) : Till(h, n)[i].kind = "ACCEPTED"} = accepted
  BY <1>3
<1> QED BY <1>2, <1>4 DEF ContextOf

LEMMA ContextGrows ==
    ASSUME NEW h \in Seq(Marks), NEW m \in 0 .. Len(h), NEW n \in 0 .. Len(h), m <= n
    PROVE  ContextOf(Till(h, m)) <= ContextOf(Till(h, n))
<1> DEFINE Until(k) == {i \in 1 .. k : h[i].kind = "ACCEPTED"}
<1>1. Until(m) \subseteq Until(n)
  OBVIOUS
<1>2. /\ IsFiniteSet(Until(n))
      /\ ContextOf(Till(h, n)) = Cardinality(Until(n))
      /\ ContextOf(Till(h, m)) = Cardinality(Until(m))
  BY ContextCounts
<1> HIDE DEF Until
<1> QED BY <1>1, <1>2, FS_Subset

LEMMA ContextStep ==
    ASSUME NEW h \in Seq(Marks), NEW n \in 1 .. Len(h)
    PROVE  ContextOf(Till(h, n)) =
             ContextOf(Till(h, n - 1)) + IF h[n].kind = "ACCEPTED" THEN 1 ELSE 0
<1> DEFINE Until(k) == {i \in 1 .. k : h[i].kind = "ACCEPTED"}
<1>1. n - 1 \in 0 .. Len(h) /\ n \in 0 .. Len(h)
  OBVIOUS
<1>2. /\ IsFiniteSet(Until(n - 1))
      /\ ContextOf(Till(h, n)) = Cardinality(Until(n))
      /\ ContextOf(Till(h, n - 1)) = Cardinality(Until(n - 1))
      /\ ContextOf(Till(h, n - 1)) \in Nat
  BY <1>1, ContextCounts
<1>3. CASE h[n].kind = "ACCEPTED"
  <2>1. Until(n) = Until(n - 1) \cup {n} /\ n \notin Until(n - 1)
    BY <1>3
  <2>2. Cardinality(Until(n - 1) \cup {n}) = Cardinality(Until(n - 1)) + 1
    BY <1>2, <2>1, FS_AddElement
  <2> QED BY <1>2, <1>3, <2>1, <2>2
<1>4. CASE h[n].kind # "ACCEPTED"
  <2>1. Until(n) = Until(n - 1)
    BY <1>4
  <2>2. Cardinality(Until(n)) = Cardinality(Until(n - 1))
    BY <2>1
  <2> HIDE DEF Until
  <2> QED BY <1>2, <1>4, <2>2
<1> QED BY <1>3, <1>4

\* The last event tells whether the Agent is at work, or the ones before it.
LEMMA WorkStep ==
    ASSUME NEW h \in Seq(Marks), NEW n \in 1 .. Len(h)
    PROVE  AtWork(Till(h, n)) =
             IF h[n].kind = "STARTED" THEN TRUE
             ELSE IF h[n].kind = "COMPLETED" THEN FALSE ELSE AtWork(Till(h, n - 1))
<1> DEFINE At(k) == \E i \in 1 .. k : h[i].kind = "STARTED" /\ \A j \in i .. k : h[j].kind # "COMPLETED"
<1>1. ASSUME NEW k \in 0 .. Len(h) PROVE AtWork(Till(h, k)) <=> At(k)
  <2>1. Len(Till(h, k)) = k /\ \A i \in 1 .. k : Till(h, k)[i] = h[i]
    BY <1>1, Moments
  <2> QED BY <2>1 DEF AtWork
<1>2. n \in 0 .. Len(h) /\ n - 1 \in 0 .. Len(h)
  OBVIOUS
<1>3. (AtWork(Till(h, n)) <=> At(n)) /\ (AtWork(Till(h, n - 1)) <=> At(n - 1))
  BY <1>1, <1>2
<1>4. CASE h[n].kind = "STARTED"
  <2>1. n \in 1 .. n /\ \A j \in n .. n : h[j].kind # "COMPLETED"
    BY <1>4
  <2>2. At(n)
    BY <1>4, <2>1
  <2> QED BY <1>3, <1>4, <2>2 DEF AtWork
<1>5. CASE h[n].kind = "COMPLETED"
  <2>1. \A i \in 1 .. n : n \in i .. n
    OBVIOUS
  <2>2. ~At(n)
    BY <1>5, <2>1
  <2> QED BY <1>3, <1>5, <2>2 DEF AtWork
<1>6. CASE h[n].kind \notin {"STARTED", "COMPLETED"}
  <2>1. At(n) => At(n - 1)
    <3> SUFFICES ASSUME NEW i \in 1 .. n, h[i].kind = "STARTED",
                        \A j \in i .. n : h[j].kind # "COMPLETED"
                 PROVE  At(n - 1)
      OBVIOUS
    <3>1. i # n
      BY <1>6
    <3>2. i \in 1 .. n - 1 /\ \A j \in i .. n - 1 : j \in i .. n
      BY <3>1
    <3> QED BY <3>2
  <2>2. At(n - 1) => At(n)
    <3> SUFFICES ASSUME NEW i \in 1 .. n - 1, h[i].kind = "STARTED",
                        \A j \in i .. n - 1 : h[j].kind # "COMPLETED"
                 PROVE  At(n)
      OBVIOUS
    <3>1. i \in 1 .. n /\ \A j \in i .. n : j = n \/ j \in i .. n - 1
      OBVIOUS
    <3>2. \A j \in i .. n : h[j].kind # "COMPLETED"
      BY <1>6, <3>1
    <3> QED BY <3>1, <3>2
  <2>3. AtWork(Till(h, n)) \in BOOLEAN /\ AtWork(Till(h, n - 1)) \in BOOLEAN
    BY DEF AtWork
  <2> QED BY <1>3, <1>6, <2>1, <2>2, <2>3
<1> QED BY <1>4, <1>5, <1>6

-----------------------------------------------------------------------------
(* The events of a snapshot and of the view.                               *)

LEMMA LastOfProperties ==
    ASSUME NEW S, NEW s \in Seq(S), NEW k \in Nat
    PROVE  /\ LastOf(s, k) \in Seq(S)
           /\ Len(s) <= k => LastOf(s, k) = s
<1>1. CASE Len(s) <= k
  <2>1. ~(Len(s) > k)
    BY <1>1
  <2>2. LastOf(s, k) = SubSeq(s, 1, Len(s))
    BY <2>1 DEF LastOf
  <2> QED BY <2>2, SubSeqFull
<1>2. CASE ~(Len(s) <= k)
  <2> DEFINE first == Len(s) - k + 1
  <2>1. Len(s) > k /\ first \in Int /\ Len(s) \in Int /\ \A i \in first .. Len(s) : s[i] \in S
    BY <1>2
  <2>2. SubSeq(s, first, Len(s)) \in Seq(S)
    BY <2>1, SubSeqProperties
  <2>3. LastOf(s, k) = SubSeq(s, first, Len(s))
    BY <2>1 DEF LastOf
  <2> QED BY <1>2, <2>2, <2>3
<1> QED BY <1>1, <1>2

LEMMA Rows ==
    ASSUME NEW w \in ViewedWorkspaces, NEW n \in Nat
    PROVE  /\ Row(w, n) \in Seq(ShownEvents)
           /\ Len(Row(w, n)) = n
           /\ \A i \in 1 .. n : Row(w, n)[i] = Event(w, i)
           /\ Append(Row(w, n), Event(w, n + 1)) = Row(w, n + 1)
           /\ Highest(Row(w, n)) = n
<1>1. \A i \in Nat : Event(w, i) \in ShownEvents /\ Event(w, i).sequence = i
  BY DEF Event, ShownEvents
<1>2. ASSUME NEW k \in Nat
      PROVE  /\ Row(w, k) \in Seq(ShownEvents)
             /\ Len(Row(w, k)) = k
             /\ \A i \in 1 .. k : Row(w, k)[i] = Event(w, i)
             /\ DOMAIN Row(w, k) = 1 .. k
  BY <1>1, <1>2 DEF Row
<1>3. Append(Row(w, n), Event(w, n + 1)) = Row(w, n + 1)
  <2>1. n + 1 \in Nat /\ Event(w, n + 1) \in ShownEvents
    BY <1>1
  <2>2. /\ Row(w, n) \in Seq(ShownEvents) /\ Len(Row(w, n)) = n
        /\ \A i \in 1 .. n : Row(w, n)[i] = Event(w, i)
        /\ Row(w, n + 1) \in Seq(ShownEvents) /\ Len(Row(w, n + 1)) = n + 1
        /\ \A i \in 1 .. n + 1 : Row(w, n + 1)[i] = Event(w, i)
    BY <1>2, <2>1
  <2>3. /\ Append(Row(w, n), Event(w, n + 1)) \in Seq(ShownEvents)
        /\ Len(Append(Row(w, n), Event(w, n + 1))) = n + 1
        /\ \A i \in 1 .. n + 1 : Append(Row(w, n), Event(w, n + 1))[i] = Event(w, i)
    BY <2>1, <2>2
  <2> QED BY <2>2, <2>3, SeqEqual
<1>4. Highest(Row(w, n)) = n
  <2>1. /\ Len(Row(w, n)) = n /\ DOMAIN Row(w, n) = 1 .. n
        /\ \A i \in 1 .. n : Row(w, n)[i].sequence = i
    BY <1>1, <1>2
  <2>2. CASE n = 0
    <3>1. Row(w, n) = <<>>
      BY <1>2, <2>1, <2>2, EmptySeq
    <3> QED BY <2>2, <3>1 DEF Highest
  <2>3. CASE n # 0
    <3> DEFINE numbers == {Row(w, n)[i].sequence : i \in DOMAIN Row(w, n)}
               Top(m) == \A i \in DOMAIN Row(w, n) : Row(w, n)[i].sequence <= m
    <3>1. n \in 1 .. n /\ Row(w, n) # <<>>
      BY <2>1, <2>3
    <3>2. n \in numbers /\ Top(n)
      BY <2>1, <3>1
    <3>3. \A m \in numbers : Top(m) => m = n
      BY <2>1, <3>1
    <3>4. Highest(Row(w, n)) = CHOOSE m \in numbers : Top(m)
      BY <3>1 DEF Highest
    <3> HIDE DEF numbers, Top
    <3> QED BY <3>2, <3>3, <3>4
  <2> QED BY <2>2, <2>3
<1> QED BY <1>2, <1>3, <1>4

\* A snapshot of a short history shows all of it until its moment.
LEMMA Snapshots ==
    ASSUME NEW w \in ViewedWorkspaces, NEW h \in Seq(Marks), NEW n \in 0 .. Len(h)
    PROVE  LET s == Snapshot(w, Till(h, n))
           IN  /\ s \in Views
               /\ s.workspace = w
               /\ s.context = ContextOf(Till(h, n))
               /\ s.working = AtWork(Till(h, n))
               /\ n <= Recents => s.events = Row(w, n)
<1>1. Len(Till(h, n)) = n /\ ContextOf(Till(h, n)) \in Nat /\ n \in Nat
  <2>1. n \in Nat
    OBVIOUS
  <2>2. Len(Till(h, n)) = n
    BY Moments
  <2>3. ContextOf(Till(h, n)) \in Nat
    BY ContextCounts
  <2> QED BY <2>1, <2>2, <2>3
<1>2. AtWork(Till(h, n)) \in BOOLEAN
  BY DEF AtWork
<1>3. Row(w, n) \in Seq(ShownEvents) /\ Len(Row(w, n)) = n
  BY <1>1, Rows
<1>4. /\ LastOf(Row(w, n), Recents) \in Seq(ShownEvents)
      /\ n <= Recents => LastOf(Row(w, n), Recents) = Row(w, n)
  BY <1>3, LastOfProperties, ViewAssumption
<1>5. Snapshot(w, Till(h, n)) =
        [workspace |-> w, context |-> ContextOf(Till(h, n)), working |-> AtWork(Till(h, n)),
         events |-> LastOf(Row(w, n), Recents)]
  BY <1>1 DEF Snapshot, Row
<1> QED BY <1>1, <1>2, <1>4, <1>5 DEF Views, SomeWorkspace

-----------------------------------------------------------------------------
(* The server.                                                             *)

LEMMA MarksStay ==
    ASSUME NEW h \in Seq(Marks), MarksOK(h), NEW e \in Marks,
           IF e.kind = "ACCEPTED" THEN e.context = ContextOf(h) + 1 ELSE e.context <= ContextOf(h)
    PROVE  MarksOK(Append(h, e))
<1> DEFINE longer == Append(h, e)
           n == Len(h) + 1
<1>1. /\ longer \in Seq(Marks) /\ Len(longer) = n /\ longer[n] = e
      /\ n \in 1 .. Len(longer) /\ n - 1 = Len(h) /\ Len(h) \in 0 .. Len(h)
      /\ \A i \in 1 .. Len(h) : longer[i] = h[i]
  OBVIOUS
<1> HIDE DEF longer
<1>2. \A i \in 0 .. Len(h) : Till(longer, i) = Till(h, i)
  BY MomentsStay DEF longer
<1>3. Till(h, Len(h)) = h /\ Till(longer, Len(longer)) = longer
  <2>1. Len(h) \in 0 .. Len(h) /\ Len(longer) \in 0 .. Len(longer)
    BY <1>1
  <2> QED BY <1>1, <2>1, Moments
<1>4. ContextOf(Till(longer, n)) = ContextOf(Till(longer, n - 1)) + IF e.kind = "ACCEPTED" THEN 1 ELSE 0
  BY <1>1, ContextStep
<1>5. ContextOf(Till(longer, n - 1)) = ContextOf(h)
  BY <1>1, <1>2, <1>3
<1>6. ContextOf(h) \in Nat /\ e.context \in Nat
  <2>1. ContextOf(Till(h, Len(h))) \in Nat
    BY <1>1, ContextCounts
  <2> QED BY <1>3, <2>1 DEF Marks
<1>7. IF e.kind = "ACCEPTED" THEN e.context = ContextOf(Till(longer, n))
                             ELSE e.context <= ContextOf(Till(longer, n))
  BY <1>4, <1>5, <1>6
<1>8. ASSUME NEW i \in 1 .. Len(longer)
      PROVE  IF longer[i].kind = "ACCEPTED" THEN longer[i].context = ContextOf(Till(longer, i))
                                            ELSE longer[i].context <= ContextOf(Till(longer, i))
  <2>1. CASE i = n
    BY <1>1, <1>7, <2>1
  <2>2. CASE i # n
    <3>1. i \in 1 .. Len(h) /\ i \in 0 .. Len(h)
      BY <1>1, <2>2
    <3>2. longer[i] = h[i] /\ Till(longer, i) = Till(h, i)
      BY <1>1, <1>2, <3>1
    <3> QED BY <3>1, <3>2 DEF MarksOK
  <2> QED BY <2>1, <2>2
<1> QED BY <1>8 DEF MarksOK, longer

\* What a step of the server leaves of the histories that there were.
Grown ==
    /\ history' \in [ViewedWorkspaces -> Seq(Marks)]
    /\ \A w \in ViewedWorkspaces :
         /\ Len(history[w]) <= Len(history'[w])
         /\ \A n \in 0 .. Len(history[w]) : Till(history'[w], n) = Till(history[w], n)

LEMMA GrownBySame == ASSUME ViewTypeOK, UNCHANGED history PROVE Grown
<1>1. \A w \in ViewedWorkspaces : Len(history[w]) \in Nat
  BY DEF ViewTypeOK
<1> QED BY <1>1 DEF Grown, ViewTypeOK

\* The events there were stay what they were.
LEMMA GrownMarks ==
    ASSUME ViewTypeOK, Grown, NEW w \in ViewedWorkspaces
    PROVE  /\ history[w] \in Seq(Marks) /\ history'[w] \in Seq(Marks)
           /\ Len(history[w]) \in Nat /\ Len(history'[w]) \in Nat
           /\ Len(history[w]) <= Len(history'[w])
           /\ \A i \in 1 .. Len(history[w]) : history'[w][i] = history[w][i]
           /\ Whole(history'[w]) => Whole(history[w])
<1>1. history[w] \in Seq(Marks) /\ history'[w] \in Seq(Marks) /\ Len(history[w]) <= Len(history'[w])
  BY DEF ViewTypeOK, Grown
<1>2. Len(history[w]) \in Nat /\ Len(history'[w]) \in Nat
  BY <1>1, LenProperties
<1> DEFINE n == Len(history[w])
<1>3. n \in 0 .. Len(history[w]) /\ n \in 0 .. Len(history'[w])
  BY <1>1, <1>2
<1>4. /\ Till(history'[w], n) = Till(history[w], n)
      /\ \A i \in 1 .. n : Till(history[w], n)[i] = history[w][i]
      /\ \A i \in 1 .. n : Till(history'[w], n)[i] = history'[w][i]
  BY <1>1, <1>3, Moments DEF Grown
<1>5. \A i \in 1 .. Len(history[w]) : history'[w][i] = history[w][i]
  BY <1>4
<1>6. Whole(history'[w]) => Whole(history[w])
  <2>1. 1 .. Len(history[w]) \subseteq 1 .. Len(history'[w])
    BY <1>1, <1>2
  <2> QED BY <1>5, <2>1 DEF Whole
<1> QED BY <1>1, <1>2, <1>5, <1>6

LEMMA PublishGrows ==
    ASSUME ViewInv, NEW w \in ViewedWorkspaces, NEW kind \in Kinds, NEW context \in Nat,
           NEW offered \in BOOLEAN, PublishTo(w, kind, context, offered),
           IF kind = "ACCEPTED" THEN context = ContextOf(history[w]) + 1
                                ELSE context <= ContextOf(history[w])
    PROVE  /\ Grown
           /\ Len(history'[w]) = Len(history[w]) + 1
           /\ history'[w][Len(history'[w])].offered = offered
           /\ \A v \in ViewedWorkspaces : v # w => history'[v] = history[v]
           /\ \A v \in ViewedWorkspaces : MarksOK(history[v])'
<1> DEFINE e == [kind |-> kind, context |-> context, offered |-> offered]
<1>1. /\ history \in [ViewedWorkspaces -> Seq(Marks)]
      /\ \A v \in ViewedWorkspaces : MarksOK(history[v])
  BY DEF ViewInv, ViewTypeOK
<1>2. e \in Marks /\ e.kind = kind /\ e.context = context /\ e.offered = offered
  BY DEF Marks
<1>3. history' = [history EXCEPT ![w] = Append(history[w], e)]
  BY DEF PublishTo
<1>4. /\ history' \in [ViewedWorkspaces -> Seq(Marks)]
      /\ history'[w] = Append(history[w], e)
      /\ \A v \in ViewedWorkspaces : v # w => history'[v] = history[v]
  <2> HIDE DEF e
  <2>1. Append(history[w], e) \in Seq(Marks)
    BY <1>1, <1>2
  <2> QED BY <1>1, <1>3, <2>1
<1> HIDE DEF e
<1>5. /\ history[w] \in Seq(Marks) /\ Len(history[w]) \in Nat
      /\ Len(history'[w]) = Len(history[w]) + 1
      /\ history'[w][Len(history'[w])].offered = offered
  BY <1>1, <1>2, <1>4
<1>6. ASSUME NEW v \in ViewedWorkspaces
      PROVE  /\ Len(history[v]) <= Len(history'[v])
             /\ \A n \in 0 .. Len(history[v]) : Till(history'[v], n) = Till(history[v], n)
  <2>1. CASE v = w
    <3>1. \A n \in 0 .. Len(history[w]) : Till(Append(history[w], e), n) = Till(history[w], n)
      BY <1>2, <1>5, MomentsStay
    <3>2. Len(history[w]) <= Len(history'[w])
      BY <1>5
    <3> QED BY <1>4, <2>1, <3>1, <3>2
  <2>2. CASE v # w
    <3>1. history'[v] = history[v] /\ Len(history[v]) \in Nat
      BY <1>1, <1>4, <2>2
    <3> QED BY <3>1
  <2> QED BY <2>1, <2>2
<1>7. ASSUME NEW v \in ViewedWorkspaces PROVE MarksOK(history'[v])
  <2>1. CASE v = w
    <3>1. MarksOK(Append(history[w], e))
      BY <1>1, <1>2, <1>5, MarksStay
    <3> QED BY <1>4, <2>1, <3>1
  <2>2. CASE v # w
    BY <1>1, <1>4, <2>2
  <2> QED BY <2>1, <2>2
<1>8. \A v \in ViewedWorkspaces : MarksOK(history[v])'
  BY <1>7
<1> QED BY <1>4, <1>5, <1>6, <1>8 DEF Grown

\* A reply stays a snapshot of its moment.
LEMMA RepliesStay ==
    ASSUME ViewTypeOK, Grown, NEW q \in ViewRequests, ReplyOK(q), request'[q] = request[q]
    PROVE  ReplyOK(q)'
<1> SUFFICES ASSUME request[q] # NoRequest, request[q].reply # Nothing
             PROVE  \E m \in 0 .. Len(history'[request[q].workspace]) :
                      request[q].reply = Snapshot(request[q].workspace, Till(history'[request[q].workspace], m))
  BY DEF ReplyOK
<1> DEFINE w == request[q].workspace
<1>1. w \in ViewedWorkspaces
  BY DEF ViewTypeOK, Asked
<1>2. PICK m \in 0 .. Len(history[w]) : request[q].reply = Snapshot(w, Till(history[w], m))
  BY DEF ReplyOK
<1>3. Len(history[w]) \in Nat /\ Len(history'[w]) \in Nat
  BY <1>1 DEF ViewTypeOK, Grown
<1>4. m \in 0 .. Len(history'[w]) /\ Till(history'[w], m) = Till(history[w], m)
  BY <1>1, <1>2, <1>3 DEF Grown
<1> QED BY <1>2, <1>4

\* An answer is a snapshot of the moment it is given.
LEMMA AnswerIsSnapshot ==
    ASSUME ViewTypeOK, Grown, \A r \in ViewRequests : ReplyOK(r),
           NEW q \in ViewRequests, request[q] # NoRequest,
           Answered(q, history'[request[q].workspace])
    PROVE  /\ request' \in [ViewRequests -> Asked \cup {NoRequest}]
           /\ \A r \in ViewRequests : ReplyOK(r)'
<1> DEFINE w == request[q].workspace
           h == history'[w]
           s == Snapshot(w, h)
           answered == [request[q] EXCEPT !.reply = s]
<1>1. request \in [ViewRequests -> Asked \cup {NoRequest}] /\ request[q] \in Asked
  BY DEF ViewTypeOK
<1>2. w \in ViewedWorkspaces
  BY <1>1 DEF Asked
<1>3. h \in Seq(Marks) /\ Len(h) \in 0 .. Len(h)
  BY <1>2 DEF Grown
<1> HIDE DEF h
<1>4. h = Till(h, Len(h))
  BY <1>3, Moments
<1>5. s \in Views
  BY <1>2, <1>3, <1>4, Snapshots
<1>6. request' = [request EXCEPT ![q] = answered]
  BY <1>1 DEF Answered, h
<1> HIDE DEF s
<1>7. answered \in Asked /\ answered.reply = s /\ answered.workspace = w
  BY <1>1, <1>5 DEF Asked
<1> HIDE DEF w, answered
<1>8. /\ request' \in [ViewRequests -> Asked \cup {NoRequest}]
      /\ request'[q] = answered
      /\ \A r \in ViewRequests : r # q => request'[r] = request[r]
  BY <1>1, <1>6, <1>7
<1>9. ASSUME NEW r \in ViewRequests PROVE ReplyOK(r)'
  <2>1. CASE r = q
    <3>1. s = Snapshot(w, Till(h, Len(h)))
      BY <1>4 DEF s
    <3>2. \E m \in 0 .. Len(history'[w]) : s = Snapshot(w, Till(history'[w], m))
      BY <1>3, <3>1 DEF h
    <3> QED BY <1>7, <1>8, <2>1, <3>2 DEF ReplyOK
  <2>2. CASE r # q
    BY <1>8, <2>2, RepliesStay
  <2> QED BY <2>1, <2>2
<1> QED BY <1>8, <1>9

\* No new request is made.
LEMMA AsksStay ==
    ASSUME AsksOK, UNCHANGED generation, view'.workspace = view.workspace,
           \A q \in ViewRequests : request'[q] # NoRequest =>
               /\ request[q] # NoRequest
               /\ request'[q].op = request[q].op
               /\ request'[q].token = request[q].token
    PROVE  AsksOK'
<1>1. \A q \in ViewRequests : Creates(q)' => Creates(q)
  BY DEF Creates
<1> QED BY <1>1 DEF AsksOK

\* A view keeps following a history that grows.
LEMMA FollowsStays ==
    ASSUME ViewTypeOK, Grown, NEW w \in ViewedWorkspaces, NEW v \in Views, NEW last \in Nat,
           Follows(v, history[w], last)
    PROVE  Follows(v, history'[w], last)
<1> DEFINE h == history[w]
           k == history'[w]
           shown == v.events
<1>1. /\ h \in Seq(Marks) /\ k \in Seq(Marks) /\ Len(h) \in Nat /\ Len(k) \in Nat
      /\ Len(h) <= Len(k)
      /\ \A i \in 1 .. Len(h) : k[i] = h[i]
      /\ Whole(k) => Whole(h)
  BY GrownMarks
<1>2. Recents \in Nat /\ shown \in Seq(ShownEvents) /\ Len(shown) \in Nat
  <2>1. shown \in Seq(ShownEvents)
    BY DEF Views
  <2> QED BY <2>1, LenProperties, ViewAssumption
<1>3. \A n \in 0 .. Len(h) : Till(k, n) = Till(h, n)
  BY DEF Grown
<1> HIDE DEF h, k
<1> SUFFICES ASSUME Len(k) <= Recents
             PROVE  Trail(v, k, last) /\ (Whole(k) => Prefix(v, k, last))
  BY DEF Follows, k
<1>4. Trail(v, h, last) /\ (Whole(h) => Prefix(v, h, last))
  <2>1. Len(h) <= Recents
    BY <1>1, <1>2
  <2> QED BY <2>1 DEF Follows, h
<1>5. ASSUME NEW i \in 1 .. Len(shown)
      PROVE  shown[i].sequence \in i .. Len(k) /\ k[shown[i].sequence] = h[shown[i].sequence]
  <2>1. shown[i].sequence \in i .. Len(h)
    BY <1>4 DEF Trail
  <2>2. shown[i].sequence \in 1 .. Len(h) /\ shown[i].sequence \in i .. Len(k)
    BY <1>1, <1>2, <2>1
  <2> QED BY <1>1, <2>2
<1>6. Shown(v, k) = Shown(v, h)
  BY <1>5 DEF Shown
<1>7. Trail(v, k, last)
  BY <1>4, <1>5, <1>6 DEF Trail
<1>8. ASSUME Whole(k) PROVE Prefix(v, k, last)
  <2>1. Prefix(v, h, last)
    BY <1>1, <1>4, <1>8
  <2>2. Len(shown) \in 0 .. Len(h)
    BY <1>1, <1>2, <2>1 DEF Prefix
  <2>3. Till(k, Len(shown)) = Till(h, Len(shown))
    BY <1>3, <2>2
  <2>4. Len(shown) <= Len(k)
    BY <1>1, <1>2, <2>2
  <2> QED BY <2>1, <2>3, <2>4 DEF Prefix, ShowsFirst
<1> QED BY <1>7, <1>8

\* The view keeps agreeing with a history that grows and a stream that brings
\* nothing.
LEMMA ShownStays ==
    ASSUME ViewTypeOK, Grown, ShownOK, UNCHANGED <<view, generation>>,
           feed'[generation].phase # "NONE" => feed[generation].phase # "NONE",
           feed'[generation].workspace = feed[generation].workspace,
           feed'[generation].last = feed[generation].last
    PROVE  ShownOK'
<1>1. (feed'[generation'].phase # "NONE") => view.workspace = feed'[generation'].workspace
  BY DEF ShownOK
<1>2. ASSUME view.workspace # NoWorkspace
      PROVE  Follows(view, history'[view.workspace], feed'[generation'].last)
  <2>1. view \in Views /\ view.workspace \in ViewedWorkspaces /\ feed[generation].last \in Nat
    <3>1. view \in Views /\ feed[generation] \in Feeds
      BY DEF ViewTypeOK
    <3> QED BY <1>2, <3>1 DEF Views, SomeWorkspace, Feeds
  <2>2. Follows(view, history[view.workspace], feed[generation].last)
    BY <1>2 DEF ShownOK
  <2>3. Follows(view, history'[view.workspace], feed[generation].last)
    BY <2>1, <2>2, FollowsStays
  <2> QED BY <2>3
<1> QED BY <1>1, <1>2 DEF ShownOK

\* An event is offered to a subscriber that has room, and no other feels it.
LEMMA Offers ==
    ASSUME NEW f \in Feeds, NEW n \in Nat
    PROVE  LET o == Offered(f, n)
           IN  /\ o \in Feeds
               /\ o.phase = f.phase /\ o.workspace = f.workspace /\ o.last = f.last
               /\ \/ o.queue = Append(f.queue, n) /\ o.subscribed = f.subscribed
                  \/ o.queue = f.queue /\ ~o.subscribed
<1>1. f.queue \in Seq(Nat) /\ Append(f.queue, n) \in Seq(Nat)
  BY DEF Feeds
<1>2. CASE Len(f.queue) < StreamQueue
  <2>1. Offered(f, n) = [f EXCEPT !.queue = Append(f.queue, n)]
    BY <1>2 DEF Offered
  <2> QED BY <1>1, <2>1 DEF Feeds
<1>3. CASE ~(Len(f.queue) < StreamQueue)
  <2>1. Offered(f, n) = [f EXCEPT !.subscribed = FALSE]
    BY <1>3 DEF Offered
  <2> QED BY <1>1, <2>1 DEF Feeds
<1> QED BY <1>2, <1>3

\* What a stream brings stays in order as the history grows, and a new event
\* comes last.
LEMMA AscendsStays ==
    ASSUME NEW f, NEW h, NEW k, Ascends(f, h), Len(h) \in Nat, Len(k) \in Nat, f.last \in Nat,
           Len(h) <= Len(k)
    PROVE  Ascends(f, k)
<1>1. f.last + 1 .. Len(h) \subseteq f.last + 1 .. Len(k) /\ f.last <= Len(k)
  BY DEF Ascends
<1> QED BY <1>1 DEF Ascends

LEMMA OfferedAscends ==
    ASSUME NEW f \in Feeds, NEW h \in Seq(Marks), NEW k \in Seq(Marks),
           Len(k) = Len(h) + 1, Ascends(f, h)
    PROVE  Ascends(Offered(f, Len(k)), k)
<1> DEFINE n == Len(k)
           o == Offered(f, n)
           size == Len(f.queue)
<1>1. /\ n \in Nat /\ Len(h) \in Nat /\ n = Len(h) + 1 /\ f.last \in Nat
      /\ f.queue \in Seq(Nat) /\ size \in Nat
  <2>1. f.last \in Nat /\ f.queue \in Seq(Nat)
    BY DEF Feeds
  <2> QED BY <2>1, LenProperties
<1>2. Ascends(f, k)
  BY <1>1, AscendsStays
<1>3. o.last = f.last /\ (o.queue = Append(f.queue, n) \/ o.queue = f.queue)
  BY <1>1, Offers
<1> HIDE DEF o, n
<1>4. CASE o.queue = f.queue
  BY <1>2, <1>3, <1>4 DEF Ascends, o, n
<1>5. CASE o.queue = Append(f.queue, n)
  <2>1. /\ Len(o.queue) = size + 1
        /\ o.queue[size + 1] = n
        /\ \A i \in 1 .. size : o.queue[i] = f.queue[i]
    BY <1>1, <1>5, AppendProperties
  <2>2. \A i \in 1 .. size : f.queue[i] \in f.last + 1 .. Len(h)
    BY DEF Ascends
  <2>3. f.last <= Len(h)
    BY DEF Ascends
  <2>4. ASSUME NEW i \in 1 .. size + 1 PROVE o.queue[i] \in f.last + 1 .. n
    <3>1. CASE i = size + 1
      BY <1>1, <2>1, <2>3, <3>1
    <3>2. CASE i # size + 1
      <4>1. i \in 1 .. size
        BY <1>1, <3>2
      <4>2. o.queue[i] = f.queue[i] /\ f.queue[i] \in f.last + 1 .. Len(h)
        BY <2>1, <2>2, <4>1
      <4> QED BY <1>1, <4>2
    <3> QED BY <3>1, <3>2
  <2>5. ASSUME NEW i \in 1 .. size + 1, NEW j \in 1 .. size + 1, i < j
        PROVE  o.queue[i] < o.queue[j]
    <3>1. i \in 1 .. size
      BY <1>1, <2>5
    <3>2. o.queue[i] = f.queue[i] /\ f.queue[i] \in f.last + 1 .. Len(h)
      BY <2>1, <2>2, <3>1
    <3>3. CASE j = size + 1
      BY <1>1, <2>1, <3>2, <3>3
    <3>4. CASE j # size + 1
      <4>1. j \in 1 .. size
        BY <1>1, <3>4
      <4>2. o.queue[j] = f.queue[j] /\ f.queue[i] < f.queue[j]
        BY <2>1, <2>5, <3>1, <4>1 DEF Ascends
      <4> QED BY <3>2, <4>2
    <3> QED BY <3>3, <3>4
  <2>6. f.last <= n
    BY <1>1, <2>3
  <2> QED BY <1>3, <2>1, <2>4, <2>5, <2>6 DEF Ascends, o, n
<1> QED BY <1>3, <1>4, <1>5

\* A stream that follows on does so when it is offered the next event, or takes
\* no more events.
LEMMA OfferedFollows ==
    ASSUME NEW f \in Feeds, NEW h \in Seq(Marks), NEW k \in Seq(Marks),
           Len(k) = Len(h) + 1, Whole(k) => Whole(h), FollowsOn(f, h), f.subscribed
    PROVE  FollowsOn(Offered(f, Len(k)), k)
<1> DEFINE n == Len(k)
           o == Offered(f, n)
           size == Len(f.queue)
<1>1. /\ n \in Nat /\ Len(h) \in Nat /\ n = Len(h) + 1 /\ f.last \in Nat
      /\ f.queue \in Seq(Nat) /\ size \in Nat /\ Recents \in Nat
  <2>1. f.last \in Nat /\ f.queue \in Seq(Nat)
    BY DEF Feeds
  <2> QED BY <2>1, LenProperties, ViewAssumption
<1>2. /\ o.phase = f.phase /\ o.last = f.last
      /\ o.queue = Append(f.queue, n) \/ (o.queue = f.queue /\ ~o.subscribed)
  BY <1>1, Offers
<1> HIDE DEF o, n
<1> SUFFICES ASSUME f.phase # "NONE", n <= Recents, Whole(k)
             PROVE  /\ \A i \in 1 .. Len(o.queue) : o.queue[i] = f.last + i
                    /\ f.last + Len(o.queue) <= n
                    /\ o.subscribed => f.last + Len(o.queue) = n
  BY <1>2 DEF FollowsOn, o, n
<1>3. /\ \A i \in 1 .. size : f.queue[i] = f.last + i
      /\ f.last + size = Len(h)
  <2>1. Len(h) <= Recents
    BY <1>1
  <2> QED BY <2>1 DEF FollowsOn
<1>4. CASE o.queue = f.queue /\ ~o.subscribed
  BY <1>1, <1>3, <1>4
<1>5. CASE o.queue = Append(f.queue, n)
  <2>1. /\ Len(o.queue) = size + 1
        /\ o.queue[size + 1] = n
        /\ \A i \in 1 .. size : o.queue[i] = f.queue[i]
    BY <1>1, <1>5, AppendProperties
  <2>2. f.last + (size + 1) = n
    <3>1. \A a, b, c \in Nat : a + b = c => a + (b + 1) = c + 1
      OBVIOUS
    <3> QED BY <1>1, <1>3, <3>1
  <2>3. ASSUME NEW i \in 1 .. size + 1 PROVE o.queue[i] = f.last + i
    <3>1. CASE i = size + 1
      BY <2>1, <2>2, <3>1
    <3>2. CASE i # size + 1
      <4>1. i \in 1 .. size
        BY <1>1, <3>2
      <4> QED BY <1>3, <2>1, <4>1
    <3> QED BY <3>1, <3>2
  <2> QED BY <1>1, <2>1, <2>2, <2>3
<1> QED BY <1>2, <1>4, <1>5

LEMMA FollowsOnStays ==
    ASSUME NEW f \in Feeds, NEW h \in Seq(Marks), NEW k \in Seq(Marks),
           Len(h) <= Len(k), Whole(k) => Whole(h), FollowsOn(f, h), ~f.subscribed
    PROVE  FollowsOn(f, k)
<1>1. Len(k) \in Nat /\ Len(h) \in Nat /\ Recents \in Nat /\ f.last + Len(f.queue) \in Nat
  <2>1. f.last \in Nat /\ f.queue \in Seq(Nat)
    BY DEF Feeds
  <2> QED BY <2>1, LenProperties, ViewAssumption
<1> DEFINE sum == f.last + Len(f.queue)
<1> SUFFICES ASSUME f.phase # "NONE", Len(k) <= Recents, Whole(k)
             PROVE  /\ \A i \in 1 .. Len(f.queue) : f.queue[i] = f.last + i
                    /\ sum <= Len(k)
  BY DEF FollowsOn
<1>2. Len(h) <= Recents
  BY <1>1
<1>3. /\ \A i \in 1 .. Len(f.queue) : f.queue[i] = f.last + i
      /\ sum <= Len(h)
  BY <1>2 DEF FollowsOn
<1> HIDE DEF sum
<1> QED BY <1>1, <1>3 DEF sum

\* The events a stream brings stay events there are.
LEMMA FeedStays ==
    ASSUME ViewTypeOK, Grown, NEW g \in Generations, FeedOK(g), feed'[g] = feed[g]
    PROVE  FeedOK(g)'
<1> SUFFICES ASSUME feed[g].phase # "NONE"
             PROVE  /\ feed[g].workspace \in ViewedWorkspaces
                    /\ Ascends(feed[g], history'[feed[g].workspace])
  BY DEF FeedOK
<1> DEFINE w == feed[g].workspace
<1>1. w \in ViewedWorkspaces /\ Ascends(feed[g], history[w]) /\ feed[g].last \in Nat
  <2>1. feed[g] \in Feeds
    BY DEF ViewTypeOK
  <2> QED BY <2>1 DEF FeedOK, Feeds
<1>2. Len(history[w]) \in Nat /\ Len(history'[w]) \in Nat /\ Len(history[w]) <= Len(history'[w])
  BY <1>1, GrownMarks
<1>3. Ascends(feed[g], history'[w])
  BY <1>1, <1>2, AscendsStays
<1> QED BY <1>1, <1>3

LEMMA PublishKeepsFeeds ==
    ASSUME ViewInv, NEW w \in ViewedWorkspaces, NEW kind, NEW context, NEW offered \in BOOLEAN,
           PublishTo(w, kind, context, offered), Grown, Len(history'[w]) = Len(history[w]) + 1,
           history'[w][Len(history'[w])].offered = offered,
           \A v \in ViewedWorkspaces : v # w => history'[v] = history[v],
           UNCHANGED generation
    PROVE  /\ feed' \in [Generations -> Feeds]
           /\ \A g \in Generations : FeedOK(g)'
           /\ CurrentOK'
           /\ \A g \in Generations :
                /\ feed'[g].phase = feed[g].phase
                /\ feed'[g].workspace = feed[g].workspace
                /\ feed'[g].last = feed[g].last
<1> DEFINE n == Len(history'[w])
           Offer(g) == offered /\ feed[g].subscribed /\ feed[g].workspace = w
<1>1. /\ ViewTypeOK /\ feed \in [Generations -> Feeds] /\ generation \in Generations
      /\ \A g \in Generations : FeedOK(g)
      /\ CurrentOK
  BY DEF ViewInv, ViewTypeOK
<1>2. /\ n \in Nat /\ n = Len(history[w]) + 1 /\ Len(history[w]) \in Nat
      /\ history[w] \in Seq(Marks) /\ history'[w] \in Seq(Marks)
      /\ Whole(history'[w]) => Whole(history[w])
  BY <1>1, GrownMarks
<1>3. \A g \in Generations : feed'[g] = IF Offer(g) THEN Offered(feed[g], n) ELSE feed[g]
  BY DEF PublishTo
<1>4. feed' = [g \in Generations |-> feed'[g]]
  BY DEF PublishTo
<1>5. ASSUME NEW g \in Generations
      PROVE  /\ feed'[g] \in Feeds
             /\ feed'[g].phase = feed[g].phase
             /\ feed'[g].workspace = feed[g].workspace
             /\ feed'[g].last = feed[g].last
  <2>1. feed[g] \in Feeds
    BY <1>1
  <2>2. CASE Offer(g)
    <3>1. feed'[g] = Offered(feed[g], n)
      BY <1>3, <2>2
    <3>2. /\ Offered(feed[g], n) \in Feeds
          /\ Offered(feed[g], n).phase = feed[g].phase
          /\ Offered(feed[g], n).workspace = feed[g].workspace
          /\ Offered(feed[g], n).last = feed[g].last
      <4> HIDE DEF n
      <4> QED BY <1>2, <2>1, Offers
    <3> QED BY <3>1, <3>2
  <2>3. CASE ~Offer(g)
    BY <1>3, <2>1, <2>3
  <2> QED BY <2>2, <2>3
<1>6. feed' \in [Generations -> Feeds]
  BY <1>4, <1>5
<1>7. ASSUME NEW g \in Generations PROVE FeedOK(g)'
  <2>1. CASE ~Offer(g)
    <3>1. feed'[g] = feed[g]
      BY <1>3, <2>1
    <3> QED BY <1>1, <3>1, FeedStays
  <2>2. CASE Offer(g)
    <3>1. feed[g].phase # "NONE" /\ feed'[g].phase # "NONE"
      <4>1. feed[g].phase = "NONE" => ~feed[g].subscribed
        BY <1>1 DEF FeedOK
      <4> QED BY <1>5, <2>2, <4>1
    <3>2. feed[g].workspace = w /\ feed'[g].workspace = w
      BY <1>5, <2>2
    <3>3. Ascends(feed[g], history[w])
      BY <1>1, <3>1, <3>2 DEF FeedOK
    <3>4. Ascends(Offered(feed[g], n), history'[w])
      BY <1>1, <1>2, <3>3, OfferedAscends
    <3>5. Ascends(feed'[g], history'[w])
      BY <1>3, <2>2, <3>4
    <3> QED BY <3>1, <3>2, <3>5 DEF FeedOK
  <2> QED BY <2>1, <2>2
<1>8. CurrentOK'
  <2> DEFINE f == feed[generation]
             v == f.workspace
  <2>1. /\ \A g \in Generations : g > generation => feed'[g].phase = "NONE"
        /\ feed'[generation].phase # "ABORTED"
        /\ f \in Feeds /\ FollowsOn(f, history[v])
    BY <1>1, <1>5 DEF CurrentOK
  <2>2. feed'[generation].workspace = v /\ feed'[generation].phase = f.phase
    BY <1>1, <1>5
  <2>3. FollowsOn(feed'[generation], history'[v])
    <3>1. CASE f.phase = "NONE"
      BY <2>2, <3>1 DEF FollowsOn
    <3>2. CASE f.phase # "NONE" /\ v # w
      <4>1. v \in ViewedWorkspaces
        BY <1>1, <3>2 DEF FeedOK
      <4>2. history'[v] = history[v] /\ feed'[generation] = f
        BY <1>1, <1>3, <3>2, <4>1
      <4> QED BY <2>1, <4>2
    <3>3. CASE v = w /\ Offer(generation)
      <4>1. FollowsOn(Offered(f, n), history'[w])
        BY <1>2, <2>1, <3>3, OfferedFollows
      <4> QED BY <1>1, <1>3, <3>3, <4>1
    <3>4. CASE v = w /\ ~offered
      <4>1. ~Whole(history'[w])
        <5>1. n \in 1 .. Len(history'[w]) /\ ~history'[w][n].offered
          BY <1>2, <3>4
        <5> QED BY <5>1 DEF Whole
      <4> QED BY <3>4, <4>1 DEF FollowsOn
    <3>5. CASE v = w /\ ~f.subscribed
      <4>1. feed'[generation] = f /\ Len(history[w]) <= Len(history'[w])
        BY <1>1, <1>2, <1>3, <3>5
      <4>2. FollowsOn(f, history'[w])
        BY <1>2, <2>1, <3>5, <4>1, FollowsOnStays
      <4> QED BY <3>5, <4>1, <4>2
    <3> QED BY <3>1, <3>2, <3>3, <3>4, <3>5
  <2> QED BY <2>1, <2>2, <2>3 DEF CurrentOK
<1> QED BY <1>5, <1>6, <1>7, <1>8

\* What the server publishes leaves the view as true as it was.
LEMMA PublishKeeps ==
    ASSUME ViewInv, NEW w \in ViewedWorkspaces, NEW kind \in Kinds, NEW context \in Nat,
           NEW offered \in BOOLEAN, PublishTo(w, kind, context, offered),
           IF kind = "ACCEPTED" THEN context = ContextOf(history[w]) + 1
                                ELSE context <= ContextOf(history[w]),
           UNCHANGED <<view, generation>>
    PROVE  /\ Grown
           /\ feed' \in [Generations -> Feeds]
           /\ \A v \in ViewedWorkspaces : MarksOK(history[v])'
           /\ \A g \in Generations : FeedOK(g)'
           /\ CurrentOK'
           /\ ShownOK'
<1>1. /\ Grown
      /\ Len(history'[w]) = Len(history[w]) + 1
      /\ history'[w][Len(history'[w])].offered = offered
      /\ \A v \in ViewedWorkspaces : v # w => history'[v] = history[v]
      /\ \A v \in ViewedWorkspaces : MarksOK(history[v])'
  BY PublishGrows
<1>2. /\ feed' \in [Generations -> Feeds]
      /\ \A g \in Generations : FeedOK(g)'
      /\ CurrentOK'
      /\ \A g \in Generations :
           /\ feed'[g].phase = feed[g].phase
           /\ feed'[g].workspace = feed[g].workspace
           /\ feed'[g].last = feed[g].last
  BY <1>1, PublishKeepsFeeds
<1>3. ViewTypeOK /\ ShownOK /\ generation \in Generations
  BY DEF ViewInv, ViewTypeOK
<1>4. ShownOK'
  BY <1>1, <1>2, <1>3, ShownStays
<1> QED BY <1>1, <1>2, <1>4

\* A step that only concerns a request.
LEMMA RestStays ==
    ASSUME ViewInv, UNCHANGED <<history, view, generation, feed>>
    PROVE  /\ Grown
           /\ \A v \in ViewedWorkspaces : MarksOK(history[v])'
           /\ \A g \in Generations : FeedOK(g)'
           /\ CurrentOK'
           /\ ShownOK'
<1>1. ViewTypeOK /\ Grown
  BY GrownBySame DEF ViewInv
<1>2. \A v \in ViewedWorkspaces : MarksOK(history[v])'
  BY DEF ViewInv
<1>3. \A g \in Generations : FeedOK(g)'
  BY DEF ViewInv, FeedOK
<1>4. CurrentOK'
  BY DEF ViewInv, CurrentOK
<1>5. ShownOK'
  BY <1>1, ShownStays DEF ViewInv
<1> QED BY <1>1, <1>2, <1>3, <1>4, <1>5

LEMMA ServerWorksKeeps ==
    ASSUME ViewInv, NEW w \in ViewedWorkspaces, ServerWorks(w)
    PROVE  ViewInv'
<1>1. ViewTypeOK /\ history[w] \in Seq(Marks) /\ UNCHANGED <<view, generation, running, request>>
  BY DEF ViewInv, ViewTypeOK, ServerWorks
<1> DEFINE latest == ContextOf(history[w])
<1>2. latest \in Nat
  <2>1. Len(history[w]) \in 0 .. Len(history[w])
    BY <1>1
  <2>2. Till(history[w], Len(history[w])) = history[w]
    BY <1>1, <2>1, Moments
  <2>3. ContextOf(Till(history[w], Len(history[w]))) \in Nat
    BY <1>1, <2>1, ContextCounts
  <2> QED BY <2>2, <2>3
<1>3. PICK kind \in Kinds, context \in Nat, offered \in BOOLEAN :
        /\ PublishTo(w, kind, context, offered)
        /\ IF kind = "ACCEPTED" THEN context = latest + 1 ELSE context <= latest
  <2>1. PICK offered \in Captures(w) :
          \/ PublishTo(w, "ACCEPTED", latest + 1, offered)
          \/ PublishTo(w, "STARTED", latest, offered)
          \/ \E context \in 1 .. latest : PublishTo(w, "COMPLETED", context, offered)
    BY DEF ServerWorks
  <2>2. offered \in BOOLEAN
    BY <2>1 DEF Captures
  <2>3. CASE PublishTo(w, "ACCEPTED", latest + 1, offered)
    <3>1. "ACCEPTED" \in Kinds /\ latest + 1 \in Nat
      BY <1>2 DEF Kinds
    <3> QED BY <2>2, <2>3, <3>1
  <2>4. CASE PublishTo(w, "STARTED", latest, offered)
    <3>1. "STARTED" \in Kinds /\ latest <= latest
      BY <1>2 DEF Kinds
    <3> QED BY <1>2, <2>2, <2>4, <3>1
  <2>5. CASE \E context \in 1 .. latest : PublishTo(w, "COMPLETED", context, offered)
    <3>1. PICK context \in 1 .. latest : PublishTo(w, "COMPLETED", context, offered)
      BY <2>5
    <3>2. "COMPLETED" \in Kinds /\ context \in Nat /\ context <= latest
      BY <1>2 DEF Kinds
    <3> QED BY <2>2, <3>1, <3>2
  <2> QED BY <2>1, <2>3, <2>4, <2>5
<1>4. /\ Grown
      /\ feed' \in [Generations -> Feeds]
      /\ \A v \in ViewedWorkspaces : MarksOK(history[v])'
      /\ \A g \in Generations : FeedOK(g)'
      /\ CurrentOK'
      /\ ShownOK'
  BY <1>1, <1>3, PublishKeeps
<1>5. \A q \in ViewRequests : ReplyOK(q)'
  <2> SUFFICES ASSUME NEW q \in ViewRequests PROVE ReplyOK(q)'
    OBVIOUS
  <2>1. ReplyOK(q) /\ request'[q] = request[q]
    BY <1>1 DEF ViewInv
  <2> QED BY <1>1, <1>4, <2>1, RepliesStay
<1>6. ViewTypeOK'
  BY <1>1, <1>4 DEF ViewTypeOK, Grown
<1>7. AsksOK'
  BY <1>1, AsksStay DEF ViewInv
<1> QED BY <1>4, <1>5, <1>6, <1>7 DEF ViewInv

\* A request that is answered or lost is under way no more.
LEMMA ForgetKeeps ==
    ASSUME ViewTypeOK, Grown, \A r \in ViewRequests : ReplyOK(r),
           NEW q \in ViewRequests, request' = [request EXCEPT ![q] = NoRequest]
    PROVE  /\ request' \in [ViewRequests -> Asked \cup {NoRequest}]
           /\ \A r \in ViewRequests : ReplyOK(r)'
<1>1. /\ request' \in [ViewRequests -> Asked \cup {NoRequest}]
      /\ request'[q] = NoRequest
      /\ \A r \in ViewRequests : r # q => request'[r] = request[r]
  BY DEF ViewTypeOK
<1>2. ASSUME NEW r \in ViewRequests PROVE ReplyOK(r)'
  <2>1. CASE r = q
    BY <1>1, <2>1 DEF ReplyOK
  <2>2. CASE r # q
    BY <1>1, <2>2, RepliesStay
  <2> QED BY <2>1, <2>2
<1> QED BY <1>1, <1>2

\* An answer is given after an observation was accepted, or without one.
LEMMA ServerAnswersKeeps ==
    ASSUME ViewInv, NEW q \in ViewRequests, ServerCreates(q) \/ ServerObserves(q)
    PROVE  ViewInv'
<1> DEFINE w == request[q].workspace
<1>1. /\ ViewTypeOK /\ request[q] # NoRequest
      /\ UNCHANGED <<view, generation, running>>
      /\ \A r \in ViewRequests : ReplyOK(r)
  BY DEF ViewInv, ServerCreates, ServerObserves, Pending
<1>2. w \in ViewedWorkspaces
  BY <1>1 DEF ViewTypeOK, Asked
<1>3. history[w] \in Seq(Marks)
  BY <1>1, <1>2 DEF ViewTypeOK
<1> DEFINE latest == ContextOf(history[w])
<1>4. latest \in Nat /\ (history[w] = <<>> => latest = 0)
  <2>1. Len(history[w]) \in 0 .. Len(history[w])
    BY <1>3
  <2>2. Till(history[w], Len(history[w])) = history[w]
    BY <1>3, <2>1, Moments
  <2>3. ContextOf(Till(history[w], Len(history[w]))) \in Nat
    BY <1>3, <2>1, ContextCounts
  <2>4. ASSUME history[w] = <<>> PROVE latest = 0
    <3>1. {i \in 1 .. Len(history[w]) : history[w][i].kind = "ACCEPTED"} = {}
      BY <2>4
    <3> QED BY <3>1, FS_EmptySet DEF ContextOf
  <2> QED BY <2>2, <2>3, <2>4
<1>5. \/ /\ \E offered \in BOOLEAN : PublishTo(w, "ACCEPTED", latest + 1, offered)
         /\ Answered(q, history'[w]) \/ Failed(q)
      \/ /\ UNCHANGED <<history, feed>>
         /\ Answered(q, history'[w])
  <2>1. CASE Accepts(q, latest + 1)
    <3>1. Captures(w) \subseteq BOOLEAN
      BY DEF Captures
    <3> QED BY <2>1, <3>1 DEF Accepts
  <2>2. CASE Answered(q, history[w]) /\ UNCHANGED <<history, feed>>
    BY <2>2
  <2>3. Accepts(q, latest + 1) \/ (Answered(q, history[w]) /\ UNCHANGED <<history, feed>>)
    <3>1. CASE ServerCreates(q)
      <4>1. CASE history[w] = <<>>
        <5>1. Accepts(q, 1) /\ latest + 1 = 1
          BY <1>4, <3>1, <4>1 DEF ServerCreates
        <5> QED BY <5>1
      <4>2. CASE history[w] # <<>>
        BY <3>1, <4>2 DEF ServerCreates
      <4> QED BY <4>1, <4>2
    <3>2. CASE ServerObserves(q)
      BY <3>2 DEF ServerObserves
    <3> QED BY <3>1, <3>2
  <2> QED BY <2>1, <2>2, <2>3
<1>6. /\ Grown
      /\ feed' \in [Generations -> Feeds]
      /\ \A v \in ViewedWorkspaces : MarksOK(history[v])'
      /\ \A g \in Generations : FeedOK(g)'
      /\ CurrentOK'
      /\ ShownOK'
  <2>1. CASE \E offered \in BOOLEAN : PublishTo(w, "ACCEPTED", latest + 1, offered)
    <3>1. "ACCEPTED" \in Kinds /\ latest + 1 \in Nat
      BY <1>4 DEF Kinds
    <3> QED BY <1>1, <1>2, <2>1, <3>1, PublishKeeps
  <2>2. CASE UNCHANGED <<history, feed>>
    <3>1. feed' \in [Generations -> Feeds]
      BY <1>1, <2>2 DEF ViewTypeOK
    <3> QED BY <1>1, <2>2, <3>1, RestStays
  <2> QED BY <1>5, <2>1, <2>2
<1>7. /\ request' \in [ViewRequests -> Asked \cup {NoRequest}]
      /\ \A r \in ViewRequests : ReplyOK(r)'
  <2>1. CASE Answered(q, history'[w])
    BY <1>1, <1>6, <2>1, AnswerIsSnapshot
  <2>2. CASE Failed(q)
    BY <1>1, <1>6, <2>2, ForgetKeeps DEF Failed
  <2> QED BY <1>5, <2>1, <2>2
<1>8. AsksOK'
  <2>1. \A r \in ViewRequests : request'[r] # NoRequest =>
          /\ request[r] # NoRequest
          /\ request'[r].op = request[r].op
          /\ request'[r].token = request[r].token
    <3>1. request[q] \in Asked /\ request \in [ViewRequests -> Asked \cup {NoRequest}]
      BY <1>1 DEF ViewTypeOK
    <3>2. CASE Answered(q, history'[w])
      <4> DEFINE answered == [request[q] EXCEPT !.reply = Snapshot(w, history'[w])]
      <4>1. answered.op = request[q].op /\ answered.token = request[q].token
        BY <3>1 DEF Asked
      <4>2. request' = [request EXCEPT ![q] = answered]
        BY <3>1, <3>2 DEF Answered
      <4> HIDE DEF answered
      <4>3. request'[q] = answered /\ \A r \in ViewRequests : r # q => request'[r] = request[r]
        BY <3>1, <4>2
      <4> QED BY <1>1, <4>1, <4>3
    <3>3. CASE Failed(q)
      BY <3>1, <3>3 DEF Failed
    <3> QED BY <1>5, <3>2, <3>3
  <2> QED BY <1>1, <2>1, AsksStay DEF ViewInv
<1>9. ViewTypeOK'
  BY <1>1, <1>6, <1>7 DEF ViewTypeOK, Grown
<1> QED BY <1>6, <1>7, <1>8, <1>9 DEF ViewInv

-----------------------------------------------------------------------------
(* The store.                                                              *)

LEMMA NothingIsView == Nothing \in Views /\ Nothing.workspace = NoWorkspace
<1>1. <<>> \in Seq(ShownEvents)
  BY EmptySeq
<1> QED BY <1>1 DEF Nothing, Views, SomeWorkspace

\* A request that is sent has no reply yet.
LEMMA SendKeeps ==
    ASSUME ViewTypeOK, Grown, \A r \in ViewRequests : ReplyOK(r),
           NEW q \in ViewRequests, NEW op \in {"CREATE", "OBSERVE"}, NEW token \in Generations,
           NEW w \in ViewedWorkspaces, Send(q, op, token, w)
    PROVE  /\ request' \in [ViewRequests -> Asked \cup {NoRequest}]
           /\ \A r \in ViewRequests : ReplyOK(r)'
<1> DEFINE asked == [op |-> op, token |-> token, workspace |-> w, reply |-> Nothing]
<1>1. asked \in Asked /\ asked.reply = Nothing
  BY NothingIsView DEF Asked
<1>2. request' = [request EXCEPT ![q] = asked]
  BY DEF Send
<1> HIDE DEF asked
<1>3. /\ request' \in [ViewRequests -> Asked \cup {NoRequest}]
      /\ request'[q] = asked
      /\ \A r \in ViewRequests : r # q => request'[r] = request[r]
  BY <1>1, <1>2 DEF ViewTypeOK
<1>4. ASSUME NEW r \in ViewRequests PROVE ReplyOK(r)'
  <2>1. CASE r = q
    BY <1>1, <1>3, <2>1 DEF ReplyOK
  <2>2. CASE r # q
    BY <1>3, <2>2, RepliesStay
  <2> QED BY <2>1, <2>2
<1> QED BY <1>3, <1>4

\* A new generation begins without a stream, and shows nothing.
LEMMA AbortKeeps ==
    ASSUME ViewInv, generation < MaxGeneration, generation' = generation + 1,
           feed' = Aborted, view' = Nothing, UNCHANGED history
    PROVE  /\ view' \in Views /\ generation' \in Generations
           /\ feed' \in [Generations -> Feeds]
           /\ \A v \in ViewedWorkspaces : MarksOK(history[v])'
           /\ \A g \in Generations : FeedOK(g)'
           /\ CurrentOK'
           /\ ShownOK'
<1> DEFINE f == feed[generation]
           phase == IF f.phase = "NONE" THEN f.phase ELSE "ABORTED"
           queue == IF f.queue = <<>> THEN f.queue ELSE <<Head(f.queue)>>
           old == [f EXCEPT !.phase = phase, !.subscribed = FALSE, !.queue = queue]
<1>1. /\ ViewTypeOK /\ CurrentOK /\ \A g \in Generations : FeedOK(g)
      /\ \A v \in ViewedWorkspaces : MarksOK(history[v])
  BY DEF ViewInv
<1>2. /\ generation \in Nat /\ MaxGeneration \in Nat /\ generation \in Generations
      /\ generation + 1 \in Generations /\ generation' > generation
  BY <1>1, ViewAssumption DEF ViewTypeOK, Generations
<1>3. feed \in [Generations -> Feeds] /\ f \in Feeds /\ f.queue \in Seq(Nat)
  BY <1>1, <1>2 DEF ViewTypeOK, Feeds
<1>4. f.queue # <<>> => Head(f.queue) = f.queue[1] /\ 1 \in 1 .. Len(f.queue) /\ f.queue[1] \in Nat
  BY <1>3
<1>5. queue \in Seq(Nat) /\ (f.queue # <<>> => Len(queue) = 1 /\ queue[1] = f.queue[1])
  BY <1>3, <1>4
<1>6. /\ old \in Feeds
      /\ old.phase = phase /\ ~old.subscribed /\ old.queue = queue
      /\ old.workspace = f.workspace /\ old.last = f.last
  <2>1. phase \in {"NONE", "CONNECTING", "OPEN", "ABORTED"} /\ FALSE \in BOOLEAN
    BY <1>3 DEF Feeds
  <2> HIDE DEF phase, queue
  <2> QED BY <1>3, <1>5, <2>1 DEF Feeds
<1>7. feed' = [feed EXCEPT ![generation] = old]
  BY <1>2, <1>3 DEF Aborted, Feeds
<1>8. /\ feed' \in [Generations -> Feeds]
      /\ feed'[generation] = old
      /\ \A g \in Generations : g # generation => feed'[g] = feed[g]
  <2> HIDE DEF old
  <2> QED BY <1>2, <1>3, <1>6, <1>7
<1>9. ASSUME NEW g \in Generations PROVE FeedOK(g)'
  <2>1. CASE g # generation
    BY <1>1, <1>8, <2>1, GrownBySame, FeedStays
  <2>2. CASE g = generation /\ f.phase = "NONE"
    <3>1. f.queue = <<>>
      BY <1>1, <1>2, <2>2 DEF FeedOK
    <3>2. old.phase = "NONE" /\ old.queue = <<>> /\ ~old.subscribed
      BY <1>6, <2>2, <3>1
    <3> HIDE DEF old
    <3> QED BY <1>8, <2>2, <3>2 DEF FeedOK
  <2>3. CASE g = generation /\ f.phase # "NONE"
    <3> DEFINE h == history[f.workspace]
    <3>1. f.workspace \in ViewedWorkspaces /\ Ascends(f, h)
      BY <1>1, <1>2, <2>3 DEF FeedOK
    <3>2. /\ f.last <= Len(h)
          /\ \A i \in 1 .. Len(queue) : queue[i] \in f.last + 1 .. Len(h)
          /\ \A i, j \in 1 .. Len(queue) : ~(i < j)
      <4>1. CASE f.queue = <<>>
        BY <3>1, <4>1 DEF Ascends
      <4>2. CASE f.queue # <<>>
        BY <1>4, <1>5, <3>1, <4>2 DEF Ascends
      <4> QED BY <4>1, <4>2
    <3>3. /\ old.phase = "ABORTED" /\ old.workspace = f.workspace
          /\ old.queue = queue /\ old.last = f.last
      BY <1>6, <2>3
    <3> HIDE DEF old, queue
    <3>4. Ascends(old, h)
      BY <3>2, <3>3 DEF Ascends
    <3>5. feed'[g] = old /\ history'[f.workspace] = h
      BY <1>8, <2>3
    <3> QED BY <3>1, <3>3, <3>4, <3>5 DEF FeedOK
  <2> QED BY <2>1, <2>2, <2>3
<1>10. feed'[generation'].phase = "NONE"
  BY <1>1, <1>2, <1>8 DEF CurrentOK
<1>11. CurrentOK'
  <2>1. ASSUME NEW g \in Generations, g > generation' PROVE feed'[g].phase = "NONE"
    <3>1. g > generation /\ g # generation
      BY <1>2, <2>1 DEF Generations
    <3> QED BY <1>1, <1>8, <3>1 DEF CurrentOK
  <2> QED BY <1>10, <2>1 DEF CurrentOK, FollowsOn
<1>12. ShownOK'
  BY <1>10, NothingIsView DEF ShownOK
<1>13. \A v \in ViewedWorkspaces : MarksOK(history[v])'
  BY <1>1
<1> QED BY <1>2, <1>8, <1>9, <1>11, <1>12, <1>13, NothingIsView

\* The requests of earlier generations ask for nothing in a new one.
LEMMA OldAsks ==
    ASSUME ViewInv, generation' = generation + 1, NEW q \in ViewRequests, request[q] # NoRequest
    PROVE  request[q].token < generation' /\ request[q].token <= generation'
<1>1. request[q] \in Asked /\ generation \in Generations /\ request[q].token <= generation
  BY DEF ViewInv, ViewTypeOK, AsksOK
<1>2. request[q].token \in Nat /\ generation \in Nat
  BY <1>1, ViewAssumption DEF Asked, Generations
<1> QED BY <1>1, <1>2

LEMMA InitializeKeeps ==
    ASSUME ViewInv, NEW q \in ViewRequests, NEW w \in ViewedWorkspaces, Initialize(q, w)
    PROVE  ViewInv'
<1>1. /\ ViewTypeOK /\ Grown /\ \A r \in ViewRequests : ReplyOK(r)
      /\ generation < MaxGeneration /\ generation' = generation + 1
      /\ feed' = Aborted /\ view' = Nothing /\ UNCHANGED history
  BY GrownBySame DEF ViewInv, Initialize
<1>2. /\ view' \in Views /\ generation' \in Generations
      /\ feed' \in [Generations -> Feeds]
      /\ \A v \in ViewedWorkspaces : MarksOK(history[v])'
      /\ \A g \in Generations : FeedOK(g)'
      /\ CurrentOK'
      /\ ShownOK'
  BY <1>1, AbortKeeps
<1>3. Send(q, "CREATE", generation + 1, w) /\ generation + 1 \in Generations
  BY <1>1, <1>2 DEF Initialize
<1>4. /\ request' \in [ViewRequests -> Asked \cup {NoRequest}]
      /\ \A r \in ViewRequests : ReplyOK(r)'
  BY <1>1, <1>3, SendKeeps
<1>5. AsksOK'
  <2> DEFINE asked == [op |-> "CREATE", token |-> generation', workspace |-> w, reply |-> Nothing]
  <2>1. /\ request' = [request EXCEPT ![q] = asked]
        /\ request \in [ViewRequests -> Asked \cup {NoRequest}]
    BY <1>1, <1>3 DEF Send, ViewTypeOK
  <2>2. asked.token = generation'
    OBVIOUS
  <2> HIDE DEF asked
  <2>3. request'[q] = asked /\ \A r \in ViewRequests : r # q => request'[r] = request[r]
    BY <2>1
  <2>4. generation' <= generation' /\ generation' \in Nat
    BY <1>2, ViewAssumption DEF Generations
  <2>5. ASSUME NEW r \in ViewRequests, request'[r] # NoRequest
        PROVE  request'[r].token <= generation' /\ (r # q => request'[r].token # generation')
    <3>1. CASE r = q
      BY <2>2, <2>3, <2>4, <3>1
    <3>2. CASE r # q
      <4>1. request'[r] = request[r] /\ request[r] # NoRequest
        BY <2>3, <2>5, <3>2
      <4>2. request[r].token < generation' /\ request[r].token <= generation'
        BY <1>1, <4>1, OldAsks
      <4>3. request[r].token \in Nat
        <5>1. request[r] \in Asked
          BY <2>1, <4>1
        <5> QED BY <5>1, ViewAssumption DEF Asked, Generations
      <4> QED BY <2>4, <4>1, <4>2, <4>3
    <3> QED BY <3>1, <3>2
  <2>6. \A r \in ViewRequests : Creates(r)' => r = q
    BY <2>5 DEF Creates
  <2>7. view'.workspace = NoWorkspace
    BY <1>1, NothingIsView
  <2> QED BY <2>5, <2>6, <2>7 DEF AsksOK
<1> QED BY <1>1, <1>2, <1>4, <1>5 DEF ViewInv, ViewTypeOK, Grown

LEMMA StopViewKeeps == ASSUME ViewInv, StopView PROVE ViewInv'
<1>1. /\ ViewTypeOK /\ Grown /\ \A r \in ViewRequests : ReplyOK(r)
      /\ generation < MaxGeneration /\ generation' = generation + 1
      /\ feed' = Aborted /\ view' = Nothing /\ UNCHANGED <<history, request>>
  BY GrownBySame DEF ViewInv, StopView
<1>2. /\ view' \in Views /\ generation' \in Generations
      /\ feed' \in [Generations -> Feeds]
      /\ \A v \in ViewedWorkspaces : MarksOK(history[v])'
      /\ \A g \in Generations : FeedOK(g)'
      /\ CurrentOK'
      /\ ShownOK'
  BY <1>1, AbortKeeps
<1>3. \A r \in ViewRequests : ReplyOK(r)'
  BY <1>1, RepliesStay
<1>4. AsksOK'
  <2>1. ASSUME NEW r \in ViewRequests, request[r] # NoRequest
        PROVE  request[r].token <= generation' /\ request[r].token # generation'
    <3>1. request[r].token < generation' /\ request[r].token <= generation'
      BY <1>1, <2>1, OldAsks
    <3>2. request[r].token \in Nat /\ generation' \in Nat
      <4>1. request[r] \in Asked
        BY <1>1, <2>1 DEF ViewTypeOK
      <4> QED BY <1>2, <4>1, ViewAssumption DEF Asked, Generations
    <3> QED BY <3>1, <3>2
  <2>2. \A r \in ViewRequests : ~(Creates(r)')
    BY <1>1, <2>1 DEF Creates
  <2> QED BY <1>1, <2>1, <2>2 DEF AsksOK
<1> QED BY <1>1, <1>2, <1>3, <1>4 DEF ViewInv, ViewTypeOK, Grown

LEMMA AskToObserveKeeps ==
    ASSUME ViewInv, NEW q \in ViewRequests, AskToObserve(q) PROVE ViewInv'
<1>1. /\ ViewTypeOK /\ Grown /\ AsksOK /\ \A r \in ViewRequests : ReplyOK(r)
      /\ \A v \in ViewedWorkspaces : MarksOK(history[v])'
      /\ \A g \in Generations : FeedOK(g)'
      /\ CurrentOK' /\ ShownOK'
      /\ UNCHANGED <<history, view, generation, running, feed>>
  BY RestStays DEF ViewInv, AskToObserve
<1>2. /\ view.workspace \in ViewedWorkspaces /\ view.workspace # NoWorkspace
      /\ generation \in Generations
  BY <1>1 DEF AskToObserve, ViewTypeOK, Views, SomeWorkspace
<1>3. Send(q, "OBSERVE", generation, view.workspace)
  BY DEF AskToObserve
<1>4. /\ request' \in [ViewRequests -> Asked \cup {NoRequest}]
      /\ \A r \in ViewRequests : ReplyOK(r)'
  BY <1>1, <1>2, <1>3, SendKeeps
<1>5. AsksOK'
  <2> DEFINE asked == [op |-> "OBSERVE", token |-> generation,
                       workspace |-> view.workspace, reply |-> Nothing]
  <2>1. /\ request' = [request EXCEPT ![q] = asked]
        /\ request \in [ViewRequests -> Asked \cup {NoRequest}]
    BY <1>1, <1>3 DEF Send, ViewTypeOK
  <2>2. asked.token = generation /\ asked.op # "CREATE" /\ generation <= generation
    BY <1>2 DEF Generations
  <2> HIDE DEF asked
  <2>3. request'[q] = asked /\ \A r \in ViewRequests : r # q => request'[r] = request[r]
    BY <2>1
  <2>4. \A r \in ViewRequests : Creates(r)' => Creates(r)
    BY <1>1, <2>2, <2>3 DEF Creates
  <2>5. \A r \in ViewRequests : request'[r] # NoRequest => request'[r].token <= generation
    BY <1>1, <2>2, <2>3 DEF AsksOK
  <2> QED BY <1>1, <2>4, <2>5 DEF AsksOK
<1> QED BY <1>1, <1>4, <1>5 DEF ViewInv, ViewTypeOK

LEMMA RequestLostKeeps ==
    ASSUME ViewInv, NEW q \in ViewRequests, RequestLost(q) PROVE ViewInv'
<1>1. /\ ViewTypeOK /\ Grown /\ \A r \in ViewRequests : ReplyOK(r)
      /\ \A v \in ViewedWorkspaces : MarksOK(history[v])'
      /\ \A g \in Generations : FeedOK(g)'
      /\ CurrentOK' /\ ShownOK'
      /\ UNCHANGED <<history, view, generation, running, feed>>
      /\ request' = [request EXCEPT ![q] = NoRequest]
  BY RestStays DEF ViewInv, RequestLost, Failed
<1>2. /\ request' \in [ViewRequests -> Asked \cup {NoRequest}]
      /\ \A r \in ViewRequests : ReplyOK(r)'
  BY <1>1, ForgetKeeps
<1>3. AsksOK'
  <2>1. \A r \in ViewRequests : request'[r] # NoRequest => request'[r] = request[r]
    BY <1>1 DEF ViewTypeOK
  <2> QED BY <1>1, <2>1, AsksStay DEF ViewInv
<1> QED BY <1>1, <1>2, <1>3 DEF ViewInv, ViewTypeOK

\* Who shows the first events of a history shows them without a hole.
LEMMA PrefixIsTrail ==
    ASSUME NEW w \in ViewedWorkspaces, NEW h \in Seq(Marks), MarksOK(h), NEW m \in 0 .. Len(h),
           NEW v \in Views, v.workspace = w, ShowsFirst(v, h, m), NEW last \in Nat
    PROVE  Len(v.events) = m /\ Trail(v, h, last)
<1>1. /\ m \in Nat /\ Len(h) \in Nat /\ m <= Len(h)
      /\ \A i \in 1 .. m : i \in 1 .. Len(h) /\ i \in 0 .. Len(h) /\ i <= m
  BY LenProperties
<1>2. v.events = Row(w, m) /\ v.context = ContextOf(Till(h, m)) /\ v.working = AtWork(Till(h, m))
  BY DEF ShowsFirst
<1>3. Len(v.events) = m /\ \A i \in 1 .. m : v.events[i] = Event(w, i)
  BY <1>1, <1>2, Rows
<1>4. \A i \in 1 .. m : v.events[i].workspace = w /\ v.events[i].sequence = i
  <2>1. \A i \in 1 .. m : Event(w, i).workspace = w /\ Event(w, i).sequence = i
    BY DEF Event
  <2> QED BY <1>3, <2>1
<1>5. Shown(v, h) = Till(h, m)
  <2>1. Till(h, m) \in Seq(Marks) /\ Len(Till(h, m)) = m /\ \A i \in 1 .. m : Till(h, m)[i] = h[i]
    BY Moments
  <2>2. Shown(v, h) = [i \in 1 .. m |-> h[i]]
    BY <1>3, <1>4 DEF Shown
  <2>3. \A i \in 1 .. m : h[i] \in Marks
    BY <1>1
  <2>4. [i \in 1 .. m |-> h[i]] \in Seq(Marks) /\ Len([i \in 1 .. m |-> h[i]]) = m
    BY <1>1, <2>3
  <2> QED BY <2>1, <2>2, <2>4, SeqEqual
<1>6. ASSUME NEW i \in 1 .. m PROVE h[i].context <= v.context
  <2>1. h[i].context <= ContextOf(Till(h, i))
    <3>1. CASE h[i].kind = "ACCEPTED"
      <4>1. h[i].context = ContextOf(Till(h, i)) /\ ContextOf(Till(h, i)) \in Nat
        BY <1>1, <3>1, ContextCounts DEF MarksOK
      <4> QED BY <4>1
    <3>2. CASE h[i].kind # "ACCEPTED"
      BY <1>1, <3>2 DEF MarksOK
    <3> QED BY <3>1, <3>2
  <2>2. ContextOf(Till(h, i)) <= ContextOf(Till(h, m))
    BY <1>1, ContextGrows
  <2>3. h[i].context \in Nat /\ ContextOf(Till(h, i)) \in Nat /\ ContextOf(Till(h, m)) \in Nat
    <3>1. h[i] \in Marks
      BY <1>1
    <3>2. ContextOf(Till(h, i)) \in Nat /\ ContextOf(Till(h, m)) \in Nat
      BY <1>1, ContextCounts
    <3> QED BY <3>1, <3>2 DEF Marks
  <2> QED BY <1>2, <2>1, <2>2, <2>3
<1>7. /\ \A i \in 1 .. m : v.events[i].sequence \in i .. Len(h)
      /\ \A i \in 1 .. m : \A j \in 1 .. i : v.events[j].sequence = j
      /\ \A i, j \in 1 .. m : i < j => v.events[i].sequence < v.events[j].sequence
      /\ \A i \in 1 .. m : h[v.events[i].sequence].context <= v.context
  BY <1>1, <1>4, <1>6
<1> QED BY <1>2, <1>3, <1>4, <1>5, <1>7 DEF Trail

\* A snapshot is taken or is no newer than what is shown: either way the view
\* follows the history as it did.
LEMMA SnapshotShown ==
    ASSUME ViewInv, NEW w \in ViewedWorkspaces, NEW m \in 0 .. Len(history[w]), NEW last \in Nat,
           view.workspace = w => Follows(view, history[w], last),
           view.workspace = w \/ last = 0,
           ApplySnapshot(Snapshot(w, Till(history[w], m))), UNCHANGED history
    PROVE  /\ view' \in Views
           /\ view'.workspace = w
           /\ Follows(view', history[w], last)
<1> DEFINE h == history[w]
           s == Snapshot(w, Till(h, m))
           n == Len(view.events)
<1>1. h \in Seq(Marks) /\ MarksOK(h) /\ view \in Views
  BY DEF ViewInv, ViewTypeOK
<1>2. Len(h) \in Nat /\ m \in Nat /\ m <= Len(h) /\ Recents \in Nat /\ n \in Nat
  <2>1. Len(h) \in Nat
    BY <1>1, LenProperties
  <2>2. view.events \in Seq(ShownEvents)
    BY <1>1 DEF Views
  <2> QED BY <2>1, <2>2, LenProperties, ViewAssumption
<1>3. /\ s \in Views
      /\ s.workspace = w
      /\ s.context = ContextOf(Till(h, m))
      /\ s.working = AtWork(Till(h, m))
      /\ m <= Recents => s.events = Row(w, m)
  BY <1>1, Snapshots
<1> HIDE DEF s
<1>4. view' = IF IsOlder(s) THEN view ELSE s
  BY DEF ApplySnapshot, s
<1>5. IsOlder(s) => view.workspace = w
  BY <1>3 DEF IsOlder
<1>6. view' \in Views /\ view'.workspace = w
  BY <1>1, <1>3, <1>4, <1>5
<1>7. CASE IsOlder(s)
  <2>1. view' = view /\ view.workspace = w
    BY <1>4, <1>5, <1>7
  <2> QED BY <1>6, <2>1
<1>8. CASE ~IsOlder(s)
  <2>1. view' = s
    BY <1>4, <1>8
  <2> HIDE DEF h
  <2> SUFFICES ASSUME Len(h) <= Recents
               PROVE  Trail(s, h, last) /\ (Whole(h) => Prefix(s, h, last))
    BY <1>6, <2>1 DEF Follows, h
  <2>2. m <= Recents /\ s.events = Row(w, m) /\ Len(s.events) = m /\ Highest(s.events) = m
    <3>1. m <= Recents
      BY <1>2
    <3>2. Len(Row(w, m)) = m /\ Highest(Row(w, m)) = m
      BY <1>2, Rows
    <3> QED BY <1>3, <3>1, <3>2
  <2>3. ShowsFirst(s, h, m)
    BY <1>3, <2>2 DEF ShowsFirst
  <2>4. Trail(s, h, last)
    BY <1>1, <1>3, <2>3, PrefixIsTrail DEF h
  <2>5. ASSUME Whole(h), view.workspace = w PROVE last <= m
    <3>1. Prefix(view, h, last)
      BY <2>5 DEF Follows, h
    <3>2. /\ n <= Len(h) /\ last <= n
          /\ view.events = Row(w, n)
          /\ view.context = ContextOf(Till(h, n))
      BY <2>5, <3>1 DEF Prefix, ShowsFirst
    <3>3. Highest(LastOf(view.events, Recents)) = n
      <4>1. view.events \in Seq(ShownEvents) /\ n <= Recents
        BY <1>1, <1>2, <3>2 DEF Views
      <4>2. LastOf(view.events, Recents) = view.events
        BY <1>2, <4>1, LastOfProperties
      <4>3. Highest(Row(w, n)) = n
        BY <1>2, Rows
      <4> QED BY <3>2, <4>2, <4>3
    <3>4. /\ ~(s.context < view.context)
          /\ s.context = view.context => ~(m < n)
      BY <1>3, <1>8, <2>2, <2>5, <3>3 DEF IsOlder
    <3>5. n \in 0 .. Len(h) /\ m \in 0 .. Len(h)
      BY <1>2, <3>2
    <3>6. view.context \in Nat /\ s.context \in Nat
      BY <1>1, <1>3 DEF Views
    <3>7. m <= n => s.context <= view.context
      BY <1>1, <1>3, <3>2, <3>5, ContextGrows DEF h
    <3>8. n <= m
      BY <1>2, <3>4, <3>6, <3>7
    <3> QED BY <1>2, <3>2, <3>8
  <2>6. ASSUME Whole(h) PROVE Prefix(s, h, last)
    <3>1. last <= m
      BY <1>2, <2>5, <2>6
    <3> QED BY <1>2, <2>2, <2>3, <3>1 DEF Prefix
  <2> QED BY <2>4, <2>6
<1> QED BY <1>6, <1>7, <1>8

\* One stream changes, and brings events there are.
LEMMA OneFeed ==
    ASSUME ViewInv, NEW g \in Generations, NEW new \in Feeds, new.phase # "NONE",
           feed' = [feed EXCEPT ![g] = new], UNCHANGED <<history, generation>>,
           g <= generation,
           new.workspace \in ViewedWorkspaces,
           Ascends(new, history[new.workspace]),
           g = generation => new.phase # "ABORTED" /\ FollowsOn(new, history[new.workspace])
    PROVE  /\ feed' \in [Generations -> Feeds]
           /\ feed'[g] = new
           /\ \A o \in Generations : o # g => feed'[o] = feed[o]
           /\ \A o \in Generations : FeedOK(o)'
           /\ CurrentOK'
<1>1. /\ ViewTypeOK /\ CurrentOK /\ feed \in [Generations -> Feeds]
      /\ generation \in Generations /\ \A o \in Generations : FeedOK(o)
  BY DEF ViewInv, ViewTypeOK
<1>2. /\ feed' \in [Generations -> Feeds]
      /\ feed'[g] = new
      /\ \A o \in Generations : o # g => feed'[o] = feed[o]
  BY <1>1
<1>3. ASSUME NEW o \in Generations PROVE FeedOK(o)'
  <2>1. CASE o = g
    BY <1>2, <2>1 DEF FeedOK
  <2>2. CASE o # g
    BY <1>1, <1>2, <2>2, GrownBySame, FeedStays
  <2> QED BY <2>1, <2>2
<1>4. CurrentOK'
  <2>1. ASSUME NEW o \in Generations, o > generation PROVE feed'[o].phase = "NONE"
    <3>1. o # g
      BY <1>1, <2>1 DEF Generations
    <3> QED BY <1>1, <1>2, <2>1, <3>1 DEF CurrentOK
  <2>2. CASE g = generation
    <3>1. feed'[generation'] = new
      BY <1>2, <2>2
    <3>2. FollowsOn(feed'[generation'], history'[feed'[generation'].workspace])
      BY <2>2, <3>1
    <3> QED BY <2>1, <2>2, <3>1, <3>2 DEF CurrentOK
  <2>3. CASE g # generation
    <3>1. feed'[generation'] = feed[generation]
      BY <1>1, <1>2, <2>3
    <3>2. FollowsOn(feed'[generation'], history'[feed'[generation'].workspace])
      BY <1>1, <3>1 DEF CurrentOK
    <3> QED BY <1>1, <2>1, <3>1, <3>2 DEF CurrentOK
  <2> QED BY <2>2, <2>3
<1> QED BY <1>2, <1>3, <1>4

LEMMA ReceiveKeeps ==
    ASSUME ViewInv, NEW q \in ViewRequests, Receive(q) PROVE ViewInv'
<1> DEFINE w == request[q].workspace
           created == [NoFeed EXCEPT !.phase = "CONNECTING", !.workspace = w]
<1>1. /\ ViewTypeOK /\ Grown /\ \A r \in ViewRequests : ReplyOK(r)
      /\ UNCHANGED <<history, generation, running>>
      /\ request' = [request EXCEPT ![q] = NoRequest]
      /\ request[q] # NoRequest /\ request[q].reply # Nothing
  BY GrownBySame DEF ViewInv, Receive
<1>2. /\ request' \in [ViewRequests -> Asked \cup {NoRequest}]
      /\ \A r \in ViewRequests : ReplyOK(r)'
  BY <1>1, ForgetKeeps
<1>3. request[q] \in Asked /\ w \in ViewedWorkspaces /\ w # NoWorkspace
  BY <1>1, ViewAssumption DEF ViewTypeOK, Asked
<1>4. /\ generation \in Generations /\ generation <= generation
      /\ feed \in [Generations -> Feeds] /\ feed[generation] \in Feeds
      /\ Len(history[w]) \in Nat
  <2>1. history[w] \in Seq(Marks)
    BY <1>1, <1>3 DEF ViewTypeOK
  <2>2. Len(history[w]) \in Nat
    BY <2>1, LenProperties
  <2> QED BY <1>1, <2>2 DEF ViewTypeOK, Generations
<1>5. \A r \in ViewRequests : request'[r] # NoRequest => r # q /\ request'[r] = request[r]
  BY <1>1 DEF ViewTypeOK
<1>6. CASE ~TakesReply(q)
  <2>1. UNCHANGED <<view, feed>>
    BY <1>6 DEF Receive
  <2>2. /\ \A v \in ViewedWorkspaces : MarksOK(history[v])'
        /\ \A g \in Generations : FeedOK(g)'
        /\ CurrentOK' /\ ShownOK'
    BY <1>1, <2>1, RestStays
  <2>3. AsksOK'
    BY <1>1, <1>5, <2>1, AsksStay DEF ViewInv
  <2> QED BY <1>1, <1>2, <2>1, <2>2, <2>3 DEF ViewInv, ViewTypeOK
<1>7. CASE TakesReply(q)
  <2>1. PICK m \in 0 .. Len(history[w]) : request[q].reply = Snapshot(w, Till(history[w], m))
    BY <1>1 DEF ReplyOK
  <2>2. ApplySnapshot(Snapshot(w, Till(history[w], m)))
    BY <1>7, <2>1 DEF Receive
  <2>3. \A v \in ViewedWorkspaces : MarksOK(history[v])'
    BY <1>1 DEF ViewInv
  <2>4. CASE request[q].op = "CREATE"
    <3>1. feed' = [feed EXCEPT ![generation] = created]
      BY <1>7, <2>4 DEF Receive
    <3>2. /\ created \in Feeds /\ created.phase = "CONNECTING" /\ created.workspace = w
          /\ created.queue = <<>> /\ created.last = 0 /\ created.subscribed = FALSE
      <4>1. <<>> \in Seq(Nat)
        BY EmptySeq
      <4> QED BY <1>3, <4>1 DEF NoFeed, Feeds, SomeWorkspace
    <3> HIDE DEF created
    <3>3. FollowsOn(created, history[w]) /\ Ascends(created, history[w])
      <4>1. 1 .. Len(created.queue) = {}
        BY <3>2
      <4> QED BY <1>4, <3>2, <4>1 DEF FollowsOn, Ascends
    <3>4. /\ feed' \in [Generations -> Feeds]
          /\ feed'[generation] = created
          /\ \A g \in Generations : FeedOK(g)'
          /\ CurrentOK'
      <4>1. created.phase # "NONE" /\ created.phase # "ABORTED"
        BY <3>2
      <4> QED BY <1>1, <1>3, <1>4, <3>1, <3>2, <3>3, <4>1, OneFeed
    <3>5. Creates(q) /\ view.workspace = NoWorkspace
      <4>1. Creates(q)
        BY <1>1, <1>7, <2>4 DEF Creates, TakesReply
      <4> QED BY <4>1 DEF ViewInv, AsksOK
    <3>6. /\ view' \in Views /\ view'.workspace = w
          /\ Follows(view', history[w], 0)
      BY <1>1, <1>3, <2>2, <3>5, SnapshotShown
    <3>7. ShownOK'
      BY <1>1, <3>2, <3>4, <3>6 DEF ShownOK
    <3>8. AsksOK'
      <4>1. \A r \in ViewRequests : Creates(r)' => Creates(r) /\ r # q
        BY <1>1, <1>5 DEF Creates
      <4>2. \A r \in ViewRequests : ~(Creates(r)')
        BY <3>5, <4>1 DEF ViewInv, AsksOK
      <4>3. \A r \in ViewRequests : request'[r] # NoRequest => request'[r].token <= generation'
        BY <1>1, <1>5 DEF ViewInv, AsksOK
      <4> QED BY <4>2, <4>3 DEF AsksOK
    <3> QED BY <1>1, <1>2, <2>3, <3>4, <3>6, <3>7, <3>8 DEF ViewInv, ViewTypeOK
  <2>5. CASE request[q].op # "CREATE"
    <3>1. feed' = feed
      BY <1>7, <2>5 DEF Receive
    <3>2. request[q].op = "OBSERVE" /\ view.workspace = w
      BY <1>3, <1>7, <2>5 DEF Asked, TakesReply
    <3>3. (\A g \in Generations : FeedOK(g)') /\ CurrentOK'
      BY <1>1, <3>1 DEF ViewInv, FeedOK, CurrentOK
    <3> DEFINE last == feed[generation].last
    <3>4. /\ feed[generation].phase # "NONE" => w = feed[generation].workspace
          /\ Follows(view, history[w], last)
          /\ last \in Nat
      BY <1>3, <1>4, <3>2 DEF ViewInv, ShownOK, Feeds
    <3> HIDE DEF last
    <3>5. view' \in Views /\ view'.workspace = w /\ Follows(view', history[w], last)
      BY <1>1, <1>3, <2>2, <3>2, <3>4, SnapshotShown
    <3>6. ShownOK'
      BY <1>1, <3>1, <3>4, <3>5 DEF ShownOK, last
    <3>7. AsksOK'
      BY <1>1, <1>5, <3>2, <3>5, AsksStay DEF ViewInv
    <3> QED BY <1>1, <1>2, <2>3, <3>1, <3>3, <3>5, <3>6, <3>7 DEF ViewInv, ViewTypeOK
  <2> QED BY <2>4, <2>5
<1> QED BY <1>6, <1>7

-----------------------------------------------------------------------------
(* The stream.                                                             *)

\* A stream that is there is of this generation or an earlier one, and its
\* workspace is one that is viewed.
LEMMA FeedFacts ==
    ASSUME ViewInv, NEW g \in Generations, feed[g].phase # "NONE"
    PROVE  /\ feed[g] \in Feeds /\ feed \in [Generations -> Feeds] /\ generation \in Generations
           /\ g <= generation
           /\ feed[g].workspace \in ViewedWorkspaces
           /\ feed[g].queue \in Seq(Nat) /\ feed[g].last \in Nat
           /\ Len(feed[g].queue) \in Nat
           /\ Len(history[feed[g].workspace]) \in Nat
<1>1. ViewTypeOK /\ CurrentOK /\ FeedOK(g)
  BY DEF ViewInv
<1>2. feed[g] \in Feeds /\ feed \in [Generations -> Feeds] /\ generation \in Generations
  BY <1>1 DEF ViewTypeOK
<1>3. g <= generation
  <2>1. ~(g > generation)
    BY <1>1 DEF CurrentOK
  <2> QED BY <1>2, <2>1 DEF Generations
<1>4. feed[g].workspace \in ViewedWorkspaces
  BY <1>1 DEF FeedOK
<1>5. feed[g].queue \in Seq(Nat) /\ feed[g].last \in Nat
  BY <1>2 DEF Feeds
<1>6. history[feed[g].workspace] \in Seq(Marks)
  BY <1>1, <1>4 DEF ViewTypeOK
<1>7. Len(feed[g].queue) \in Nat /\ Len(history[feed[g].workspace]) \in Nat
  BY <1>5, <1>6, LenProperties
<1> QED BY <1>2, <1>3, <1>4, <1>5, <1>7

\* What the server still has after an event, in its order: all of it, as long
\* as the history is short.
LEMMA Replays ==
    ASSUME NEW f \in Feeds, Len(history[f.workspace]) \in Nat
    PROVE  LET n == Len(history[f.workspace])
           IN  /\ Replay(f) \in Seq(Nat)
               /\ \A i \in 1 .. Len(Replay(f)) : Replay(f)[i] \in f.last + 1 .. n
               /\ \A i, j \in 1 .. Len(Replay(f)) : i < j => Replay(f)[i] < Replay(f)[j]
               /\ (n <= Recents /\ f.last <= n) =>
                    /\ f.last + Len(Replay(f)) = n
                    /\ \A i \in 1 .. Len(Replay(f)) : Replay(f)[i] = f.last + i
<1> DEFINE n == Len(history[f.workspace])
           first == IF f.last > n - StreamQueue THEN f.last ELSE n - StreamQueue
           row == [i \in 1 .. n - first |-> first + i]
<1>1. Replay(f) = row
  BY DEF Replay
<1>2. n \in Nat /\ f.last \in Nat /\ StreamQueue \in Nat /\ Recents \in Nat /\ StreamQueue >= Recents
  BY ViewAssumption DEF Feeds
<1> HIDE DEF n
<1>3. first \in Nat /\ first >= f.last
  BY <1>2
<1>4. n <= Recents => first = f.last
  BY <1>2
<1> HIDE DEF first
<1>5. CASE n >= first
  <2>1. n - first \in Nat /\ \A i \in 1 .. n - first : first + i \in Nat /\ first + i \in f.last + 1 .. n
    BY <1>2, <1>3, <1>5
  <2>2. row \in Seq(Nat) /\ Len(row) = n - first
    BY <2>1
  <2>3. \A i \in 1 .. Len(row) : row[i] = first + i
    BY <2>2
  <2> HIDE DEF row
  <2>4. (n <= Recents /\ f.last <= n) => f.last + Len(row) = n
    BY <1>2, <1>3, <1>4, <2>2
  <2>5. \A i, j \in 1 .. Len(row) : i < j => row[i] < row[j]
    BY <1>3, <2>1, <2>2, <2>3
  <2> QED BY <1>1, <1>4, <2>1, <2>2, <2>3, <2>4, <2>5 DEF n
<1>6. CASE n < first
  <2>1. 1 .. n - first = {} /\ 1 .. 0 = {}
    BY <1>2, <1>3, <1>6
  <2>2. row \in [1 .. 0 -> Nat]
    BY <2>1
  <2>3. row \in Seq(Nat) /\ Len(row) = 0
    <3> HIDE DEF row
    <3>1. row \in Seq(Nat)
      BY <2>2, SeqDef
    <3>2. Len(row) \in Nat /\ 1 .. Len(row) = 1 .. 0
      BY <2>2, <3>1, LenProperties
    <3>3. ~(Len(row) >= 1)
      <4>1. 1 \notin 1 .. 0
        OBVIOUS
      <4>2. Len(row) >= 1 => 1 \in 1 .. Len(row)
        BY <3>2
      <4> QED BY <3>2, <4>1, <4>2
    <3> QED BY <3>1, <3>2, <3>3
  <2>4. 1 .. Len(row) = {}
    BY <2>1, <2>3
  <2> HIDE DEF row
  <2>5. ~(n <= Recents /\ f.last <= n)
    BY <1>2, <1>3, <1>4, <1>6
  <2> QED BY <1>1, <2>3, <2>4, <2>5 DEF n
<1> QED BY <1>2, <1>3, <1>5, <1>6

LEMMA FeedConnectsKeeps ==
    ASSUME ViewInv, NEW g \in Generations, FeedConnects(g) PROVE ViewInv'
<1> DEFINE f == feed[g]
           h == history[f.workspace]
           new == [f EXCEPT !.phase = "OPEN", !.subscribed = TRUE, !.queue = Replay(f)]
<1>1. /\ ViewTypeOK /\ Grown /\ ShownOK /\ CurrentOK
      /\ \A q \in ViewRequests : ReplyOK(q)
      /\ \A v \in ViewedWorkspaces : MarksOK(history[v])
      /\ f.phase = "CONNECTING"
      /\ UNCHANGED <<history, view, generation, running, request>>
  BY GrownBySame DEF ViewInv, FeedConnects
<1>2. /\ f \in Feeds /\ feed \in [Generations -> Feeds] /\ generation \in Generations
      /\ g <= generation
      /\ f.workspace \in ViewedWorkspaces
      /\ f.queue \in Seq(Nat) /\ f.last \in Nat
      /\ Len(f.queue) \in Nat /\ Len(h) \in Nat
  BY <1>1, FeedFacts
<1>3. /\ Replay(f) \in Seq(Nat)
      /\ \A i \in 1 .. Len(Replay(f)) : Replay(f)[i] \in f.last + 1 .. Len(h)
      /\ \A i, j \in 1 .. Len(Replay(f)) : i < j => Replay(f)[i] < Replay(f)[j]
      /\ (Len(h) <= Recents /\ f.last <= Len(h)) =>
           /\ f.last + Len(Replay(f)) = Len(h)
           /\ \A i \in 1 .. Len(Replay(f)) : Replay(f)[i] = f.last + i
  BY <1>2, Replays
<1>4. /\ new \in Feeds
      /\ new.phase = "OPEN" /\ new.queue = Replay(f)
      /\ new.workspace = f.workspace /\ new.last = f.last
  BY <1>2, <1>3 DEF Feeds
<1>5. feed' = [feed EXCEPT ![g] = new]
  BY <1>2 DEF FeedConnects, Feeds
<1> HIDE DEF new
<1>6. Ascends(f, h) /\ Ascends(new, h)
  <2>1. Ascends(f, h)
    BY <1>1, <1>2 DEF ViewInv, FeedOK
  <2>2. f.last <= Len(h)
    BY <2>1 DEF Ascends
  <2> QED BY <1>3, <1>4, <2>1, <2>2 DEF Ascends
<1>7. FollowsOn(new, h)
  <2> SUFFICES ASSUME Len(h) <= Recents
               PROVE  /\ \A i \in 1 .. Len(new.queue) : new.queue[i] = new.last + i
                      /\ new.last + Len(new.queue) = Len(h)
    BY <1>2, <1>4 DEF FollowsOn
  <2>1. f.last <= Len(h)
    BY <1>6 DEF Ascends
  <2> QED BY <1>3, <1>4, <2>1
<1>8. /\ feed' \in [Generations -> Feeds]
      /\ feed'[g] = new
      /\ \A o \in Generations : o # g => feed'[o] = feed[o]
      /\ \A o \in Generations : FeedOK(o)'
      /\ CurrentOK'
  <2>1. Ascends(new, history[new.workspace]) /\ FollowsOn(new, history[new.workspace])
    BY <1>4, <1>6, <1>7
  <2>2. new.phase # "NONE" /\ new.phase # "ABORTED"
    BY <1>4
  <2> QED BY <1>1, <1>2, <1>4, <1>5, <2>1, <2>2, OneFeed
<1>9. ShownOK'
  <2>1. /\ feed'[generation].phase # "NONE" => feed[generation].phase # "NONE"
        /\ feed'[generation].workspace = feed[generation].workspace
        /\ feed'[generation].last = feed[generation].last
    BY <1>1, <1>2, <1>4, <1>8
  <2> QED BY <1>1, <2>1, ShownStays
<1>10. /\ \A q \in ViewRequests : ReplyOK(q)'
       /\ \A v \in ViewedWorkspaces : MarksOK(history[v])'
       /\ AsksOK'
  BY <1>1, RepliesStay, AsksStay DEF ViewInv
<1> QED BY <1>1, <1>8, <1>9, <1>10 DEF ViewInv, ViewTypeOK

LEMMA FeedBreaksKeeps ==
    ASSUME ViewInv, NEW g \in Generations, FeedBreaks(g) PROVE ViewInv'
<1> DEFINE f == feed[g]
           h == history[f.workspace]
           new == [f EXCEPT !.phase = "CONNECTING", !.subscribed = FALSE, !.queue = <<>>]
<1>1. /\ ViewTypeOK /\ Grown /\ ShownOK /\ CurrentOK
      /\ \A q \in ViewRequests : ReplyOK(q)
      /\ \A v \in ViewedWorkspaces : MarksOK(history[v])
      /\ f.phase = "OPEN"
      /\ UNCHANGED <<history, view, generation, running, request>>
  BY GrownBySame DEF ViewInv, FeedBreaks
<1>2. /\ f \in Feeds /\ feed \in [Generations -> Feeds] /\ generation \in Generations
      /\ g <= generation
      /\ f.workspace \in ViewedWorkspaces
      /\ f.queue \in Seq(Nat) /\ f.last \in Nat
      /\ Len(f.queue) \in Nat /\ Len(h) \in Nat
  BY <1>1, FeedFacts
<1>3. <<>> \in Seq(Nat) /\ 1 .. Len(<<>>) = {} /\ Len(<<>>) = 0
  BY EmptySeq
<1>4. /\ new \in Feeds
      /\ new.phase = "CONNECTING" /\ new.queue = <<>> /\ ~new.subscribed
      /\ new.workspace = f.workspace /\ new.last = f.last
  BY <1>2, <1>3 DEF Feeds
<1>5. feed' = [feed EXCEPT ![g] = new]
  BY <1>2 DEF FeedBreaks, Feeds
<1> HIDE DEF new
<1>6. Ascends(new, h)
  <2>1. f.last <= Len(h)
    BY <1>1, <1>2 DEF ViewInv, FeedOK, Ascends
  <2> QED BY <1>3, <1>4, <2>1 DEF Ascends
<1>7. FollowsOn(new, h)
  <2>1. new.last <= Len(h) /\ new.last + Len(new.queue) = new.last
    BY <1>2, <1>3, <1>4, <1>6 DEF Ascends
  <2> QED BY <1>3, <1>4, <2>1 DEF FollowsOn
<1>8. /\ feed' \in [Generations -> Feeds]
      /\ feed'[g] = new
      /\ \A o \in Generations : o # g => feed'[o] = feed[o]
      /\ \A o \in Generations : FeedOK(o)'
      /\ CurrentOK'
  <2>1. Ascends(new, history[new.workspace]) /\ FollowsOn(new, history[new.workspace])
    BY <1>4, <1>6, <1>7
  <2>2. new.phase # "NONE" /\ new.phase # "ABORTED"
    BY <1>4
  <2> QED BY <1>1, <1>2, <1>4, <1>5, <2>1, <2>2, OneFeed
<1>9. ShownOK'
  <2>1. /\ feed'[generation].phase # "NONE" => feed[generation].phase # "NONE"
        /\ feed'[generation].workspace = feed[generation].workspace
        /\ feed'[generation].last = feed[generation].last
    BY <1>1, <1>2, <1>4, <1>8
  <2> QED BY <1>1, <2>1, ShownStays
<1>10. /\ \A q \in ViewRequests : ReplyOK(q)'
       /\ \A v \in ViewedWorkspaces : MarksOK(history[v])'
       /\ AsksOK'
  BY <1>1, RepliesStay, AsksStay DEF ViewInv
<1> QED BY <1>1, <1>8, <1>9, <1>10 DEF ViewInv, ViewTypeOK

\* No event that is shown is later than one that is brought and not shown.
LEMMA NextIsLater ==
    ASSUME NEW h \in Seq(Marks), NEW v \in Views, NEW last \in Nat, Trail(v, h, last),
           NEW n \in last + 1 .. Len(h), \A i \in 1 .. Len(v.events) : v.events[i].sequence # n
    PROVE  /\ \A i \in 1 .. Len(v.events) : v.events[i].sequence < n
           /\ Len(v.events) + 1 <= n
<1> DEFINE k == Len(v.events)
<1>1. k \in Nat /\ n \in Nat /\ n > last /\ last \in Nat /\ Len(h) \in Nat
  <2>1. v.events \in Seq(ShownEvents)
    BY DEF Views
  <2> QED BY <2>1, LenProperties
<1>2. ASSUME NEW i \in 1 .. k PROVE v.events[i].sequence < n /\ v.events[i].sequence >= i
  <2>1. v.events[i].sequence \in i .. Len(h)
    BY DEF Trail
  <2>2. CASE v.events[i].sequence <= last
    BY <1>1, <2>1, <2>2
  <2>3. CASE \A j \in 1 .. i : v.events[j].sequence = j
    <3>1. v.events[i].sequence = i
      BY <2>3
    <3>2. n <= i => n \in 1 .. i /\ n \in 1 .. k
      BY <1>1
    <3>3. ~(n <= i)
      BY <2>3, <3>2
    <3> QED BY <1>1, <3>1, <3>3
  <2> QED BY <2>2, <2>3 DEF Trail
<1>3. k + 1 <= n
  <2>1. CASE k = 0
    BY <1>1, <2>1
  <2>2. CASE k # 0
    <3>1. k \in 1 .. k
      BY <1>1, <2>2
    <3>2. v.events[k].sequence \in k .. Len(h)
      BY <3>1 DEF Trail
    <3>3. v.events[k].sequence < n
      BY <1>2, <3>1
    <3> QED BY <1>1, <3>2, <3>3
  <2> QED BY <2>1, <2>2
<1> QED BY <1>2, <1>3

\* It is shown behind them.
LEMMA NextIsTrail ==
    ASSUME NEW h \in Seq(Marks), NEW v \in Views, NEW u \in Views, NEW last \in Nat,
           Trail(v, h, last),
           NEW n \in last + 1 .. Len(h), \A i \in 1 .. Len(v.events) : v.events[i].sequence # n,
           u.workspace = v.workspace,
           u.events = Append(v.events, Event(v.workspace, n)),
           Event(v.workspace, n) \in ShownEvents,
           u.context = IF h[n].context > v.context THEN h[n].context ELSE v.context,
           u.working = IF h[n].kind = "STARTED" THEN TRUE
                       ELSE IF h[n].kind = "COMPLETED" THEN FALSE ELSE v.working
    PROVE  Trail(u, h, n)
<1> DEFINE k == Len(v.events)
           e == h[n]
<1>1. /\ v.events \in Seq(ShownEvents) /\ k \in Nat /\ Len(h) \in Nat /\ n \in Nat /\ n \in 1 .. Len(h)
      /\ e \in Marks
  <2>1. v.events \in Seq(ShownEvents)
    BY DEF Views
  <2> QED BY <2>1, LenProperties
<1>2. (\A i \in 1 .. k : v.events[i].sequence < n) /\ k + 1 <= n
  BY NextIsLater
<1>3. /\ Len(u.events) = k + 1
      /\ \A i \in 1 .. k : u.events[i] = v.events[i]
      /\ u.events[k + 1] = Event(v.workspace, n)
  BY <1>1, AppendProperties
<1>4. u.events[k + 1].workspace = v.workspace /\ u.events[k + 1].sequence = n
  <2>1. Event(v.workspace, n).workspace = v.workspace /\ Event(v.workspace, n).sequence = n
    BY DEF Event
  <2> QED BY <1>3, <2>1
<1>5. /\ e.context \in Nat /\ v.context \in Nat /\ u.context \in Nat
      /\ v.context <= u.context /\ e.context <= u.context
  <2>1. e.context \in Nat /\ v.context \in Nat
    BY <1>1 DEF Marks, Views
  <2> HIDE DEF e
  <2>2. u.context = IF e.context > v.context THEN e.context ELSE v.context
    BY DEF e
  <2> QED BY <2>1, <2>2
<1>6. ASSUME NEW i \in 1 .. k
      PROVE  /\ u.events[i].workspace = v.workspace
             /\ u.events[i].sequence \in i .. Len(h)
             /\ u.events[i].sequence < n
             /\ h[u.events[i].sequence] \in Marks
             /\ h[u.events[i].sequence].context <= u.context
  <2>1. u.events[i] = v.events[i]
    BY <1>3
  <2>2. /\ v.events[i].workspace = v.workspace
        /\ v.events[i].sequence \in i .. Len(h)
        /\ h[v.events[i].sequence].context <= v.context
    BY DEF Trail
  <2>3. h[v.events[i].sequence] \in Marks
    <3>1. v.events[i].sequence \in 1 .. Len(h)
      BY <1>1, <2>2
    <3> QED BY <3>1
  <2>4. h[v.events[i].sequence].context \in Nat
    BY <2>3 DEF Marks
  <2>5. h[v.events[i].sequence].context <= u.context
    <3>1. \A a, b, c \in Nat : a <= b /\ b <= c => a <= c
      OBVIOUS
    <3>2. /\ h[v.events[i].sequence].context \in Nat /\ v.context \in Nat /\ u.context \in Nat
          /\ h[v.events[i].sequence].context <= v.context /\ v.context <= u.context
      BY <1>5, <2>2, <2>4
    <3> QED BY <3>1, <3>2
  <2> QED BY <1>2, <2>1, <2>2, <2>3, <2>5
<1>7. ASSUME NEW i \in 1 .. k + 1
      PROVE  /\ u.events[i].workspace = u.workspace
             /\ u.events[i].sequence \in i .. Len(h)
             /\ h[u.events[i].sequence].context <= u.context
             /\ u.events[i].sequence <= n
  <2>1. CASE i = k + 1
    <3>1. n \in i .. Len(h) /\ n <= n
      BY <1>1, <1>2, <2>1
    <3> QED BY <1>4, <1>5, <2>1, <3>1
  <2>2. CASE i # k + 1
    <3>1. i \in 1 .. k
      BY <1>1, <2>2
    <3>2. /\ u.events[i].workspace = v.workspace
          /\ u.events[i].sequence \in i .. Len(h)
          /\ u.events[i].sequence < n
          /\ h[u.events[i].sequence].context <= u.context
      BY <1>6, <3>1
    <3> QED BY <1>1, <3>2
  <2> QED BY <2>1, <2>2
<1>8. ASSUME NEW i \in 1 .. k + 1, NEW j \in 1 .. k + 1, i < j
      PROVE  u.events[i].sequence < u.events[j].sequence
  <2>1. i \in 1 .. k
    BY <1>1, <1>8
  <2>2. CASE j = k + 1
    BY <1>4, <1>6, <2>1, <2>2
  <2>3. CASE j # k + 1
    <3>1. j \in 1 .. k
      BY <1>1, <2>3
    <3>2. v.events[i].sequence < v.events[j].sequence
      BY <1>8, <2>1, <3>1 DEF Trail
    <3> QED BY <1>3, <2>1, <3>1, <3>2
  <2> QED BY <2>2, <2>3
<1>9. u.working = AtWork(Shown(u, h))
  <2> DEFINE old == Shown(v, h)
             new == Shown(u, h)
  <2>1. old \in Seq(Marks) /\ Len(old) = k
    <3>1. old = [i \in 1 .. k |-> h[v.events[i].sequence]]
      BY DEF Shown
    <3>2. \A i \in 1 .. k : h[v.events[i].sequence] \in Marks
      BY <1>3, <1>6
    <3> QED BY <1>1, <3>1, <3>2
  <2>2. new = Append(old, e)
    <3>1. Append(old, e) \in Seq(Marks) /\ Len(Append(old, e)) = k + 1
      BY <1>1, <2>1
    <3>2. new = [i \in 1 .. k + 1 |-> h[u.events[i].sequence]]
      BY <1>3 DEF Shown
    <3>3. \A i \in 1 .. k + 1 : h[u.events[i].sequence] \in Marks
      <4>1. ASSUME NEW i \in 1 .. k + 1 PROVE h[u.events[i].sequence] \in Marks
        <5>1. u.events[i].sequence \in 1 .. Len(h)
          BY <1>1, <1>7
        <5> QED BY <5>1
      <4> QED BY <4>1
    <3>4. /\ new \in Seq(Marks) /\ Len(new) = k + 1
          /\ \A i \in 1 .. k + 1 : new[i] = h[u.events[i].sequence]
      BY <1>1, <3>2, <3>3
    <3>5. \A i \in 1 .. k : old[i] = h[v.events[i].sequence]
      BY DEF Shown
    <3> HIDE DEF old, new
    <3>6. ASSUME NEW i \in 1 .. k + 1 PROVE new[i] = Append(old, e)[i]
      <4>1. CASE i = k + 1
        <5>1. new[i] = e
          BY <1>4, <3>4, <4>1
        <5>2. Append(old, e)[k + 1] = e
          BY <1>1, <2>1, AppendProperties
        <5> QED BY <4>1, <5>1, <5>2
      <4>2. CASE i # k + 1
        <5>1. i \in 1 .. k
          BY <1>1, <4>2
        <5>2. Append(old, e)[i] = old[i]
          BY <1>1, <2>1, <5>1, AppendProperties
        <5> QED BY <1>3, <3>4, <3>5, <5>1, <5>2
      <4> QED BY <4>1, <4>2
    <3> QED BY <3>1, <3>4, <3>6, SeqEqual
  <2> HIDE DEF old, new
  <2>3. /\ new \in Seq(Marks) /\ Len(new) = k + 1 /\ new[k + 1] = e
        /\ k + 1 \in 1 .. Len(new) /\ k \in 0 .. Len(old) /\ k + 1 - 1 = k
    BY <1>1, <2>1, <2>2
  <2>4. Till(new, k + 1) = new /\ Till(new, k) = old
    <3>1. Till(new, Len(new)) = new
      BY <1>1, <2>3, Moments
    <3>2. Till(Append(old, e), k) = Till(old, k)
      BY <1>1, <2>1, <2>3, MomentsStay
    <3>3. Till(old, Len(old)) = old
      BY <2>1, <2>3, Moments
    <3> QED BY <2>1, <2>2, <2>3, <3>1, <3>2, <3>3
  <2>5. PICK m \in 1 .. Len(new) : m = k + 1 /\ m - 1 = k
    BY <2>3
  <2>6. AtWork(Till(new, m)) =
          IF new[m].kind = "STARTED" THEN TRUE
          ELSE IF new[m].kind = "COMPLETED" THEN FALSE ELSE AtWork(Till(new, m - 1))
    BY <2>3, WorkStep, Zenon
  <2>7. Till(new, m) = new /\ Till(new, m - 1) = old /\ new[m] = e
    BY <2>3, <2>4, <2>5
  <2>8. AtWork(new) = IF e.kind = "STARTED" THEN TRUE
                      ELSE IF e.kind = "COMPLETED" THEN FALSE ELSE AtWork(old)
    BY <2>6, <2>7, Zenon
  <2>9. v.working = AtWork(old)
    BY DEF Trail, old
  <2> QED BY <2>8, <2>9 DEF new
<1> QED BY <1>3, <1>7, <1>8, <1>9 DEF Trail

\* The next event of a short history is shown already, or comes to be shown
\* behind what is; if every event was offered it is the one after that.
LEMMA NextIsShown ==
    ASSUME ViewInv, NEW w \in ViewedWorkspaces, view.workspace = w, NEW last \in Nat,
           Follows(view, history[w], last),
           NEW n \in last + 1 .. Len(history[w]),
           (Len(history[w]) <= Recents /\ Whole(history[w])) => n = last + 1,
           ApplyEvent(w, n), UNCHANGED history
    PROVE  /\ view' \in Views
           /\ view'.workspace = w
           /\ Follows(view', history[w], n)
<1> DEFINE h == history[w]
           k == Len(view.events)
           e == h[n]
<1>1. h \in Seq(Marks) /\ view \in Views /\ view.events \in Seq(ShownEvents) /\ MarksOK(h)
  BY DEF ViewInv, ViewTypeOK, Views
<1>2. /\ Len(h) \in Nat /\ k \in Nat /\ n \in Nat /\ n \in 1 .. Len(h) /\ n > last
      /\ Recents \in Nat /\ Kept \in Nat /\ Recents <= Kept
      /\ e \in Marks
      /\ DOMAIN view.events = 1 .. k
  BY <1>1, LenProperties, ViewAssumption
<1>3. e.kind \in Kinds /\ e.context \in Nat /\ view.context \in Nat /\ view.working \in BOOLEAN
  BY <1>1, <1>2 DEF Marks, Views
<1> HIDE DEF h
<1>4. Len(h) <= Recents => Trail(view, h, last) /\ (Whole(h) => Prefix(view, h, last))
  BY DEF Follows, h
<1>5. CASE Shows(n)
  <2>1. view' = view
    BY <1>5 DEF ApplyEvent
  <2>2. Trail(view, h, last) => Trail(view, h, n)
    <3>1. \A i \in 1 .. k : view.events[i].sequence \in Nat
      <4>1. \A i \in 1 .. k : view.events[i] \in ShownEvents
        BY <1>1
      <4> QED BY <4>1 DEF ShownEvents
    <3>2. \A i \in 1 .. k : view.events[i].sequence <= last => view.events[i].sequence <= n
      BY <1>2, <3>1
    <3> QED BY <3>2 DEF Trail
  <2>3. ASSUME Prefix(view, h, last) PROVE Prefix(view, h, n)
    <3>1. ShowsFirst(view, h, k) /\ k <= Len(h)
      BY <2>3 DEF Prefix
    <3>2. view.events = Row(w, k)
      BY <3>1 DEF ShowsFirst
    <3>3. PICK i \in DOMAIN view.events : view.events[i].sequence = n
      BY <1>5 DEF Shows
    <3>4. i \in 1 .. k /\ view.events[i] = Event(w, i)
      <4>1. \A j \in 1 .. k : Row(w, k)[j] = Event(w, j)
        BY <1>2, Rows
      <4> QED BY <1>2, <3>2, <3>3, <4>1
    <3>5. i = n
      BY <3>3, <3>4 DEF Event
    <3>6. n <= k
      BY <1>2, <3>4, <3>5
    <3> QED BY <3>1, <3>6 DEF Prefix
  <2> QED BY <1>1, <1>4, <2>1, <2>2, <2>3 DEF Follows, h
<1>6. CASE ~Shows(n)
  <2> DEFINE events == LastOf(Append(view.events, Event(w, n)), Kept)
             context == IF e.context > view.context THEN e.context ELSE view.context
             working == IF e.kind = "STARTED" THEN TRUE
                        ELSE IF e.kind = "COMPLETED" THEN FALSE ELSE view.working
  <2>1. view' = [view EXCEPT !.events = events, !.context = context, !.working = working]
    BY <1>6 DEF ApplyEvent, h
  <2>2. Event(w, n) \in ShownEvents /\ Append(view.events, Event(w, n)) \in Seq(ShownEvents)
    BY <1>1, <1>2 DEF Event, ShownEvents
  <2>3. events \in Seq(ShownEvents)
    BY <1>2, <2>2, LastOfProperties
  <2>4. context \in Nat /\ working \in BOOLEAN
    BY <1>3
  <2>5. /\ view' \in Views /\ view'.workspace = w
        /\ view'.events = events /\ view'.context = context /\ view'.working = working
    <3> HIDE DEF events, context, working
    <3> QED BY <1>1, <2>1, <2>3, <2>4 DEF Views
  <2>6. \A i \in 1 .. k : view.events[i].sequence # n
    BY <1>2, <1>6 DEF Shows
  <2>7. ASSUME Len(h) <= Recents
        PROVE  Trail(view', h, n) /\ (Whole(h) => Prefix(view', h, n))
    <3>1. Trail(view, h, last)
      BY <1>4, <2>7
    <3>2. k + 1 <= n /\ n <= Len(h)
      BY <1>1, <1>2, <2>6, <3>1, NextIsLater DEF h
    <3>3. events = Append(view.events, Event(w, n))
      <4>1. Len(Append(view.events, Event(w, n))) = k + 1 /\ k + 1 <= Kept
        BY <1>1, <1>2, <2>2, <2>7, <3>2
      <4> QED BY <1>2, <2>2, <4>1, LastOfProperties
    <3>4. Trail(view', h, n)
      <4>1. n \in last + 1 .. Len(h)
        BY DEF h
      <4>2. view'.events = Append(view.events, Event(view.workspace, n))
        BY <2>5, <3>3
      <4> QED BY <1>1, <2>2, <2>5, <2>6, <3>1, <4>1, <4>2, NextIsTrail
    <3>5. ASSUME Whole(h) PROVE Prefix(view', h, n)
      <4>1. /\ k <= Len(h) /\ last <= k
            /\ view.events = Row(w, k)
            /\ view.context = ContextOf(Till(h, k))
            /\ view.working = AtWork(Till(h, k))
        BY <1>4, <2>7, <3>5 DEF Prefix, ShowsFirst
      <4>2. n = k + 1
        <5>1. n = last + 1
          BY <2>7, <3>5 DEF h
        <5> QED BY <1>2, <3>2, <4>1, <5>1
      <4>3. events = Row(w, n) /\ Len(Row(w, n)) = n
        BY <1>2, <3>3, <4>1, <4>2, Rows
      <4>4. n - 1 = k /\ k \in 0 .. Len(h) /\ n \in 0 .. Len(h)
        BY <1>2, <4>1, <4>2
      <4>5. context = ContextOf(Till(h, n))
        <5>1. ContextOf(Till(h, n)) = ContextOf(Till(h, k)) + IF e.kind = "ACCEPTED" THEN 1 ELSE 0
          BY <1>1, <1>2, <4>4, ContextStep
        <5>2. ContextOf(Till(h, k)) \in Nat /\ ContextOf(Till(h, n)) \in Nat
          BY <1>1, <4>4, ContextCounts
        <5>3. IF e.kind = "ACCEPTED" THEN e.context = ContextOf(Till(h, n))
                                     ELSE e.context <= ContextOf(Till(h, n))
          BY <1>1, <1>2 DEF MarksOK
        <5> HIDE DEF e
        <5>4. CASE e.kind = "ACCEPTED"
          BY <1>3, <4>1, <5>1, <5>2, <5>3, <5>4
        <5>5. CASE e.kind # "ACCEPTED"
          BY <1>3, <4>1, <5>1, <5>2, <5>3, <5>5
        <5> QED BY <5>4, <5>5
      <4>6. working = AtWork(Till(h, n))
        BY <1>1, <1>2, <4>1, <4>4, WorkStep
      <4> HIDE DEF events, context, working
      <4>7. view'.events = Row(w, n) /\ Len(view'.events) = n
        BY <2>5, <4>3
      <4>8. ShowsFirst(view', h, n)
        BY <2>5, <4>5, <4>6, <4>7 DEF ShowsFirst
      <4>9. n <= Len(h) /\ n <= n
        BY <1>2
      <4> QED BY <4>7, <4>8, <4>9 DEF Prefix
    <3> QED BY <3>4, <3>5
  <2> QED BY <2>5, <2>7 DEF Follows, h
<1> QED BY <1>5, <1>6

LEMMA FeedDeliversKeeps ==
    ASSUME ViewInv, NEW g \in Generations, FeedDelivers(g) PROVE ViewInv'
<1> DEFINE f == feed[g]
           w == f.workspace
           h == history[w]
           n == Head(f.queue)
           new == [f EXCEPT !.queue = Tail(f.queue), !.last = n]
<1>1. /\ ViewTypeOK /\ Grown /\ ShownOK /\ CurrentOK
      /\ \A q \in ViewRequests : ReplyOK(q)
      /\ \A v \in ViewedWorkspaces : MarksOK(history[v])
      /\ f.queue # <<>>
      /\ UNCHANGED <<history, generation, running, request>>
  BY GrownBySame DEF ViewInv, FeedDelivers
<1>2. f.phase # "NONE"
  BY <1>1 DEF ViewInv, FeedOK
<1>3. /\ f \in Feeds /\ feed \in [Generations -> Feeds] /\ generation \in Generations
      /\ g <= generation
      /\ w \in ViewedWorkspaces
      /\ f.queue \in Seq(Nat) /\ f.last \in Nat
      /\ Len(f.queue) \in Nat /\ Len(h) \in Nat
  BY <1>2, FeedFacts
<1>4. /\ Ascends(f, h)
      /\ \A i \in 1 .. Len(f.queue) : f.queue[i] \in f.last + 1 .. Len(h)
      /\ \A i, j \in 1 .. Len(f.queue) : i < j => f.queue[i] < f.queue[j]
  BY <1>2 DEF ViewInv, FeedOK, Ascends
<1>5. /\ 1 \in 1 .. Len(f.queue) /\ n = f.queue[1]
      /\ Tail(f.queue) \in Seq(Nat) /\ Len(Tail(f.queue)) = Len(f.queue) - 1
      /\ \A i \in 1 .. Len(Tail(f.queue)) :
           i + 1 \in 1 .. Len(f.queue) /\ Tail(f.queue)[i] = f.queue[i + 1]
  BY <1>1, <1>3
<1>6. n \in f.last + 1 .. Len(h) /\ n \in Nat /\ n <= Len(h)
  BY <1>3, <1>4, <1>5
<1>7. /\ new \in Feeds
      /\ new.phase = f.phase /\ new.workspace = w /\ new.subscribed = f.subscribed
      /\ new.queue = Tail(f.queue) /\ new.last = n
  BY <1>3, <1>5, <1>6 DEF Feeds
<1>8. feed' = [feed EXCEPT ![g] = new]
  BY <1>3 DEF FeedDelivers, Feeds
<1>9. (g = generation /\ Len(h) <= Recents /\ Whole(h)) =>
        /\ \A i \in 1 .. Len(f.queue) : f.queue[i] = f.last + i
        /\ f.last + Len(f.queue) <= Len(h)
        /\ f.subscribed => f.last + Len(f.queue) = Len(h)
  BY <1>1, <1>2 DEF CurrentOK, FollowsOn
<1> HIDE DEF new
<1>10. ASSUME g = generation PROVE FollowsOn(new, h)
  <2> SUFFICES ASSUME Len(h) <= Recents, Whole(h)
               PROVE  /\ \A i \in 1 .. Len(Tail(f.queue)) : Tail(f.queue)[i] = n + i
                      /\ n + Len(Tail(f.queue)) <= Len(h)
                      /\ f.subscribed => n + Len(Tail(f.queue)) = Len(h)
    BY <1>7 DEF FollowsOn
  <2>1. n = f.last + 1
    BY <1>5, <1>9, <1>10
  <2>2. n + Len(Tail(f.queue)) = f.last + Len(f.queue)
    <3>1. \A a, b \in Nat : (a + 1) + (b - 1) = a + b
      OBVIOUS
    <3>2. (f.last + 1) + (Len(f.queue) - 1) = f.last + Len(f.queue)
      BY <1>3, <3>1
    <3> QED BY <1>5, <2>1, <3>2
  <2>3. ASSUME NEW i \in 1 .. Len(Tail(f.queue)) PROVE Tail(f.queue)[i] = n + i
    <3>1. Tail(f.queue)[i] = f.last + (i + 1)
      BY <1>5, <1>9, <1>10
    <3>2. \A a, b \in Nat : a + (b + 1) = (a + 1) + b
      OBVIOUS
    <3>3. f.last + (i + 1) = (f.last + 1) + i
      BY <1>3, <3>2
    <3> QED BY <2>1, <3>1, <3>3
  <2> QED BY <1>9, <1>10, <2>2, <2>3
<1>11. Ascends(new, h)
  <2>1. ASSUME NEW i \in 1 .. Len(Tail(f.queue)) PROVE Tail(f.queue)[i] \in n + 1 .. Len(h)
    <3>1. i + 1 \in 1 .. Len(f.queue) /\ 1 < i + 1 /\ Tail(f.queue)[i] = f.queue[i + 1]
      BY <1>5
    <3>2. f.queue[1] < f.queue[i + 1] /\ f.queue[i + 1] \in f.last + 1 .. Len(h)
      BY <1>4, <1>5, <3>1
    <3> QED BY <1>3, <1>5, <1>6, <3>1, <3>2
  <2>2. ASSUME NEW i \in 1 .. Len(Tail(f.queue)), NEW j \in 1 .. Len(Tail(f.queue)), i < j
        PROVE  Tail(f.queue)[i] < Tail(f.queue)[j]
    <3>1. /\ i + 1 \in 1 .. Len(f.queue) /\ Tail(f.queue)[i] = f.queue[i + 1]
          /\ j + 1 \in 1 .. Len(f.queue) /\ Tail(f.queue)[j] = f.queue[j + 1]
      BY <1>5
    <3>2. i + 1 < j + 1
      BY <2>2
    <3> QED BY <1>4, <3>1, <3>2
  <2> QED BY <1>6, <1>7, <2>1, <2>2 DEF Ascends
<1>12. /\ feed' \in [Generations -> Feeds]
       /\ feed'[g] = new
       /\ \A o \in Generations : o # g => feed'[o] = feed[o]
       /\ \A o \in Generations : FeedOK(o)'
       /\ CurrentOK'
  <2>1. /\ Ascends(new, history[new.workspace])
        /\ g = generation => FollowsOn(new, history[new.workspace])
    BY <1>7, <1>10, <1>11
  <2>2. new.phase # "NONE" /\ (g = generation => new.phase # "ABORTED")
    BY <1>1, <1>2, <1>7 DEF CurrentOK
  <2> QED BY <1>1, <1>3, <1>7, <1>8, <2>1, <2>2, OneFeed
<1>13. /\ \A q \in ViewRequests : ReplyOK(q)'
       /\ \A v \in ViewedWorkspaces : MarksOK(history[v])'
  BY <1>1, RepliesStay
<1>14. CASE g # generation
  <2>1. view' = view
    BY <1>14 DEF FeedDelivers
  <2>2. feed'[generation] = feed[generation]
    BY <1>3, <1>12, <1>14
  <2>3. ShownOK' /\ AsksOK'
    BY <1>1, <2>1, <2>2, ShownStays, AsksStay DEF ViewInv
  <2> QED BY <1>1, <1>12, <1>13, <2>1, <2>3 DEF ViewInv, ViewTypeOK
<1>15. CASE g = generation
  <2>1. ApplyEvent(w, n)
    BY <1>15 DEF FeedDelivers
  <2>2. view.workspace = w /\ w # NoWorkspace
    BY <1>1, <1>2, <1>3, <1>15, ViewAssumption DEF ShownOK
  <2>3. Follows(view, h, f.last)
    BY <1>1, <1>15, <2>2 DEF ShownOK
  <2>4. (Len(h) <= Recents /\ Whole(h)) => n = f.last + 1
    BY <1>5, <1>9, <1>15
  <2>5. view' \in Views /\ view'.workspace = w /\ Follows(view', h, n)
    BY <1>1, <1>3, <1>6, <2>1, <2>2, <2>3, <2>4, NextIsShown
  <2>6. feed'[generation'].workspace = w /\ feed'[generation'].last = n
    BY <1>1, <1>7, <1>12, <1>15
  <2>7. ShownOK' /\ AsksOK'
    BY <1>1, <2>2, <2>5, <2>6, AsksStay DEF ViewInv, ShownOK
  <2> QED BY <1>1, <1>12, <1>13, <2>5, <2>7 DEF ViewInv, ViewTypeOK
<1> QED BY <1>14, <1>15

-----------------------------------------------------------------------------
(* Theorems.                                                               *)

LEMMA ViewInvInit == ViewInit => ViewInv
<1> SUFFICES ASSUME ViewInit PROVE ViewInv
  OBVIOUS
<1>1. /\ history = [w \in ViewedWorkspaces |-> <<>>]
      /\ view = Nothing /\ generation = 0
      /\ request = [q \in ViewRequests |-> NoRequest]
      /\ feed = [g \in Generations |-> NoFeed]
  BY DEF ViewInit
<1>2. <<>> \in Seq(Marks) /\ <<>> \in Seq(Nat) /\ Len(<<>>) = 0 /\ 1 .. 0 = {}
  BY EmptySeq
<1>3. 0 \in Generations
  BY ViewAssumption DEF Generations
<1>4. NoFeed \in Feeds
  BY <1>2 DEF NoFeed, Feeds, SomeWorkspace
<1>5. ViewTypeOK
  BY <1>1, <1>2, <1>3, <1>4, NothingIsView DEF ViewTypeOK
<1>6. \A w \in ViewedWorkspaces : MarksOK(history[w])
  BY <1>1, <1>2 DEF MarksOK
<1>7. \A q \in ViewRequests : ReplyOK(q)
  BY <1>1 DEF ReplyOK
<1>8. \A g \in Generations : FeedOK(g)
  BY <1>1 DEF FeedOK, NoFeed
<1>9. CurrentOK
  BY <1>1, <1>3 DEF CurrentOK, FollowsOn, NoFeed
<1>10. ShownOK
  BY <1>1, <1>3, NothingIsView DEF ShownOK, NoFeed
<1>11. AsksOK
  BY <1>1 DEF AsksOK, Creates
<1> QED BY <1>5, <1>6, <1>7, <1>8, <1>9, <1>10, <1>11 DEF ViewInv

LEMMA ViewInvStep == ViewInv /\ [ViewNext]_viewVars => ViewInv'
<1> SUFFICES ASSUME ViewInv, [ViewNext]_viewVars PROVE ViewInv'
  OBVIOUS
<1>1. CASE \E w \in ViewedWorkspaces : ServerWorks(w)
  BY <1>1, ServerWorksKeeps
<1>2. CASE StopView
  BY <1>2, StopViewKeeps
<1>3. ASSUME NEW q \in ViewRequests, ServerCreates(q) \/ ServerObserves(q) PROVE ViewInv'
  BY <1>3, ServerAnswersKeeps
<1>4. ASSUME NEW q \in ViewRequests, \E w \in ViewedWorkspaces : Initialize(q, w) PROVE ViewInv'
  BY <1>4, InitializeKeeps
<1>5. ASSUME NEW q \in ViewRequests, AskToObserve(q) PROVE ViewInv'
  BY <1>5, AskToObserveKeeps
<1>6. ASSUME NEW q \in ViewRequests, Receive(q) PROVE ViewInv'
  BY <1>6, ReceiveKeeps
<1>7. ASSUME NEW q \in ViewRequests, RequestLost(q) PROVE ViewInv'
  BY <1>7, RequestLostKeeps
<1>8. ASSUME NEW g \in Generations, FeedConnects(g) PROVE ViewInv'
  BY <1>8, FeedConnectsKeeps
<1>9. ASSUME NEW g \in Generations, FeedBreaks(g) PROVE ViewInv'
  BY <1>9, FeedBreaksKeeps
<1>10. ASSUME NEW g \in Generations, FeedDelivers(g) PROVE ViewInv'
  BY <1>10, FeedDeliversKeeps
<1>11. CASE UNCHANGED viewVars
  <2>1. UNCHANGED <<history, view, generation, running, request, feed>>
    BY <1>11 DEF viewVars
  <2>2. /\ ViewTypeOK /\ Grown /\ \A q \in ViewRequests : ReplyOK(q)
        /\ \A v \in ViewedWorkspaces : MarksOK(history[v])'
        /\ \A g \in Generations : FeedOK(g)'
        /\ CurrentOK' /\ ShownOK'
    BY <2>1, RestStays DEF ViewInv
  <2>3. (\A q \in ViewRequests : ReplyOK(q)') /\ AsksOK'
    BY <2>1, <2>2, RepliesStay, AsksStay DEF ViewInv
  <2> QED BY <2>1, <2>2, <2>3 DEF ViewInv, ViewTypeOK
<1> QED BY <1>1, <1>2, <1>3, <1>4, <1>5, <1>6, <1>7, <1>8, <1>9, <1>10, <1>11 DEF ViewNext

\* What the invariant says of the view is what the property asks of it.
LEMMA ShownIsInOrder == ShownOK => ShortHistoryIsShownInOrder
<1> DEFINE w == view.workspace
           n == Len(view.events)
<1>1. ShowsFirst(view, history[w], n) => IsPrefix(n)
  BY DEF ShowsFirst, IsPrefix, Row, Till
<1>2. ShownMarks = Shown(view, history[w])
  BY DEF ShownMarks, Shown
<1>3. Trail(view, history[w], feed[generation].last) =>
        /\ \A i, j \in 1 .. n : i < j => view.events[i].sequence < view.events[j].sequence
        /\ \A i \in 1 .. n : ShownMarks[i].context <= view.context
        /\ view.working = AtWork(ShownMarks)
  <2>1. \A i \in 1 .. n : ShownMarks[i] = history[w][view.events[i].sequence]
    BY DEF ShownMarks
  <2> QED BY <1>2, <2>1 DEF Trail
<1> QED BY <1>1, <1>3 DEF ShownOK, Follows, Prefix, ShortHistoryIsShownInOrder

\* The inductive invariant: whatever is shown, on its way or still to come is
\* of a moment of the history of its workspace, and a stream brings what comes
\* after the event it has brought last; an event that was withheld from the
\* subscribers (_publish, capture_event) leaves a hole, and no disorder.
THEOREM ViewInvariant == ViewSpec => []ViewInv
BY ViewInvInit, ViewInvStep, PTL DEF ViewSpec

\* Snapshots, replies of requests and events of streams may come in any order,
\* over any number of generations and broken connections, and any event may be
\* withheld from the streams: as long as its history is no longer than a
\* snapshot, the view shows events of it in their order and each once, the
\* Agent's state they lead to and no context before theirs; and if none was
\* withheld they are a prefix of the history, never shorter than what the
\* stream has brought (applySnapshot, applyEvent).
THEOREM ShortHistoriesAreShownInOrder == ViewSpec => []ShortHistoryIsShownInOrder
<1>1. ViewInv => ShortHistoryIsShownInOrder
  BY ShownIsInOrder DEF ViewInv
<1> QED BY <1>1, ViewInvariant, PTL
==============================================================================
