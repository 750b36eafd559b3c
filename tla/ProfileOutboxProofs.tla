------------------------ MODULE ProfileOutboxProofs ------------------------
(***************************************************************************)
(* Proofs about ProfileOutbox, for any number of users, events and workers,*)
(* any retry limit and any schedule of crashes and expired leases.         *)
(***************************************************************************)
EXTENDS ProfileOutbox, TLAPS

-----------------------------------------------------------------------------
(* Types.                                                                  *)

\* Every fact the outbox writes is a fact of the audit trail's type.
LEMMA FactTyped ==
    ASSUME NEW v \in Nat, NEW type \in FactTypes, NEW from \in Statuses, NEW to \in Statuses
    PROVE  Fact(v, type, from, to) \in Facts
BY DEF Fact, Facts

\* The empty database and the workers that just started are typed.
LEMMA TypeInit == Init => TypeOK
BY OutboxAssumption DEF Init, TypeOK, Statuses, Phases, Facts

\* No step of the API or of a worker leaves the types.
LEMMA TypeStep == TypeOK /\ [Next]_vars => TypeOK'
<1> SUFFICES ASSUME TypeOK, [Next]_vars PROVE TypeOK'
  OBVIOUS
<1> USE OutboxAssumption
<1>1. ASSUME NEW e \in Events, AppendBehavior(e) PROVE TypeOK'
  <2>1. CreatedFact \in Facts
    BY FactTyped DEF CreatedFact, OutcomeVersion, FactTypes, Statuses, Open
  <2>2. CASE e \in Enqueued
    <3>1. status' \in [Enqueued -> Statuses] /\ ripe' \in [Enqueued -> BOOLEAN]
      BY <1>1, <2>2 DEF AppendBehavior, TypeOK, Statuses, Open
    <3>2. trail' \in [Enqueued -> SUBSET Facts]
      BY <1>1, <2>1, <2>2 DEF AppendBehavior, TypeOK
    <3>3. log' \subseteq Events
      BY <1>1 DEF AppendBehavior, TypeOK
    <3> QED BY <1>1, <2>2, <3>1, <3>2, <3>3 DEF AppendBehavior, TypeOK, projectionVars, workerVars
  <2>3. CASE e \notin Enqueued
    BY <1>1, <2>3 DEF AppendBehavior, TypeOK, rowVars, projectionVars, workerVars
  <2> QED BY <2>2, <2>3
<1>2. ASSUME NEW e \in Enqueued, TimePasses(e) PROVE TypeOK'
  BY <1>2 DEF TimePasses, TypeOK, projectionVars, workerVars
<1>3. ASSUME NEW w \in Workers, Poll(w) PROVE TypeOK'
  <2>1. \A e \in Enqueued : e \in Exhausted => DeadFact(e) \in Facts
    BY FactTyped DEF TypeOK, Exhausted, DeadFact, OutcomeVersion, FactTypes, Statuses, Open, Settled
  <2>2. ASSUME NEW e \in Enqueued PROVE ClaimFact(e) \in Facts
    <3>1. status[e] \in Statuses /\ attempts[e] \in Nat
      BY DEF TypeOK
    <3>2. ClaimVersion(attempts[e] + 1) \in Nat
      BY <3>1 DEF ClaimVersion
    <3> QED BY <3>1, <3>2, FactTyped DEF ClaimFact, FactTypes, Statuses, Open
  <2>3. Batch \subseteq Enqueued
    BY DEF Batch, Claimable
  <2>4. {[row |-> e, attempt |-> attempts[e] + 1] : e \in Batch} \subseteq Claims
    BY <2>3 DEF TypeOK, Claims
  <2>5. trail' \in [Enqueued -> SUBSET Facts]
    BY <1>3, <2>1, <2>2 DEF Poll, TypeOK
  <2>6. todo' \in [Workers -> SUBSET Claims]
    BY <1>3, <2>4 DEF Poll, TypeOK
  <2>7. status' \in [Enqueued -> Statuses] /\ attempts' \in [Enqueued -> Nat]
    BY <1>3 DEF Poll, TypeOK, Statuses, Open, Settled
  <2>8. lockedBy' \in [Enqueued -> Workers \cup {NoWorker}] /\ ripe' \in [Enqueued -> BOOLEAN]
    BY <1>3 DEF Poll, TypeOK
  <2> QED BY <1>3, <2>5, <2>6, <2>7, <2>8 DEF Poll, TypeOK, projectionVars
<1>4. ASSUME NEW w \in Workers, PollConflict(w) PROVE TypeOK'
  BY <1>4 DEF PollConflict, TypeOK, Phases, rowVars, projectionVars
<1>5. ASSUME NEW w \in Workers, BeginApply(w) PROVE TypeOK'
  <2>1. PICK c \in Heads(w) :
          LET u == UserOf[c.row]
              seen == EventsUpTo(u, TimeOf[c.row])
              current == profile[u].version
          IN  \/ \E r \in replays[u] :
                   job' = [job EXCEPT ![w] = [row |-> c.row, seen |-> seen, current |-> current,
                                              target |-> r.version, fresh |-> FALSE]]
              \/ \E top \in ReplayVersions(u) \cup {current} :
                   job' = [job EXCEPT ![w] = [row |-> c.row, seen |-> seen, current |-> current,
                                              target |-> top + 1, fresh |-> TRUE]]
    BY <1>5 DEF BeginApply
  <2> DEFINE u == UserOf[c.row]
             seen == EventsUpTo(u, TimeOf[c.row])
             current == profile[u].version
  <2>2. c.row \in Enqueued /\ u \in Users
    <3>1. todo[w] \subseteq Claims
      BY DEF TypeOK
    <3> QED BY <2>1, <3>1 DEF Heads, Claims
  <2>3. seen \subseteq Events /\ current \in Nat /\ ReplayVersions(u) \subseteq Nat
    <3>1. replays[u] \subseteq [version : Nat, asOf : Nat, seen : SUBSET Events]
          /\ profile[u] \in [version : Nat, seen : SUBSET Events]
          /\ log \subseteq Events
      BY <2>2 DEF TypeOK
    <3> QED BY <3>1 DEF EventsUpTo, ReplayVersions
  <2>4. PICK j \in Jobs : job' = [job EXCEPT ![w] = j]
    <3>1. CASE \E r \in replays[u] :
                 job' = [job EXCEPT ![w] = [row |-> c.row, seen |-> seen, current |-> current,
                                            target |-> r.version, fresh |-> FALSE]]
      <4>1. PICK r \in replays[u] :
              job' = [job EXCEPT ![w] = [row |-> c.row, seen |-> seen, current |-> current,
                                         target |-> r.version, fresh |-> FALSE]]
        BY <3>1
      <4>2. r.version \in Nat
        BY <2>2 DEF TypeOK
      <4>3. [row |-> c.row, seen |-> seen, current |-> current, target |-> r.version,
             fresh |-> FALSE] \in Jobs
        BY <2>2, <2>3, <4>2 DEF Jobs
      <4> QED BY <4>1, <4>3
    <3>2. CASE \E top \in ReplayVersions(u) \cup {current} :
                 job' = [job EXCEPT ![w] = [row |-> c.row, seen |-> seen, current |-> current,
                                            target |-> top + 1, fresh |-> TRUE]]
      <4>1. PICK top \in ReplayVersions(u) \cup {current} :
              job' = [job EXCEPT ![w] = [row |-> c.row, seen |-> seen, current |-> current,
                                         target |-> top + 1, fresh |-> TRUE]]
        BY <3>2
      <4>2. [row |-> c.row, seen |-> seen, current |-> current, target |-> top + 1,
             fresh |-> TRUE] \in Jobs
        BY <2>2, <2>3 DEF Jobs
      <4> QED BY <4>1, <4>2
    <3> QED BY <2>1, <3>1, <3>2
  <2>5. phase' = [phase EXCEPT ![w] = "APPLYING"]
        /\ UNCHANGED <<log, rowVars, projectionVars, todo>>
    BY <1>5 DEF BeginApply
  <2> QED BY <2>4, <2>5 DEF TypeOK, Phases, rowVars, projectionVars
<1>6. ASSUME NEW w \in Workers, CommitApply(w) PROVE TypeOK'
  <2> DEFINE j == job[w]
             u == UserOf[j.row]
             replay == [version |-> j.target, asOf |-> TimeOf[j.row], seen |-> j.seen]
  <2>1. j \in Jobs /\ j.row \in Enqueued /\ u \in Users
    BY <1>6 DEF CommitApply, TypeOK, Jobs
  <2>2. DoneFact(j.row) \in Facts
    <3>1. status[j.row] \in Statuses /\ attempts[j.row] \in Nat
      BY <2>1 DEF TypeOK
    <3>2. OutcomeVersion(attempts[j.row]) \in Nat
      BY <3>1 DEF OutcomeVersion
    <3> QED BY <3>1, <3>2, FactTyped DEF DoneFact, FactTypes, Statuses, Settled
  <2>3. replay \in [version : Nat, asOf : Nat, seen : SUBSET Events]
    BY <2>1 DEF Jobs
  <2>4. replays' \in [Users -> SUBSET [version : Nat, asOf : Nat, seen : SUBSET Events]]
    BY <1>6, <2>1, <2>3 DEF CommitApply, TypeOK
  <2>5. profile' \in [Users -> [version : Nat, seen : SUBSET Events]]
    BY <1>6, <2>1 DEF CommitApply, TypeOK, Jobs
  <2>6. trail' \in [Enqueued -> SUBSET Facts] /\ status' \in [Enqueued -> Statuses]
    BY <1>6, <2>1, <2>2 DEF CommitApply, TypeOK, Statuses, Settled
  <2>7. todo' \in [Workers -> SUBSET Claims]
    BY <1>6 DEF CommitApply, TypeOK
  <2> QED BY <1>6, <2>1, <2>4, <2>5, <2>6, <2>7 DEF CommitApply, TypeOK, Phases
<1>7. ASSUME NEW w \in Workers, AbortApply(w) PROVE TypeOK'
  BY <1>7 DEF AbortApply, TypeOK, Phases, rowVars, projectionVars
<1>8. ASSUME NEW w \in Workers, MarkFailed(w) PROVE TypeOK'
  <2>1. PICK c \in Heads(w) :
          /\ status' = [status EXCEPT ![c.row] = FailedStatus(c)]
          /\ lockedBy' = [lockedBy EXCEPT ![c.row] = NoWorker]
          /\ ripe' = [ripe EXCEPT ![c.row] = FALSE]
          /\ trail' = [trail EXCEPT ![c.row] = @ \cup {FailedFact(c.row, FailedStatus(c))}]
          /\ todo' = [todo EXCEPT ![w] = @ \ {c}]
    BY <1>8 DEF MarkFailed
  <2>2. c.row \in Enqueued
    BY <2>1 DEF Heads, TypeOK, Claims
  <2>3. FailedStatus(c) \in Statuses
    BY DEF FailedStatus, Statuses, Open, Settled
  <2>4. FailedFact(c.row, FailedStatus(c)) \in Facts
    <3>1. status[c.row] \in Statuses /\ attempts[c.row] \in Nat
      BY <2>2 DEF TypeOK
    <3>2. OutcomeVersion(attempts[c.row]) \in Nat
      BY <3>1 DEF OutcomeVersion
    <3> QED BY <2>3, <3>1, <3>2, FactTyped DEF FailedFact, FactTypes
  <2>5. trail' \in [Enqueued -> SUBSET Facts]
    BY <2>1, <2>2, <2>4 DEF TypeOK
  <2>6. status' \in [Enqueued -> Statuses] /\ todo' \in [Workers -> SUBSET Claims]
    BY <2>1, <2>2, <2>3 DEF TypeOK
  <2>7. lockedBy' \in [Enqueued -> Workers \cup {NoWorker}] /\ ripe' \in [Enqueued -> BOOLEAN]
    BY <2>1, <2>2 DEF TypeOK
  <2> QED BY <1>8, <2>5, <2>6, <2>7 DEF MarkFailed, TypeOK, Phases, projectionVars
<1>9. ASSUME NEW w \in Workers, MarkFailedConflict(w) PROVE TypeOK'
  BY <1>9 DEF MarkFailedConflict, TypeOK, Phases, rowVars, projectionVars
<1>10. ASSUME NEW w \in Workers, Crash(w) PROVE TypeOK'
  BY <1>10 DEF Crash, TypeOK, Phases, rowVars, projectionVars
<1>11. ASSUME NEW w \in Workers, Restart(w) PROVE TypeOK'
  BY <1>11 DEF Restart, TypeOK, Phases, rowVars, projectionVars
<1>12. CASE UNCHANGED vars
  BY <1>12 DEF vars, rowVars, projectionVars, workerVars, TypeOK
<1> QED
  BY <1>1, <1>2, <1>3, <1>4, <1>5, <1>6, <1>7, <1>8, <1>9, <1>10, <1>11, <1>12 DEF Next

\* Every variable keeps its type, whatever the constants.
THEOREM OutboxTypes == Spec => []TypeOK
BY TypeInit, TypeStep, PTL DEF Spec

-----------------------------------------------------------------------------
(* The inductive invariant.                                                *)

\* The newest fact of a trail has version v and ends in status s.
NewestIs(t, v, s) ==
    /\ \E f \in t : f.version = v /\ f.to = s
    /\ \A f \in t : f.version <= v

\* The facts form one history (AuditIsOneHistory for one row).
OneHistory(t) ==
    \A f, g \in t :
        /\ f.version = g.version => f = g
        /\ (/\ f.version < g.version
            /\ \A h \in t : h.version <= f.version \/ h.version >= g.version)
           => g.from = f.to

\* Status s, attempts a and trail t of one row.  A claimed row's newest fact
\* is its claim, any other row's is an outcome: the version an outcome of this
\* attempt needs is free exactly while the row is PROCESSING.  An outcome
\* already there says it started from PROCESSING, so it cannot be mistaken for
\* a later one.
RowOK(s, a, t) ==
    /\ OneHistory(t)
    /\ s = "NONE" => t = {} /\ a = 0
    /\ s = "PROCESSING" => a > 0 /\ NewestIs(t, ClaimVersion(a), s)
    /\ s \in {"PENDING", "DONE", "DEAD"} => NewestIs(t, OutcomeVersion(a), s)
    /\ \A f \in t : f.type \in {"MARK_DONE", "MARK_FAILED", "MARK_DEAD"} => f.from = "PROCESSING"

RowsOK ==
    \A e \in Enqueued :
        /\ RowOK(status[e], attempts[e], trail[e])
        /\ status[e] = "NONE" <=> e \notin log
        /\ attempts[e] <= MaxAttempts

\* A claim names a row that exists and an attempt that was started.
ClaimsOK ==
    \A w \in Workers : \A c \in todo[w] :
        status[c.row] # "NONE" /\ c.attempt <= attempts[c.row]

\* What an open apply transaction holds, measured against a profile and
\* replays that other workers may have moved on since.
JobOK(j) ==
    LET u == UserOf[j.row]
    IN  /\ status[j.row] # "NONE"
        /\ j.row \in j.seen
        /\ j.current <= profile[u].version
        /\ j.fresh => j.target = j.current + 1
        /\ ~j.fresh => /\ j.target <= j.current
                       /\ \E r \in replays[u] :
                            r.version = j.target /\ SameInput(r, TimeOf[j.row], j.seen)

JobsOK == \A w \in Workers : phase[w] = "APPLYING" => JobOK(job[w])

OutboxInv ==
    /\ TypeOK
    /\ RowsOK
    /\ ClaimsOK
    /\ JobsOK
    /\ ProfileIsLatestReplay
    /\ DoneMeansProjected

-----------------------------------------------------------------------------
(* One row: what appending a fact does to RowOK.                           *)

\* A fact with a version above all others that starts from the status the
\* history ended in extends the history.
LEMMA HistoryExtends ==
    ASSUME NEW t \in SUBSET Facts, NEW n \in Facts,
           OneHistory(t),
           \A f \in t : f.version < n.version,
           \A f \in t : (\A g \in t : g.version <= f.version) => n.from = f.to
    PROVE  OneHistory(t \cup {n})
<1>1. \A f \in t : f.version \in Nat
  BY DEF Facts
<1>2. n.version \in Nat
  BY DEF Facts
<1> SUFFICES ASSUME NEW f \in t \cup {n}, NEW g \in t \cup {n}
             PROVE  /\ f.version = g.version => f = g
                    /\ (/\ f.version < g.version
                        /\ \A h \in t \cup {n} : h.version <= f.version \/ h.version >= g.version)
                       => g.from = f.to
  BY DEF OneHistory
<1>3. f.version = g.version => f = g
  BY <1>1, <1>2 DEF OneHistory
<1>4. ASSUME f.version < g.version,
             \A h \in t \cup {n} : h.version <= f.version \/ h.version >= g.version
      PROVE  g.from = f.to
  <2>1. f \in t
    BY <1>1, <1>2, <1>4
  <2>2. CASE g = n
    BY <1>1, <1>2, <1>4, <2>1, <2>2
  <2>3. CASE g \in t
    BY <1>4, <2>1, <2>3 DEF OneHistory
  <2> QED BY <2>2, <2>3
<1> QED BY <1>3, <1>4

\* The newest fact of a trail is one fact.
LEMMA NewestStatus ==
    ASSUME NEW t \in SUBSET Facts, NEW v \in Nat, NEW s,
           OneHistory(t), NewestIs(t, v, s),
           NEW f \in t, \A g \in t : g.version <= f.version
    PROVE  f.to = s
<1>1. PICK n \in t : n.version = v /\ n.to = s
  BY DEF NewestIs
<1>2. f.version \in Nat /\ f.version <= v /\ v <= f.version
  BY <1>1 DEF NewestIs, Facts
<1>3. f = n
  BY <1>1, <1>2 DEF OneHistory
<1> QED BY <1>1, <1>3

\* append_behavior's first fact makes a sound row.
LEMMA CreateRow ==
    ASSUME NEW a \in Nat, NEW t \in SUBSET Facts, RowOK("NONE", a, t)
    PROVE  RowOK("PENDING", a, t \cup {CreatedFact})
<1>1. t \cup {CreatedFact} = {CreatedFact} /\ a = 0
  BY DEF RowOK
<1>2. CreatedFact.version = 1 /\ CreatedFact.to = "PENDING" /\ CreatedFact.type = "CREATED"
  BY DEF CreatedFact, Fact, OutcomeVersion
<1>3. OneHistory({CreatedFact})
  BY <1>2 DEF OneHistory
<1>4. NewestIs({CreatedFact}, OutcomeVersion(a), "PENDING")
  BY <1>1, <1>2 DEF NewestIs, OutcomeVersion
<1> QED BY <1>1, <1>2, <1>3, <1>4 DEF RowOK

\* A claim of a sound open row leaves a sound PROCESSING row.
LEMMA ClaimRow ==
    ASSUME NEW s \in Open, NEW a \in Nat, NEW t \in SUBSET Facts, RowOK(s, a, t)
    PROVE  RowOK("PROCESSING", a + 1,
                 t \cup {Fact(ClaimVersion(a + 1), "CLAIMED", s, "PROCESSING")})
<1> DEFINE n == Fact(ClaimVersion(a + 1), "CLAIMED", s, "PROCESSING")
<1>1. n \in Facts /\ n.version = 2 * (a + 1) /\ n.from = s /\ n.to = "PROCESSING" /\ n.type = "CLAIMED"
  BY FactTyped DEF Fact, ClaimVersion, FactTypes, Statuses, Open
<1>2. PICK v \in {2 * a, 2 * a + 1} : NewestIs(t, v, s)
  BY DEF RowOK, Open, ClaimVersion, OutcomeVersion
<1>3. \A f \in t : f.version < n.version
  BY <1>1, <1>2 DEF NewestIs, Facts
<1>4. OneHistory(t)
  BY DEF RowOK
<1>5. \A f \in t : (\A g \in t : g.version <= f.version) => n.from = f.to
  BY <1>1, <1>2, <1>4, NewestStatus
<1>6. OneHistory(t \cup {n})
  BY <1>1, <1>3, <1>4, <1>5, HistoryExtends
<1>7. NewestIs(t \cup {n}, ClaimVersion(a + 1), "PROCESSING")
  BY <1>1, <1>3 DEF NewestIs, ClaimVersion, Facts
<1>8. \A f \in t \cup {n} : f.type \in {"MARK_DONE", "MARK_FAILED", "MARK_DEAD"} => f.from = "PROCESSING"
  BY <1>1 DEF RowOK
<1> HIDE DEF n
<1>9. RowOK("PROCESSING", a + 1, t \cup {n})
  BY <1>6, <1>7, <1>8 DEF RowOK
<1> QED BY <1>9 DEF n

\* The audit trail accepts an outcome only of a PROCESSING row: this is the
\* one fence mark_done and mark_failed have.
LEMMA OutcomeNeedsProcessing ==
    ASSUME NEW s \in Statuses, NEW a \in Nat, NEW t \in SUBSET Facts, RowOK(s, a, t), s # "NONE",
           NEW type \in {"MARK_DONE", "MARK_FAILED", "MARK_DEAD"}, NEW to,
           Appendable(t, Fact(OutcomeVersion(a), type, s, to))
    PROVE  s = "PROCESSING"
<1> SUFFICES ASSUME s # "PROCESSING" PROVE FALSE
  OBVIOUS
<1>1. NewestIs(t, OutcomeVersion(a), s)
  BY DEF RowOK, Statuses, Open, Settled
<1>2. PICK f \in t : f.version = OutcomeVersion(a)
  BY <1>1 DEF NewestIs
<1>3. f = Fact(OutcomeVersion(a), type, s, to)
  BY <1>2 DEF Appendable, Fact
<1>4. f.type = type /\ f.from = s
  BY <1>3 DEF Fact
<1>5. f.type \in {"MARK_DONE", "MARK_FAILED", "MARK_DEAD"} => f.from = "PROCESSING"
  BY <1>2 DEF RowOK
<1> QED BY <1>4, <1>5

\* An outcome of a sound PROCESSING row (DONE, DEAD or a retry) leaves a
\* sound row.
LEMMA OutcomeRow ==
    ASSUME NEW a \in Nat, NEW t \in SUBSET Facts, RowOK("PROCESSING", a, t),
           NEW type \in {"MARK_DONE", "MARK_FAILED", "MARK_DEAD"},
           NEW to \in {"PENDING", "DONE", "DEAD"}
    PROVE  RowOK(to, a, t \cup {Fact(OutcomeVersion(a), type, "PROCESSING", to)})
<1> DEFINE n == Fact(OutcomeVersion(a), type, "PROCESSING", to)
<1>1. n \in Facts /\ n.version = 2 * a + 1 /\ n.from = "PROCESSING" /\ n.to = to /\ n.type = type
  BY DEF Fact, Facts, OutcomeVersion, FactTypes, Statuses, Open, Settled
<1>2. NewestIs(t, 2 * a, "PROCESSING") /\ OneHistory(t)
  BY DEF RowOK, ClaimVersion
<1>3. \A f \in t : f.version < n.version
  BY <1>1, <1>2 DEF NewestIs, Facts
<1>4. \A f \in t : (\A g \in t : g.version <= f.version) => n.from = f.to
  <2>1. PICK v \in Nat : v = 2 * a
    OBVIOUS
  <2>2. NewestIs(t, v, "PROCESSING")
    BY <1>2, <2>1
  <2>3. ASSUME NEW f \in t, \A g \in t : g.version <= f.version PROVE f.to = "PROCESSING"
    BY <1>2, <2>2, <2>3, NewestStatus
  <2> QED BY <1>1, <2>3
<1>5. OneHistory(t \cup {n})
  BY <1>1, <1>2, <1>3, <1>4, HistoryExtends
<1>6. NewestIs(t \cup {n}, OutcomeVersion(a), to)
  BY <1>1, <1>3 DEF NewestIs, OutcomeVersion, Facts
<1>7. \A f \in t \cup {n} : f.type \in {"MARK_DONE", "MARK_FAILED", "MARK_DEAD"} => f.from = "PROCESSING"
  BY <1>1 DEF RowOK
<1> HIDE DEF n
<1>8. RowOK(to, a, t \cup {n})
  BY <1>5, <1>6, <1>7 DEF RowOK
<1> QED BY <1>8 DEF n

-----------------------------------------------------------------------------
(* The rows under every action.                                            *)

\* A worker's mark_done goes through only while the row is PROCESSING,
\* although mark_done does not ask.
LEMMA CommitNeedsProcessing ==
    ASSUME TypeOK, RowsOK, JobsOK, NEW w \in Workers, CommitApply(w)
    PROVE  job[w] \in Jobs /\ job[w].row \in Enqueued /\ status[job[w].row] = "PROCESSING"
<1> DEFINE e == job[w].row
<1>1. phase[w] = "APPLYING" /\ Appendable(trail[e], DoneFact(e))
  BY DEF CommitApply
<1>2. job[w] \in Jobs /\ e \in Enqueued
  BY <1>1 DEF TypeOK, Jobs
<1>3. status[e] \in Statuses /\ attempts[e] \in Nat /\ trail[e] \in SUBSET Facts
  BY <1>2 DEF TypeOK
<1>4. status[e] # "NONE"
  BY <1>1 DEF JobsOK, JobOK
<1>5. RowOK(status[e], attempts[e], trail[e])
  BY <1>2 DEF RowsOK
<1>6. Appendable(trail[e], Fact(OutcomeVersion(attempts[e]), "MARK_DONE", status[e], "DONE"))
  BY <1>1 DEF DoneFact
<1>7. status[e] = "PROCESSING"
  BY <1>3, <1>4, <1>5, <1>6, OutcomeNeedsProcessing
<1> QED BY <1>2, <1>7

\* So does mark_failed.
LEMMA FailedNeedsProcessing ==
    ASSUME TypeOK, RowsOK, ClaimsOK, NEW w \in Workers, NEW c \in Heads(w),
           Appendable(trail[c.row], FailedFact(c.row, FailedStatus(c)))
    PROVE  c \in Claims /\ c.row \in Enqueued /\ status[c.row] = "PROCESSING"
<1> DEFINE e == c.row
<1>1. todo[w] \subseteq Claims
  BY DEF TypeOK
<1>2. c \in todo[w] /\ c \in Claims /\ e \in Enqueued
  BY <1>1 DEF Heads, Claims
<1>3. status[e] \in Statuses /\ attempts[e] \in Nat /\ trail[e] \in SUBSET Facts
  BY <1>2 DEF TypeOK
<1>4. status[e] # "NONE"
  BY <1>2 DEF ClaimsOK
<1>5. RowOK(status[e], attempts[e], trail[e])
  BY <1>2 DEF RowsOK
<1>6. Appendable(trail[e], Fact(OutcomeVersion(attempts[e]), "MARK_FAILED", status[e], FailedStatus(c)))
  BY DEF FailedFact
<1>7. status[e] = "PROCESSING"
  BY <1>3, <1>4, <1>5, <1>6, OutcomeNeedsProcessing
<1> QED BY <1>2, <1>7

\* And a poll that commits gives up PROCESSING rows only.
LEMMA GivenUpNeedsProcessing ==
    ASSUME TypeOK, RowsOK, PollAppendable, NEW e \in Exhausted
    PROVE  e \in Enqueued /\ status[e] = "PROCESSING" /\ attempts[e] = MaxAttempts
<1>1. e \in Enqueued /\ status[e] \in Open /\ attempts[e] >= MaxAttempts
  BY DEF Exhausted
<1>2. status[e] \in Statuses /\ attempts[e] \in Nat /\ trail[e] \in SUBSET Facts
  BY <1>1 DEF TypeOK
<1>3. RowOK(status[e], attempts[e], trail[e]) /\ attempts[e] <= MaxAttempts
  BY <1>1 DEF RowsOK
<1>4. Appendable(trail[e], Fact(OutcomeVersion(attempts[e]), "MARK_DEAD", status[e], "DEAD"))
  BY <1>1 DEF PollAppendable, DeadFact
<1>5. status[e] = "PROCESSING"
  BY <1>1, <1>2, <1>3, <1>4, OutcomeNeedsProcessing DEF Open
<1>6. attempts[e] = MaxAttempts
  BY <1>1, <1>2, <1>3, OutboxAssumption
<1> QED BY <1>1, <1>5, <1>6

\* Every step keeps every row sound.
LEMMA RowsStep ==
    ASSUME TypeOK, RowsOK, ClaimsOK, JobsOK, [Next]_vars
    PROVE  RowsOK'
<1> USE OutboxAssumption
<1> DEFINE RowFine(e) == /\ RowOK(status[e], attempts[e], trail[e])
                         /\ status[e] = "NONE" <=> e \notin log
                         /\ attempts[e] <= MaxAttempts
<1>0. \A e \in Enqueued : RowFine(e)
  BY DEF RowsOK
<1> SUFFICES ASSUME NEW e \in Enqueued PROVE RowFine(e)'
  BY DEF RowsOK
<1>a. RowOK(status[e], attempts[e], trail[e]) /\ (status[e] = "NONE" <=> e \notin log)
      /\ attempts[e] <= MaxAttempts
  BY <1>0
<1>b. status[e] \in Statuses /\ attempts[e] \in Nat /\ trail[e] \in SUBSET Facts
  BY DEF TypeOK
<1>c. ASSUME UNCHANGED <<log, status, attempts, trail>> PROVE RowFine(e)'
  BY <1>a, <1>c
<1>1. ASSUME NEW d \in Events, AppendBehavior(d) PROVE RowFine(e)'
  <2>1. CASE d = e
    <3>1. status[e] = "NONE" /\ RowOK("NONE", attempts[e], trail[e])
      BY <1>1, <1>a, <2>1 DEF AppendBehavior
    <3>2. status'[e] = "PENDING" /\ attempts'[e] = attempts[e]
          /\ trail'[e] = trail[e] \cup {CreatedFact} /\ log' = log \cup {e}
      BY <1>1, <2>1 DEF AppendBehavior, TypeOK
    <3>3. RowOK("PENDING", attempts[e], trail[e] \cup {CreatedFact})
      BY <1>b, <3>1, CreateRow
    <3> QED BY <1>a, <3>2, <3>3
  <2>2. CASE d # e
    <3>1. status'[e] = status[e] /\ attempts'[e] = attempts[e] /\ trail'[e] = trail[e]
          /\ (e \in log' <=> e \in log)
      BY <1>1, <2>2 DEF AppendBehavior, TypeOK, rowVars
    <3> QED BY <1>a, <3>1
  <2> QED BY <2>1, <2>2
<1>2. ASSUME NEW w \in Workers, Poll(w) PROVE RowFine(e)'
  <2>1. CASE e \in Exhausted
    <3>1. status[e] = "PROCESSING"
      BY <1>2, <2>1, GivenUpNeedsProcessing DEF Poll
    <3>2. e \notin Batch
      BY <2>1 DEF Batch, Claimable, Exhausted, TypeOK
    <3>3. status'[e] = "DEAD" /\ attempts'[e] = attempts[e] /\ log' = log
          /\ trail'[e] = trail[e] \cup {Fact(OutcomeVersion(attempts[e]), "MARK_DEAD", "PROCESSING", "DEAD")}
      BY <1>2, <2>1, <3>1, <3>2 DEF Poll, DeadFact
    <3>4. RowOK("PROCESSING", attempts[e], trail[e])
      BY <1>a, <3>1
    <3>5. RowOK("DEAD", attempts[e],
                trail[e] \cup {Fact(OutcomeVersion(attempts[e]), "MARK_DEAD", "PROCESSING", "DEAD")})
      BY <1>b, <3>4, OutcomeRow
    <3> QED BY <1>a, <3>1, <3>3, <3>5
  <2>2. CASE e \in Batch /\ e \notin Exhausted
    <3>1. status[e] \in Open /\ attempts[e] < MaxAttempts
      BY <2>2 DEF Batch, Claimable
    <3>2. status'[e] = "PROCESSING" /\ attempts'[e] = attempts[e] + 1 /\ log' = log
          /\ trail'[e] = trail[e] \cup {Fact(ClaimVersion(attempts[e] + 1), "CLAIMED", status[e], "PROCESSING")}
      BY <1>2, <2>2 DEF Poll, ClaimFact
    <3>3. RowOK("PROCESSING", attempts[e] + 1,
                trail[e] \cup {Fact(ClaimVersion(attempts[e] + 1), "CLAIMED", status[e], "PROCESSING")})
      BY <1>a, <1>b, <3>1, ClaimRow
    <3>4. status[e] # "NONE" /\ attempts[e] + 1 <= MaxAttempts
      BY <1>b, <3>1 DEF Open
    <3> QED BY <1>a, <3>2, <3>3, <3>4
  <2>3. CASE e \notin Batch /\ e \notin Exhausted
    <3>1. status'[e] = status[e] /\ attempts'[e] = attempts[e] /\ trail'[e] = trail[e] /\ log' = log
      BY <1>2, <2>3 DEF Poll
    <3> QED BY <1>a, <3>1
  <2> QED BY <2>1, <2>2, <2>3
<1>3. ASSUME NEW w \in Workers, CommitApply(w) PROVE RowFine(e)'
  <2>1. job[w].row \in Enqueued /\ status[job[w].row] = "PROCESSING"
    BY <1>3, CommitNeedsProcessing
  <2>2. CASE e = job[w].row
    <3>1. status'[e] = "DONE" /\ attempts'[e] = attempts[e] /\ log' = log
          /\ trail'[e] = trail[e] \cup {Fact(OutcomeVersion(attempts[e]), "MARK_DONE", "PROCESSING", "DONE")}
      BY <1>3, <2>1, <2>2 DEF CommitApply, DoneFact, TypeOK
    <3>2. RowOK("PROCESSING", attempts[e], trail[e])
      BY <1>a, <2>1, <2>2
    <3>3. RowOK("DONE", attempts[e],
                trail[e] \cup {Fact(OutcomeVersion(attempts[e]), "MARK_DONE", "PROCESSING", "DONE")})
      BY <1>b, <3>2, OutcomeRow
    <3> QED BY <1>a, <2>1, <2>2, <3>1, <3>3
  <2>3. CASE e # job[w].row
    <3>1. status'[e] = status[e] /\ attempts'[e] = attempts[e] /\ trail'[e] = trail[e] /\ log' = log
      BY <1>3, <2>3 DEF CommitApply, TypeOK
    <3> QED BY <1>a, <3>1
  <2> QED BY <2>2, <2>3
<1>4. ASSUME NEW w \in Workers, MarkFailed(w) PROVE RowFine(e)'
  <2>1. PICK c \in Heads(w) :
          /\ Appendable(trail[c.row], FailedFact(c.row, FailedStatus(c)))
          /\ status' = [status EXCEPT ![c.row] = FailedStatus(c)]
          /\ trail' = [trail EXCEPT ![c.row] = @ \cup {FailedFact(c.row, FailedStatus(c))}]
    BY <1>4 DEF MarkFailed
  <2>2. c.row \in Enqueued /\ status[c.row] = "PROCESSING"
    BY <2>1, FailedNeedsProcessing
  <2>3. FailedStatus(c) \in {"PENDING", "DONE", "DEAD"} /\ FailedStatus(c) # "NONE"
    BY DEF FailedStatus
  <2>4. CASE e = c.row
    <3>1. status'[e] = FailedStatus(c) /\ attempts'[e] = attempts[e] /\ log' = log
          /\ trail'[e] = trail[e] \cup
               {Fact(OutcomeVersion(attempts[e]), "MARK_FAILED", "PROCESSING", FailedStatus(c))}
      BY <1>4, <2>1, <2>2, <2>4 DEF MarkFailed, FailedFact, TypeOK
    <3>2. RowOK("PROCESSING", attempts[e], trail[e])
      BY <1>a, <2>2, <2>4
    <3>3. RowOK(FailedStatus(c), attempts[e], trail[e] \cup
               {Fact(OutcomeVersion(attempts[e]), "MARK_FAILED", "PROCESSING", FailedStatus(c))})
      BY <1>b, <2>3, <3>2, OutcomeRow
    <3> QED BY <1>a, <2>2, <2>3, <2>4, <3>1, <3>3
  <2>5. CASE e # c.row
    <3>1. status'[e] = status[e] /\ attempts'[e] = attempts[e] /\ trail'[e] = trail[e] /\ log' = log
      BY <1>4, <2>1, <2>5 DEF MarkFailed, TypeOK
    <3> QED BY <1>a, <3>1
  <2> QED BY <2>4, <2>5
<1>5. ASSUME NEW d \in Enqueued, TimePasses(d) PROVE RowFine(e)'
  BY <1>5, <1>c DEF TimePasses
<1>6. ASSUME NEW w \in Workers,
             PollConflict(w) \/ BeginApply(w) \/ AbortApply(w) \/ MarkFailedConflict(w)
               \/ Crash(w) \/ Restart(w)
      PROVE  RowFine(e)'
  <2>1. UNCHANGED <<log, status, attempts, trail>>
    BY <1>6 DEF PollConflict, BeginApply, AbortApply, MarkFailedConflict, Crash, Restart, rowVars
  <2> QED BY <1>c, <2>1
<1>7. CASE UNCHANGED vars
  BY <1>7, <1>c DEF vars, rowVars
<1> QED BY <1>1, <1>2, <1>3, <1>4, <1>5, <1>6, <1>7 DEF Next

-----------------------------------------------------------------------------
(* The profile under every action.                                         *)

\* A commit either confirms a replay that was there and moves nothing, or
\* records the user's next version: the unique keys refuse everything else.
LEMMA CommitProjects ==
    ASSUME TypeOK, JobsOK, ProfileIsLatestReplay, NEW w \in Workers, CommitApply(w)
    PROVE  LET j == job[w]
               u == UserOf[j.row]
           IN  /\ j \in Jobs /\ j.row \in Enqueued /\ u \in Users
               /\ \/ ~j.fresh /\ profile' = profile /\ replays' = replays
                  \/ /\ j.fresh
                     /\ j.target = profile[u].version + 1
                     /\ profile' = [profile EXCEPT ![u] = [version |-> j.target, seen |-> j.seen]]
                     /\ replays' = [replays EXCEPT ![u] = @ \cup
                            {[version |-> j.target, asOf |-> TimeOf[j.row], seen |-> j.seen]}]
<1> USE OutboxAssumption
<1> DEFINE j == job[w]
           u == UserOf[j.row]
<1>1. phase[w] = "APPLYING" /\ ReplayInsertable(j)
  BY DEF CommitApply
<1>2. j \in Jobs /\ j.row \in Enqueued /\ u \in Users
  BY <1>1 DEF TypeOK, Jobs
<1>3. profile[u].version \in Nat /\ j.current \in Nat /\ j.target \in Nat /\ j.fresh \in BOOLEAN
  BY <1>2 DEF TypeOK, Jobs
<1>4. /\ j.current <= profile[u].version
      /\ j.fresh => j.target = j.current + 1
      /\ ~j.fresh => j.target <= j.current
  BY <1>1 DEF JobsOK, JobOK
<1>5. CASE ~j.fresh
  <2>1. ~(j.target > j.current)
    BY <1>3, <1>4, <1>5
  <2> QED BY <1>2, <1>5, <2>1 DEF CommitApply
<1>6. CASE j.fresh
  <2>1. j.target \notin ReplayVersions(u)
    BY <1>1, <1>6 DEF ReplayInsertable, ReplayVersions
  <2>2. ReplayVersions(u) = 1 .. profile[u].version
    BY <1>2 DEF ProfileIsLatestReplay
  <2>3. j.target = profile[u].version + 1 /\ j.target > j.current
    BY <1>3, <1>4, <1>6, <2>1, <2>2
  <2> QED BY <1>2, <1>6, <2>3 DEF CommitApply
<1> QED BY <1>3, <1>5, <1>6

\* What no step takes back.
Grows ==
    /\ \A e \in Enqueued : /\ status[e] # "NONE" => status'[e] # "NONE"
                           /\ attempts[e] <= attempts'[e]
    /\ \A u \in Users : replays[u] \subseteq replays'[u] /\ profile[u].version <= profile'[u].version

\* No step takes back an event, a replay, an attempt or a profile version.
LEMMA GrowsStep ==
    ASSUME TypeOK, JobsOK, ProfileIsLatestReplay, [Next]_vars
    PROVE  Grows
<1> USE OutboxAssumption
<1>t. /\ \A e \in Enqueued : attempts[e] \in Nat
      /\ \A u \in Users : profile[u].version \in Nat
  BY DEF TypeOK
<1>1. ASSUME NEW d \in Events, AppendBehavior(d) PROVE Grows
  <2>1. \A e \in Enqueued : (status[e] # "NONE" => status'[e] # "NONE") /\ attempts'[e] = attempts[e]
    BY <1>1 DEF AppendBehavior, TypeOK, rowVars
  <2> QED BY <1>1, <1>t, <2>1 DEF AppendBehavior, Grows, projectionVars
<1>2. ASSUME NEW w \in Workers, Poll(w) PROVE Grows
  <2>1. \A e \in Enqueued : (status[e] # "NONE" => status'[e] # "NONE") /\ attempts[e] <= attempts'[e]
    BY <1>2, <1>t DEF Poll
  <2>2. profile' = profile /\ replays' = replays
    BY <1>2 DEF Poll, projectionVars
  <2>3. \A u \in Users : replays[u] \subseteq replays'[u] /\ profile[u].version <= profile'[u].version
    BY <1>t, <2>2
  <2> QED BY <2>1, <2>3 DEF Grows
<1>3. ASSUME NEW w \in Workers, CommitApply(w) PROVE Grows
  <2> DEFINE j == job[w]
             u == UserOf[j.row]
  <2>1. \A e \in Enqueued : (status[e] # "NONE" => status'[e] # "NONE") /\ attempts'[e] = attempts[e]
    BY <1>3 DEF CommitApply, TypeOK
  <2>2. ASSUME NEW v \in Users
        PROVE  replays[v] \subseteq replays'[v] /\ profile[v].version <= profile'[v].version
    <3>1. profile \in [Users -> [version : Nat, seen : SUBSET Events]]
          /\ replays \in [Users -> SUBSET [version : Nat, asOf : Nat, seen : SUBSET Events]]
      BY DEF TypeOK
    <3>2. CASE profile' = profile /\ replays' = replays
      BY <1>t, <3>2
    <3>3. CASE /\ u \in Users
               /\ j.target = profile[u].version + 1
               /\ profile' = [profile EXCEPT ![u] = [version |-> j.target, seen |-> j.seen]]
               /\ replays' = [replays EXCEPT ![u] = @ \cup
                      {[version |-> j.target, asOf |-> TimeOf[j.row], seen |-> j.seen]}]
      BY <1>t, <3>1, <3>3
    <3> QED BY <1>3, <3>2, <3>3, CommitProjects
  <2>3. \A e \in Enqueued : attempts[e] <= attempts'[e]
    BY <1>t, <2>1
  <2> QED BY <2>1, <2>2, <2>3 DEF Grows
<1>4. ASSUME NEW w \in Workers, MarkFailed(w) PROVE Grows
  <2>1. PICK c \in Heads(w) : status' = [status EXCEPT ![c.row] = FailedStatus(c)]
    BY <1>4 DEF MarkFailed
  <2>2. \A e \in Enqueued : status[e] # "NONE" => status'[e] # "NONE"
    BY <2>1 DEF FailedStatus, TypeOK
  <2>3. attempts' = attempts /\ profile' = profile /\ replays' = replays
    BY <1>4 DEF MarkFailed, projectionVars
  <2>4. \A e \in Enqueued : attempts[e] <= attempts'[e]
    BY <1>t, <2>3
  <2>5. \A u \in Users : replays[u] \subseteq replays'[u] /\ profile[u].version <= profile'[u].version
    BY <1>t, <2>3
  <2> QED BY <2>2, <2>4, <2>5 DEF Grows
<1>5. ASSUME UNCHANGED <<status, attempts, projectionVars>> PROVE Grows
  BY <1>5, <1>t DEF Grows, projectionVars
<1>6. ASSUME NEW d \in Enqueued, TimePasses(d) PROVE Grows
  BY <1>5, <1>6 DEF TimePasses
<1>7. ASSUME NEW w \in Workers,
             PollConflict(w) \/ BeginApply(w) \/ AbortApply(w) \/ MarkFailedConflict(w)
               \/ Crash(w) \/ Restart(w)
      PROVE  Grows
  <2>1. UNCHANGED <<status, attempts, projectionVars>>
    BY <1>7 DEF PollConflict, BeginApply, AbortApply, MarkFailedConflict, Crash, Restart, rowVars
  <2> QED BY <1>5, <2>1
<1>8. CASE UNCHANGED vars
  BY <1>5, <1>8 DEF vars, rowVars
<1> QED BY <1>1, <1>2, <1>3, <1>4, <1>6, <1>7, <1>8 DEF Next

\* Every step keeps a user's replays numbered without gap and the profile
\* the one of the last replay.
LEMMA ProfileStep ==
    ASSUME TypeOK, JobsOK, ProfileIsLatestReplay, [Next]_vars
    PROVE  ProfileIsLatestReplay'
<1> USE OutboxAssumption
<1>1. ASSUME UNCHANGED projectionVars PROVE ProfileIsLatestReplay'
  BY <1>1 DEF ProfileIsLatestReplay, ReplayVersions, projectionVars
<1>2. ASSUME NEW w \in Workers, CommitApply(w) PROVE ProfileIsLatestReplay'
  <2> DEFINE j == job[w]
             u == UserOf[j.row]
             n == [version |-> j.target, asOf |-> TimeOf[j.row], seen |-> j.seen]
  <2>1. CASE profile' = profile /\ replays' = replays
    BY <1>1, <2>1 DEF projectionVars
  <2>2. CASE /\ u \in Users /\ j.fresh
             /\ j.target = profile[u].version + 1
             /\ profile' = [profile EXCEPT ![u] = [version |-> j.target, seen |-> j.seen]]
             /\ replays' = [replays EXCEPT ![u] = @ \cup {n}]
    <3>1. profile \in [Users -> [version : Nat, seen : SUBSET Events]]
          /\ replays \in [Users -> SUBSET [version : Nat, asOf : Nat, seen : SUBSET Events]]
      BY DEF TypeOK
    <3>2. replays'[u] = replays[u] \cup {n} /\ profile'[u] = [version |-> j.target, seen |-> j.seen]
      BY <2>2, <3>1
    <3>3. ReplayVersions(u) = 1 .. profile[u].version /\ profile[u].version \in Nat
      BY <2>2, <3>1 DEF ProfileIsLatestReplay
    <3>4. {r.version : r \in replays'[u]} = ReplayVersions(u) \cup {j.target}
      <4>1. n.version = j.target
        OBVIOUS
      <4> HIDE DEF n, j, u
      <4>2. \A r \in replays'[u] : r \in replays[u] \/ r = n
        BY <3>2 DEF n, j, u
      <4>3. n \in replays'[u] /\ replays[u] \subseteq replays'[u]
        BY <3>2 DEF n, j, u
      <4> QED BY <4>1, <4>2, <4>3 DEF ReplayVersions
    <3>5. {r.version : r \in replays'[u]} = 1 .. profile'[u].version
      <4>1. profile'[u].version = profile[u].version + 1
        BY <2>2, <3>2
      <4>2. (1 .. profile[u].version) \cup {profile[u].version + 1} = 1 .. (profile[u].version + 1)
        BY <3>3
      <4> QED BY <2>2, <3>3, <3>4, <4>1, <4>2
    <3>6. \A r \in replays[u] : r.version # j.target /\ ~SameInput(r, TimeOf[j.row], j.seen)
      BY <1>2, <2>2 DEF CommitApply, ReplayInsertable
    <3>7. \A r, s \in replays[u] : r.version = s.version \/ SameInput(r, s.asOf, s.seen) => r = s
      BY <2>2 DEF ProfileIsLatestReplay
    <3>8. \A r, s \in replays'[u] : r.version = s.version \/ SameInput(r, s.asOf, s.seen) => r = s
      BY <3>2, <3>6, <3>7 DEF SameInput
    <3>9. \A r \in replays'[u] : r.version = profile'[u].version => r.seen = profile'[u].seen
      BY <3>2, <3>6
    <3>10. ASSUME NEW v \in Users, v # u
           PROVE  profile'[v] = profile[v] /\ replays'[v] = replays[v]
      BY <2>2, <3>1, <3>10
    <3>11. ASSUME NEW v \in Users
           PROVE  /\ {r.version : r \in replays'[v]} = 1 .. profile'[v].version
                  /\ \A r, s \in replays'[v] :
                       r.version = s.version \/ SameInput(r, s.asOf, s.seen) => r = s
                  /\ \A r \in replays'[v] : r.version = profile'[v].version => r.seen = profile'[v].seen
      <4>1. CASE v = u
        BY <3>5, <3>8, <3>9, <4>1
      <4>2. CASE v # u
        BY <3>10, <4>2 DEF ProfileIsLatestReplay, ReplayVersions
      <4> QED BY <4>1, <4>2
    <3> QED BY <3>11 DEF ProfileIsLatestReplay, ReplayVersions, SameInput
  <2> QED BY <1>2, <2>1, <2>2, CommitProjects
<1>3. ASSUME NEW w \in Workers,
             Poll(w) \/ PollConflict(w) \/ BeginApply(w) \/ AbortApply(w) \/ MarkFailed(w)
               \/ MarkFailedConflict(w) \/ Crash(w) \/ Restart(w)
      PROVE  UNCHANGED projectionVars
  BY <1>3 DEF Poll, PollConflict, BeginApply, AbortApply, MarkFailed, MarkFailedConflict, Crash,
              Restart, projectionVars
<1>4. ASSUME NEW e \in Events, AppendBehavior(e) PROVE UNCHANGED projectionVars
  BY <1>4 DEF AppendBehavior, projectionVars
<1>5. ASSUME NEW e \in Enqueued, TimePasses(e) PROVE UNCHANGED projectionVars
  BY <1>5 DEF TimePasses, projectionVars
<1>6. CASE UNCHANGED vars
  BY <1>1, <1>6 DEF vars
<1> QED BY <1>1, <1>2, <1>3, <1>4, <1>5, <1>6 DEF Next

\* Every step keeps DONE rows projected.
LEMMA DoneStep ==
    ASSUME TypeOK, RowsOK, JobsOK, ProfileIsLatestReplay, DoneMeansProjected, Grows, TypeOK', [Next]_vars
    PROVE  DoneMeansProjected'
<1> USE OutboxAssumption
<1> SUFFICES ASSUME NEW e \in Enqueued, status'[e] = "DONE"
             PROVE  \E r \in replays'[UserOf[e]] :
                      r.asOf = TimeOf[e] /\ e \in r.seen /\ r.version <= profile'[UserOf[e]].version
  BY DEF DoneMeansProjected
<1> DEFINE u == UserOf[e]
<1>u. u \in Users
  OBVIOUS
<1>1. CASE status[e] = "DONE"
  <2>1. PICK r \in replays[u] : r.asOf = TimeOf[e] /\ e \in r.seen /\ r.version <= profile[u].version
    BY <1>1 DEF DoneMeansProjected
  <2>2. r \in replays'[u] /\ profile[u].version <= profile'[u].version
    BY <1>u, <2>1 DEF Grows
  <2>3. r.version \in Nat /\ profile[u].version \in Nat /\ profile'[u].version \in Nat
    BY <1>u, <2>1 DEF TypeOK
  <2>4. r.version <= profile'[u].version
    BY <2>1, <2>2, <2>3
  <2> QED BY <2>1, <2>2, <2>4
<1>2. ASSUME NEW w \in Workers, CommitApply(w), job[w].row = e
      PROVE  \E r \in replays'[u] : r.asOf = TimeOf[e] /\ e \in r.seen /\ r.version <= profile'[u].version
  <2> DEFINE j == job[w]
  <2>1. JobOK(j)
    BY <1>2 DEF CommitApply, JobsOK
  <2>2. e \in j.seen
    BY <1>2, <2>1 DEF JobOK
  <2>3. CASE ~j.fresh /\ profile' = profile /\ replays' = replays
    <3>1. PICK r \in replays[u] : r.version = j.target /\ SameInput(r, TimeOf[e], j.seen)
      BY <1>2, <2>1, <2>3 DEF JobOK
    <3>2. j.target <= j.current /\ j.current <= profile[u].version
      BY <1>2, <2>1, <2>3 DEF JobOK
    <3>3. j \in Jobs
      BY <1>2, CommitProjects
    <3>4. r.version <= profile[u].version
      BY <1>u, <3>1, <3>2, <3>3 DEF TypeOK, Jobs
    <3> QED BY <2>2, <2>3, <3>1, <3>4 DEF SameInput
  <2>4. CASE /\ j.target = profile[u].version + 1
             /\ profile' = [profile EXCEPT ![u] = [version |-> j.target, seen |-> j.seen]]
             /\ replays' = [replays EXCEPT ![u] = @ \cup
                    {[version |-> j.target, asOf |-> TimeOf[e], seen |-> j.seen]}]
    <3> DEFINE n == [version |-> j.target, asOf |-> TimeOf[e], seen |-> j.seen]
    <3>1. profile'[u].version = j.target
      BY <1>u, <2>4 DEF TypeOK
    <3>2. n \in replays'[u]
      BY <1>u, <2>4 DEF TypeOK
    <3>3. j.target \in Nat
      BY <1>u, <3>1 DEF TypeOK
    <3>4. n.version <= profile'[u].version /\ n.asOf = TimeOf[e] /\ e \in n.seen
      BY <2>2, <3>1, <3>3
    <3> QED BY <3>2, <3>4
  <2> QED BY <1>2, <2>3, <2>4, CommitProjects
<1>3. ASSUME status[e] # "DONE"
      PROVE  \E w \in Workers : CommitApply(w) /\ job[w].row = e
  <2>1. ASSUME NEW d \in Events, AppendBehavior(d) PROVE FALSE
    BY <1>3, <2>1 DEF AppendBehavior, TypeOK, rowVars
  <2>2. ASSUME NEW w \in Workers, Poll(w) PROVE FALSE
    BY <1>3, <2>2 DEF Poll
  <2>3. ASSUME NEW w \in Workers, MarkFailed(w) PROVE FALSE
    <3>1. PICK c \in Heads(w) : status' = [status EXCEPT ![c.row] = FailedStatus(c)]
      BY <2>3 DEF MarkFailed
    <3> QED BY <1>3, <3>1 DEF FailedStatus, TypeOK
  <2>4. ASSUME NEW w \in Workers, CommitApply(w) PROVE job[w].row = e
    BY <1>3, <2>4 DEF CommitApply, TypeOK
  <2>5. ASSUME NEW w \in Workers,
               PollConflict(w) \/ BeginApply(w) \/ AbortApply(w) \/ MarkFailedConflict(w)
                 \/ Crash(w) \/ Restart(w)
        PROVE  status' = status
    BY <2>5 DEF PollConflict, BeginApply, AbortApply, MarkFailedConflict, Crash, Restart, rowVars
  <2>6. ASSUME NEW d \in Enqueued, TimePasses(d) PROVE status' = status
    BY <2>6 DEF TimePasses
  <2>7. CASE UNCHANGED vars
    BY <1>3, <2>7 DEF vars, rowVars
  <2> QED BY <1>3, <2>1, <2>2, <2>3, <2>4, <2>5, <2>6, <2>7 DEF Next
<1> QED BY <1>1, <1>2, <1>3

-----------------------------------------------------------------------------
(* Claims and open transactions under every action.                        *)

\* Every step keeps the claims a worker remembers claims that were made.
LEMMA ClaimsStep ==
    ASSUME TypeOK, TypeOK', ClaimsOK, Grows, [Next]_vars
    PROVE  ClaimsOK'
<1> SUFFICES ASSUME NEW v \in Workers, NEW c \in todo'[v]
             PROVE  status'[c.row] # "NONE" /\ c.attempt <= attempts'[c.row]
  BY DEF ClaimsOK
<1>t. c \in Claims /\ c.row \in Enqueued /\ c.attempt \in Nat
  <2>1. todo'[v] \subseteq Claims
    BY DEF TypeOK
  <2> QED BY <2>1 DEF Claims
<1>1. CASE c \in todo[v]
  <2>1. status[c.row] # "NONE" /\ c.attempt <= attempts[c.row]
    BY <1>1 DEF ClaimsOK
  <2>2. status'[c.row] # "NONE" /\ attempts[c.row] <= attempts'[c.row]
    BY <1>t, <2>1 DEF Grows
  <2>3. attempts[c.row] \in Nat /\ attempts'[c.row] \in Nat
    BY <1>t DEF TypeOK
  <2> QED BY <1>t, <2>1, <2>2, <2>3
<1>2. ASSUME NEW w \in Workers, Poll(w), c \notin todo[v]
      PROVE  status'[c.row] # "NONE" /\ c.attempt <= attempts'[c.row]
  <2>1. c \in {[row |-> e, attempt |-> attempts[e] + 1] : e \in Batch}
    BY <1>2 DEF Poll, TypeOK
  <2>2. PICK e \in Batch : c = [row |-> e, attempt |-> attempts[e] + 1]
    BY <2>1
  <2>3. c.row = e /\ c.attempt = attempts[e] + 1
    BY <2>2
  <2>4. attempts'[e] = attempts[e] + 1 /\ status'[e] # "NONE"
    BY <1>2, <1>t, <2>3 DEF Poll
  <2>5. attempts[e] \in Nat
    BY <1>t, <2>3 DEF TypeOK
  <2> QED BY <2>3, <2>4, <2>5
<1>3. ASSUME NEW w \in Workers,
             PollConflict(w) \/ BeginApply(w) \/ CommitApply(w) \/ AbortApply(w) \/ MarkFailed(w)
               \/ MarkFailedConflict(w) \/ Crash(w) \/ Restart(w)
      PROVE  todo'[v] \subseteq todo[v]
  <2>1. todo \in [Workers -> SUBSET Claims]
    BY DEF TypeOK
  <2>2. \/ todo' = todo
        \/ todo' = [todo EXCEPT ![w] = {}]
        \/ \E e : todo' = [todo EXCEPT ![w] = {d \in @ : d.row # e}]
        \/ \E d : todo' = [todo EXCEPT ![w] = @ \ {d}]
    <3>1. CASE PollConflict(w) \/ BeginApply(w) \/ AbortApply(w) \/ Restart(w)
      BY <3>1, Zenon DEF PollConflict, BeginApply, AbortApply, Restart
    <3>2. CASE MarkFailedConflict(w) \/ Crash(w)
      BY <3>2, Zenon DEF MarkFailedConflict, Crash
    <3>3. CASE CommitApply(w)
      BY <3>3, Zenon DEF CommitApply
    <3>4. CASE MarkFailed(w)
      BY <3>4, Zenon DEF MarkFailed
    <3> QED BY <1>3, <3>1, <3>2, <3>3, <3>4
  <2> QED BY <2>1, <2>2
<1>4. ASSUME NEW d \in Events, AppendBehavior(d) PROVE todo' = todo
  BY <1>4 DEF AppendBehavior, workerVars
<1>5. ASSUME NEW d \in Enqueued, TimePasses(d) PROVE todo' = todo
  BY <1>5 DEF TimePasses, workerVars
<1>6. CASE UNCHANGED vars
  BY <1>1, <1>6 DEF vars, workerVars
<1> QED BY <1>1, <1>2, <1>3, <1>4, <1>5, <1>6 DEF Next

\* What an open transaction has read stays true enough while others commit.
LEMMA JobGrows ==
    ASSUME TypeOK, TypeOK', Grows, NEW j \in Jobs, JobOK(j)
    PROVE  JobOK(j)'
<1> DEFINE u == UserOf[j.row]
<1>1. j.row \in Enqueued /\ u \in Users /\ j.current \in Nat
  BY OutboxAssumption DEF Jobs
<1>2. profile[u].version \in Nat /\ profile'[u].version \in Nat
  BY <1>1 DEF TypeOK
<1>3. profile[u].version <= profile'[u].version /\ replays[u] \subseteq replays'[u]
      /\ (status[j.row] # "NONE" => status'[j.row] # "NONE")
  BY <1>1 DEF Grows
<1>4. j.current <= profile'[u].version
  BY <1>1, <1>2, <1>3 DEF JobOK
<1> QED BY <1>3, <1>4 DEF JobOK, SameInput

\* A transaction that opens has read what the database holds.
LEMMA BeginApplyOK ==
    ASSUME TypeOK, RowsOK, ClaimsOK, ProfileIsLatestReplay, NEW w \in Workers, BeginApply(w)
    PROVE  JobOK(job[w])'
<1> USE OutboxAssumption
<1>1. PICK c \in Heads(w) :
        LET u == UserOf[c.row]
            asOf == TimeOf[c.row]
            seen == EventsUpTo(u, asOf)
            known == {r \in replays[u] : SameInput(r, asOf, seen)}
            current == profile[u].version
        IN  \/ \E r \in known :
                 job' = [job EXCEPT ![w] = [row |-> c.row, seen |-> seen, current |-> current,
                                            target |-> r.version, fresh |-> FALSE]]
            \/ /\ known = {}
               /\ \E top \in ReplayVersions(u) \cup {current} :
                    /\ \A v \in ReplayVersions(u) \cup {current} : v <= top
                    /\ job' = [job EXCEPT ![w] = [row |-> c.row, seen |-> seen, current |-> current,
                                                  target |-> top + 1, fresh |-> TRUE]]
  BY DEF BeginApply
<1>2. PICK e \in Enqueued : e = c.row
  <2>1. todo[w] \subseteq Claims
    BY DEF TypeOK
  <2> QED BY <1>1, <2>1 DEF Heads, Claims
<1>3. PICK u \in Users : u = UserOf[e]
  OBVIOUS
<1>4. status[e] # "NONE"
  BY <1>1, <1>2 DEF ClaimsOK, Heads
<1>5. PICK seen \in SUBSET Events : seen = EventsUpTo(u, TimeOf[e])
  BY DEF EventsUpTo, TypeOK
<1>6. e \in seen
  <2>1. e \in log
    BY <1>4 DEF RowsOK
  <2> QED BY <1>3, <1>5, <2>1 DEF EventsUpTo
<1>7. PICK current \in Nat : current = profile[u].version
  BY DEF TypeOK
<1>8. ReplayVersions(u) = 1 .. current
  BY <1>7 DEF ProfileIsLatestReplay
<1>9. job \in [Workers -> Jobs \cup {NoJob}] /\ UNCHANGED <<status, profile, replays>>
  BY DEF BeginApply, TypeOK, rowVars, projectionVars
<1>10. ASSUME NEW r \in replays[u], SameInput(r, TimeOf[e], seen),
              job' = [job EXCEPT ![w] = [row |-> e, seen |-> seen, current |-> current,
                                         target |-> r.version, fresh |-> FALSE]]
       PROVE  JobOK(job[w])'
  <2>1. r.version \in 1 .. current
    BY <1>8 DEF ReplayVersions
  <2>2. job'[w] = [row |-> e, seen |-> seen, current |-> current, target |-> r.version, fresh |-> FALSE]
    BY <1>9, <1>10
  <2>3. job'[w].row = e /\ job'[w].seen = seen /\ job'[w].current = current
        /\ job'[w].target = r.version /\ job'[w].fresh = FALSE
    BY <2>2
  <2>4. r.version <= current /\ current <= profile[u].version
    BY <1>7, <2>1
  <2> HIDE <2>2
  <2> QED BY <1>3, <1>4, <1>6, <1>9, <1>10, <2>3, <2>4 DEF JobOK, SameInput
<1>11. ASSUME NEW top \in ReplayVersions(u) \cup {current},
              \A v \in ReplayVersions(u) \cup {current} : v <= top,
              job' = [job EXCEPT ![w] = [row |-> e, seen |-> seen, current |-> current,
                                         target |-> top + 1, fresh |-> TRUE]]
       PROVE  JobOK(job[w])'
  <2>1. top = current
    BY <1>8, <1>11
  <2>2. job'[w] = [row |-> e, seen |-> seen, current |-> current, target |-> top + 1, fresh |-> TRUE]
    BY <1>9, <1>11
  <2>3. job'[w].row = e /\ job'[w].seen = seen /\ job'[w].current = current
        /\ job'[w].target = current + 1 /\ job'[w].fresh = TRUE
    BY <2>1, <2>2
  <2>4. current <= profile[u].version
    BY <1>7
  <2> HIDE <2>2
  <2> QED BY <1>3, <1>4, <1>6, <1>9, <2>3, <2>4 DEF JobOK
<1> QED BY <1>1, <1>2, <1>3, <1>5, <1>7, <1>10, <1>11

\* Every step keeps what the open transactions have read true enough.
LEMMA JobsStep ==
    ASSUME TypeOK, TypeOK', RowsOK, ClaimsOK, JobsOK, ProfileIsLatestReplay, Grows, [Next]_vars
    PROVE  JobsOK'
<1> SUFFICES ASSUME NEW v \in Workers, phase'[v] = "APPLYING" PROVE JobOK(job[v])'
  BY DEF JobsOK
<1>1. CASE phase[v] = "APPLYING" /\ job'[v] = job[v]
  <2>1. job[v] \in Jobs /\ JobOK(job[v])
    BY <1>1 DEF JobsOK, TypeOK
  <2>2. PICK j \in Jobs : j = job[v]
    BY <2>1
  <2>3. JobOK(j)'
    BY <2>1, <2>2, JobGrows
  <2> QED BY <1>1, <2>2, <2>3
<1>2. ASSUME NEW w \in Workers, BeginApply(w) PROVE JobOK(job[v])' \/ (phase[v] = "APPLYING" /\ job'[v] = job[v])
  <2>1. CASE v = w
    BY <1>2, <2>1, BeginApplyOK
  <2>2. CASE v # w
    <3>1. phase'[v] = phase[v]
      BY <1>2, <2>2 DEF BeginApply, TypeOK
    <3>2. PICK j : job' = [job EXCEPT ![w] = j]
      BY <1>2 DEF BeginApply
    <3>3. job'[v] = job[v]
      BY <2>2, <3>2 DEF TypeOK
    <3> QED BY <3>1, <3>3
  <2> QED BY <2>1, <2>2
<1>3. ASSUME NEW w \in Workers,
             Poll(w) \/ PollConflict(w) \/ CommitApply(w) \/ AbortApply(w) \/ MarkFailed(w)
               \/ MarkFailedConflict(w) \/ Crash(w) \/ Restart(w)
      PROVE  phase[v] = "APPLYING" /\ job'[v] = job[v]
  <2>1. phase \in [Workers -> Phases] /\ job \in [Workers -> Jobs \cup {NoJob}]
    BY DEF TypeOK
  <2>2. \/ phase' = phase /\ job' = job
        \/ \E p \in {"READY", "ABORTED", "DOWN"} :
             phase' = [phase EXCEPT ![w] = p] /\ (job' = job \/ job' = [job EXCEPT ![w] = NoJob])
    BY <1>3 DEF Poll, PollConflict, CommitApply, AbortApply, MarkFailed, MarkFailedConflict, Crash, Restart
  <2> QED BY <2>1, <2>2
<1>4. ASSUME NEW d \in Events, AppendBehavior(d) PROVE phase' = phase /\ job' = job
  BY <1>4 DEF AppendBehavior, workerVars
<1>5. ASSUME NEW d \in Enqueued, TimePasses(d) PROVE phase' = phase /\ job' = job
  BY <1>5 DEF TimePasses, workerVars
<1>6. CASE UNCHANGED vars
  BY <1>1, <1>6 DEF vars, workerVars
<1> QED BY <1>1, <1>2, <1>3, <1>4, <1>5, <1>6 DEF Next

-----------------------------------------------------------------------------
(* The invariants.                                                         *)

\* The inductive invariant holds at the start ...
LEMMA OutboxInvInit == Init => OutboxInv
<1> SUFFICES ASSUME Init PROVE OutboxInv
  OBVIOUS
<1>1. TypeOK
  BY TypeInit
<1>2. RowsOK
  BY OutboxAssumption DEF Init, RowsOK, RowOK, OneHistory
<1>3. ClaimsOK /\ JobsOK
  BY DEF Init, ClaimsOK, JobsOK
<1>4. ProfileIsLatestReplay
  BY DEF Init, ProfileIsLatestReplay, ReplayVersions
<1>5. DoneMeansProjected
  BY DEF Init, DoneMeansProjected
<1> QED BY <1>1, <1>2, <1>3, <1>4, <1>5 DEF OutboxInv

\* ... and is kept by every step, because its parts carry one another.
LEMMA OutboxInvStep == OutboxInv /\ [Next]_vars => OutboxInv'
<1> SUFFICES ASSUME OutboxInv, [Next]_vars PROVE OutboxInv'
  OBVIOUS
<1>1. TypeOK /\ RowsOK /\ ClaimsOK /\ JobsOK /\ ProfileIsLatestReplay /\ DoneMeansProjected
  BY DEF OutboxInv
<1>2. TypeOK'
  BY <1>1, TypeStep
<1>3. Grows
  BY <1>1, GrowsStep
<1>4. RowsOK'
  BY <1>1, RowsStep
<1>5. ClaimsOK'
  BY <1>1, <1>2, <1>3, ClaimsStep
<1>6. JobsOK'
  BY <1>1, <1>2, <1>3, JobsStep
<1>7. ProfileIsLatestReplay'
  BY <1>1, ProfileStep
<1>8. DoneMeansProjected'
  BY <1>1, <1>2, <1>3, DoneStep
<1> QED BY <1>2, <1>4, <1>5, <1>6, <1>7, <1>8 DEF OutboxInv

\* The inductive invariant holds always, for any number of workers, rows and
\* attempts, and whichever leases run out early.
THEOREM OutboxInvariant == Spec => []OutboxInv
BY OutboxInvInit, OutboxInvStep, PTL DEF Spec

\* The status of every row is what its newest audit fact says.
THEOREM StatusHasEvidence == Spec => []AuditMatchesStatus
<1>1. OutboxInv => AuditMatchesStatus
  <2> SUFFICES ASSUME OutboxInv, NEW e \in Enqueued
               PROVE  /\ status[e] = "NONE" <=> trail[e] = {}
                      /\ \A f \in trail[e] :
                           (\A g \in trail[e] : g.version <= f.version) => f.to = status[e]
    BY DEF AuditMatchesStatus
  <2>1. status[e] \in Statuses /\ attempts[e] \in Nat /\ trail[e] \in SUBSET Facts
    BY DEF OutboxInv, TypeOK
  <2>2. RowOK(status[e], attempts[e], trail[e])
    BY DEF OutboxInv, RowsOK
  <2>3. CASE status[e] = "NONE"
    BY <2>2, <2>3 DEF RowOK
  <2>4. CASE status[e] # "NONE"
    <3>1. PICK v \in Nat : NewestIs(trail[e], v, status[e])
      <4>1. ClaimVersion(attempts[e]) \in Nat /\ OutcomeVersion(attempts[e]) \in Nat
        BY <2>1 DEF ClaimVersion, OutcomeVersion
      <4> QED BY <2>1, <2>2, <2>4, <4>1 DEF RowOK, Statuses, Open, Settled
    <3>2. trail[e] # {}
      BY <3>1 DEF NewestIs
    <3>3. OneHistory(trail[e])
      BY <2>2 DEF RowOK
    <3>4. ASSUME NEW f \in trail[e], \A g \in trail[e] : g.version <= f.version
          PROVE  f.to = status[e]
      BY <2>1, <3>1, <3>3, <3>4, NewestStatus
    <3> QED BY <2>4, <3>2, <3>4
  <2> QED BY <2>3, <2>4
<1> QED BY <1>1, OutboxInvariant, PTL

\* The facts of a row never contradict one another.
THEOREM TrailIsOneHistory == Spec => []AuditIsOneHistory
<1>1. OutboxInv => AuditIsOneHistory
  BY DEF OutboxInv, RowsOK, RowOK, OneHistory, AuditIsOneHistory
<1> QED BY <1>1, OutboxInvariant, PTL

\* Nothing is marked DONE that the profile does not rest on.
THEOREM DoneIsProjected == Spec => []DoneMeansProjected
<1>1. OutboxInv => DoneMeansProjected
  BY DEF OutboxInv
<1> QED BY <1>1, OutboxInvariant, PTL

\* Versions are gap-free and the profile is its last replay, however many
\* workers apply at once.
THEOREM ProfileVersionsAreReplays == Spec => []ProfileIsLatestReplay
<1>1. OutboxInv => ProfileIsLatestReplay
  BY DEF OutboxInv
<1> QED BY <1>1, OutboxInvariant, PTL

-----------------------------------------------------------------------------
(* The outbox implements the ledger.                                       *)

StateOf(e) == IF status[e] \in Open THEN "OPEN" ELSE status[e]

\* The empty outbox is the empty ledger.
LEMMA LedgerInit == Init => Ledger!Init
BY DEF Init, Ledger!Init, Open

\* Every step of the outbox is a step of the ledger or changes nothing in it.
LEMMA LedgerStep ==
    ASSUME OutboxInv, OutboxInv', [Next]_vars
    PROVE  [Ledger!Next]_(Ledger!ledgerVars)
<1> USE OutboxAssumption
<1> DEFINE st == [e \in Enqueued |-> StateOf(e)]
           vs == [u \in Users |-> profile[u].version]
<1>t. TypeOK /\ RowsOK /\ ClaimsOK /\ JobsOK /\ ProfileIsLatestReplay
  BY DEF OutboxInv
<1>s. ASSUME status' = status, attempts' = attempts, profile' = profile
      PROVE  UNCHANGED Ledger!ledgerVars
  BY <1>s DEF Ledger!ledgerVars
<1>1. ASSUME NEW e \in Events, AppendBehavior(e) PROVE [Ledger!Next]_(Ledger!ledgerVars)
  <2>1. CASE e \notin Enqueued
    BY <1>1, <1>s, <2>1 DEF AppendBehavior, rowVars, projectionVars
  <2>2. CASE e \in Enqueued
    <3>1. status[e] = "NONE"
      BY <1>1, <1>t, <2>2 DEF AppendBehavior, RowsOK
    <3>2. status' = [status EXCEPT ![e] = "PENDING"] /\ attempts' = attempts /\ profile' = profile
      BY <1>1, <2>2 DEF AppendBehavior, projectionVars
    <3>3. Ledger!Submit(e)
      BY <1>t, <2>2, <3>1, <3>2 DEF Ledger!Submit, TypeOK, Open
    <3> QED BY <2>2, <3>3 DEF Ledger!Next
  <2> QED BY <2>1, <2>2
<1>2. ASSUME NEW w \in Workers, Poll(w) PROVE [Ledger!Next]_(Ledger!ledgerVars)
  <2>1. Batch \in SUBSET Enqueued /\ Exhausted \in SUBSET Enqueued
    BY DEF Batch, Claimable, Exhausted
  <2>2. \A e \in Batch : status[e] \in Open /\ attempts[e] < MaxAttempts
    BY DEF Batch, Claimable
  <2>3. \A e \in Exhausted : status[e] \in Open /\ attempts[e] = MaxAttempts
    BY <1>2, <1>t, GivenUpNeedsProcessing DEF Poll, Exhausted
  <2>4. \A e \in Enqueued :
          /\ attempts'[e] = (IF e \in Batch THEN attempts[e] + 1 ELSE attempts[e])
          /\ StateOf(e)' = (IF e \in Exhausted THEN "DEAD" ELSE StateOf(e))
    BY <1>2, <2>2, <2>3 DEF Poll, StateOf, Open
  <2>5. attempts' = [e \in Enqueued |-> IF e \in Batch THEN attempts[e] + 1 ELSE attempts[e]]
        /\ profile' = profile
    BY <1>2 DEF Poll, projectionVars
  <2>6. PICK T, D \in SUBSET Enqueued : T = Batch /\ D = Exhausted
    BY <2>1
  <2>7. Ledger!Round(T, D)
    BY <2>2, <2>3, <2>4, <2>5, <2>6 DEF Ledger!Round, StateOf
  <2> QED BY <2>7 DEF Ledger!Next
<1>3. ASSUME NEW w \in Workers, CommitApply(w) PROVE [Ledger!Next]_(Ledger!ledgerVars)
  <2> DEFINE j == job[w]
  <2>1. PICK e \in Enqueued : e = j.row
    BY <1>3, <1>t, CommitNeedsProcessing
  <2>2. status[e] = "PROCESSING" /\ attempts[e] > 0
    BY <1>3, <1>t, <2>1, CommitNeedsProcessing DEF RowsOK, RowOK
  <2>3. status' = [status EXCEPT ![e] = "DONE"] /\ attempts' = attempts
    BY <1>3, <2>1 DEF CommitApply
  <2>4. PICK step \in {0, 1} : \A u \in Users :
          profile'[u].version = IF u = UserOf[e] THEN profile[u].version + step ELSE profile[u].version
    <3>t. profile \in [Users -> [version : Nat, seen : SUBSET Events]]
      BY <1>t DEF TypeOK
    <3>1. CASE profile' = profile
      <4>1. \A u \in Users : profile[u].version + 0 = profile[u].version
        BY <3>t
      <4> QED BY <3>1, <4>1
    <3>2. CASE /\ j.target = profile[UserOf[e]].version + 1
               /\ profile' = [profile EXCEPT ![UserOf[e]] = [version |-> j.target, seen |-> j.seen]]
      BY <3>t, <3>2
    <3> QED BY <1>3, <1>t, <2>1, <3>1, <3>2, CommitProjects
  <2>5. Ledger!Settle(e, step)
    <3>1. [u \in Users |-> profile'[u].version] =
            [[u \in Users |-> profile[u].version] EXCEPT ![UserOf[e]] = @ + step]
      BY <2>4
    <3>2. [d \in Enqueued |-> IF status'[d] \in Open THEN "OPEN" ELSE status'[d]] =
            [[d \in Enqueued |-> IF status[d] \in Open THEN "OPEN" ELSE status[d]] EXCEPT ![e] = "DONE"]
      BY <1>t, <2>3 DEF TypeOK, Open
    <3> QED BY <2>2, <2>3, <3>1, <3>2 DEF Ledger!Settle, Open
  <2> QED BY <2>5 DEF Ledger!Next
<1>4. ASSUME NEW w \in Workers, MarkFailed(w) PROVE [Ledger!Next]_(Ledger!ledgerVars)
  <2>1. PICK c \in Heads(w) :
          /\ Appendable(trail[c.row], FailedFact(c.row, FailedStatus(c)))
          /\ status' = [status EXCEPT ![c.row] = FailedStatus(c)]
    BY <1>4 DEF MarkFailed
  <2>2. c \in Claims /\ c.row \in Enqueued /\ status[c.row] = "PROCESSING"
    BY <1>t, <2>1, FailedNeedsProcessing
  <2>3. attempts' = attempts /\ profile' = profile
    BY <1>4 DEF MarkFailed, projectionVars
  <2>4. CASE c.attempt < MaxAttempts
    <3>1. FailedStatus(c) = "PENDING"
      BY <2>2, <2>4 DEF FailedStatus, Claims
    <3>2. \A e \in Enqueued : StateOf(e)' = StateOf(e)
      BY <1>t, <2>1, <2>2, <3>1 DEF StateOf, Open, TypeOK
    <3> QED BY <2>3, <3>2 DEF Ledger!ledgerVars, StateOf
  <2>5. CASE c.attempt >= MaxAttempts
    <3>1. FailedStatus(c) = "DEAD"
      BY <2>5 DEF FailedStatus
    <3>2. attempts[c.row] = MaxAttempts
      <4>1. c.attempt <= attempts[c.row] /\ attempts[c.row] <= MaxAttempts
        BY <1>t, <2>1, <2>2 DEF ClaimsOK, RowsOK, Heads
      <4>2. attempts[c.row] \in Nat /\ c.attempt \in Nat
        BY <1>t, <2>2 DEF TypeOK, Claims
      <4> QED BY <2>5, <4>1, <4>2
    <3>3. \A e \in Enqueued : StateOf(e)' = IF e \in {c.row} THEN "DEAD" ELSE StateOf(e)
      BY <1>t, <2>1, <2>2, <3>1 DEF StateOf, Open, TypeOK
    <3>4. attempts' = [e \in Enqueued |-> IF e \in {} THEN attempts[e] + 1 ELSE attempts[e]]
      BY <1>t, <2>3 DEF TypeOK
    <3>5. Ledger!Round({}, {c.row})
      BY <2>2, <2>3, <3>2, <3>3, <3>4 DEF Ledger!Round, StateOf, Open
    <3> QED BY <2>2, <3>5 DEF Ledger!Next
  <2>6. c.attempt < MaxAttempts \/ c.attempt >= MaxAttempts
    BY <2>2 DEF Claims
  <2> QED BY <2>4, <2>5, <2>6
<1>5. ASSUME NEW e \in Enqueued, TimePasses(e) PROVE UNCHANGED Ledger!ledgerVars
  BY <1>5, <1>s DEF TimePasses, projectionVars
<1>6. ASSUME NEW w \in Workers,
             PollConflict(w) \/ BeginApply(w) \/ AbortApply(w) \/ MarkFailedConflict(w)
               \/ Crash(w) \/ Restart(w)
      PROVE  UNCHANGED Ledger!ledgerVars
  <2>1. status' = status /\ attempts' = attempts /\ profile' = profile
    BY <1>6 DEF PollConflict, BeginApply, AbortApply, MarkFailedConflict, Crash, Restart, rowVars,
                projectionVars
  <2> QED BY <1>s, <2>1
<1>7. CASE UNCHANGED vars
  BY <1>7, <1>s DEF vars, rowVars, projectionVars
<1> QED BY <1>1, <1>2, <1>3, <1>4, <1>5, <1>6, <1>7 DEF Next

\* Rows settle once and for good, dead letters have spent every attempt, and
\* the profile's version moves one by one with rows marked DONE.
THEOREM OutboxKeepsTheLedger == Spec => KeepsTheLedger
<1>1. Init => Ledger!Init
  BY LedgerInit
<1>2. OutboxInv /\ OutboxInv' /\ [Next]_vars => [Ledger!Next]_(Ledger!ledgerVars)
  BY LedgerStep
<1> QED BY <1>1, <1>2, OutboxInvariant, PTL DEF Spec, KeepsTheLedger, Ledger!Spec
============================================================================
