------------------------ MODULE OrchestrationProofs ------------------------
(***************************************************************************)
(* Proofs about Orchestration, for any number of repeated runs, attempts   *)
(* and changes of the catalog.                                             *)
(***************************************************************************)
EXTENDS Orchestration, SequenceTheorems, TLAPS

-----------------------------------------------------------------------------
(* The inductive invariant: the types; where a run stands and the last of   *)
(* its statuses; the evidence of its facts and its cached snapshot; and the *)
(* facts of those that are through.                                        *)

Whereabouts == Stages \cup {"NEW", "PERSIST", "DONE", "FAILED"}

\* Every status may follow the one before.
Chain(statuses) == \A i \in 1 .. Len(statuses) - 1 : statuses[i + 1] \in Normal(statuses[i])

\* The last status of a run that stands at a stage, in its first plan or its
\* second.
StandsAt(stage, statuses, n) ==
    LET last == statuses[Len(statuses)]
    IN  /\ statuses # <<>>
        /\ CASE stage = "NEW" -> last \in {"CREATED", "WAITING_CLARIFICATION"} /\ n = 0
             [] stage = "INTENT" -> last = "UNDERSTANDING" /\ n = 0
             [] stage \in {"PROFILE", "PROBE"} -> last = "PROBING" /\ n = 0
             [] stage = "POLICY" -> last = IF n = 0 THEN "DECIDING" ELSE "REPLANNING"
             [] stage = "RECALL" -> last = "RECALLING"
             [] stage = "RANK" -> last = "RANKING"
             [] stage = "EXPLAIN" -> last = "EXPLAINING"
             [] OTHER -> TRUE

StatusesOK ==
    \A r \in Runs : /\ Chain(moves[r])
                    /\ at[r] # "FAILED" => StandsAt(at[r], moves[r], replans[r])

EvidenceOK ==
    \A r \in Runs : \A i \in 1 .. Len(trace[r]) :
        trace[r][i].evidence = NoSnapshot \/ trace[r][i].evidence = cache[r]

ResultsOK == \A r \in Runs : at[r] = "DONE" => stored # NoFacts /\ stored = FactsOf(r)

OrchestrationInv == OrchestrationTypeOK /\ StatusesOK /\ EvidenceOK /\ ResultsOK

-----------------------------------------------------------------------------
(* Statuses in a row.                                                      *)

\* A chain followed by one more allowed state is a chain.
LEMMA ChainGrows ==
    ASSUME NEW s \in Seq(TaskStatuses), s # <<>>, Chain(s),
           NEW next \in TaskStatuses, next \in Normal(s[Len(s)])
    PROVE  /\ Append(s, next) \in Seq(TaskStatuses)
           /\ Append(s, next) # <<>>
           /\ Chain(Append(s, next))
           /\ Append(s, next)[Len(Append(s, next))] = next
           /\ s \o <<next>> = Append(s, next)
<1>1. /\ Append(s, next) \in Seq(TaskStatuses)
      /\ Append(s, next) # <<>>
      /\ Len(Append(s, next)) = Len(s) + 1
      /\ \A i \in 1 .. Len(s) : Append(s, next)[i] = s[i]
      /\ Append(s, next)[Len(s) + 1] = next
      /\ Len(s) \in Nat
      /\ Len(s) # 0
  BY AppendProperties, LenProperties, EmptySeq
<1>2. ASSUME NEW i \in 1 .. Len(Append(s, next)) - 1
      PROVE  Append(s, next)[i + 1] \in Normal(Append(s, next)[i])
  <2>1. CASE i = Len(s)
    BY <1>1, <2>1
  <2>2. CASE i # Len(s)
    <3>1. i \in 1 .. Len(s) - 1 /\ i \in 1 .. Len(s) /\ i + 1 \in 1 .. Len(s)
      BY <1>1, <2>2
    <3>2. s[i + 1] \in Normal(s[i])
      BY <3>1 DEF Chain
    <3> QED BY <1>1, <3>1, <3>2
  <2> QED BY <2>1, <2>2
<1>3. Chain(Append(s, next))
  BY <1>2 DEF Chain
<1>4. s \o <<next>> = Append(s, next)
  BY AppendIsConcat
<1> QED BY <1>1, <1>3, <1>4

-----------------------------------------------------------------------------
(* A step of one run.                                                      *)

\* A run is given new values, and what was stored stays.
LEMMA RunMoves ==
    ASSUME OrchestrationInv, NEW r \in Runs,
           NEW stage \in Whereabouts \ {"DONE"}, NEW n \in 0 .. 1,
           NEW statuses \in Seq(TaskStatuses), NEW facts \in Seq(Facts),
           NEW snapshot \in Nat \cup {NoSnapshot}, NEW asked \in 0 .. MaxTries,
           at' = [at EXCEPT ![r] = stage],
           replans' = [replans EXCEPT ![r] = n],
           moves' = [moves EXCEPT ![r] = statuses],
           trace' = [trace EXCEPT ![r] = facts],
           tries' = [tries EXCEPT ![r] = asked],
           cache' = [cache EXCEPT ![r] = snapshot],
           UNCHANGED <<late, catalog, stored>>,
           Chain(statuses),
           stage # "FAILED" => StandsAt(stage, statuses, n),
           \A i \in 1 .. Len(facts) : facts[i].evidence = NoSnapshot \/ facts[i].evidence = snapshot
    PROVE  OrchestrationInv'
<1>1. /\ at \in [Runs -> Whereabouts]
      /\ replans \in [Runs -> 0 .. 1]
      /\ moves \in [Runs -> Seq(TaskStatuses)]
      /\ trace \in [Runs -> Seq(Facts)]
      /\ tries \in [Runs -> 0 .. MaxTries]
      /\ cache \in [Runs -> Nat \cup {NoSnapshot}]
      /\ late \in BOOLEAN /\ catalog \in 1 .. MaxCatalog /\ stored \in StoredFacts \cup {NoFacts}
  BY DEF OrchestrationInv, OrchestrationTypeOK, Whereabouts
<1>2. OrchestrationTypeOK'
  BY <1>1 DEF OrchestrationTypeOK, Whereabouts
<1>3. StatusesOK'
  <2>1. SUFFICES ASSUME NEW u \in Runs
                 PROVE  Chain(moves'[u]) /\ (at'[u] # "FAILED" => StandsAt(at'[u], moves'[u], replans'[u]))
    BY DEF StatusesOK
  <2>2. CASE u = r
    <3>1. moves'[r] = statuses /\ at'[r] = stage /\ replans'[r] = n
      BY <1>1
    <3> QED BY <2>2, <3>1
  <2>3. CASE u # r
    <3>1. moves'[u] = moves[u] /\ at'[u] = at[u] /\ replans'[u] = replans[u]
      BY <1>1, <2>3
    <3> QED BY <3>1 DEF OrchestrationInv, StatusesOK
  <2> QED BY <2>2, <2>3
<1>4. EvidenceOK'
  <2>1. SUFFICES ASSUME NEW u \in Runs, NEW i \in 1 .. Len(trace'[u])
                 PROVE  trace'[u][i].evidence = NoSnapshot \/ trace'[u][i].evidence = cache'[u]
    BY DEF EvidenceOK
  <2>2. CASE u = r
    <3>1. trace'[r] = facts /\ cache'[r] = snapshot
      BY <1>1
    <3> QED BY <2>2, <3>1
  <2>3. CASE u # r
    <3>1. trace'[u] = trace[u] /\ cache'[u] = cache[u]
      BY <1>1, <2>3
    <3> QED BY <3>1 DEF OrchestrationInv, EvidenceOK
  <2> QED BY <2>2, <2>3
<1>5. ResultsOK'
  <2>1. SUFFICES ASSUME NEW u \in Runs, at'[u] = "DONE"
                 PROVE  stored' # NoFacts /\ stored' = [facts |-> trace'[u], moves |-> moves'[u]]
    BY DEF ResultsOK, FactsOf
  <2>2. u # r
    BY <1>1, <2>1
  <2>3. at[u] = "DONE" /\ trace'[u] = trace[u] /\ moves'[u] = moves[u]
    BY <1>1, <2>1, <2>2
  <2> QED BY <2>3 DEF OrchestrationInv, ResultsOK, FactsOf
<1> QED BY <1>2, <1>3, <1>4, <1>5 DEF OrchestrationInv

\* A run that raises keeps nothing.
LEMMA RaiseMoves ==
    ASSUME OrchestrationInv, NEW r \in Runs, Raise(r), UNCHANGED <<late, catalog, stored>>
    PROVE  OrchestrationInv'
<1>1. /\ <<>> \in Seq(TaskStatuses) /\ <<>> \in Seq(Facts) /\ Len(<<>>) = 0
      /\ 0 \in 0 .. MaxTries
  BY OrchestrationAssumption, EmptySeq
<1>2. Chain(<<>>)
  BY <1>1 DEF Chain
<1>3. PICK stage \in Whereabouts \ {"DONE"} : stage = "FAILED"
  BY DEF Whereabouts
<1>4. PICK n \in 0 .. 1 : n = 0
  OBVIOUS
<1>5. PICK none \in Seq(TaskStatuses) : none = <<>>
  BY <1>1
<1>6. PICK nothing \in Seq(Facts) : nothing = <<>>
  BY <1>1
<1>7. PICK snapshot \in Nat \cup {NoSnapshot} : snapshot = NoSnapshot
  OBVIOUS
<1>8. PICK asked \in 0 .. MaxTries : asked = 0
  BY <1>1
<1>9. /\ at' = [at EXCEPT ![r] = stage]
      /\ replans' = [replans EXCEPT ![r] = n]
      /\ moves' = [moves EXCEPT ![r] = none]
      /\ trace' = [trace EXCEPT ![r] = nothing]
      /\ tries' = [tries EXCEPT ![r] = asked]
      /\ cache' = [cache EXCEPT ![r] = snapshot]
  BY <1>3, <1>4, <1>5, <1>6, <1>7, <1>8 DEF Raise
<1>10. /\ Chain(none)
       /\ stage # "FAILED" => StandsAt(stage, none, n)
       /\ \A i \in 1 .. Len(nothing) : nothing[i].evidence = NoSnapshot \/ nothing[i].evidence = snapshot
  BY <1>1, <1>2, <1>3, <1>5, <1>6
<1> QED BY <1>9, <1>10, RunMoves

\* What an Agent may say in its role.
Says ==
    {"READY", "FALLBACK", "DIRECT", "DEGRADED", "ASK", "OTHER", "CHANNEL", "NONE", "ITEMS", "EMPTY",
     "REPLAN"}

\* A role answers with one of the known answers.
LEMMA RolesSay == \A r \in Runs : RoleAnswers(r) \subseteq Says
<1> SUFFICES ASSUME NEW r \in Runs PROVE RoleAnswers(r) \subseteq Says
  OBVIOUS
<1>1. Usual(r) \subseteq Says
  BY DEF Usual, Says
<1>2. Poor(r) \subseteq Says
  BY DEF Poor, Says
<1> QED BY <1>1, <1>2 DEF RoleAnswers

\* The way an answer takes the task, unless it is refused: the statuses are
\* allowed and fit the next stage.
LEMMA WayIsAllowed ==
    ASSUME OrchestrationInv, NEW r \in Runs, at[r] \in Stages,
           NEW says, ~Refused(r, says), says = "REPLAN" => at[r] = "RANK",
           NEW facts, NEW way, way = Way(r, says, facts),
           NEW n, n = IF Grants(r, says) THEN replans[r] + 1 ELSE replans[r]
    PROVE  /\ way.stage \in Whereabouts \ {"DONE", "FAILED", "NEW"}
           /\ n \in 0 .. 1
           /\ moves[r] \o way.statuses \in Seq(TaskStatuses)
           /\ Chain(moves[r] \o way.statuses)
           /\ StandsAt(way.stage, moves[r] \o way.statuses, n)
<1> DEFINE s == moves[r]
<1>1. /\ s \in Seq(TaskStatuses) /\ Chain(s) /\ s # <<>>
      /\ StandsAt(at[r], s, replans[r])
      /\ replans[r] \in 0 .. 1
  BY DEF OrchestrationInv, OrchestrationTypeOK, StatusesOK, Stages, StandsAt
<1>2. PICK last : last = s[Len(s)]
  OBVIOUS
<1>3. n \in 0 .. 1 /\ (at[r] # "RANK" => n = replans[r])
  BY <1>1 DEF Grants
<1> DEFINE Good(w) == /\ w.stage \in Whereabouts \ {"DONE", "FAILED", "NEW"}
                      /\ s \o w.statuses \in Seq(TaskStatuses)
                      /\ Chain(s \o w.statuses)
                      /\ StandsAt(w.stage, s \o w.statuses, n)
<1>4. ASSUME NEW next \in TaskStatuses, next \in Normal(last), NEW stage \in Stages \cup {"PERSIST"},
             \A t \in Seq(TaskStatuses) : (t # <<>> /\ t[Len(t)] = next) => StandsAt(stage, t, n),
             way = [statuses |-> <<next>>, stage |-> stage]
      PROVE  Good(way)
  <2>1. way.statuses = <<next>> /\ way.stage = stage
    BY <1>4
  <2>2. stage \in Whereabouts \ {"DONE", "FAILED", "NEW"}
    BY DEF Stages, Whereabouts
  <2>3. /\ Append(s, next) \in Seq(TaskStatuses) /\ Append(s, next) # <<>>
        /\ Chain(Append(s, next)) /\ Append(s, next)[Len(Append(s, next))] = next
        /\ s \o <<next>> = Append(s, next)
    <3> HIDE DEF s
    <3> QED BY <1>1, <1>2, <1>4, ChainGrows
  <2>4. StandsAt(stage, Append(s, next), n)
    BY <1>4, <2>3
  <2> QED BY <2>1, <2>2, <2>3, <2>4
<1> HIDE DEF s
<1>5. ASSUME at[r] = "INTENT" PROVE Good(way)
  <2>1. last = "UNDERSTANDING" /\ n = 0
    BY <1>1, <1>2, <1>3, <1>5 DEF StandsAt
  <2>2. way = [statuses |-> <<"PROBING">>, stage |-> "PROFILE"]
    BY <1>5 DEF Way
  <2>3. "PROBING" \in TaskStatuses /\ "PROBING" \in Normal(last) /\ "PROFILE" \in Stages
    BY <2>1 DEF TaskStatuses, Normal, Stages
  <2> QED BY <1>4, <2>1, <2>2, <2>3 DEF StandsAt
<1>6. ASSUME at[r] = "PROFILE" PROVE Good(way)
  <2>1. last = "PROBING" /\ n = 0
    BY <1>1, <1>2, <1>3, <1>6 DEF StandsAt
  <2>2. way.statuses = <<>> /\ way.stage = "PROBE"
    BY <1>6 DEF Way
  <2>3. s \o way.statuses = s
    BY <1>1, <2>2, ConcatEmptySeq
  <2>4. StandsAt("PROBE", s, n)
    BY <1>1, <1>2, <2>1 DEF StandsAt
  <2>5. "PROBE" \in Whereabouts \ {"DONE", "FAILED", "NEW"}
    BY DEF Whereabouts, Stages
  <2> QED BY <1>1, <2>2, <2>3, <2>4, <2>5
<1>7. ASSUME at[r] = "PROBE" PROVE Good(way)
  <2>1. last = "PROBING" /\ n = 0
    BY <1>1, <1>2, <1>3, <1>7 DEF StandsAt
  <2>2. way = [statuses |-> <<"DECIDING">>, stage |-> "POLICY"]
    BY <1>7 DEF Way
  <2>3. "DECIDING" \in TaskStatuses /\ "DECIDING" \in Normal(last) /\ "POLICY" \in Stages
    BY <2>1 DEF TaskStatuses, Normal, Stages
  <2> QED BY <1>4, <2>1, <2>2, <2>3 DEF StandsAt
<1>8. ASSUME at[r] = "POLICY" PROVE Good(way)
  <2>1. last = IF n = 0 THEN "DECIDING" ELSE "REPLANNING"
    BY <1>1, <1>2, <1>3, <1>8 DEF StandsAt
  <2>2. says = "ASK" => n = 0
    BY <1>1, <1>3, <1>8 DEF Refused
  <2>3. CASE says = "ASK"
    <3>1. way = [statuses |-> <<"WAITING_CLARIFICATION">>, stage |-> "PERSIST"]
      BY <1>8, <2>3 DEF Way
    <3>2. "WAITING_CLARIFICATION" \in TaskStatuses /\ "WAITING_CLARIFICATION" \in Normal(last)
      BY <2>1, <2>2, <2>3 DEF TaskStatuses, Normal
    <3> QED BY <1>4, <3>1, <3>2 DEF StandsAt
  <2>4. CASE says # "ASK"
    <3>1. way = [statuses |-> <<"RECALLING">>, stage |-> "RECALL"]
      BY <1>8, <2>4 DEF Way
    <3>2. "RECALLING" \in TaskStatuses /\ "RECALLING" \in Normal(last) /\ "RECALL" \in Stages
      BY <2>1 DEF TaskStatuses, Normal, Stages
    <3> QED BY <1>4, <3>1, <3>2 DEF StandsAt
  <2> QED BY <2>3, <2>4
<1>9. ASSUME at[r] = "RECALL" PROVE Good(way)
  <2>1. last = "RECALLING"
    BY <1>1, <1>2, <1>9 DEF StandsAt
  <2>2. way = [statuses |-> <<"RANKING">>, stage |-> "RANK"]
    BY <1>9 DEF Way
  <2>3. "RANKING" \in TaskStatuses /\ "RANKING" \in Normal(last) /\ "RANK" \in Stages
    BY <2>1 DEF TaskStatuses, Normal, Stages
  <2> QED BY <1>4, <2>1, <2>2, <2>3 DEF StandsAt
<1>10. ASSUME at[r] = "RANK" PROVE Good(way)
  <2>1. last = "RANKING"
    BY <1>1, <1>2, <1>10 DEF StandsAt
  <2>2. CASE Grants(r, says)
    <3>1. way = [statuses |-> <<"REPLANNING">>, stage |-> "POLICY"] /\ n = 1
      BY <1>10, <2>2 DEF Way, Grants
    <3>2. "REPLANNING" \in TaskStatuses /\ "REPLANNING" \in Normal(last) /\ "POLICY" \in Stages
      BY <2>1 DEF TaskStatuses, Normal, Stages
    <3> QED BY <1>4, <3>1, <3>2 DEF StandsAt
  <2>3. CASE ~Grants(r, says)
    <3>1. way = [statuses |-> <<"EXPLAINING">>, stage |-> "EXPLAIN"]
      BY <1>10, <2>3 DEF Way
    <3>2. "EXPLAINING" \in TaskStatuses /\ "EXPLAINING" \in Normal(last) /\ "EXPLAIN" \in Stages
      BY <2>1 DEF TaskStatuses, Normal, Stages
    <3> QED BY <1>4, <3>1, <3>2 DEF StandsAt
  <2> QED BY <2>2, <2>3
<1>11. ASSUME at[r] = "EXPLAIN" PROVE Good(way)
  <2>1. last = "EXPLAINING"
    BY <1>1, <1>2, <1>11 DEF StandsAt
  <2>2. PICK end \in {"COMPLETED", "DEGRADED_COMPLETED"} :
          way = [statuses |-> <<"PERSISTING", end>>, stage |-> "PERSIST"]
    BY <1>11 DEF Way
  <2>3. PICK t \in Seq(TaskStatuses) :
          /\ t = s \o <<"PERSISTING">> /\ t # <<>> /\ Chain(t) /\ t[Len(t)] = "PERSISTING"
    <3>1. "PERSISTING" \in TaskStatuses /\ "PERSISTING" \in Normal(last)
      BY <2>1 DEF TaskStatuses, Normal
    <3> QED BY <1>1, <1>2, <3>1, ChainGrows
  <2>4. end \in TaskStatuses /\ end \in Normal("PERSISTING")
    BY DEF TaskStatuses, Normal
  <2>5. /\ t \o <<end>> \in Seq(TaskStatuses)
        /\ t \o <<end>> # <<>>
        /\ Chain(t \o <<end>>)
    BY <2>3, <2>4, ChainGrows
  <2>6. s \o <<"PERSISTING", end>> = t \o <<end>>
    <3>1. <<"PERSISTING">> \in Seq(TaskStatuses) /\ <<end>> \in Seq(TaskStatuses)
      BY <2>4 DEF TaskStatuses
    <3>2. <<"PERSISTING", end>> = <<"PERSISTING">> \o <<end>>
      OBVIOUS
    <3> QED BY <1>1, <2>3, <3>1, <3>2, ConcatAssociative
  <2>7. way.statuses = <<"PERSISTING", end>> /\ way.stage = "PERSIST"
    BY <2>2
  <2>8. StandsAt("PERSIST", t \o <<end>>, n)
    BY <2>5 DEF StandsAt
  <2>9. "PERSIST" \in Whereabouts \ {"DONE", "FAILED", "NEW"}
    BY DEF Whereabouts
  <2> QED BY <2>5, <2>6, <2>7, <2>8, <2>9
<1>12. Good(way)
  BY <1>5, <1>6, <1>7, <1>8, <1>9, <1>10, <1>11 DEF Stages
<1> QED BY <1>3, <1>12 DEF s

-----------------------------------------------------------------------------
(* The actions.                                                            *)

\* An answer goes on to the next Agent, or makes the run raise; its evidence
\* is what the run's reader has cached from then on.
LEMMA AnsweredMoves ==
    ASSUME OrchestrationInv, NEW r \in Runs, at[r] \in Stages,
           NEW says \in Says, says = "REPLAN" => at[r] = "RANK",
           NEW evidence \in Nat \cup {NoSnapshot},
           evidence = NoSnapshot \/ cache[r] = NoSnapshot \/ evidence = cache[r],
           Answered(r, says, evidence)
    PROVE  OrchestrationInv'
<1>1. /\ trace[r] \in Seq(Facts) /\ moves[r] \in Seq(TaskStatuses)
      /\ replans[r] \in 0 .. 1 /\ cache[r] \in Nat \cup {NoSnapshot}
      /\ \A i \in 1 .. Len(trace[r]) :
           trace[r][i].evidence = NoSnapshot \/ trace[r][i].evidence = cache[r]
  BY DEF OrchestrationInv, OrchestrationTypeOK, EvidenceOK
<1>2. UNCHANGED <<late, catalog, stored>>
  BY DEF Answered
<1>3. PICK fact : fact = Fact(r, says, evidence)
  OBVIOUS
<1>4. fact \in Facts /\ fact.evidence = evidence
  BY <1>1, <1>3 DEF Fact, Facts, Says
<1>5. PICK facts \in Seq(Facts) :
        /\ facts = Append(trace[r], Fact(r, says, evidence))
        /\ \A i \in 1 .. Len(facts) : facts[i].evidence = evidence \/ facts[i] \in {trace[r][j] : j \in 1 .. Len(trace[r])}
  <2>1. /\ Append(trace[r], fact) \in Seq(Facts)
        /\ Len(Append(trace[r], fact)) = Len(trace[r]) + 1
        /\ \A i \in 1 .. Len(trace[r]) : Append(trace[r], fact)[i] = trace[r][i]
        /\ Append(trace[r], fact)[Len(trace[r]) + 1] = fact
        /\ Len(trace[r]) \in Nat
    BY <1>1, <1>4, AppendProperties, LenProperties
  <2>2. ASSUME NEW i \in 1 .. Len(Append(trace[r], fact))
        PROVE  \/ Append(trace[r], fact)[i].evidence = evidence
               \/ Append(trace[r], fact)[i] \in {trace[r][j] : j \in 1 .. Len(trace[r])}
    <3>1. i \in 1 .. Len(trace[r]) \/ i = Len(trace[r]) + 1
      BY <2>1
    <3> QED BY <1>4, <2>1, <3>1
  <2> QED BY <1>3, <2>1, <2>2
<1>6. PICK way : way = Way(r, says, facts)
  OBVIOUS
<1>7. PICK n : n = IF Grants(r, says) THEN replans[r] + 1 ELSE replans[r]
  OBVIOUS
<1>8. CASE Raise(r)
  BY <1>2, <1>8, RaiseMoves
<1>9. CASE ~Refused(r, says) /\ Advance(r, facts, evidence, way.statuses, way.stage, n)
  <2>1. /\ way.stage \in Whereabouts \ {"DONE", "FAILED", "NEW"}
        /\ n \in 0 .. 1
        /\ moves[r] \o way.statuses \in Seq(TaskStatuses)
        /\ Chain(moves[r] \o way.statuses)
        /\ StandsAt(way.stage, moves[r] \o way.statuses, n)
    BY <1>6, <1>7, <1>9, WayIsAllowed
  <2>2. PICK statuses \in Seq(TaskStatuses) : statuses = moves[r] \o way.statuses
    BY <2>1
  <2>3. PICK stage \in Whereabouts \ {"DONE"} : stage = way.stage
    BY <2>1
  <2>4. PICK snapshot \in Nat \cup {NoSnapshot} :
          snapshot = IF evidence = NoSnapshot THEN cache[r] ELSE evidence
    BY <1>1
  <2>5. PICK asked \in 0 .. MaxTries : asked = 0
    BY OrchestrationAssumption
  <2>6. /\ at' = [at EXCEPT ![r] = stage]
        /\ replans' = [replans EXCEPT ![r] = n]
        /\ moves' = [moves EXCEPT ![r] = statuses]
        /\ trace' = [trace EXCEPT ![r] = facts]
        /\ tries' = [tries EXCEPT ![r] = asked]
        /\ cache' = [cache EXCEPT ![r] = snapshot]
    <3>1. /\ moves \in [Runs -> Seq(TaskStatuses)]
          /\ cache \in [Runs -> Nat \cup {NoSnapshot}]
      BY DEF OrchestrationInv, OrchestrationTypeOK
    <3> QED BY <1>9, <2>2, <2>3, <2>4, <2>5, <3>1 DEF Advance
  <2>7. \A i \in 1 .. Len(facts) : facts[i].evidence = NoSnapshot \/ facts[i].evidence = snapshot
    <3>1. SUFFICES ASSUME NEW i \in 1 .. Len(facts)
                   PROVE  facts[i].evidence = NoSnapshot \/ facts[i].evidence = snapshot
      OBVIOUS
    <3>2. CASE facts[i].evidence = evidence
      BY <2>4, <3>2
    <3>3. CASE facts[i] \in {trace[r][j] : j \in 1 .. Len(trace[r])}
      BY <1>1, <2>4, <3>3
    <3> QED BY <1>5, <3>2, <3>3
  <2>8. n \in 0 .. 1 /\ Chain(statuses) /\ StandsAt(stage, statuses, n)
    BY <2>1, <2>2, <2>3
  <2> QED BY <1>2, <2>6, <2>7, <2>8, RunMoves
<1> QED BY <1>5, <1>6, <1>7, <1>8, <1>9 DEF Answered

\* A run starts with an empty chain and its own snapshot.
LEMMA StartMoves ==
    ASSUME OrchestrationInv, NEW r \in Runs, Start(r)
    PROVE  OrchestrationInv'
<1>1. at[r] = "NEW" /\ UNCHANGED <<late, catalog, stored>>
  BY DEF Start
<1>2. CASE Raise(r)
  BY <1>1, <1>2, RaiseMoves
<1>3. CASE Advance(r, <<>>, NoSnapshot, <<"UNDERSTANDING">>, "INTENT", 0)
  <2>1. /\ moves \in [Runs -> Seq(TaskStatuses)] /\ cache \in [Runs -> Nat \cup {NoSnapshot}]
        /\ Chain(moves[r]) /\ moves[r] # <<>>
        /\ moves[r][Len(moves[r])] \in {"CREATED", "WAITING_CLARIFICATION"}
    BY <1>1 DEF OrchestrationInv, OrchestrationTypeOK, StatusesOK, StandsAt
  <2>2. "UNDERSTANDING" \in TaskStatuses /\ "UNDERSTANDING" \in Normal(moves[r][Len(moves[r])])
    BY <2>1 DEF TaskStatuses, Normal
  <2>3. PICK statuses \in Seq(TaskStatuses) :
          /\ statuses = moves[r] \o <<"UNDERSTANDING">>
          /\ statuses # <<>> /\ Chain(statuses) /\ statuses[Len(statuses)] = "UNDERSTANDING"
    BY <2>1, <2>2, ChainGrows
  <2>4. PICK stage \in Whereabouts \ {"DONE"} : stage = "INTENT"
    BY DEF Whereabouts, Stages
  <2>5. PICK n \in 0 .. 1 : n = 0
    OBVIOUS
  <2>6. PICK nothing \in Seq(Facts) : nothing = <<>> /\ Len(nothing) = 0
    BY EmptySeq
  <2>7. PICK snapshot \in Nat \cup {NoSnapshot} : snapshot = cache[r]
    BY <2>1
  <2>8. PICK asked \in 0 .. MaxTries : asked = 0
    BY OrchestrationAssumption
  <2>9. /\ at' = [at EXCEPT ![r] = stage]
        /\ replans' = [replans EXCEPT ![r] = n]
        /\ moves' = [moves EXCEPT ![r] = statuses]
        /\ trace' = [trace EXCEPT ![r] = nothing]
        /\ tries' = [tries EXCEPT ![r] = asked]
        /\ cache' = [cache EXCEPT ![r] = snapshot]
    BY <1>3, <2>1, <2>3, <2>4, <2>5, <2>6, <2>7, <2>8 DEF Advance
  <2>10. StandsAt(stage, statuses, n)
    BY <2>3, <2>4, <2>5 DEF StandsAt
  <2>11. \A i \in 1 .. Len(nothing) : nothing[i].evidence = NoSnapshot \/ nothing[i].evidence = snapshot
    BY <2>6
  <2> QED BY <1>1, <2>3, <2>9, <2>10, <2>11, RunMoves
<1> QED BY <1>2, <1>3 DEF Start

\* An answer leads to the next role, to a retry or to the end.
LEMMA AnswerMoves ==
    ASSUME OrchestrationInv, NEW r \in Runs, Answer(r) \/ AnswerWithout(r)
    PROVE  OrchestrationInv'
<1>1. cache[r] \in Nat \cup {NoSnapshot} /\ catalog \in Nat
  BY OrchestrationAssumption DEF OrchestrationInv, OrchestrationTypeOK
<1>2. CASE Answer(r)
  <2>1. PICK says \in RoleAnswers(r) :
          Answered(r, says, IF ReadsCatalog(r) THEN Snapshot(r) ELSE NoSnapshot)
    BY <1>2 DEF Answer
  <2>2. PICK evidence \in Nat \cup {NoSnapshot} :
          evidence = IF ReadsCatalog(r) THEN Snapshot(r) ELSE NoSnapshot
    BY <1>1 DEF Snapshot
  <2>3. evidence = NoSnapshot \/ cache[r] = NoSnapshot \/ evidence = cache[r]
    BY <2>2 DEF Snapshot
  <2>4. at[r] \in Stages
    BY <1>2 DEF Answer
  <2>5. says \in Says
    BY <2>1, RolesSay
  <2>6. says = "REPLAN" => at[r] = "RANK"
    <3>1. CASE at[r] \in {"INTENT", "PROFILE", "PROBE", "RECALL"}
      BY <2>1, <3>1 DEF RoleAnswers, Usual, Poor
    <3>2. CASE at[r] = "POLICY"
      BY <2>1, <3>2 DEF RoleAnswers, Usual, Poor
    <3>3. CASE at[r] = "EXPLAIN"
      BY <2>1, <3>3 DEF RoleAnswers, Usual, Poor
    <3> QED BY <2>4, <3>1, <3>2, <3>3 DEF Stages
  <2>7. Answered(r, says, evidence)
    BY <2>1, <2>2
  <2> QED BY <2>3, <2>4, <2>5, <2>6, <2>7, AnsweredMoves
<1>3. CASE AnswerWithout(r)
  <2>1. PICK says \in Says : says = "FALLBACK"
    BY DEF Says
  <2>2. PICK evidence \in Nat \cup {NoSnapshot} : evidence = NoSnapshot
    OBVIOUS
  <2>3. at[r] \in Stages /\ Answered(r, says, evidence)
    BY <1>3, <2>1, <2>2 DEF AnswerWithout, Asks, Stages
  <2> QED BY <2>1, <2>2, <2>3, AnsweredMoves
<1> QED BY <1>2, <1>3

\* The facts of a run are stored whole or not at all.
LEMMA PersistMoves ==
    ASSUME OrchestrationInv, NEW r \in Runs, Persist(r)
    PROVE  OrchestrationInv'
<1>1. /\ at \in [Runs -> Whereabouts]
      /\ trace[r] \in Seq(Facts) /\ moves[r] \in Seq(TaskStatuses)
      /\ stored \in StoredFacts \cup {NoFacts}
  BY DEF OrchestrationInv, OrchestrationTypeOK, Whereabouts
<1>2. FactsOf(r) \in StoredFacts /\ FactsOf(r) # NoFacts
  BY <1>1, OrchestrationAssumption DEF FactsOf, StoredFacts
<1>3. /\ at[r] = "PERSIST" /\ at' = [at EXCEPT ![r] = "DONE"]
      /\ UNCHANGED <<replans, moves, trace, tries, cache, late, catalog>>
      /\ stored' = FactsOf(r)
      /\ stored # NoFacts => stored' = stored
  BY DEF Persist, Repeats
<1>4. OrchestrationTypeOK'
  <2>1. at' \in [Runs -> Whereabouts]
    BY <1>1, <1>3 DEF Whereabouts
  <2> QED BY <1>2, <1>3, <2>1 DEF OrchestrationInv, OrchestrationTypeOK, Whereabouts
<1>5. StatusesOK'
  <2>1. SUFFICES ASSUME NEW u \in Runs
                 PROVE  Chain(moves[u]) /\ (at'[u] # "FAILED" => StandsAt(at'[u], moves[u], replans[u]))
    BY <1>3 DEF StatusesOK
  <2>2. Chain(moves[u]) /\ (at[u] # "FAILED" => StandsAt(at[u], moves[u], replans[u]))
    BY DEF OrchestrationInv, StatusesOK
  <2>3. CASE u = r
    BY <1>1, <1>3, <2>2, <2>3 DEF StandsAt
  <2>4. CASE u # r
    BY <1>1, <1>3, <2>2, <2>4
  <2> QED BY <2>3, <2>4
<1>6. EvidenceOK'
  BY <1>3 DEF OrchestrationInv, EvidenceOK
<1>7. ResultsOK'
  <2>1. SUFFICES ASSUME NEW u \in Runs, at'[u] = "DONE"
                 PROVE  stored' # NoFacts /\ stored' = FactsOf(u)
    BY <1>3 DEF ResultsOK, FactsOf
  <2>2. CASE u = r
    BY <1>2, <1>3, <2>2
  <2>3. CASE u # r
    BY <1>1, <1>3, <2>1, <2>3 DEF OrchestrationInv, ResultsOK
  <2> QED BY <2>2, <2>3
<1> QED BY <1>4, <1>5, <1>6, <1>7 DEF OrchestrationInv

\* No run has started and nothing is stored.
LEMMA OrchestrationInvInit == OrchestrationInit => OrchestrationInv
<1> SUFFICES ASSUME OrchestrationInit PROVE OrchestrationInv
  OBVIOUS
<1>1. PICK first \in {"CREATED", "WAITING_CLARIFICATION"} : moves = [r \in Runs |-> <<first>>]
  BY DEF OrchestrationInit
<1>2. first \in TaskStatuses /\ <<first>> \in Seq(TaskStatuses) /\ <<>> \in Seq(Facts)
  BY EmptySeq DEF TaskStatuses
<1>3. OrchestrationTypeOK
  <2>1. MaxTries \in Nat /\ MaxCatalog \in Nat \ {0}
    BY OrchestrationAssumption
  <2>2. moves \in [Runs -> Seq(TaskStatuses)] /\ trace \in [Runs -> Seq(Facts)]
    BY <1>1, <1>2 DEF OrchestrationInit
  <2>3. /\ at \in [Runs -> Stages \cup {"NEW", "PERSIST", "DONE", "FAILED"}]
        /\ replans \in [Runs -> 0 .. 1]
        /\ tries \in [Runs -> 0 .. MaxTries]
        /\ cache \in [Runs -> Nat \cup {NoSnapshot}]
    BY <2>1 DEF OrchestrationInit
  <2>4. late \in BOOLEAN /\ catalog \in 1 .. MaxCatalog /\ stored \in StoredFacts \cup {NoFacts}
    <3>1. late = FALSE /\ catalog = 1 /\ stored = NoFacts
      BY DEF OrchestrationInit
    <3>2. catalog \in 1 .. MaxCatalog
      BY <2>1, <3>1
    <3> QED BY <3>1, <3>2
  <2> QED BY <2>2, <2>3, <2>4 DEF OrchestrationTypeOK
<1>4. StatusesOK
  <2>1. ASSUME NEW r \in Runs PROVE Chain(moves[r]) /\ StandsAt(at[r], moves[r], replans[r])
    <3>1. moves[r] = <<first>> /\ Len(moves[r]) = 1 /\ moves[r][1] = first /\ moves[r] # <<>>
      BY <1>1
    <3>2. Chain(moves[r])
      BY <3>1 DEF Chain
    <3>3. at[r] = "NEW" /\ replans[r] = 0
      BY DEF OrchestrationInit
    <3> QED BY <3>1, <3>2, <3>3 DEF StandsAt
  <2> QED BY <2>1 DEF StatusesOK
<1>5. EvidenceOK
  BY EmptySeq DEF OrchestrationInit, EvidenceOK
<1>6. ResultsOK
  BY DEF OrchestrationInit, ResultsOK
<1> QED BY <1>3, <1>4, <1>5, <1>6 DEF OrchestrationInv

\* Every step keeps the parts together.
LEMMA OrchestrationInvStep == OrchestrationInv /\ [OrchestrationNext]_orchestrationVars => OrchestrationInv'
<1> SUFFICES ASSUME OrchestrationInv, [OrchestrationNext]_orchestrationVars PROVE OrchestrationInv'
  OBVIOUS
<1>1. ASSUME NEW r \in Runs, RunStep(r) PROVE OrchestrationInv'
  <2>1. CASE Start(r)
    BY <2>1, StartMoves
  <2>2. CASE Retry(r)
    <3>1. /\ tries' = [tries EXCEPT ![r] = tries[r] + 1] /\ tries[r] # MaxTries
          /\ UNCHANGED <<at, replans, moves, trace, cache, late, catalog, stored>>
      BY <2>2 DEF Retry, GivesUp
    <3>2. tries \in [Runs -> 0 .. MaxTries] /\ MaxTries \in Nat
      BY OrchestrationAssumption DEF OrchestrationInv, OrchestrationTypeOK
    <3>3. tries' \in [Runs -> 0 .. MaxTries]
      BY <3>1, <3>2
    <3> QED
      BY <3>1, <3>3 DEF OrchestrationInv, OrchestrationTypeOK, StatusesOK, EvidenceOK, ResultsOK, FactsOf
  <2>3. CASE Answer(r) \/ AnswerWithout(r)
    BY <2>3, AnswerMoves
  <2>4. CASE Break(r) \/ Conflict(r)
    BY <2>4, RaiseMoves DEF Break, Conflict
  <2>5. CASE Persist(r)
    BY <2>5, PersistMoves
  <2> QED BY <1>1, <2>1, <2>2, <2>3, <2>4, <2>5 DEF RunStep
<1>2. CASE DeadlinePasses \/ CatalogChanges
  <2>1. UNCHANGED <<at, replans, moves, trace, tries, cache, stored>>
    BY <1>2 DEF DeadlinePasses, CatalogChanges, progressVars
  <2>2. late' \in BOOLEAN /\ catalog' \in 1 .. MaxCatalog
    <3>1. late \in BOOLEAN /\ catalog \in 1 .. MaxCatalog /\ MaxCatalog \in Nat
      BY OrchestrationAssumption DEF OrchestrationInv, OrchestrationTypeOK
    <3>2. CASE DeadlinePasses
      BY <3>1, <3>2 DEF DeadlinePasses
    <3>3. CASE CatalogChanges
      BY <3>1, <3>3 DEF CatalogChanges
    <3> QED BY <1>2, <3>2, <3>3
  <2> QED
    BY <2>1, <2>2 DEF OrchestrationInv, OrchestrationTypeOK, StatusesOK, EvidenceOK, ResultsOK, FactsOf
<1>3. CASE UNCHANGED orchestrationVars
  BY <1>3 DEF orchestrationVars, progressVars, OrchestrationInv, OrchestrationTypeOK, StatusesOK, EvidenceOK,
              ResultsOK, FactsOf
<1> QED BY <1>1, <1>2, <1>3 DEF OrchestrationNext

-----------------------------------------------------------------------------
(* Where an answer stands.  The Agents answer along one route, with at most *)
(* one detour from the ranking back to the policy, so the place of an       *)
(* answer says whose it is, and the last answers are those of the plan that *)
(* was carried out.                                                         *)

\* The Agent that gives the i-th answer of a task that was planned again n
\* times.
StageAt(i, n) ==
    CASE i = 1 -> "INTENT"
      [] i = 2 -> "PROFILE"
      [] i = 3 -> "PROBE"
      [] i = 4 \/ (i = 7 /\ n = 1) -> "POLICY"
      [] i = 5 \/ (i = 8 /\ n = 1) -> "RECALL"
      [] i = 6 \/ (i = 9 /\ n = 1) -> "RANK"
      [] OTHER -> "EXPLAIN"

OnRoute(facts, n) ==
    \A i \in 1 .. Len(facts) :
        /\ facts[i].stage = StageAt(i, n)
        /\ facts[i].stage = "EXPLAIN" => facts[i].says \in {"READY", "FALLBACK"}

\* The run waits for the Agent that comes after its answers.
WaitsNext(stage, facts, n) ==
    stage \in Stages => /\ stage = StageAt(Len(facts) + 1, n)
                        /\ 6 * n <= Len(facts) /\ Len(facts) <= 6 + 3 * n

\* Who is through and COMPLETED has all answers, and nothing to warn of.
ThroughWhole(stage, statuses, facts, n) ==
    stage \in {"PERSIST", "DONE"} /\ statuses[Len(statuses)] = "COMPLETED"
        => Len(facts) = 7 + 3 * n /\ ~Degraded(facts)

RouteOK(r) ==
    at[r] # "FAILED" => /\ OnRoute(trace[r], replans[r])
                        /\ WaitsNext(at[r], trace[r], replans[r])
                        /\ ThroughWhole(at[r], moves[r], trace[r], replans[r])

RoutesOK == \A r \in Runs : RouteOK(r)

\* An answer that is not refused is the next one on the route.
LEMMA RouteGoesOn ==
    ASSUME OrchestrationInv, NEW r \in Runs, at[r] \in Stages, RouteOK(r),
           NEW says, ~Refused(r, says), says = "REPLAN" => at[r] = "RANK",
           at[r] = "EXPLAIN" => says \in {"READY", "FALLBACK"},
           NEW evidence,
           NEW facts \in Seq(Facts), facts = Append(trace[r], Fact(r, says, evidence)),
           NEW way, way = Way(r, says, facts),
           NEW n, n = IF Grants(r, says) THEN replans[r] + 1 ELSE replans[r]
    PROVE  /\ OnRoute(facts, n)
           /\ WaitsNext(way.stage, facts, n)
           /\ ThroughWhole(way.stage, moves[r] \o way.statuses, facts, n)
<1> DEFINE before == trace[r]
           m == replans[r]
           fact == Fact(r, says, evidence)
           p == Len(before) + 1
<1>1. /\ before \in Seq(Facts) /\ m \in {0, 1}
      /\ moves[r] \in Seq(TaskStatuses)
  BY DEF OrchestrationInv, OrchestrationTypeOK
<1>2. /\ Len(before) \in Nat /\ Len(facts) = p
      /\ \A i \in 1 .. Len(before) : facts[i] = before[i]
      /\ facts[p] = fact
      /\ fact.stage = at[r] /\ fact.says = says
  BY <1>1, AppendProperties, LenProperties DEF Fact
<1>3. /\ OnRoute(before, m)
      /\ at[r] = StageAt(p, m)
      /\ 6 * m <= Len(before) /\ Len(before) <= 6 + 3 * m
  BY DEF RouteOK, WaitsNext, Stages
<1> HIDE DEF before, m, fact
<1>4. n \in {0, 1} /\ (Grants(r, says) => at[r] = "RANK" /\ m = 0 /\ n = 1 /\ p = 6) /\ (~Grants(r, says) => n = m)
  <2>1. Grants(r, says) => at[r] = "RANK" /\ m = 0
    BY DEF Grants, m
  <2>2. m = 0 /\ at[r] = "RANK" => p = 6
    BY <1>2, <1>3 DEF StageAt
  <2> QED BY <1>1, <2>1, <2>2 DEF m
<1>5. ASSUME NEW i \in 1 .. p PROVE StageAt(i, n) = StageAt(i, m)
  <2>1. CASE n = m
    BY <2>1
  <2>2. CASE n # m
    <3>1. m = 0 /\ n = 1 /\ i \in 1 .. 6
      BY <1>4, <2>2
    <3> QED BY <3>1 DEF StageAt
  <2> QED BY <2>1, <2>2
<1>6. OnRoute(facts, n)
  <2>1. SUFFICES ASSUME NEW i \in 1 .. Len(facts)
                 PROVE  /\ facts[i].stage = StageAt(i, n)
                        /\ facts[i].stage = "EXPLAIN" => facts[i].says \in {"READY", "FALLBACK"}
    BY DEF OnRoute
  <2>2. CASE i \in 1 .. Len(before)
    BY <1>2, <1>3, <1>5, <2>2 DEF OnRoute
  <2>3. CASE i = p
    BY <1>2, <1>3, <1>5, <2>3
  <2> QED BY <1>2, <2>2, <2>3
<1>7. WaitsNext(way.stage, facts, n)
  <2> SUFFICES ASSUME way.stage \in Stages
               PROVE  /\ way.stage = StageAt(p + 1, n)
                      /\ 6 * n <= p /\ p <= 6 + 3 * n
    BY <1>2 DEF WaitsNext
  <2>1. CASE at[r] = "INTENT"
    BY <1>1, <1>2, <1>3, <1>4, <2>1 DEF Way, StageAt
  <2>2. CASE at[r] = "PROFILE"
    BY <1>1, <1>2, <1>3, <1>4, <2>2 DEF Way, StageAt
  <2>3. CASE at[r] = "PROBE"
    BY <1>1, <1>2, <1>3, <1>4, <2>3 DEF Way, StageAt
  <2>4. CASE at[r] = "POLICY"
    <3>1. way.stage = "RECALL"
      BY <2>4 DEF Way, Stages
    <3> QED BY <1>1, <1>2, <1>3, <1>4, <2>4, <3>1 DEF StageAt
  <2>5. CASE at[r] = "RECALL"
    BY <1>1, <1>2, <1>3, <1>4, <2>5 DEF Way, StageAt
  <2>6. CASE at[r] = "RANK"
    <3>1. CASE Grants(r, says)
      <4>1. way.stage = "POLICY"
        BY <2>6, <3>1 DEF Way
      <4> QED BY <1>4, <3>1, <4>1 DEF StageAt
    <3>2. CASE ~Grants(r, says)
      <4>1. way.stage = "EXPLAIN"
        BY <2>6, <3>2 DEF Way
      <4> QED BY <1>1, <1>2, <1>3, <1>4, <2>6, <3>2, <4>1 DEF StageAt
    <3> QED BY <3>1, <3>2
  <2>7. CASE at[r] = "EXPLAIN"
    <3>1. way.stage = "PERSIST"
      BY <2>7 DEF Way
    <3> QED BY <3>1 DEF Stages
  <2> QED BY <2>1, <2>2, <2>3, <2>4, <2>5, <2>6, <2>7 DEF Stages
<1>8. ThroughWhole(way.stage, moves[r] \o way.statuses, facts, n)
  <2> DEFINE s == moves[r] \o way.statuses
  <2>1. CASE at[r] = "EXPLAIN"
    <3>1. PICK end \in {"COMPLETED", "DEGRADED_COMPLETED"} :
            /\ way.statuses = <<"PERSISTING", end>>
            /\ end = "COMPLETED" => ~Degraded(facts)
      BY <2>1 DEF Way
    <3>2. s[Len(s)] = end
      <4>1. <<"PERSISTING", end>> \in Seq(TaskStatuses)
        BY DEF TaskStatuses
      <4> QED BY <1>1, <3>1, <4>1
    <3>3. p = 7 + 3 * n
      BY <1>1, <1>2, <1>3, <1>4, <2>1 DEF StageAt
    <3> QED BY <1>2, <3>1, <3>2, <3>3 DEF ThroughWhole
  <2>2. CASE at[r] = "POLICY" /\ says = "ASK"
    <3>1. way.statuses = <<"WAITING_CLARIFICATION">>
      BY <2>2 DEF Way
    <3>2. s[Len(s)] = "WAITING_CLARIFICATION"
      <4>1. <<"WAITING_CLARIFICATION">> \in Seq(TaskStatuses)
        BY DEF TaskStatuses
      <4> QED BY <1>1, <3>1, <4>1
    <3> QED BY <3>2 DEF ThroughWhole
  <2>3. CASE at[r] # "EXPLAIN" /\ ~(at[r] = "POLICY" /\ says = "ASK")
    <3>1. way.stage \in Stages
      BY <2>3 DEF Way, Stages
    <3> QED BY <3>1 DEF ThroughWhole, Stages
  <2> QED BY <2>1, <2>2, <2>3
<1> QED BY <1>6, <1>7, <1>8

\* A step of another run leaves a run where it is on its route.
LEMMA OtherRouteStays ==
    ASSUME RoutesOK, NEW u \in Runs,
           at'[u] = at[u], moves'[u] = moves[u], trace'[u] = trace[u], replans'[u] = replans[u]
    PROVE  RouteOK(u)'
BY DEF RoutesOK, RouteOK

\* A run that raises leaves the route.
LEMMA RaiseKeepsRoutes ==
    ASSUME OrchestrationInv, RoutesOK, NEW r \in Runs, Raise(r)
    PROVE  RoutesOK'
<1>1. at' = [at EXCEPT ![r] = "FAILED"] /\ at \in [Runs -> Whereabouts]
  BY DEF Raise, OrchestrationInv, OrchestrationTypeOK, Whereabouts
<1>2. RouteOK(r)'
  BY <1>1 DEF RouteOK
<1>3. ASSUME NEW u \in Runs, u # r PROVE RouteOK(u)'
  BY <1>3, OtherRouteStays DEF Raise, OrchestrationInv, OrchestrationTypeOK
<1> QED BY <1>2, <1>3 DEF RoutesOK

\* A run that goes on stays on the route.
LEMMA AdvanceKeepsRoutes ==
    ASSUME OrchestrationInv, RoutesOK, NEW r \in Runs,
           NEW facts, NEW evidence, NEW statuses, NEW stage, NEW n,
           Advance(r, facts, evidence, statuses, stage, n),
           OnRoute(facts, n), WaitsNext(stage, facts, n),
           ThroughWhole(stage, moves[r] \o statuses, facts, n)
    PROVE  RoutesOK'
<1>1. /\ at'[r] = stage /\ replans'[r] = n /\ trace'[r] = facts /\ moves'[r] = moves[r] \o statuses
      /\ \A u \in Runs \ {r} : /\ at'[u] = at[u] /\ replans'[u] = replans[u]
                               /\ trace'[u] = trace[u] /\ moves'[u] = moves[u]
  BY DEF Advance, OrchestrationInv, OrchestrationTypeOK
<1>2. RouteOK(r)'
  BY <1>1 DEF RouteOK
<1>3. ASSUME NEW u \in Runs, u # r PROVE RouteOK(u)'
  BY <1>1, <1>3, OtherRouteStays
<1> QED BY <1>2, <1>3 DEF RoutesOK

\* An answer that is taken keeps the routes.
LEMMA AnsweredKeepsRoutes ==
    ASSUME OrchestrationInv, RoutesOK, NEW r \in Runs, at[r] \in Stages,
           NEW says \in Says, says = "REPLAN" => at[r] = "RANK",
           at[r] = "EXPLAIN" => says \in {"READY", "FALLBACK"},
           NEW evidence \in Nat \cup {NoSnapshot}, Answered(r, says, evidence)
    PROVE  RoutesOK'
<1>1. trace[r] \in Seq(Facts) /\ replans[r] \in 0 .. 1
  BY DEF OrchestrationInv, OrchestrationTypeOK
<1>2. Fact(r, says, evidence) \in Facts
  BY <1>1 DEF Fact, Facts, Says
<1>3. PICK facts \in Seq(Facts) : facts = Append(trace[r], Fact(r, says, evidence))
  BY <1>1, <1>2, AppendProperties
<1>4. PICK way : way = Way(r, says, facts)
  OBVIOUS
<1>5. PICK n : n = IF Grants(r, says) THEN replans[r] + 1 ELSE replans[r]
  OBVIOUS
<1>6. CASE Raise(r)
  BY <1>6, RaiseKeepsRoutes
<1>7. CASE ~Refused(r, says) /\ Advance(r, facts, evidence, way.statuses, way.stage, n)
  <2>1. /\ OnRoute(facts, n) /\ WaitsNext(way.stage, facts, n)
        /\ ThroughWhole(way.stage, moves[r] \o way.statuses, facts, n)
    BY <1>3, <1>4, <1>5, <1>7, RouteGoesOn DEF RoutesOK
  <2> QED BY <1>7, <2>1, AdvanceKeepsRoutes
<1> QED BY <1>3, <1>4, <1>5, <1>6, <1>7 DEF Answered

\* What the roles say of a second plan and of an explanation.
LEMMA RolesInPlace ==
    ASSUME NEW r \in Runs, at[r] \in Stages, NEW says \in RoleAnswers(r)
    PROVE  /\ says = "REPLAN" => at[r] = "RANK"
           /\ at[r] = "EXPLAIN" => says \in {"READY", "FALLBACK"}
<1>1. CASE at[r] \in {"INTENT", "PROFILE", "PROBE", "RECALL"}
  BY <1>1 DEF RoleAnswers, Usual, Poor
<1>2. CASE at[r] = "POLICY"
  BY <1>2 DEF RoleAnswers, Usual, Poor
<1>3. CASE at[r] = "EXPLAIN"
  BY <1>3 DEF RoleAnswers, Usual, Poor
<1> QED BY <1>1, <1>2, <1>3 DEF Stages

\* Every step keeps every run on its route.
LEMMA RoutesStep ==
    OrchestrationInv /\ RoutesOK /\ [OrchestrationNext]_orchestrationVars => RoutesOK'
<1> SUFFICES ASSUME OrchestrationInv, RoutesOK, [OrchestrationNext]_orchestrationVars PROVE RoutesOK'
  OBVIOUS
<1>1. ASSUME NEW r \in Runs, RunStep(r) PROVE RoutesOK'
  <2>1. CASE Start(r)
    <3>1. CASE Raise(r)
      BY <3>1, RaiseKeepsRoutes
    <3>2. CASE Advance(r, <<>>, NoSnapshot, <<"UNDERSTANDING">>, "INTENT", 0)
      <4>1. Len(<<>>) = 0
        OBVIOUS
      <4>2. OnRoute(<<>>, 0) /\ WaitsNext("INTENT", <<>>, 0)
        BY <4>1 DEF OnRoute, WaitsNext, StageAt
      <4>3. ThroughWhole("INTENT", moves[r] \o <<"UNDERSTANDING">>, <<>>, 0)
        BY DEF ThroughWhole
      <4> QED BY <3>2, <4>2, <4>3, AdvanceKeepsRoutes
    <3> QED BY <2>1, <3>1, <3>2 DEF Start
  <2>2. CASE Retry(r)
    BY <2>2, OtherRouteStays DEF Retry, RoutesOK
  <2>3. CASE Answer(r)
    <3>1. PICK says \in RoleAnswers(r) :
            Answered(r, says, IF ReadsCatalog(r) THEN Snapshot(r) ELSE NoSnapshot)
      BY <2>3 DEF Answer
    <3>2. PICK evidence \in Nat \cup {NoSnapshot} :
            evidence = IF ReadsCatalog(r) THEN Snapshot(r) ELSE NoSnapshot
      <4>1. cache[r] \in Nat \cup {NoSnapshot} /\ catalog \in Nat
        BY OrchestrationAssumption DEF OrchestrationInv, OrchestrationTypeOK
      <4> QED BY <4>1 DEF Snapshot
    <3>3. at[r] \in Stages /\ says \in Says
      BY <2>3, <3>1, RolesSay DEF Answer
    <3>4. Answered(r, says, evidence)
      BY <3>1, <3>2
    <3> QED BY <3>3, <3>4, RolesInPlace, AnsweredKeepsRoutes
  <2>4. CASE AnswerWithout(r)
    <3>1. "FALLBACK" \in Says /\ at[r] \in Stages
      BY <2>4 DEF Says, AnswerWithout, Asks, Stages
    <3>2. Answered(r, "FALLBACK", NoSnapshot) /\ NoSnapshot \in Nat \cup {NoSnapshot}
      BY <2>4 DEF AnswerWithout
    <3> QED BY <3>1, <3>2, AnsweredKeepsRoutes
  <2>5. CASE Break(r) \/ Conflict(r)
    BY <2>5, RaiseKeepsRoutes DEF Break, Conflict
  <2>6. CASE Persist(r)
    <3>1. /\ at' = [at EXCEPT ![r] = "DONE"] /\ at[r] = "PERSIST"
          /\ UNCHANGED <<replans, moves, trace>>
          /\ at \in [Runs -> Whereabouts]
      BY <2>6 DEF Persist, OrchestrationInv, OrchestrationTypeOK, Whereabouts
    <3>2. RouteOK(r)'
      BY <3>1 DEF RoutesOK, RouteOK, WaitsNext, ThroughWhole, Stages
    <3>3. ASSUME NEW u \in Runs, u # r PROVE RouteOK(u)'
      BY <3>1, <3>3, OtherRouteStays
    <3> QED BY <3>2, <3>3 DEF RoutesOK
  <2> QED BY <1>1, <2>1, <2>2, <2>3, <2>4, <2>5, <2>6 DEF RunStep
<1>2. CASE DeadlinePasses \/ CatalogChanges \/ UNCHANGED orchestrationVars
  <2>1. UNCHANGED <<at, replans, moves, trace>>
    BY <1>2 DEF DeadlinePasses, CatalogChanges, orchestrationVars, progressVars
  <2> QED BY <2>1, OtherRouteStays DEF RoutesOK
<1> QED BY <1>1, <1>2 DEF OrchestrationNext

\* The run has not started.
LEMMA RoutesInit == OrchestrationInit => RoutesOK
<1> SUFFICES ASSUME OrchestrationInit, NEW r \in Runs PROVE RouteOK(r)
  BY DEF RoutesOK
<1>1. at[r] = "NEW" /\ trace[r] = <<>> /\ Len(trace[r]) = 0
  BY DEF OrchestrationInit
<1> QED BY <1>1 DEF RouteOK, OnRoute, WaitsNext, ThroughWhole, Stages

\* On a whole route the first three answers and the last four are final.
LEMMA LastAnswersAreFinal ==
    ASSUME NEW facts \in Seq(Facts), NEW n \in {0, 1}, Len(facts) = 7 + 3 * n, OnRoute(facts, n),
           NEW i \in (1 .. 3) \cup (Len(facts) - 3 .. Len(facts))
    PROVE  i \in 1 .. Len(facts) /\ facts[i] \in FinalResults(facts)
<1>1. i \in 1 .. Len(facts)
  OBVIOUS
<1>2. ASSUME NEW k \in i + 1 .. Len(facts) PROVE facts[k].stage # facts[i].stage
  <2>1. k \in 1 .. Len(facts)
    BY <1>1
  <2>2. facts[i].stage = StageAt(i, n) /\ facts[k].stage = StageAt(k, n)
    BY <1>1, <2>1 DEF OnRoute
  <2>3. CASE n = 0
    BY <2>2, <2>3 DEF StageAt
  <2>4. CASE n = 1
    BY <2>2, <2>4 DEF StageAt
  <2> QED BY <2>3, <2>4
<1> QED BY <1>1, <1>2 DEF FinalResults

\* Whole answers without a warning are a whole recommendation.
LEMMA RouteIsWhole ==
    ASSUME NEW facts \in Seq(Facts), NEW n \in {0, 1}, Len(facts) = 7 + 3 * n, OnRoute(facts, n),
           ~Degraded(facts)
    PROVE  /\ facts[Len(facts) - 1].says = "ITEMS"
           /\ facts[Len(facts)].says = "READY"
           /\ Delivery(facts) = "DIRECT"
           /\ \A i \in (1 .. 3) \cup (Len(facts) - 3 .. Len(facts)) : ~Warns(facts[i])
<1>1. ~Unranked(facts) /\ \A f \in FinalResults(facts) : ~Warns(f)
  BY DEF Degraded
<1>2. \A i \in (1 .. 3) \cup (Len(facts) - 3 .. Len(facts)) : ~Warns(facts[i])
  BY <1>1, LastAnswersAreFinal
<1>3. Delivery(facts) = "DIRECT"
  BY <1>1 DEF Delivery, Warns, MissesChannel
<1>4. facts[Len(facts)].says = "READY"
  <2>1. Len(facts) \in 1 .. Len(facts) /\ facts[Len(facts)].stage = "EXPLAIN"
    <3>1. Len(facts) \in 1 .. Len(facts)
      OBVIOUS
    <3>2. facts[Len(facts)].stage = StageAt(Len(facts), n)
      BY <3>1 DEF OnRoute
    <3> QED BY <3>1, <3>2 DEF StageAt
  <2>2. facts[Len(facts)].says \in {"READY", "FALLBACK"}
    BY <2>1 DEF OnRoute
  <2>3. ~Warns(facts[Len(facts)])
    BY <1>2
  <2> QED BY <2>2, <2>3 DEF Warns
<1>5. facts[Len(facts) - 1].says = "ITEMS"
  <2>1. PICK f \in FinalResults(facts) : f.stage = "RANK" /\ f.says = "ITEMS"
    BY <1>1 DEF Unranked
  <2>2. PICK i \in 1 .. Len(facts) :
          f = facts[i] /\ \A k \in i + 1 .. Len(facts) : facts[k].stage # facts[i].stage
    BY DEF FinalResults
  <2>3. StageAt(i, n) = "RANK"
    BY <2>1, <2>2 DEF OnRoute
  <2>4. i = 6 \/ (i = 9 /\ n = 1)
    BY <2>3 DEF StageAt
  <2>5. n = 1 => i # 6
    <3> SUFFICES ASSUME n = 1, i = 6 PROVE FALSE
      OBVIOUS
    <3>1. 9 \in i + 1 .. Len(facts) /\ 9 \in 1 .. Len(facts)
      OBVIOUS
    <3>2. facts[9].stage = "RANK"
      BY <3>1 DEF OnRoute, StageAt
    <3> QED BY <2>1, <2>2, <3>1, <3>2
  <2>6. i = Len(facts) - 1
    BY <2>4, <2>5
  <2> QED BY <2>1, <2>2, <2>6
<1> QED BY <1>2, <1>3, <1>4, <1>5

-----------------------------------------------------------------------------
(* The theorems.                                                           *)

\* Types, statuses, evidence and results hold together.
THEOREM OrchestrationInvariant == OrchestrationSpec => []OrchestrationInv
BY OrchestrationInvInit, OrchestrationInvStep, PTL DEF OrchestrationSpec

\* A task is planned again at most once, a dependency is asked at most MaxTries
\* times for one answer, and every variable has its type.
THEOREM OrchestrationTypes == OrchestrationSpec => []OrchestrationTypeOK
<1>1. OrchestrationInv => OrchestrationTypeOK
  BY DEF OrchestrationInv
<1> QED BY <1>1, OrchestrationInvariant, PTL

\* The orchestrator never attempts a transition that the contract refuses, so
\* transition does not raise in the middle of a task, whatever Agents answer.
THEOREM MovesAreAllowed == OrchestrationSpec => []EveryMoveIsAllowed
<1>1. OrchestrationInv => EveryMoveIsAllowed
  BY DEF OrchestrationInv, StatusesOK, Chain, EveryMoveIsAllowed
<1> QED BY <1>1, OrchestrationInvariant, PTL

\* All Agents of a task see one version of the catalog.
THEOREM CatalogIsOne == OrchestrationSpec => []OneCatalogPerTask
<1>1. OrchestrationInv => OneCatalogPerTask
  BY DEF OrchestrationInv, EvidenceOK, OneCatalogPerTask
<1> QED BY <1>1, OrchestrationInvariant, PTL

\* The facts that are stored are exactly those of every run that got a result.
THEOREM ResultsAreStored == OrchestrationSpec => []ResultIsTheStoredOne
<1>1. OrchestrationInv => ResultIsTheStoredOne
  BY DEF OrchestrationInv, ResultsOK, ResultIsTheStoredOne
<1> QED BY <1>1, OrchestrationInvariant, PTL

\* Every run stays on its route: the place of an answer says whose it is.
THEOREM RunsKeepTheirRoute == OrchestrationSpec => []RoutesOK
BY OrchestrationInvariant, RoutesInit, RoutesStep, PTL DEF OrchestrationSpec

\* For any answers, retries and second plans a task that ends COMPLETED has
\* items and no makeshift among the last answers (_collect_warnings).
THEOREM CompletedTasksAreWhole == OrchestrationSpec => []CompletedIsWhole
<1>1. OrchestrationInv /\ RoutesOK => CompletedIsWhole
  <2> SUFFICES ASSUME OrchestrationInv, RoutesOK, NEW r \in Runs, at[r] \in {"PERSIST", "DONE"},
                      moves[r][Len(moves[r])] = "COMPLETED"
               PROVE  /\ trace[r][Len(trace[r]) - 1].says = "ITEMS"
                      /\ trace[r][Len(trace[r])].says = "READY"
                      /\ Delivery(trace[r]) = "DIRECT"
                      /\ \A i \in (1 .. 3) \cup (Len(trace[r]) - 3 .. Len(trace[r])) : ~Warns(trace[r][i])
    BY DEF CompletedIsWhole
  <2>1. trace[r] \in Seq(Facts) /\ replans[r] \in {0, 1}
    BY DEF OrchestrationInv, OrchestrationTypeOK
  <2>2. OnRoute(trace[r], replans[r]) /\ Len(trace[r]) = 7 + 3 * replans[r] /\ ~Degraded(trace[r])
    BY DEF RoutesOK, RouteOK, ThroughWhole
  <2> QED BY <2>1, <2>2, RouteIsWhole
<1> QED BY <1>1, OrchestrationInvariant, RunsKeepTheirRoute, PTL

=============================================================================
