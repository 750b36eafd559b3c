---------------------------- MODULE FactsProofs ----------------------------
(***************************************************************************)
(* Proofs about FeedbackFacts and DecisionFacts: what is numbered by a     *)
(* version that was read before is one line, for any number of calls.      *)
(***************************************************************************)
EXTENDS FeedbackFacts, DecisionFacts, FiniteSetTheorems, TLAPS

-----------------------------------------------------------------------------
(* Feedback.  A call may hold a state that is no longer the resource's, but *)
(* never one that is ahead of it; so a version that is free and follows one *)
(* it has seen can only be the next one.                                    *)

SeenIsPast ==
    \A c \in Posts : (post[c] # NoPost /\ post[c].seen # NoState) =>
        LET p == PlaceOf[post[c].feedback]
        IN  /\ p # NoPlace
            /\ resource[p] # NoState
            /\ post[c].seen.version <= resource[p].version

FeedbackInv == FeedbackTypeOK /\ ResourceStateIsOneLine /\ SeenIsPast

\* The line of one resource.
LineOK(p) ==
    /\ resource[p] = NoState => transitions[p] = {}
    /\ resource[p] # NoState =>
         /\ resource[p] \in transitions[p]
         /\ {t.version : t \in transitions[p]} = 1 .. resource[p].version
         /\ \A t, u \in transitions[p] : t.version = u.version => t = u
    /\ \A t \in transitions[p] : t.source \in given

\* A replaced state takes the version that follows.
LEMMA ReplacesMoves ==
    ASSUME FeedbackTypeOK, ResourceStateIsOneLine,
           NEW p \in Places, NEW f \in Feedbacks, NEW version \in Nat \ {0},
           given' = given \cup {f},
           Replaces(p, f, version),
           resource[p] = NoState => version = 1,
           resource[p] # NoState => version <= resource[p].version + 1
    PROVE  /\ resource' \in [Places -> States \cup {NoState}]
           /\ transitions' \in [Places -> SUBSET States]
           /\ ResourceStateIsOneLine'
           /\ \A q \in Places : resource[q] # NoState =>
                resource'[q] # NoState /\ resource[q].version <= resource'[q].version
<1> DEFINE s == [source |-> f, version |-> version]
<1>1. /\ resource \in [Places -> States \cup {NoState}]
      /\ transitions \in [Places -> SUBSET States]
      /\ MaxVersions \in Nat
  BY FeedbackAssumption DEF FeedbackTypeOK
<1>2. s \in States /\ s.source = f /\ s.version = version
  BY <1>1 DEF States, Replaces
<1>3. s # NoState
  BY FeedbackAssumption
<1> HIDE DEF s
<1>4. /\ resource' = [resource EXCEPT ![p] = s]
      /\ transitions' = [transitions EXCEPT ![p] = transitions[p] \cup {s}]
      /\ \A t \in transitions[p] : t.version # version
  BY <1>1 DEF Replaces, VersionFree, s
<1>5. /\ resource' \in [Places -> States \cup {NoState}]
      /\ transitions' \in [Places -> SUBSET States]
      /\ resource'[p] = s /\ transitions'[p] = transitions[p] \cup {s}
      /\ \A q \in Places \ {p} : resource'[q] = resource[q] /\ transitions'[q] = transitions[q]
  BY <1>1, <1>2, <1>4
<1>6. \A q \in Places : LineOK(q)
  BY DEF ResourceStateIsOneLine, LineOK
<1>7. /\ {t.version : t \in transitions'[p]} = 1 .. version
      /\ \A t, u \in transitions'[p] : t.version = u.version => t = u
      /\ resource[p] # NoState => resource[p].version <= version
  <2>1. CASE resource[p] = NoState
    <3>1. transitions'[p] = {s} /\ version = 1
      BY <1>5, <1>6, <2>1 DEF LineOK
    <3>2. 1 .. version = {version}
      BY <3>1
    <3> QED BY <1>2, <2>1, <3>1, <3>2
  <2>2. CASE resource[p] # NoState
    <3>1. /\ resource[p] \in States /\ resource[p].version \in Nat
          /\ {t.version : t \in transitions[p]} = 1 .. resource[p].version
          /\ \A t, u \in transitions[p] : t.version = u.version => t = u
      BY <1>1, <1>6, <2>2 DEF LineOK, States
    <3>2. version \notin 1 .. resource[p].version
      BY <1>4, <3>1
    <3>3. version = resource[p].version + 1
      BY <2>2, <3>1, <3>2
    <3>4. {t.version : t \in transitions'[p]} = {t.version : t \in transitions[p]} \cup {version}
      BY <1>2, <1>5
    <3>5. 1 .. version = 1 .. resource[p].version \cup {version}
      BY <3>1, <3>3
    <3> QED BY <1>2, <1>4, <1>5, <3>1, <3>3, <3>4, <3>5
  <2> QED BY <2>1, <2>2
<1>8. ASSUME NEW q \in Places PROVE LineOK(q)'
  <2>1. CASE q # p
    <3>1. LineOK(q)
      BY <1>6
    <3> QED BY <1>5, <2>1, <3>1 DEF LineOK
  <2>2. CASE q = p
    <3>1. \A t \in transitions'[p] : t.source \in given'
      BY <1>2, <1>5, <1>6 DEF LineOK
    <3>2. resource'[p] = s /\ s \in transitions'[p] /\ s # NoState /\ s.version = version
      BY <1>2, <1>3, <1>5
    <3> QED BY <1>7, <2>2, <3>1, <3>2 DEF LineOK
  <2> QED BY <2>1, <2>2
<1>9. ResourceStateIsOneLine'
  BY <1>8 DEF ResourceStateIsOneLine, LineOK
<1>10. ASSUME NEW q \in Places, resource[q] # NoState
       PROVE  resource'[q] # NoState /\ resource[q].version <= resource'[q].version
  <2>1. CASE q = p
    BY <1>2, <1>3, <1>5, <1>7, <1>10, <2>1
  <2>2. CASE q # p
    <3>1. resource[q].version \in Int
      BY <1>1, <1>10 DEF States
    <3> QED BY <1>5, <1>10, <2>2, <3>1
  <2> QED BY <2>1, <2>2
<1> QED BY <1>5, <1>9, <1>10

\* A state that stands still, with feedbacks that come.
LEMMA GivenGrows ==
    ASSUME FeedbackTypeOK, ResourceStateIsOneLine, given \subseteq given',
           UNCHANGED <<resource, transitions>>
    PROVE  /\ ResourceStateIsOneLine'
           /\ \A q \in Places : resource[q] # NoState =>
                resource'[q] # NoState /\ resource[q].version <= resource'[q].version
<1>1. ResourceStateIsOneLine'
  BY DEF ResourceStateIsOneLine
<1>2. \A q \in Places : resource[q] # NoState => resource[q].version \in Int
  BY FeedbackAssumption DEF FeedbackTypeOK, States
<1> QED BY <1>1, <1>2

\* No feedback is stored yet.
LEMMA FeedbackInvInit == FeedbackInit => FeedbackInv
<1> SUFFICES ASSUME FeedbackInit PROVE FeedbackInv
  OBVIOUS
<1>1. FeedbackTypeOK
  BY DEF FeedbackInit, FeedbackTypeOK
<1>2. ResourceStateIsOneLine
  BY DEF FeedbackInit, ResourceStateIsOneLine
<1>3. SeenIsPast
  BY DEF FeedbackInit, SeenIsPast
<1> QED BY <1>1, <1>2, <1>3 DEF FeedbackInv

\* Calls that go on or end, when no state went back.
LEMMA SeenStaysPast ==
    ASSUME FeedbackTypeOK, SeenIsPast, NEW c \in Posts, NEW call,
           post' = [post EXCEPT ![c] = call],
           resource' \in [Places -> States \cup {NoState}],
           \A q \in Places : resource[q] # NoState =>
                resource'[q] # NoState /\ resource[q].version <= resource'[q].version,
           \/ call = NoPost
           \/ /\ call \in PostCalls /\ UNCHANGED resource
              /\ call.seen # NoState => /\ PlaceOf[call.feedback] # NoPlace
                                        /\ call.seen = resource[PlaceOf[call.feedback]]
    PROVE  SeenIsPast'
<1>1. /\ post \in [Posts -> PostCalls \cup {NoPost}]
      /\ resource \in [Places -> States \cup {NoState}]
      /\ PlaceOf \in [Feedbacks -> Places \cup {NoPlace}]
  BY FeedbackAssumption DEF FeedbackTypeOK
<1>2. SUFFICES ASSUME NEW d \in Posts, post'[d] # NoPost, post'[d].seen # NoState
               PROVE  /\ PlaceOf[post'[d].feedback] # NoPlace
                      /\ resource'[PlaceOf[post'[d].feedback]] # NoState
                      /\ post'[d].seen.version <= resource'[PlaceOf[post'[d].feedback]].version
  BY DEF SeenIsPast
<1>3. CASE d # c
  <2>1. post'[d] = post[d] /\ post[d] \in PostCalls
    BY <1>1, <1>2, <1>3
  <2> DEFINE p == PlaceOf[post[d].feedback]
  <2>2. /\ p # NoPlace /\ resource[p] # NoState /\ post[d].seen.version <= resource[p].version
    BY <1>2, <2>1 DEF SeenIsPast
  <2>3. p \in Places
    BY <1>1, <2>1, <2>2 DEF PostCalls
  <2>4. resource'[p] # NoState /\ resource[p].version <= resource'[p].version
    BY <2>2, <2>3
  <2>5. post[d].seen \in States
    BY <1>2, <2>1 DEF PostCalls
  <2>6. resource[p] \in States /\ resource'[p] \in States
    BY <1>1, <2>2, <2>3, <2>4
  <2>7. /\ post[d].seen.version \in Int
        /\ resource[p].version \in Int
        /\ resource'[p].version \in Int
    BY <2>5, <2>6 DEF States
  <2> HIDE DEF p
  <2>8. post[d].seen.version <= resource'[p].version
    BY <2>2, <2>4, <2>7
  <2> QED BY <2>1, <2>2, <2>4, <2>8 DEF p
<1>4. CASE d = c
  <2>1. post'[c] = call /\ call \in PostCalls /\ UNCHANGED resource
    BY <1>1, <1>2, <1>4
  <2> DEFINE p == PlaceOf[call.feedback]
  <2>2. p # NoPlace /\ call.seen = resource[p] /\ call.seen # NoState
    BY <1>2, <1>4, <2>1
  <2>3. call.seen \in States
    BY <2>1, <2>2 DEF PostCalls
  <2>4. call.seen.version \in Int
    BY <2>3 DEF States
  <2> QED BY <1>4, <2>1, <2>2, <2>4
<1> QED BY <1>3, <1>4

\* Every step keeps the chain of versions of every resource state.
LEMMA FeedbackInvStep == FeedbackInv /\ [FeedbackNext]_feedbackVars => FeedbackInv'
<1> SUFFICES ASSUME FeedbackTypeOK, ResourceStateIsOneLine, SeenIsPast, [FeedbackNext]_feedbackVars
             PROVE  FeedbackInv'
  BY DEF FeedbackInv
<1>1. /\ post \in [Posts -> PostCalls \cup {NoPost}]
      /\ resource \in [Places -> States \cup {NoState}]
      /\ transitions \in [Places -> SUBSET States]
      /\ given \subseteq Feedbacks
      /\ PlaceOf \in [Feedbacks -> Places \cup {NoPlace}]
  BY FeedbackAssumption DEF FeedbackTypeOK
<1>2. ASSUME NEW c \in Posts, NEW f \in Feedbacks, PostBegins(c, f)
      PROVE  FeedbackInv'
  <2> DEFINE call == [feedback |-> f, again |-> f \in given,
                      seen |-> IF PlaceOf[f] = NoPlace THEN NoState ELSE resource[PlaceOf[f]]]
  <2>1. post' = [post EXCEPT ![c] = call] /\ UNCHANGED <<given, resource, transitions>>
    BY <1>2 DEF PostBegins
  <2>2. call \in PostCalls
    BY <1>1 DEF PostCalls
  <2>3. /\ call.seen # NoState => /\ PlaceOf[call.feedback] # NoPlace
                                  /\ call.seen = resource[PlaceOf[call.feedback]]
    OBVIOUS
  <2> HIDE DEF call
  <2>4. FeedbackTypeOK'
    BY <1>1, <2>1, <2>2 DEF FeedbackTypeOK
  <2>5. /\ ResourceStateIsOneLine'
        /\ \A q \in Places : resource[q] # NoState =>
             resource'[q] # NoState /\ resource[q].version <= resource'[q].version
    BY <2>1, GivenGrows
  <2>6. SeenIsPast'
    BY <1>1, <2>1, <2>2, <2>3, <2>5, SeenStaysPast
  <2> QED BY <2>4, <2>5, <2>6 DEF FeedbackInv
<1>3. ASSUME NEW c \in Posts, PostFails(c)
      PROVE  FeedbackInv'
  <2>1. post' = [post EXCEPT ![c] = NoPost] /\ UNCHANGED <<given, resource, transitions>>
    BY <1>3 DEF PostFails
  <2>2. FeedbackTypeOK'
    BY <1>1, <2>1 DEF FeedbackTypeOK
  <2>3. /\ ResourceStateIsOneLine'
        /\ \A q \in Places : resource[q] # NoState =>
             resource'[q] # NoState /\ resource[q].version <= resource'[q].version
    BY <2>1, GivenGrows
  <2>4. SeenIsPast'
    BY <1>1, <2>1, <2>3, SeenStaysPast
  <2> QED BY <2>2, <2>3, <2>4 DEF FeedbackInv
<1>4. ASSUME NEW c \in Posts, PostCommits(c)
      PROVE  FeedbackInv'
  <2>1. PICK f : f = post[c].feedback
    OBVIOUS
  <2>2. PICK seen : seen = post[c].seen
    OBVIOUS
  <2>3. /\ post' = [post EXCEPT ![c] = NoPost]
        /\ given' = given \cup {f}
        /\ StateFollows(f, seen)
        /\ f \in Feedbacks /\ seen \in States \cup {NoState}
        /\ post[c] # NoPost
    BY <1>1, <1>4, <2>1, <2>2 DEF PostCommits, PostCalls
  <2>4. /\ resource' \in [Places -> States \cup {NoState}]
        /\ transitions' \in [Places -> SUBSET States]
        /\ ResourceStateIsOneLine'
        /\ \A q \in Places : resource[q] # NoState =>
             resource'[q] # NoState /\ resource[q].version <= resource'[q].version
    <3>1. PICK p : p = PlaceOf[f]
      OBVIOUS
    <3>2. CASE UNCHANGED <<resource, transitions>>
      <4>1. given \subseteq given'
        BY <2>3
      <4> QED BY <1>1, <3>2, <4>1, GivenGrows
    <3>3. CASE p # NoPlace /\ seen = NoState /\ resource[p] = NoState /\ Replaces(p, f, 1)
      <4>1. p \in Places
        BY <1>1, <2>3, <3>1, <3>3
      <4> QED BY <2>3, <3>3, <4>1, ReplacesMoves
    <3>4. CASE p # NoPlace /\ seen # NoState /\ Replaces(p, f, seen.version + 1)
      <4>1. p \in Places
        BY <1>1, <2>3, <3>1, <3>4
      <4>2. resource[p] # NoState /\ seen.version <= resource[p].version
        BY <2>1, <2>2, <2>3, <3>1, <3>4 DEF SeenIsPast
      <4>3. seen \in States /\ resource[p] \in States
        BY <1>1, <2>3, <3>4, <4>1, <4>2
      <4>4. seen.version \in Nat \ {0} /\ resource[p].version \in Nat
        BY <4>3 DEF States
      <4>5. seen.version + 1 \in Nat \ {0} /\ seen.version + 1 <= resource[p].version + 1
        BY <4>2, <4>4
      <4>6. PICK version \in Nat \ {0} : version = seen.version + 1
        BY <4>5
      <4> QED BY <2>3, <3>4, <4>1, <4>2, <4>5, <4>6, ReplacesMoves
    <3> QED BY <2>3, <3>1, <3>2, <3>3, <3>4 DEF StateFollows
  <2>5. FeedbackTypeOK'
    BY <1>1, <2>3, <2>4 DEF FeedbackTypeOK
  <2>6. SeenIsPast'
    BY <1>1, <2>3, <2>4, SeenStaysPast
  <2> QED BY <2>4, <2>5, <2>6 DEF FeedbackInv
<1>5. CASE UNCHANGED feedbackVars
  BY <1>5 DEF feedbackVars, FeedbackInv, FeedbackTypeOK, ResourceStateIsOneLine, SeenIsPast
<1> QED BY <1>2, <1>3, <1>4, <1>5 DEF FeedbackNext

\* The invariant of feedback: types, lines, and what calls have seen.
THEOREM FeedbackInvariant == FeedbackSpec => []FeedbackInv
BY FeedbackInvInit, FeedbackInvStep, PTL DEF FeedbackSpec

\* However many feedbacks race, the states of a resource are one line.
THEOREM FeedbacksAreOneLine == FeedbackSpec => []ResourceStateIsOneLine
<1>1. FeedbackInv => ResourceStateIsOneLine
  BY DEF FeedbackInv
<1> QED BY <1>1, FeedbackInvariant, PTL

-----------------------------------------------------------------------------
(* Decisions.  A version that was read is at most the next one, since       *)
(* decisions are never taken back; so one that is free is the next one.     *)

VersionIsDue ==
    \A c \in Deciders : deciding[c] # NoDecision =>
        deciding[c].version <= Cardinality(decided[deciding[c].subject]) + 1

DecisionsFinite == \A s \in Subjects : IsFiniteSet(decided[s])

DecisionInv == DecisionTypeOK /\ DecisionsFinite /\ DecisionsStand /\ VersionIsDue

\* No action is stored yet.
LEMMA DecisionInvInit == DecisionInit => DecisionInv
<1> SUFFICES ASSUME DecisionInit PROVE DecisionInv
  OBVIOUS
<1>1. /\ decided = [s \in Subjects |-> {}]
      /\ deciding = [c \in Deciders |-> NoDecision]
  BY DEF DecisionInit
<1>2. DecisionTypeOK /\ VersionIsDue /\ AnsweredDecisionStands
  BY <1>1 DEF DecisionTypeOK, VersionIsDue, AnsweredDecisionStands
<1>3. DecisionsFinite
  BY <1>1, FS_EmptySet DEF DecisionsFinite
<1>4. DecisionsAreOneLine
  BY <1>1, FS_EmptySet DEF DecisionsAreOneLine
<1> QED BY <1>2, <1>3, <1>4 DEF DecisionInv, DecisionsStand

\* A call that begins or ends leaves the decisions alone.
LEMMA OnlyTheCallMoves ==
    ASSUME DecisionInv, NEW c \in Deciders, NEW d \in DecisionCalls \cup {NoDecision},
           Decides(c, d), UNCHANGED decided,
           d # NoDecision => /\ ~d.answered
                             /\ d.version <= Cardinality(decided[d.subject]) + 1
    PROVE  DecisionInv'
<1>1. /\ deciding \in [Deciders -> DecisionCalls \cup {NoDecision}]
      /\ deciding' = [deciding EXCEPT ![c] = d]
  BY DEF DecisionInv, DecisionTypeOK, Decides
<1>2. DecisionTypeOK' /\ DecisionsFinite' /\ DecisionsAreOneLine'
  BY <1>1 DEF DecisionInv, DecisionTypeOK, DecisionsFinite, DecisionsStand, DecisionsAreOneLine
<1>3. VersionIsDue'
  BY <1>1 DEF DecisionInv, VersionIsDue
<1>4. AnsweredDecisionStands'
  BY <1>1 DEF DecisionInv, DecisionsStand, AnsweredDecisionStands
<1> QED BY <1>2, <1>3, <1>4 DEF DecisionInv, DecisionsStand

\* An appended decision is the next of its subject.
LEMMA AppendMoves ==
    ASSUME DecisionInv, NEW d \in DecisionCalls, Insertable(d),
           d.version <= Cardinality(decided[d.subject]) + 1,
           NEW fact, fact = [version |-> d.version, verdict |-> d.verdict, key |-> d.key],
           decided' = [decided EXCEPT ![d.subject] = @ \cup {fact}]
    PROVE  /\ decided' \in [Subjects -> SUBSET DecisionRecords]
           /\ DecisionsFinite'
           /\ DecisionsAreOneLine'
           /\ fact \in decided'[d.subject]
           /\ \A s \in Subjects : /\ decided[s] \subseteq decided'[s]
                                  /\ Cardinality(decided[s]) <= Cardinality(decided'[s])
<1>1. /\ decided \in [Subjects -> SUBSET DecisionRecords]
      /\ \A s \in Subjects : IsFiniteSet(decided[s]) /\ Cardinality(decided[s]) \in Nat
  BY FS_CardinalityType DEF DecisionInv, DecisionTypeOK, DecisionsFinite
<1>2. PICK s \in Subjects : s = d.subject
  BY DEF DecisionCalls
<1>3. /\ fact \in DecisionRecords
      /\ fact.version = d.version /\ fact.key = d.key
      /\ d.version \in Nat /\ d.version >= 1
  BY DecisionAssumption DEF DecisionCalls, DecisionRecords
<1>4. /\ decided' \in [Subjects -> SUBSET DecisionRecords]
      /\ decided'[s] = decided[s] \cup {fact}
      /\ \A u \in Subjects \ {s} : decided'[u] = decided[u]
  BY <1>1, <1>2, <1>3
<1>5. /\ \A f \in decided[s] : f.version # fact.version
      /\ \A u \in Subjects : \A f \in decided[u] : fact.key # NoKey => f.key # fact.key
      /\ fact \notin decided[s]
  BY <1>2, <1>3 DEF Insertable
<1>6. /\ \A u \in Subjects : {f.version : f \in decided[u]} = 1 .. Cardinality(decided[u])
      /\ \A u \in Subjects : \A f, g \in decided[u] : f.version = g.version => f = g
      /\ \A u, w \in Subjects : \A f \in decided[u], g \in decided[w] :
           (f.key # NoKey /\ f.key = g.key) => u = w /\ f = g
  BY DEF DecisionInv, DecisionsStand, DecisionsAreOneLine
<1>7. IsFiniteSet(decided'[s]) /\ Cardinality(decided'[s]) = Cardinality(decided[s]) + 1
  BY <1>1, <1>4, <1>5, FS_AddElement
<1>8. fact.version = Cardinality(decided[s]) + 1
  <2>1. fact.version \notin {f.version : f \in decided[s]}
    BY <1>5
  <2>2. fact.version \notin 1 .. Cardinality(decided[s])
    BY <1>6, <2>1
  <2> QED BY <1>1, <1>2, <1>3, <2>2
<1>9. {f.version : f \in decided'[s]} = 1 .. Cardinality(decided'[s])
  <2>1. {f.version : f \in decided'[s]} = {f.version : f \in decided[s]} \cup {fact.version}
    BY <1>4
  <2>2. 1 .. Cardinality(decided'[s]) = 1 .. Cardinality(decided[s]) \cup {fact.version}
    BY <1>1, <1>7, <1>8
  <2> QED BY <1>6, <2>1, <2>2
<1>10. \A f, g \in decided'[s] : f.version = g.version => f = g
  BY <1>4, <1>5, <1>6
<1>11. \A u, w \in Subjects : \A f \in decided'[u], g \in decided'[w] :
         (f.key # NoKey /\ f.key = g.key) => u = w /\ f = g
  <2>1. SUFFICES ASSUME NEW u \in Subjects, NEW w \in Subjects, NEW f \in decided'[u], NEW g \in decided'[w],
                        f.key # NoKey, f.key = g.key
                 PROVE  u = w /\ f = g
    OBVIOUS
  <2>2. f \in decided[u] \/ (u = s /\ f = fact)
    BY <1>4
  <2>3. g \in decided[w] \/ (w = s /\ g = fact)
    BY <1>4
  <2> QED BY <1>5, <1>6, <2>1, <2>2, <2>3
<1>12. DecisionsFinite'
  BY <1>1, <1>4, <1>7 DEF DecisionsFinite
<1>13. DecisionsAreOneLine'
  BY <1>4, <1>6, <1>9, <1>10, <1>11 DEF DecisionsAreOneLine
<1>14. \A u \in Subjects : /\ decided[u] \subseteq decided'[u]
                           /\ Cardinality(decided[u]) <= Cardinality(decided'[u])
  BY <1>1, <1>4, <1>7
<1> QED BY <1>2, <1>4, <1>12, <1>13, <1>14

\* Every step keeps the chain of versions of every review.
LEMMA DecisionInvStep == DecisionInv /\ [DecisionNext]_decisionVars => DecisionInv'
<1> SUFFICES ASSUME DecisionInv, [DecisionNext]_decisionVars PROVE DecisionInv'
  OBVIOUS
<1>1. /\ deciding \in [Deciders -> DecisionCalls \cup {NoDecision}]
      /\ \A s \in Subjects : IsFiniteSet(decided[s]) /\ Cardinality(decided[s]) \in Nat
      /\ MaxDecisions \in Nat
  BY DecisionAssumption, FS_CardinalityType DEF DecisionInv, DecisionTypeOK, DecisionsFinite
<1>2. ASSUME NEW c \in Deciders, NEW s \in Subjects, NEW verdict \in Verdicts, NEW key \in KeysFor(s),
             DecisionBegins(c, s, verdict, key)
      PROVE  DecisionInv'
  <2> DEFINE d == [subject |-> s, verdict |-> verdict, key |-> key,
                   version |-> Cardinality(decided[s]) + 1, answered |-> FALSE]
  <2>1. /\ Decides(c, d) /\ UNCHANGED decided
        /\ Cardinality(decided[s]) + 1 \in 1 .. MaxDecisions
    BY <1>1, <1>2 DEF DecisionBegins
  <2>2. d \in DecisionCalls
    BY <2>1 DEF DecisionCalls, KeysFor
  <2>3. ~d.answered /\ d.version <= Cardinality(decided[d.subject]) + 1
    BY <1>1
  <2> HIDE DEF d
  <2> QED BY <2>1, <2>2, <2>3, OnlyTheCallMoves
<1>3. ASSUME NEW c \in Deciders, DecisionReturns(c)
      PROVE  DecisionInv'
  BY <1>3, OnlyTheCallMoves DEF DecisionReturns
<1>4. ASSUME NEW c \in Deciders, DecisionAppended(c)
      PROVE  DecisionInv'
  <2>1. PICK d \in DecisionCalls : d = deciding[c]
    BY <1>1, <1>4 DEF DecisionAppended
  <2>2. /\ d # NoDecision
        /\ deciding' = [deciding EXCEPT ![c] = [d EXCEPT !.answered = TRUE]]
        /\ d.subject \in Subjects
        /\ d.version <= Cardinality(decided[d.subject]) + 1
    BY <1>4, <2>1 DEF DecisionAppended, Decides, DecisionInv, VersionIsDue, DecisionCalls
  <2> DEFINE fact == [version |-> d.version, verdict |-> d.verdict, key |-> d.key]
  <2>3. /\ decided' \in [Subjects -> SUBSET DecisionRecords]
        /\ DecisionsFinite' /\ DecisionsAreOneLine'
        /\ \A s \in Subjects : /\ decided[s] \subseteq decided'[s]
                               /\ Cardinality(decided[s]) <= Cardinality(decided'[s])
        /\ \E f \in decided'[d.subject] : f.verdict = d.verdict /\ f.key = d.key
    <3>1. CASE Insertable(d) /\ decided' = [decided EXCEPT ![d.subject] = @ \cup {fact}]
      <4>1. fact.verdict = d.verdict /\ fact.key = d.key
        OBVIOUS
      <4> HIDE DEF fact
      <4>2. fact = [version |-> d.version, verdict |-> d.verdict, key |-> d.key]
        BY DEF fact
      <4> QED BY <2>2, <3>1, <4>1, <4>2, AppendMoves
    <3>2. CASE Replays(d) /\ UNCHANGED decided
      <4>1. \A s \in Subjects : Cardinality(decided[s]) <= Cardinality(decided'[s])
        BY <1>1, <3>2
      <4>2. decided' \in [Subjects -> SUBSET DecisionRecords] /\ DecisionsFinite' /\ DecisionsAreOneLine'
        BY <3>2 DEF DecisionInv, DecisionTypeOK, DecisionsFinite, DecisionsStand, DecisionsAreOneLine
      <4> QED BY <3>2, <4>1, <4>2 DEF Replays
    <3> QED BY <1>4, <2>1, <3>1, <3>2 DEF DecisionAppended
  <2> DEFINE e == [d EXCEPT !.answered = TRUE]
  <2>4. /\ e \in DecisionCalls
        /\ e.subject = d.subject /\ e.version = d.version /\ e.verdict = d.verdict /\ e.key = d.key
    BY DEF DecisionCalls
  <2>5. deciding' = [deciding EXCEPT ![c] = e]
    BY <2>2
  <2> HIDE DEF e
  <2>6. DecisionTypeOK'
    BY <1>1, <2>3, <2>4, <2>5 DEF DecisionTypeOK
  <2>7. AnsweredDecisionStands'
    <3>1. SUFFICES ASSUME NEW x \in Deciders, deciding'[x] # NoDecision, deciding'[x].answered
                   PROVE  \E f \in decided'[deciding'[x].subject] :
                              f.verdict = deciding'[x].verdict /\ f.key = deciding'[x].key
      BY DEF AnsweredDecisionStands
    <3>2. CASE x = c
      BY <1>1, <2>3, <2>4, <2>5, <3>2
    <3>3. CASE x # c
      <4>1. deciding'[x] = deciding[x] /\ deciding[x] \in DecisionCalls
        BY <1>1, <2>5, <3>1, <3>3
      <4>2. deciding[x].subject \in Subjects
        BY <4>1 DEF DecisionCalls
      <4>3. \E f \in decided[deciding[x].subject] : f.verdict = deciding[x].verdict /\ f.key = deciding[x].key
        BY <3>1, <4>1 DEF DecisionInv, DecisionsStand, AnsweredDecisionStands
      <4> QED BY <2>3, <4>1, <4>2, <4>3
    <3> QED BY <3>2, <3>3
  <2>8. VersionIsDue'
    <3>1. SUFFICES ASSUME NEW x \in Deciders, deciding'[x] # NoDecision
                   PROVE  deciding'[x].version <= Cardinality(decided'[deciding'[x].subject]) + 1
      BY DEF VersionIsDue
    <3>2. PICK y \in DecisionCalls : /\ y.subject = deciding'[x].subject /\ y.version = deciding'[x].version
                                     /\ y.version <= Cardinality(decided[y.subject]) + 1
      <4>1. CASE x = c
        BY <1>1, <2>2, <2>4, <2>5, <4>1
      <4>2. CASE x # c
        BY <1>1, <2>5, <3>1, <4>2 DEF DecisionInv, VersionIsDue
      <4> QED BY <4>1, <4>2
    <3>3. y.subject \in Subjects /\ y.version \in Int
      BY DEF DecisionCalls
    <3>4. /\ Cardinality(decided[y.subject]) \in Nat
          /\ Cardinality(decided'[y.subject]) \in Nat
          /\ Cardinality(decided[y.subject]) <= Cardinality(decided'[y.subject])
      BY <1>1, <2>3, <3>3, FS_CardinalityType DEF DecisionsFinite
    <3> QED BY <3>2, <3>3, <3>4
  <2> QED BY <2>3, <2>6, <2>7, <2>8 DEF DecisionInv, DecisionsStand
<1>5. CASE UNCHANGED decisionVars
  BY <1>5 DEF decisionVars, DecisionInv, DecisionTypeOK, DecisionsFinite, DecisionsStand, DecisionsAreOneLine,
              AnsweredDecisionStands, VersionIsDue
<1> QED BY <1>2, <1>3, <1>4, <1>5 DEF DecisionNext

\* The invariant of decisions: types, lines, answers, and what calls have read.
THEOREM DecisionInvariant == DecisionSpec => []DecisionInv
BY DecisionInvInit, DecisionInvStep, PTL DEF DecisionSpec

\* The decisions on a subject are one line, a key decides once, and an answer
\* stands, however many calls race for a version.
THEOREM DecisionsStandForAll == DecisionSpec => []DecisionsStand
<1>1. DecisionInv => DecisionsStand
  BY DEF DecisionInv
<1> QED BY <1>1, DecisionInvariant, PTL
=============================================================================
