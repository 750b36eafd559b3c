--------------------------- MODULE DecisionFacts ---------------------------
(***************************************************************************)
(* Decisions that are appended as numbered facts and of which the last one *)
(* counts: a librarian's actions on a proposal (knowledge_review), and a   *)
(* reader's consents to a scope (consent_action of identity/application).  *)
(* The next version is read first, in a transaction of its own; INSERT     *)
(* IGNORE then meets the unique keys.  Reviews have an idempotency key,    *)
(* consents have none.                                                     *)
(***************************************************************************)
EXTENDS Integers, FiniteSets

CONSTANTS
    Proposals,       \* what is reviewed
    Scopes,          \* what is consented to
    Verdicts,        \* actions
    ReviewKeys,      \* idempotency keys
    Deciders,        \* calls that may be under way at a time
    MaxDecisions,    \* bound: decisions on one subject
    NoKey, NoDecision

Subjects == Proposals \cup Scopes

ASSUME DecisionAssumption ==
    /\ Proposals \cap Scopes = {}
    /\ NoKey \notin ReviewKeys
    /\ MaxDecisions \in Nat

VARIABLES
    decided,    \* the facts of a subject
    deciding    \* the calls under way

decisionVars == <<decided, deciding>>

DecisionInit ==
    /\ decided = [s \in Subjects |-> {}]
    /\ deciding = [c \in Deciders |-> NoDecision]

\* A review needs a key, a consent has none.
KeysFor(s) == IF s \in Proposals THEN ReviewKeys ELSE {NoKey}

Decides(c, record) == deciding' = [deciding EXCEPT ![c] = record]

\* list_actions or next_consent_version, and the fact is made.
DecisionBegins(c, s, verdict, key) ==
    /\ deciding[c] = NoDecision
    /\ Cardinality(decided[s]) < MaxDecisions
    /\ Decides(c, [subject |-> s, verdict |-> verdict, key |-> key,
                   version |-> Cardinality(decided[s]) + 1, answered |-> FALSE])
    /\ UNCHANGED decided

\* Neither the version of the subject nor the key, over all subjects, is taken.
Insertable(d) ==
    /\ \A f \in decided[d.subject] : f.version # d.version
    /\ \A s \in Subjects : \A f \in decided[s] : d.key # NoKey => f.key # d.key

\* Mutant: a fact that is not inserted is taken for a replay.
TakenForReplay(d) == TRUE

\* The fact that is not inserted has been, by an earlier call with its key.
Replays(d) ==
    /\ d.key # NoKey
    /\ \E f \in decided[d.subject] : f.key = d.key /\ f.verdict = d.verdict

\* append_action or append_consent.
DecisionAppended(c) ==
    /\ deciding[c] # NoDecision /\ ~deciding[c].answered
    /\ LET d == deciding[c]
       IN  \/ /\ Insertable(d)
              /\ decided' = [decided EXCEPT ![d.subject] =
                     @ \cup {[version |-> d.version, verdict |-> d.verdict, key |-> d.key]}]
           \/ ~Insertable(d) /\ Replays(d) /\ UNCHANGED decided
    /\ Decides(c, [deciding[c] EXCEPT !.answered = TRUE])

\* The version is taken and the key unknown, the key stands for another
\* decision, or the call is cut off; and the call that was answered returns.
DecisionReturns(c) ==
    /\ deciding[c] # NoDecision
    /\ Decides(c, NoDecision)
    /\ UNCHANGED decided

DecisionNext ==
    \E c \in Deciders :
        \/ \E s \in Subjects, verdict \in Verdicts : \E key \in KeysFor(s) :
             DecisionBegins(c, s, verdict, key)
        \/ DecisionAppended(c)
        \/ DecisionReturns(c)

DecisionSpec == DecisionInit /\ [][DecisionNext]_decisionVars

-----------------------------------------------------------------------------
(* Safety.                                                                 *)

DecisionRecords ==
    [version : 1 .. MaxDecisions, verdict : Verdicts, key : ReviewKeys \cup {NoKey}]

DecisionCalls ==
    [subject : Subjects, verdict : Verdicts, key : ReviewKeys \cup {NoKey},
     version : 1 .. MaxDecisions, answered : BOOLEAN]

\* Every variable has its type.
DecisionTypeOK ==
    /\ decided \in [Subjects -> SUBSET DecisionRecords]
    /\ deciding \in [Deciders -> DecisionCalls \cup {NoDecision}]

\* The decisions on a subject are one line without holes or ties, so that the
\* last one is well defined, although every call numbers its own from what it
\* read before; a key decides once, over all subjects.
DecisionsAreOneLine ==
    /\ \A s \in Subjects :
         /\ {f.version : f \in decided[s]} = 1 .. Cardinality(decided[s])
         /\ \A f, g \in decided[s] : f.version = g.version => f = g
    /\ \A s, u \in Subjects : \A f \in decided[s], g \in decided[u] :
         (f.key # NoKey /\ f.key = g.key) => s = u /\ f = g

\* Who is told that a decision is taken finds it among the facts, also after a
\* race for its version and after a repetition (append_action).
AnsweredDecisionStands ==
    \A c \in Deciders : (deciding[c] # NoDecision /\ deciding[c].answered) =>
        \E f \in decided[deciding[c].subject] :
            f.verdict = deciding[c].verdict /\ f.key = deciding[c].key

DecisionsStand == DecisionsAreOneLine /\ AnsweredDecisionStands
=============================================================================
