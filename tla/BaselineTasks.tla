--------------------------- MODULE BaselineTasks ---------------------------
(***************************************************************************)
(* The same tables under the rule pipeline: create_task and                *)
(* submit_clarification of MySQLRecommendationTaskService                  *)
(* (recommendation/adapters/mysql.py), the base class of the service in    *)
(* RecommendationTasks and the one behind build_demo_mysql_http_app.       *)
(*                                                                         *)
(* Its transactions begin alike.  It asks at most once, and when the       *)
(* request says too little; an answer always completes.  It inserts        *)
(* without IGNORE, so a call that lost a race gets an IntegrityError,      *)
(* rolls back, and reads what the winner has committed.                    *)
(***************************************************************************)
EXTENDS RecommendationTasks

CONSTANTS
    Unclear     \* requests for which _needs_clarification holds

ASSUME BaselineAssumption == Unclear \subseteq Payloads

\* What the rules make of a request.
Outcome(r) ==
    IF r.kind = "CREATE" /\ r.payload \in Unclear THEN "WAITING_CLARIFICATION" ELSE "COMPLETED"

BaselineCommit(c) ==
    /\ Running(c)
    /\ LET r == call[c].request
       IN  \/ r.kind = "CREATE" /\ CommitCreate(c, r, Outcome(r))
           \/ r.kind = "CLARIFY" /\ CommitClarify(c, r, Outcome(r))

\* The unique keys refuse an insert.
UniqueKeyRefuses(r) == IF r.kind = "CREATE" THEN root[r.task] # NoRow ELSE Taken(r)

\* Mutant: the error goes up at once.
RaisesAtOnce(c, r) == Step(c, "CONFLICT", r, NoReply)

\* The winner's row, read in a new snapshot, answers the call, refuses it, or
\* has another key and lets the error go up.
ReadsBack(c, r) ==
    \/ /\ r.kind = "CREATE"
       /\ IF root[r.task].payload = r.payload
            THEN Step(c, "REPLAYED", r, LoadExecution(r.task))
            ELSE Step(c, "REJECTED", r, NoReply)
    \/ /\ r.kind = "CLARIFY"
       /\ \/ Keyed(r.task, r.key) = {} /\ Step(c, "CONFLICT", r, NoReply)
          \/ \E x \in Keyed(r.task, r.key) :
               IF x.answers = r.answers THEN Step(c, "REPLAYED", r, StoredResponse(x))
                                        ELSE Step(c, "REJECTED", r, NoReply)

LosesRace(c) ==
    /\ Running(c)
    /\ UniqueKeyRefuses(call[c].request)
    /\ ReadsBack(c, call[c].request)
    /\ UNCHANGED storeVars

BaselineNext ==
    \E c \in Calls :
        \/ \E r \in CreateRequests : BeginCreate(c, r)
        \/ \E r \in ClarifyRequests : BeginClarify(c, r)
        \/ \E r \in CreateRequests \cup ClarifyRequests : Unavailable(c, r)
        \/ BaselineCommit(c)
        \/ LosesRace(c)
        \/ Fail(c)
        \/ Return(c)

BaselineSpec == Init /\ [][BaselineNext]_vars

-----------------------------------------------------------------------------
(* Safety, beside that of RecommendationTasks.                             *)

\* Another client's answers have taken the place of these.
Overtaken(r) ==
    /\ r.kind = "CLARIFY" /\ ~Stored(r)
    /\ \E x \in contexts[r.task] : x.version = r.version + 1 /\ x.key # r.key

\* Whoever loses a race still gets an answer: an IntegrityError only leaves
\* the service for answers that another client's answers have overtaken.  A
\* request whose own facts are stored never ends in one, in whatever order
\* begin, commit and read back of the calls fall (the except branches).
LosersAreAnswered ==
    \A c \in Calls :
        (call[c] # NoCall /\ call[c].phase = "CONFLICT") => Overtaken(call[c].request)

\* A task asks at most once, and only for a request that is unclear; of the
\* calls that race with answers to the same waiting context, each with a
\* snapshot in which it still waits, one stores its answer and the task is
\* completed (submit_clarification, the unique keys).
AskedAtMostOnce ==
    \A t \in Tasks : root[t] # NoRow =>
        /\ contexts[t] = {} <=> root[t].payload \notin Unclear
        /\ Cardinality(contexts[t]) <= 2
        /\ Cardinality(contexts[t]) = 2 => TaskStatus(t) = "COMPLETED"
=============================================================================
