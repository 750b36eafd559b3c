--------------------------- MODULE FeedbackFacts ---------------------------
(***************************************************************************)
(* Feedback and exposures: record_feedback and record_impression of        *)
(* FeedbackApplicationService (feedback/application/service.py), each one  *)
(* transaction that appends a behavior event with its outbox row           *)
(* (profile/adapters/behavior_mysql.py), the feedback's own row, and the   *)
(* state of the resource with the fact of its transition                   *)
(* (feedback/adapters/mysql.py, observability/adapters).                   *)
(*                                                                         *)
(* The rows of one feedback_uuid come and go together.  One that is there  *)
(* with another content is refused, which changes nothing; occurred_at is  *)
(* taken over from the stored event and cannot differ.  Reads see the      *)
(* transaction's snapshot (REPEATABLE READ, the server's default); writes  *)
(* meet what is committed by then.                                         *)
(***************************************************************************)
EXTENDS Integers

CONSTANTS
    Feedbacks,    \* feedback_uuids and impression_uuids
    Places,       \* resources of a reader, each with a state_type
    PlaceOf,      \* the state a feedback sets; NoPlace for exposures, good ratings
    Posts,        \* calls that may be under way at a time
    MaxVersions,  \* bound: versions of one state
    NoPlace, NoPost, NoState

ASSUME FeedbackAssumption ==
    /\ PlaceOf \in [Feedbacks -> Places \cup {NoPlace}]
    /\ NoPlace \notin Places
    /\ MaxVersions \in Nat
    /\ NoState \notin [source : Feedbacks, version : Nat]

VARIABLES
    given,         \* the feedbacks whose rows are stored
    resource,      \* user_resource_state
    transitions,   \* domain_state_transition of the resource states
    post           \* the calls under way

feedbackVars == <<given, resource, transitions, post>>

FeedbackInit ==
    /\ given = {}
    /\ resource = [p \in Places |-> NoState]
    /\ transitions = [p \in Places |-> {}]
    /\ post = [c \in Posts |-> NoPost]

\* The transaction takes its snapshot.
PostBegins(c, f) ==
    /\ post[c] = NoPost
    /\ post' = [post EXCEPT ![c] =
           [feedback |-> f, again |-> f \in given,
            seen |-> IF PlaceOf[f] = NoPlace THEN NoState ELSE resource[PlaceOf[f]]]]
    /\ UNCHANGED <<given, resource, transitions>>

\* INSERT IGNORE, then a read in the snapshot: rows that another call has
\* appended since are not found, and the call raises.
Resolves(c) == post[c].feedback \in given => post[c].again

\* Mutant: the versions of a state's transitions are not unique.
AnyVersion(p, version) == TRUE

\* uq_domain_transition_aggregate_version
VersionFree(p, version) == \A t \in transitions[p] : t.version # version

\* The row becomes the feedback's, and the transition is recorded.
Replaces(p, f, version) ==
    /\ version <= MaxVersions
    /\ resource' = [resource EXCEPT ![p] = [source |-> f, version |-> version]]
    /\ VersionFree(p, version)
    /\ transitions' = [transitions EXCEPT ![p] = @ \cup {[source |-> f, version |-> version]}]

\* The state is new, or is this feedback's already, or is replaced: by the
\* version that follows the one in the snapshot, whatever the row holds by now.
StateFollows(f, seen) ==
    LET p == PlaceOf[f]
    IN  \/ /\ p = NoPlace \/ (seen # NoState /\ seen.source = f)
           /\ UNCHANGED <<resource, transitions>>
        \/ p # NoPlace /\ seen = NoState /\ resource[p] = NoState /\ Replaces(p, f, 1)
        \/ p # NoPlace /\ seen # NoState /\ seen.source # f /\ Replaces(p, f, seen.version + 1)

\* The rest of the transaction: everything is appended and committed.
PostCommits(c) ==
    /\ post[c] # NoPost
    /\ Resolves(c)
    /\ StateFollows(post[c].feedback, post[c].seen)
    /\ given' = given \cup {post[c].feedback}
    /\ post' = [post EXCEPT ![c] = NoPost]

\* A row that is not found, a key that is taken, a lock that is not granted, a
\* crash: all is rolled back.
PostFails(c) ==
    /\ post[c] # NoPost
    /\ post' = [post EXCEPT ![c] = NoPost]
    /\ UNCHANGED <<given, resource, transitions>>

FeedbackNext ==
    \E c \in Posts :
        \/ \E f \in Feedbacks : PostBegins(c, f)
        \/ PostCommits(c)
        \/ PostFails(c)

FeedbackSpec == FeedbackInit /\ [][FeedbackNext]_feedbackVars

-----------------------------------------------------------------------------
(* Safety.                                                                 *)

States == [source : Feedbacks, version : 1 .. MaxVersions]
PostCalls == [feedback : Feedbacks, again : BOOLEAN, seen : States \cup {NoState}]

\* Every variable has its type.
FeedbackTypeOK ==
    /\ given \subseteq Feedbacks
    /\ resource \in [Places -> States \cup {NoState}]
    /\ transitions \in [Places -> SUBSET States]
    /\ post \in [Posts -> PostCalls \cup {NoPost}]

\* Whatever feedbacks on one resource race, the row's version is read in a
\* snapshot and written blindly, and yet no feedback overwrites one it has not
\* seen: the transitions are one line of versions that ends in the row, and all
\* of them are of feedbacks that are stored (append_feedback).
ResourceStateIsOneLine ==
    \A p \in Places :
        /\ resource[p] = NoState => transitions[p] = {}
        /\ resource[p] # NoState =>
             /\ resource[p] \in transitions[p]
             /\ {t.version : t \in transitions[p]} = 1 .. resource[p].version
             /\ \A t, u \in transitions[p] : t.version = u.version => t = u
        /\ \A t \in transitions[p] : t.source \in given

-----------------------------------------------------------------------------
(* A statement of the documents that the code does not keep.               *)

\* A feedback that is repeated adds no fact and leaves the resource's state as
\* it is (docs/api.md, section 2.4: a retry makes no second fact).
RepeatedFeedbackChangesNothing ==
    [][\A c \in Posts : (post[c] # NoPost /\ post[c].again)
         => UNCHANGED <<resource, transitions>> \/ post'[c] = post[c]]_feedbackVars
=============================================================================
