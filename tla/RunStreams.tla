----------------------------- MODULE RunStreams -----------------------------
(***************************************************************************)
(* The event streams of one task's runs: the broker numbers, keeps and     *)
(* hands out the events (recommendation/progress.py), and the route        *)
(* GET /recommendation-runs/{task_id}/events streams them                  *)
(* (api/recommendation_runs.py).                                           *)
(*                                                                         *)
(* The history of a run and the queue of a subscriber are bounded.  A      *)
(* request checks the context of the run there is; the body of its         *)
(* response starts later, and looks the run up again.  Heartbeats say      *)
(* nothing and are left out.                                               *)
(***************************************************************************)
EXTENDS Integers, Sequences

CONSTANTS
    Readers,       \* clients that stream events
    HistorySize,   \* maxlen of _Run.events
    QueueSize,     \* maxsize of a subscriber's queue
    MaxEvents,     \* bound: events of a run
    MaxRuns,       \* bound: runs of the task, one after the other
    NoneKnown      \* the broker knows no run of the task

\* What is replayed to a new subscriber has to fit into its queue, and so have
\* the events of one step of the event loop.
ASSUME StreamsAssumption ==
    /\ HistorySize \in Nat \ {0} /\ QueueSize \in Nat
    /\ HistorySize <= QueueSize
    /\ MaxEvents \in Nat /\ MaxRuns \in Nat
    /\ NoneKnown \notin Nat

VARIABLES
    known,       \* the run the broker knows
    log,         \* the runs: how many events they published, whether they are terminal
    listeners,   \* the readers that are among their run's subscribers
    stream       \* the readers' streams

streamVars == <<known, log, listeners, stream>>

NoStream == [state |-> "OFF", run |-> NoneKnown, after |-> 0, queue |-> <<>>, got |-> <<>>]

StreamsInit ==
    /\ known = NoneKnown
    /\ log = <<>>
    /\ listeners = {}
    /\ stream = [c \in Readers |-> NoStream]

-----------------------------------------------------------------------------
(* publish.                                                                *)

Least(a, b) == IF a < b THEN a ELSE b

Room(c) == QueueSize - Len(stream[c].queue)

\* Mutant: a subscriber stays although its queue is full.
StaysOn(c, count) == TRUE

\* The queue of a subscriber takes that many more events.
KeepsUp(c, count) == Room(c) >= count

\* The run's next events go to its subscribers; those that are behind by a
\* whole queue are dropped.
Publishes(count, ends) ==
    LET last == log[known].events
        behind == {c \in listeners : stream[c].run = known /\ ~KeepsUp(c, count)}
        Next(c) == [i \in 1 .. Least(count, Room(c)) |-> last + i]
    IN  /\ last + count <= MaxEvents
        /\ log' = [log EXCEPT ![known] = [events |-> last + count, terminal |-> ends]]
        /\ listeners' = listeners \ behind
        /\ stream' = [c \in Readers |->
               IF c \in listeners /\ stream[c].run = known
               THEN [stream[c] EXCEPT !.queue = @ \o Next(c)] ELSE stream[c]]
        /\ UNCHANGED known

RunAlive == known # NoneKnown /\ ~log[known].terminal

RunProgresses == RunAlive /\ Publishes(1, FALSE)

\* complete or fail, or both: a completed run whose bridge into the workspace
\* raises fails too, in the same step of the event loop.
RunEnds == RunAlive /\ \E count \in 1 .. 2 : Publishes(count, TRUE)

\* A first run, a later context of a terminal one, or one after it is pruned;
\* its first event is TASK_ACCEPTED.
RunReserved ==
    /\ ~RunAlive
    /\ Len(log) < MaxRuns
    /\ known' = Len(log) + 1
    /\ log' = Append(log, [events |-> 1, terminal |-> FALSE])
    /\ UNCHANGED <<listeners, stream>>

RunPruned ==
    /\ known # NoneKnown /\ log[known].terminal
    /\ known' = NoneKnown
    /\ UNCHANGED <<log, listeners, stream>>

-----------------------------------------------------------------------------
(* stream_events and events.                                               *)

Becomes(c, record) == stream' = [stream EXCEPT ![c] = record]

\* A first request, or one again with the Last-Event-ID of the one before.
StreamAsked(c) ==
    /\ stream[c].state = "OFF"
    /\ known # NoneKnown
    /\ Becomes(c, [stream[c] EXCEPT !.state = "OPENING"])
    /\ UNCHANGED <<known, log, listeners>>

\* The oldest event the history of a run still has.
Oldest(k) == IF log[k].events > HistorySize THEN log[k].events - HistorySize + 1 ELSE 1

\* What a new subscriber of the run is given first.
Replayed(k, after) ==
    LET first == IF after >= Oldest(k) THEN after + 1 ELSE Oldest(k)
    IN  IF first > log[k].events THEN <<>>
        ELSE [i \in 1 .. log[k].events - first + 1 |-> first + i - 1]

\* The body starts with the run there is by now.
StreamBegins(c) ==
    /\ stream[c].state = "OPENING"
    /\ known # NoneKnown
    /\ Becomes(c, [stream[c] EXCEPT !.state = "ON", !.run = known, !.got = <<>>,
                                    !.queue = Replayed(known, stream[c].after)])
    /\ listeners' = listeners \cup {c}
    /\ UNCHANGED <<known, log>>

\* It is gone: RunNotFoundError, in the middle of a response.
StreamBreaks(c) ==
    /\ stream[c].state = "OPENING"
    /\ known = NoneKnown
    /\ Becomes(c, [stream[c] EXCEPT !.state = "OFF"])
    /\ UNCHANGED <<known, log, listeners>>

StreamDelivers(c) ==
    /\ stream[c].state = "ON"
    /\ stream[c].queue # <<>>
    /\ Becomes(c, [stream[c] EXCEPT !.queue = Tail(@), !.got = Append(@, Head(stream[c].queue))])
    /\ UNCHANGED <<known, log, listeners>>

\* Mutants: the stream ends with its run, or looks at another run.
EndsAtOnce(c) == log[stream[c].run].terminal
EndsWithKnownRun(c) == known # NoneKnown /\ log[known].terminal /\ stream[c].queue = <<>>

\* The run is terminal, and everything in the queue was delivered.
Exhausted(c) == log[stream[c].run].terminal /\ stream[c].queue = <<>>

StreamEnds(c) ==
    /\ stream[c].state = "ON"
    /\ Exhausted(c)
    /\ Becomes(c, [stream[c] EXCEPT !.state = "ENDED"])
    /\ listeners' = listeners \ {c}
    /\ UNCHANGED <<known, log>>

\* The client goes away, and may come back with what it saw last.
StreamLeft(c) ==
    /\ stream[c].state = "ON"
    /\ Becomes(c, [NoStream EXCEPT !.after =
           IF stream[c].got = <<>> THEN stream[c].after ELSE stream[c].got[Len(stream[c].got)]])
    /\ listeners' = listeners \ {c}
    /\ UNCHANGED <<known, log>>

StreamsNext ==
    \/ RunReserved \/ RunProgresses \/ RunEnds \/ RunPruned
    \/ \E c \in Readers :
         \/ StreamAsked(c) \/ StreamBegins(c) \/ StreamBreaks(c)
         \/ StreamDelivers(c) \/ StreamEnds(c) \/ StreamLeft(c)

StreamsSpec == StreamsInit /\ [][StreamsNext]_streamVars

\* The event loop goes on, and the client reads on.
StreamsFairness ==
    \A c \in Readers : WF_streamVars(StreamDelivers(c)) /\ WF_streamVars(StreamEnds(c))

-----------------------------------------------------------------------------
(* Properties.                                                             *)

Connected == {c \in Readers : stream[c].state \in {"ON", "ENDED"}}

\* From its first event on a stream has every event of its run in order and
\* once, be they replayed or published, and however slow the client is: one
\* that cannot keep up gets a shorter stream and never one with a hole.
EventsWithoutHoles ==
    \A c \in Connected :
        LET seen == stream[c].got \o stream[c].queue
        IN  /\ \A i \in 1 .. Len(seen) - 1 : seen[i + 1] = seen[i] + 1
            /\ c \in listeners /\ seen # <<>> => seen[Len(seen)] = log[stream[c].run].events

\* A stream that ends, and was not dropped for being slow, has delivered the
\* last event of its run, which says how the run ended, unless the client had
\* already said that it knows it (Last-Event-ID).
EndsWithTheLastEvent ==
    [][\A c \in listeners : stream[c].state = "ON" /\ stream'[c].state = "ENDED" =>
          LET got == stream[c].got
              last == log[stream[c].run].events
          IN  IF got = <<>> THEN stream[c].after >= last ELSE got[Len(got)] = last]_streamVars

\* Once its run is terminal every stream ends, also one that was dropped, and
\* one whose run was replaced or pruned meanwhile.
StreamsEnd ==
    \A c \in Readers : (stream[c].state = "ON" /\ log[stream[c].run].terminal) ~> stream[c].state # "ON"
=============================================================================
