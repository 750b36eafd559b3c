--------------------------- MODULE WorkspaceView ---------------------------
(***************************************************************************)
(* What the browser shows of an Agent workspace: the store                 *)
(* (frontend/src/stores/agentWorkspace.ts), its event stream               *)
(* (api/agentWorkspaceClient.ts), and the server's events, snapshots and   *)
(* subscriber queues behind them (agent_workspace/runtime.py).             *)
(*                                                                         *)
(* A snapshot shows the last events of a workspace and the state of its    *)
(* Agents; the stream of each new connection replays the events from the   *)
(* first one on.  One Agent stands for all of them.  The server publishes  *)
(* and takes a snapshot without awaiting anything in between.  Of an event *)
(* that finds the audit buffer full it tells no stream, although it is in  *)
(* the history by then; whether the buffer is full is a free choice here,  *)
(* since it depends on every workspace and on the audit worker.            *)
(*                                                                         *)
(* Left out: directives, sources and topics, the connection indicator,     *)
(* what a state tells beside working or not, and that a workspace is       *)
(* forgotten: its requests and streams are answered with 404 from then on. *)
(***************************************************************************)
EXTENDS Integers, Sequences, FiniteSets

CONSTANTS
    ViewedWorkspaces,   \* one for each session of the browser
    AuditedWorkspaces,  \* those whose events are captured: not a guest's
    ViewRequests,       \* requests of the store that may be under way
    Recents,            \* events of a snapshot: 40
    Kept,               \* events the store keeps: 80
    StreamQueue,        \* events the server keeps, and a subscriber's queue: 512
    MaxHistory,         \* bound: events of all workspaces
    MaxGeneration,      \* bound: times the store starts or stops
    NoWorkspace,        \* nothing is shown
    NoRequest           \* a request that is not under way

ASSUME ViewAssumption ==
    /\ Recents \in Nat \ {0} /\ Kept \in Nat /\ Kept >= Recents
    /\ StreamQueue \in Nat /\ StreamQueue >= Recents
    /\ MaxHistory \in Nat \ {0} /\ MaxGeneration \in Nat
    /\ AuditedWorkspaces \subseteq ViewedWorkspaces
    /\ NoWorkspace \notin ViewedWorkspaces

VARIABLES
    history,     \* the events of every workspace: their kind, context_version, and
                 \* whether subscribers were offered them
    view,        \* what the store shows
    generation,  \* generation of the store
    running,     \* its state is not "idle"
    request,     \* create and observe requests under way, or answered
    feed         \* the event stream of every generation

viewVars == <<history, view, generation, running, request, feed>>

Generations == 0 .. MaxGeneration

Nothing == [workspace |-> NoWorkspace, events |-> <<>>, context |-> 0, working |-> FALSE]

NoFeed == [phase |-> "NONE", workspace |-> NoWorkspace, last |-> 0,
           queue |-> <<>>, subscribed |-> FALSE]

ViewInit ==
    /\ history = [w \in ViewedWorkspaces |-> <<>>]
    /\ view = Nothing
    /\ generation = 0
    /\ running = FALSE
    /\ request = [q \in ViewRequests |-> NoRequest]
    /\ feed = [g \in Generations |-> NoFeed]

-----------------------------------------------------------------------------
(* The server.                                                             *)

LastOf(s, k) == SubSeq(s, IF Len(s) > k THEN Len(s) - k + 1 ELSE 1, Len(s))

\* Published of the kinds "ACCEPTED" (an observation is; the workspace itself,
\* for its version 1), "STARTED" and "COMPLETED" (the Agent has).
ContextOf(h) == Cardinality({i \in 1 .. Len(h) : h[i].kind = "ACCEPTED"})

AtWork(h) == \E i \in 1 .. Len(h) :
    /\ h[i].kind = "STARTED"
    /\ \A j \in i .. Len(h) : h[j].kind # "COMPLETED"

Event(w, n) == [workspace |-> w, sequence |-> n]

\* snapshot.
Snapshot(w, h) ==
    [workspace |-> w, context |-> ContextOf(h), working |-> AtWork(h),
     events |-> LastOf([i \in 1 .. Len(h) |-> Event(w, i)], Recents)]

\* The queue of a subscriber takes an event, or it is no subscriber any more.
Offered(f, n) ==
    IF Len(f.queue) < StreamQueue THEN [f EXCEPT !.queue = Append(@, n)]
                                  ELSE [f EXCEPT !.subscribed = FALSE]

\* The events there are.
Published == UNION {{w} \X (1 .. Len(history[w])) : w \in ViewedWorkspaces}

\* capture_event: of an audited workspace it may raise.
Captures(w) == IF w \in AuditedWorkspaces THEN BOOLEAN ELSE {TRUE}

\* _publish: the event is in the history before it is captured, and offered to
\* the subscribers after that, unless the capture has raised.
PublishTo(w, kind, context, offered) ==
    /\ Cardinality(Published) < MaxHistory
    /\ history' = [history EXCEPT ![w] =
         Append(@, [kind |-> kind, context |-> context, offered |-> offered])]
    /\ feed' = [g \in Generations |->
         IF offered /\ feed[g].subscribed /\ feed[g].workspace = w
           THEN Offered(feed[g], Len(history'[w])) ELSE feed[g]]

\* An observation of the server's own; an Agent that starts; one that completes,
\* and with it an observation accepted before, whose event has its version.
ServerWorks(w) ==
    /\ history[w] # <<>>
    /\ LET latest == ContextOf(history[w])
       IN  \E offered \in Captures(w) :
             \/ PublishTo(w, "ACCEPTED", latest + 1, offered)
             \/ PublishTo(w, "STARTED", latest, offered)
             \/ \E context \in 1 .. latest : PublishTo(w, "COMPLETED", context, offered)
    /\ UNCHANGED <<view, generation, running, request>>

\* No answer comes, or none that is used: only the indicator shows it.
Failed(q) == request' = [request EXCEPT ![q] = NoRequest]

Answered(q, h) == request' = [request EXCEPT ![q].reply = Snapshot(request[q].workspace, h)]

\* A request that accepts an observation fails with its publication.
Accepts(q, context) ==
    LET w == request[q].workspace
    IN  \E offered \in Captures(w) :
          /\ PublishTo(w, "ACCEPTED", context, offered)
          /\ IF offered THEN Answered(q, history'[w]) ELSE Failed(q)

Pending(q, op) == request[q] # NoRequest /\ request[q].op = op /\ request[q].reply = Nothing

\* create: the session has its workspace, or gets it, also when that fails.
ServerCreates(q) ==
    /\ Pending(q, "CREATE")
    /\ LET w == request[q].workspace
       IN  IF history[w] = <<>> THEN Accepts(q, 1)
           ELSE Answered(q, history[w]) /\ UNCHANGED <<history, feed>>
    /\ UNCHANGED <<view, generation, running>>

\* observe: a new observation, or one that repeats the last.
ServerObserves(q) ==
    /\ Pending(q, "OBSERVE")
    /\ LET w == request[q].workspace
       IN  \/ Accepts(q, ContextOf(history[w]) + 1)
           \/ Answered(q, history[w]) /\ UNCHANGED <<history, feed>>
    /\ UNCHANGED <<view, generation, running>>

-----------------------------------------------------------------------------
(* applySnapshot and applyEvent.                                           *)

Highest(s) == IF s = <<>> THEN 0
              ELSE CHOOSE n \in {s[i].sequence : i \in DOMAIN s} :
                     \A i \in DOMAIN s : s[i].sequence <= n

\* recent_events of what is shown are its last events.
IsOlder(s) ==
    /\ view.workspace = s.workspace
    /\ \/ s.context < view.context
       \/ s.context = view.context /\ Highest(s.events) < Highest(LastOf(view.events, Recents))

ApplySnapshot(s) == view' = IF IsOlder(s) THEN view ELSE s

Shows(n) == \E i \in DOMAIN view.events : view.events[i].sequence = n

ApplyEvent(w, n) ==
    IF Shows(n) THEN UNCHANGED view
    ELSE LET e == history[w][n]
         IN  view' = [view EXCEPT
               !.events = LastOf(Append(@, Event(w, n)), Kept),
               !.context = IF e.context > @ THEN e.context ELSE @,
               !.working = IF e.kind = "STARTED" THEN TRUE
                           ELSE IF e.kind = "COMPLETED" THEN FALSE ELSE @]

-----------------------------------------------------------------------------
(* The store.                                                              *)

\* The controller of the generation is aborted.  An event that the stream has
\* read may still be on its way to the callback.
Aborted == [feed EXCEPT ![generation].phase = IF @ = "NONE" THEN @ ELSE "ABORTED",
                        ![generation].subscribed = FALSE,
                        ![generation].queue = IF @ = <<>> THEN @ ELSE <<Head(@)>>]

Send(q, op, token, w) ==
    /\ request[q] = NoRequest
    /\ request' = [request EXCEPT ![q] =
         [op |-> op, token |-> token, workspace |-> w, reply |-> Nothing]]

\* initialize: at the start, and when the session or the access token changes.
Initialize(q, w) ==
    /\ generation < MaxGeneration
    /\ generation' = generation + 1
    /\ feed' = Aborted
    /\ view' = Nothing
    /\ running' = TRUE
    /\ Send(q, "CREATE", generation + 1, w)
    /\ UNCHANGED history

\* stop.
StopView ==
    /\ running /\ generation < MaxGeneration
    /\ generation' = generation + 1
    /\ feed' = Aborted
    /\ view' = Nothing
    /\ running' = FALSE
    /\ UNCHANGED <<history, request>>

\* observe.
AskToObserve(q) ==
    /\ view.workspace # NoWorkspace
    /\ Send(q, "OBSERVE", generation, view.workspace)
    /\ UNCHANGED <<history, view, generation, running, feed>>

\* Mutant: whatever comes back is taken.
TakesAnyReply(q) == request[q].op = "CREATE" => request[q].token = generation

\* A reply is for the generation that asked, and an observation's for the
\* workspace that is shown.
TakesReply(q) ==
    /\ request[q].token = generation
    /\ request[q].op = "OBSERVE" => request[q].workspace = view.workspace

Receive(q) ==
    /\ request[q] # NoRequest /\ request[q].reply # Nothing
    /\ IF TakesReply(q) THEN ApplySnapshot(request[q].reply) ELSE UNCHANGED view
    /\ feed' = IF TakesReply(q) /\ request[q].op = "CREATE"
                 THEN [feed EXCEPT ![generation] =
                        [NoFeed EXCEPT !.phase = "CONNECTING", !.workspace = request[q].workspace]]
                 ELSE feed
    /\ request' = [request EXCEPT ![q] = NoRequest]
    /\ UNCHANGED <<history, generation, running>>

\* The request, or its answer, is lost.
RequestLost(q) ==
    /\ request[q] # NoRequest
    /\ Failed(q)
    /\ UNCHANGED <<history, view, generation, running, feed>>

-----------------------------------------------------------------------------
(* stream.                                                                 *)

\* Mutant: a reconnection asks for new events only.
ReplayNothing(f) == <<>>

\* events: what the server still has after Last-Event-ID.
Replay(f) ==
    LET total == Len(history[f.workspace])
        first == IF f.last > total - StreamQueue THEN f.last ELSE total - StreamQueue
    IN  [i \in 1 .. total - first |-> first + i]

FeedConnects(g) ==
    /\ feed[g].phase = "CONNECTING"
    /\ feed' = [feed EXCEPT ![g].phase = "OPEN", ![g].subscribed = TRUE,
                            ![g].queue = Replay(feed[g])]
    /\ UNCHANGED <<history, view, generation, running, request>>

FeedBreaks(g) ==
    /\ feed[g].phase = "OPEN"
    /\ feed' = [feed EXCEPT ![g].phase = "CONNECTING", ![g].subscribed = FALSE,
                            ![g].queue = <<>>]
    /\ UNCHANGED <<history, view, generation, running, request>>

\* applyCurrentEvent: an event of a replaced generation is not shown.
FeedDelivers(g) ==
    /\ feed[g].queue # <<>>
    /\ LET n == Head(feed[g].queue)
       IN  /\ feed' = [feed EXCEPT ![g].queue = Tail(@), ![g].last = n]
           /\ IF g = generation THEN ApplyEvent(feed[g].workspace, n) ELSE UNCHANGED view
    /\ UNCHANGED <<history, generation, running, request>>

ViewNext ==
    \/ \E w \in ViewedWorkspaces : ServerWorks(w)
    \/ StopView
    \/ \E q \in ViewRequests :
         \/ ServerCreates(q)
         \/ ServerObserves(q)
         \/ \E w \in ViewedWorkspaces : Initialize(q, w)
         \/ AskToObserve(q)
         \/ Receive(q)
         \/ RequestLost(q)
    \/ \E g \in Generations : FeedConnects(g) \/ FeedBreaks(g) \/ FeedDelivers(g)

ViewSpec == ViewInit /\ [][ViewNext]_viewVars

\* The client's loop connects again and reads on; a connection that breaks
\* now and then still brings events.
ViewFairness ==
    \A g \in Generations :
        WF_viewVars(FeedConnects(g)) /\ SF_viewVars(FeedDelivers(g))

FairViewSpec == ViewSpec /\ ViewFairness

-----------------------------------------------------------------------------
(* Safety and liveness.                                                    *)

\* A view that is a prefix of the history of its workspace: its events in
\* order, and the context and the Agent's state after the last of them.
IsPrefix(n) ==
    LET h == SubSeq(history[view.workspace], 1, n)
    IN  /\ view.events = [i \in 1 .. n |-> Event(view.workspace, i)]
        /\ view.context = ContextOf(h)
        /\ view.working = AtWork(h)

\* Every event of a history was offered to its subscribers.
Whole(h) == \A i \in 1 .. Len(h) : h[i].offered

\* The events that are shown.
ShownMarks == [i \in 1 .. Len(view.events) |-> history[view.workspace][view.events[i].sequence]]

\* What is shown is of the workspace the session has asked for last.  As long
\* as its history is no longer than a snapshot, events of it are shown in its
\* order and each once, the Agent's state is the one they lead to, and no event
\* is of a later context than the shown one; and if every event was offered
\* they are a prefix of it, no shorter than what the stream has brought.  All
\* that in whatever order snapshots, replayed and new events come in, of
\* sessions and requests that may have been replaced meanwhile (applySnapshot,
\* applyEvent and their generation).
ShortHistoryIsShownInOrder ==
    LET f == feed[generation]
        w == view.workspace
        shown == view.events
    IN  /\ f.phase # "NONE" => w = f.workspace
        /\ (w # NoWorkspace /\ Len(history[w]) <= Recents) =>
             /\ \A i, j \in 1 .. Len(shown) : i < j => shown[i].sequence < shown[j].sequence
             /\ \A i \in 1 .. Len(shown) : ShownMarks[i].context <= view.context
             /\ view.working = AtWork(ShownMarks)
             /\ Whole(history[w]) => IsPrefix(Len(shown)) /\ f.last <= Len(shown)

\* A view that has a stream comes to show the newest event, over broken
\* connections and with any history, unless its subscriber fell behind by a
\* whole queue.  The newest event may be withheld while the stream is open; and
\* after one that was withheld a late snapshot of its context may take away an
\* event that the stream has brought (stream with Last-Event-ID, events).
ViewCatchesUp ==
    LET f == feed[generation]
        h == history[f.workspace]
        newest == Len(h)
    IN  []<>(\/ f.phase \notin {"CONNECTING", "OPEN"}
             \/ f.phase = "OPEN" /\ ~f.subscribed
             \/ Shows(newest)
             \/ f.phase = "OPEN" /\ ~h[newest].offered
             \/ ~Whole(h) /\ f.last = newest)

-----------------------------------------------------------------------------
(* A statement of the documents that the code does not keep.               *)

\* The rail does not pass replayed history off as live activity (the report
\* on background planning of 2026-09-14): a view whose stream has nothing left
\* to bring shows the Agent at work only when it is.
ReplayIsNoActivity ==
    LET f == feed[generation]
    IN  (f.phase = "OPEN" /\ f.subscribed /\ f.queue = <<>>)
            => (view.working => AtWork(history[view.workspace]))
=============================================================================
