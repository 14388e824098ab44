---------------------------- MODULE EditorRemote ----------------------------
(***************************************************************************)
(* The editor's transport (crates/editor-backend/src/remote.rs) between    *)
(* the world thread and the pages of the browser editor                    *)
(* (editor-v2/live.js): one serve thread drains the world's events into a  *)
(* bounded replay log and into the scene snapshot and answers requests;    *)
(* one thread per event socket pushes the records past its cursor.  Any    *)
(* other connection is copied to the internal HTTP server by two threads   *)
(* of its own.  Pages reconnect, poll while they have no socket, and       *)
(* outlive the engine.                                                     *)
(*                                                                         *)
(* The log's sequence numbers are consecutive, so the log is the history   *)
(* of the events pushed since the engine started and the oldest number     *)
(* still kept; a batch is an interval of numbers behind a possible gap.    *)
(* Status and scene snapshots share one counter and one code path: a       *)
(* publication is one event here.                                          *)
(***************************************************************************)
EXTENDS Integers, Sequences, FiniteSets

CONSTANTS
    Pages,        \* the open editor pages
    Slots,        \* scene requests a page may have in flight
    MaxConns,     \* bound: sockets opened
    Environments  \* bounds: what the outside may do, chosen at the start

\* capacity: EVENT_HISTORY_CAPACITY;
\* commands and frames: how many commands the pages post and send on sockets;
\* ticks: how many frames change the world; restarts: how often the engine dies and starts again;
\* conns: the connections opened; plain: which of them are plain HTTP requests;
\* slots: the scene requests in flight at once; stop: whether the editor may be stopped.
ASSUME RemoteAssumption ==
    /\ MaxConns \in Nat
    /\ Environments \subseteq [capacity : Nat \ {0}, commands : Nat, frames : Nat, ticks : Nat,
                              restarts : Nat, conns : 0..MaxConns, plain : SUBSET (1..MaxConns),
                              slots : SUBSET Slots, stop : BOOLEAN]

VARIABLES
    version,    \* EditorSession::version
    cmds,       \* the command channel: whether each carries a request id
    events,     \* the event channel
    history,    \* every event pushed to the log
    first,      \* the oldest sequence number the log keeps
    snaps,      \* the scene snapshot and its transport sequence
    serving,    \* the serve thread runs
    joiner,     \* where RemoteEditor::stop is; its flag is up once it is called
    handles,    \* websocket_handles
    joining,    \* the handles stop has taken
    conn,       \* per connection: its threads and what is on the wire
    page,       \* per page: the state of live.js
    env,        \* what the outside may still do
    epoch       \* how many engines ran before this one

vars == <<version, cmds, events, history, first, snaps, serving,
          joiner, handles, joining, conn, page, env, epoch>>

log == <<history, first, snaps>>
stopping == <<joiner, handles, joining>>

Conns == 1..MaxConns
Stopped == joiner # "idle"

Idle == [state |-> "idle"]

\* The two directions in which a connection is copied to and from the
\* internal server: remote-editor-proxy-up and remote-editor-proxy-down.
Pumps == {"up", "down"}

NoConn == [sniff |-> "none", ws |-> "none", pumps |-> {},
           cursor |-> 0, wire |-> <<>>, frames |-> 0]

\* socket: the connection, or 0; opened: onopen has run; cursor: eventCursor;
\* poll, fetch: requests in flight; shown: the scene and lastSceneSequence.
\* For the properties: the events seen and the events a gap announced as lost,
\* the cursor when this engine started, the version of the last completion.
NewPage ==
    [socket |-> 0, opened |-> FALSE, cursor |-> 0, poll |-> Idle,
     fetch |-> [i \in Slots |-> Idle],
     shown |-> [version |-> 0, sequence |-> 0, epoch |-> 0],
     seen |-> {}, lost |-> {}, base |-> 0, answered |-> 0]

Published(v) == [kind |-> "scene", version |-> v]
Note == [kind |-> "note"]
Completion(identified, v) ==
    IF identified THEN <<[kind |-> "done", version |-> v]>> ELSE <<>>

RemoteInit ==
    /\ version = 1 /\ cmds = <<>> /\ events = <<Published(1)>>
    /\ history = <<>> /\ first = 1 /\ snaps = [version |-> 0, sequence |-> 0]
    /\ serving = TRUE
    /\ joiner = "idle" /\ handles = {} /\ joining = {}
    /\ conn = [k \in Conns |-> NoConn]
    /\ page = [p \in Pages |-> NewPage]
    /\ env \in Environments /\ epoch = 0

-----------------------------------------------------------------------------
(* The world thread.  The event channel is the only thing it shares with   *)
(* the serve thread and has one reader, so a handler's sends are one step  *)
(* and the reader takes the events one at a time.                          *)

BugRunCommand ==
    /\ cmds # <<>>
    /\ cmds' = Tail(cmds)
    /\ version' = version + 1
    /\ events' = events \o <<Note>> \o Completion(Head(cmds), version')
                        \o <<Published(version')>>
    /\ UNCHANGED <<log, serving, stopping, conn, page, env, epoch>>

\* handle_command: what a handler reports goes out first, then the snapshot
\* when the world changed, and last the completion of a command that carries
\* a request id (the frames of a socket carry none).
RunCommand ==
    /\ cmds # <<>>
    /\ cmds' = Tail(cmds)
    /\ \/ /\ version' = version + 1
          /\ events' = events \o <<Note, Published(version')>>
                              \o Completion(Head(cmds), version')
       \/ /\ events' = events \o <<Note>> \o Completion(Head(cmds), version)
          /\ UNCHANGED version
       \/ /\ events' = events \o Completion(Head(cmds), version)
          /\ UNCHANGED version
    /\ UNCHANGED <<log, serving, stopping, conn, page, env, epoch>>

\* A frame that changed the world (tick_secs, or a hot reload).
Tick ==
    /\ env.ticks > 0
    /\ env' = [env EXCEPT !.ticks = @ - 1]
    /\ version' = version + 1
    /\ events' = Append(events, Published(version'))
    /\ UNCHANGED <<cmds, log, serving, stopping, conn, page, epoch>>

-----------------------------------------------------------------------------
(* The replay log.                                                         *)

\* EventLog::push
Push(event) ==
    /\ history' = Append(history, event)
    /\ first' = IF Len(history) - first + 1 = env.capacity THEN first + 1 ELSE first

BugAfter(cursor) ==
    [after |-> cursor,
     gap   |-> first <= Len(history) /\ cursor + 2 < first,
     from  |-> IF cursor < first THEN first ELSE cursor + 1,
     to    |-> Len(history)]

\* EventLog::after: a gap record numbered just below the oldest one kept, if
\* the cursor is further behind, and the records past the cursor.
After(cursor) ==
    [after |-> cursor,
     gap   |-> first <= Len(history) /\ cursor + 1 < first,
     from  |-> IF cursor < first THEN first ELSE cursor + 1,
     to    |-> Len(history)]

IsEmpty(batch) == ~batch.gap /\ batch.to < batch.from

-----------------------------------------------------------------------------
(* The serve thread.                                                       *)

\* drain_game_events: a snapshot only refreshes the cache.
DrainOne ==
    /\ serving /\ events # <<>>
    /\ LET event == Head(events) IN
       IF event.kind = "scene"
       THEN /\ snaps' = [version |-> event.version, sequence |-> snaps.sequence + 1]
            /\ UNCHANGED <<history, first>>
       ELSE Push(event) /\ UNCHANGED snaps
    /\ events' = Tail(events)
    /\ UNCHANGED <<version, cmds, serving, stopping, conn, page, env, epoch>>

ServeExit ==
    /\ serving /\ Stopped
    /\ serving' = FALSE
    /\ UNCHANGED <<version, cmds, events, log, stopping, conn, page, env, epoch>>

\* GET /api/scene
AnswerScene(p, i) ==
    /\ serving /\ page[p].fetch[i].state = "sent"
    /\ page' = [page EXCEPT ![p].fetch[i] =
           [state |-> "answered", owed |-> @.owed, epoch |-> epoch,
            version |-> snaps.version, sequence |-> snaps.sequence]]
    /\ UNCHANGED <<version, cmds, events, log, serving, stopping, conn, env, epoch>>

\* GET /api/events
AnswerPoll(p) ==
    /\ serving /\ page[p].poll.state = "sent"
    /\ page' = [page EXCEPT ![p].poll =
           [state |-> "answered", batch |-> After(@.cursor), epoch |-> epoch]]
    /\ UNCHANGED <<version, cmds, events, log, serving, stopping, conn, env, epoch>>

\* POST /api/command: the command is queued before the acknowledgement.
AnswerCommand ==
    /\ serving /\ env.commands > 0
    /\ env' = [env EXCEPT !.commands = @ - 1]
    /\ cmds' = Append(cmds, TRUE)
    /\ UNCHANGED <<version, events, log, serving, stopping, conn, page, epoch>>

-----------------------------------------------------------------------------
(* The connections.  A connection is live while its page still holds it.   *)

Live(k) == \E p \in Pages : page[p].socket = k
Running(thread) ==
    \/ thread[1] = "sniff" /\ conn[thread[2]].sniff \in {"sniffing", "spawned"}
    \/ thread[1] = "ws" /\ conn[thread[2]].ws = "running"
    \/ thread[1] \in Pumps /\ thread[1] \in conn[thread[2]].pumps

\* push_connection_handle
Remember(thread) == handles' = {h \in handles : Running(h)} \cup {thread}

\* connectEventStream, and accept_loop / enqueue_connection.
Connect(p, k) ==
    /\ joiner \in {"idle", "serve", "accept"}
    /\ page[p].socket = 0 /\ conn[k] = NoConn /\ k <= env.conns /\ k \notin env.plain
    /\ \A j \in 1..(k - 1) : conn[j] # NoConn \/ j \in env.plain
    /\ page' = [page EXCEPT ![p].socket = k]
    /\ conn' = [conn EXCEPT ![k].sniff = "sniffing", ![k].cursor = page[p].cursor]
    /\ Remember(<<"sniff", k>>)
    /\ UNCHANGED <<version, cmds, events, log, serving, joiner, joining, env, epoch>>

\* A connection for requests; whichever carries a request, the serve thread
\* answers it.
ConnectPlain(k) ==
    /\ joiner \in {"idle", "serve", "accept"}
    /\ conn[k] = NoConn /\ k <= env.conns /\ k \in env.plain
    /\ conn' = [conn EXCEPT ![k].sniff = "sniffing"]
    /\ Remember(<<"sniff", k>>)
    /\ UNCHANGED <<version, cmds, events, log, serving, joiner, joining, page, env, epoch>>

\* dispatch_connection spawns the event-stream thread, then records it.
SpawnStream(k) ==
    /\ conn[k].sniff = "sniffing" /\ k \notin env.plain
    /\ conn' = [conn EXCEPT ![k].sniff = "spawned", ![k].ws = "running"]
    /\ UNCHANGED <<version, cmds, events, log, serving, stopping, page, env, epoch>>

RecordStream(k) ==
    /\ conn[k].sniff = "spawned"
    /\ Remember(<<"ws", k>>)
    /\ conn' = [conn EXCEPT ![k].sniff = "done"]
    /\ UNCHANGED <<version, cmds, events, log, serving, joiner, joining, page, env, epoch>>

\* A plain connection, or an upgrade whose head is not complete in time:
\* proxy_http starts the two copying threads and keeps no handle of either.
\* The internal server may refuse, and a thread may fail to start.
ProxyHttp(k) ==
    /\ conn[k].sniff = "sniffing"
    /\ \E started \in SUBSET Pumps :
           conn' = [conn EXCEPT ![k].sniff = "done", ![k].pumps = started]
    /\ UNCHANGED <<version, cmds, events, log, serving, stopping, page, env, epoch>>

\* pump_one returns when a side closes or fails.  It never looks at the stop
\* flag, and an idle peer keeps it waiting.
EndPump(k) ==
    /\ \E pump \in conn[k].pumps : conn' = [conn EXCEPT ![k].pumps = @ \ {pump}]
    /\ UNCHANGED <<version, cmds, events, log, serving, stopping, page, env, epoch>>

\* poll_inbound
ReadFrame(k) ==
    /\ conn[k].ws = "running" /\ conn[k].frames > 0
    /\ conn' = [conn EXCEPT ![k].frames = @ - 1]
    /\ cmds' = Append(cmds, FALSE)
    /\ UNCHANGED <<version, events, log, serving, stopping, page, env, epoch>>

\* push_pending: the cursor moves before the send, and what is sent may still
\* be lost with the connection.  A push after the page is gone reaches nobody.
PushPending(k) ==
    /\ conn[k].ws = "running" /\ Live(k)
    /\ LET batch == After(conn[k].cursor) IN
       /\ ~IsEmpty(batch)
       /\ conn' = [conn EXCEPT ![k].cursor = batch.to, ![k].wire = Append(@, batch)]
    /\ UNCHANGED <<version, cmds, events, log, serving, stopping, page, env, epoch>>

\* The thread sees the stop flag, or that the connection died.
EndStream(k) ==
    /\ conn[k].ws = "running" /\ (Stopped \/ ~Live(k))
    /\ conn' = [conn EXCEPT ![k].ws = "done", ![k].cursor = 0, ![k].frames = 0]
    /\ UNCHANGED <<version, cmds, events, log, serving, stopping, page, env, epoch>>

-----------------------------------------------------------------------------
(* The page.                                                               *)

PageUnchanged == UNCHANGED <<version, cmds, events, log, serving, stopping, epoch>>

\* handleEvents, for the records of one batch: the cursor follows the records,
\* and a gap record puts it just below the oldest record kept.
Handled(state, batch) ==
    LET numbers == batch.from..batch.to
        done == {n \in numbers : history[n].kind = "done"}
    IN [state EXCEPT
           !.cursor = IF batch.gap \/ batch.to > @ THEN batch.to ELSE @,
           !.seen = @ \cup numbers,
           !.lost = IF batch.gap THEN @ \cup (batch.after + 1)..(batch.from - 1) ELSE @,
           !.answered = IF done = {} THEN @
                        ELSE history[CHOOSE n \in done : \A m \in done : m <= n].version]

Open(p) ==
    /\ ~page[p].opened /\ page[p].socket # 0
    /\ conn[page[p].socket].ws = "running"
    /\ page' = [page EXCEPT ![p].opened = TRUE]
    /\ PageUnchanged /\ UNCHANGED <<conn, env>>

\* onmessage
Receive(p) ==
    LET k == page[p].socket IN
    /\ page[p].opened /\ conn[k].wire # <<>>
    /\ page' = [page EXCEPT ![p] = Handled(@, Head(conn[k].wire))]
    /\ conn' = [conn EXCEPT ![k].wire = Tail(@)]
    /\ PageUnchanged /\ UNCHANGED env

\* onclose: what was still on the wire is lost.
Closed(p) ==
    /\ page[p].socket # 0
    /\ page' = [page EXCEPT ![p].socket = 0, ![p].opened = FALSE]
    /\ conn' = [conn EXCEPT ![page[p].socket].wire = <<>>]
    /\ PageUnchanged /\ UNCHANGED env

\* A command as a frame on the socket: the server takes them, live.js sends none.
SendFrame(p) ==
    /\ page[p].opened /\ env.frames > 0
    /\ env' = [env EXCEPT !.frames = @ - 1]
    /\ conn' = [conn EXCEPT ![page[p].socket].frames = @ + 1]
    /\ PageUnchanged /\ UNCHANGED page

\* refreshEvents
SendPoll(p) ==
    /\ ~page[p].opened /\ page[p].poll = Idle /\ serving
    /\ page' = [page EXCEPT ![p].poll = [state |-> "sent", cursor |-> page[p].cursor]]
    /\ PageUnchanged /\ UNCHANGED <<conn, env>>

HandlePoll(p) ==
    /\ page[p].poll.state = "answered"
    /\ page' = [page EXCEPT ![p] = [Handled(@, page[p].poll.batch) EXCEPT !.poll = Idle]]
    /\ PageUnchanged /\ UNCHANGED <<conn, env>>

\* refreshScene
SendFetch(p, i) ==
    /\ page[p].fetch[i] = Idle /\ i \in env.slots /\ serving
    /\ page' = [page EXCEPT ![p].fetch[i] = [state |-> "sent", owed |-> page[p].answered]]
    /\ PageUnchanged /\ UNCHANGED <<conn, env>>

BugHandleFetch(p, i) ==
    LET scene == page[p].fetch[i] IN
    /\ scene.state = "answered"
    /\ page' = [page EXCEPT ![p].fetch[i] = Idle,
                            ![p].shown = [version |-> scene.version,
                                          sequence |-> scene.sequence, epoch |-> epoch]]
    /\ PageUnchanged /\ UNCHANGED <<conn, env>>

BugHandleNewer(p, i) ==
    LET scene == page[p].fetch[i] IN
    /\ scene.state = "answered"
    /\ page' = [page EXCEPT ![p].fetch[i] = Idle,
                            ![p].shown = IF scene.sequence <= @.sequence THEN @
                                         ELSE [version |-> scene.version,
                                               sequence |-> scene.sequence,
                                               epoch |-> epoch]]
    /\ PageUnchanged /\ UNCHANGED <<conn, env>>

HandleFetch(p, i) ==
    LET scene == page[p].fetch[i] IN
    /\ scene.state = "answered"
    /\ page' = [page EXCEPT ![p].fetch[i] = Idle,
                            ![p].shown = IF scene.sequence < @.sequence THEN @
                                         ELSE [version |-> scene.version,
                                               sequence |-> scene.sequence,
                                               epoch |-> epoch]]
    /\ PageUnchanged /\ UNCHANGED <<conn, env>>

-----------------------------------------------------------------------------
(* RemoteEditor::stop, and an engine that dies and is started again.       *)

StopCall ==
    /\ joiner = "idle" /\ env.stop
    /\ joiner' = "serve"
    /\ UNCHANGED <<version, cmds, events, log, serving, handles, joining, conn, page, env, epoch>>

JoinServe ==
    /\ joiner = "serve" /\ ~serving
    /\ joiner' = "accept"
    /\ UNCHANGED <<version, cmds, events, log, serving, handles, joining, conn, page, env, epoch>>

JoinAccept ==
    /\ joiner = "accept"
    /\ joiner' = "take"
    /\ UNCHANGED <<version, cmds, events, log, serving, handles, joining, conn, page, env, epoch>>

\* join_background_threads: take the handles, join them, and look again.
TakeHandles ==
    /\ joiner = "take"
    /\ joining' = handles /\ handles' = {}
    /\ joiner' = IF handles = {} THEN "stopped" ELSE "joining"
    /\ UNCHANGED <<version, cmds, events, log, serving, conn, page, env, epoch>>

BugJoinHandles ==
    /\ joiner = "joining" /\ \A thread \in joining : ~Running(thread)
    /\ joiner' = "stopped"
    /\ UNCHANGED <<version, cmds, events, log, serving, handles, joining, conn, page, env, epoch>>

JoinHandles ==
    /\ joiner = "joining" /\ \A thread \in joining : ~Running(thread)
    /\ joiner' = "take"
    /\ UNCHANGED <<version, cmds, events, log, serving, handles, joining, conn, page, env, epoch>>

\* Everything the process held is gone; the pages and their cursors stay.
Restart ==
    /\ env.restarts > 0
    /\ env' = [env EXCEPT !.restarts = @ - 1]
    /\ epoch' = epoch + 1
    /\ version' = 1 /\ cmds' = <<>> /\ events' = <<Published(1)>>
    /\ history' = <<>> /\ first' = 1 /\ snaps' = [version |-> 0, sequence |-> 0]
    /\ serving' = TRUE
    /\ joiner' = "idle" /\ handles' = {} /\ joining' = {}
    /\ conn' = [k \in Conns |-> IF conn[k] = NoConn THEN NoConn
                                ELSE [NoConn EXCEPT !.sniff = "done", !.ws = "done"]]
    /\ page' = [p \in Pages |-> [NewPage EXCEPT !.cursor = page[p].cursor,
                                                !.base = page[p].cursor,
                                                !.shown = page[p].shown]]

-----------------------------------------------------------------------------
WorldStep == RunCommand \/ Tick
ServeStep ==
    \/ DrainOne \/ ServeExit \/ AnswerCommand
    \/ \E p \in Pages : AnswerPoll(p) \/ \E i \in Slots : AnswerScene(p, i)
ConnStep(k) ==
    \/ ConnectPlain(k) \/ SpawnStream(k) \/ RecordStream(k) \/ ProxyHttp(k) \/ EndPump(k)
    \/ ReadFrame(k) \/ PushPending(k) \/ EndStream(k)
Dispatch(k) == SpawnStream(k) \/ ProxyHttp(k)
PageStep(p) ==
    \/ \E k \in Conns : Connect(p, k)
    \/ Open(p) \/ Receive(p) \/ Closed(p) \/ SendFrame(p) \/ SendPoll(p) \/ HandlePoll(p)
    \/ \E i \in Slots : SendFetch(p, i) \/ HandleFetch(p, i)
StopStep == JoinServe \/ JoinAccept \/ TakeHandles \/ JoinHandles

RemoteNext ==
    \/ WorldStep \/ ServeStep
    \/ \E k \in Conns : ConnStep(k)
    \/ \E p \in Pages : PageStep(p)
    \/ StopCall \/ StopStep \/ Restart

\* Threads that can run do; timers of the page fire; the internal server hands
\* requests out in arrival order.  Nobody has to send a command, open or lose
\* a connection, stop the editor or restart the engine.
RemoteFairness ==
    /\ WF_vars(RunCommand) /\ WF_vars(DrainOne) /\ WF_vars(ServeExit) /\ WF_vars(StopStep)
    /\ \A k \in Conns : WF_vars(Dispatch(k)) /\ WF_vars(RecordStream(k))
                        /\ WF_vars(PushPending(k)) /\ WF_vars(EndStream(k))
    /\ \A p \in Pages :
        /\ WF_vars(Open(p)) /\ WF_vars(Receive(p))
        /\ WF_vars(SendPoll(p)) /\ WF_vars(HandlePoll(p)) /\ WF_vars(AnswerPoll(p))
        /\ \A i \in Slots : /\ WF_vars(SendFetch(p, i)) /\ WF_vars(HandleFetch(p, i))
                             /\ WF_vars(AnswerScene(p, i))

RemoteSpec == RemoteInit /\ [][RemoteNext]_vars /\ RemoteFairness

-----------------------------------------------------------------------------
\* Every event up to a page's cursor was handled by the page or announced to
\* it as lost, whichever way it came, counting from the cursor the page had
\* when this engine started: below that the page of an earlier engine skips
\* the new engine's events in silence.  And what was announced as lost is
\* indeed no longer in the log.
NothingSilentlyLost ==
    \A p \in Pages :
        /\ (page[p].base + 1)..page[p].cursor \subseteq page[p].seen \cup page[p].lost
        /\ page[p].lost \subseteq 1..(first - 1)

\* Once a page has seen the completion of a command, the scene it asks for
\* next contains the command's effect.
AnsweredMeansVisible ==
    \A p \in Pages, i \in Slots :
        page[p].fetch[i].state = "answered" => page[p].fetch[i].version >= page[p].fetch[i].owed

\* Under one engine the scene a page shows never goes back, in whatever order
\* the answers to its requests arrive.
SceneNeverGoesBack ==
    [][\A p \in Pages :
           page[p].shown.epoch = epoch /\ epoch' = epoch
               => page'[p].shown.version >= page[p].shown.version]_vars

\* When stop returns, the serve thread is over, and so are the dispatching and
\* the event-stream thread of every connection, though each of the latter was
\* started by one of the former and recorded later.  What may still run are
\* the copying threads of proxied connections, which stop knows nothing of;
\* and no more of these come up, as no thread that starts them is left.
StopIsComplete ==
    joiner = "stopped" =>
        /\ ~serving
        /\ \A k \in Conns, kind \in {"sniff", "ws"} \cup Pumps :
               Running(<<kind, k>>) => kind \in Pumps /\ conn[k].sniff = "done"

\* While the editor runs, every page ends up with every event, handled or
\* announced as lost, and with the latest scene - except that a page of an
\* earlier engine skips the events its old cursor covers, and ignores snapshots
\* until their sequence numbers have passed those it saw.
CaughtUp(p) ==
    /\ events = <<>>
    /\ 1..Len(history) \subseteq page[p].seen \cup page[p].lost \cup 1..page[p].base
    /\ \/ env.slots = {}
       \/ page[p].shown.version = version /\ page[p].shown.epoch = epoch
       \/ page[p].shown.epoch < epoch /\ page[p].shown.sequence > snaps.sequence
PagesCatchUp == \A p \in Pages : <>[](Stopped \/ CaughtUp(p))
=============================================================================
