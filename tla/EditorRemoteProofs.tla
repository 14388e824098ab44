------------------------- MODULE EditorRemoteProofs -------------------------
(***************************************************************************)
(* What the editor's transport guarantees to its pages, for any number of  *)
(* pages, connections, requests in flight and restarts of the engine, any  *)
(* capacity of the log and any interleaving of the threads.                *)
(***************************************************************************)
EXTENDS EditorRemote, WellFoundedInduction, TLAPS

Environment == [capacity : Nat \ {0}, commands : Nat, frames : Nat, ticks : Nat, restarts : Nat,
                conns : 0..MaxConns, plain : SUBSET (1..MaxConns), slots : SUBSET Slots,
                stop : BOOLEAN]
Events == [kind : {"note"}] \cup [kind : {"scene", "done"}, version : Nat]
Batches == [after : Nat, gap : BOOLEAN, from : Nat, to : Nat]
Polls == [state : {"idle"}] \cup [state : {"sent"}, cursor : Nat]
         \cup [state : {"answered"}, batch : Batches, epoch : Nat]
Fetches == [state : {"idle"}] \cup [state : {"sent"}, owed : Nat]
           \cup [state : {"answered"}, owed : Nat, epoch : Nat, version : Nat, sequence : Nat]
Connections == [sniff : {"none", "sniffing", "spawned", "done"}, ws : {"none", "running", "done"},
                pumps : SUBSET Pumps, cursor : Nat, wire : Seq(Batches), frames : Nat]
PageStates == [socket : 0..MaxConns, opened : BOOLEAN, cursor : Nat, poll : Polls,
               fetch : [Slots -> Fetches],
               shown : [version : Nat, sequence : Nat, epoch : Nat],
               seen : SUBSET Nat, lost : SUBSET Nat, base : Nat, answered : Nat]

(* The world, the channels, the log and the bounds. *)
WorldTypes ==
    /\ env \in Environment /\ epoch \in Nat /\ version \in Nat
    /\ cmds \in Seq(BOOLEAN) /\ events \in Seq(Events)
    /\ history \in Seq(Events)
    /\ first \in 1..Len(history) + 1
    /\ history # <<>> => first <= Len(history)
    /\ snaps \in [version : Nat, sequence : Nat]

RemoteTypes ==
    /\ WorldTypes
    /\ conn \in [Conns -> Connections]
    /\ page \in [Pages -> PageStates]
    /\ joiner \in {"idle", "serve", "accept", "take", "joining", "stopped"}

(* A batch continues where its reader stood, or says that it does not, and *)
(* then what it skips is no longer in the log.                             *)
Sound(batch, last, oldest) ==
    /\ 1 <= batch.from /\ batch.to <= last
    /\ batch.after < batch.from
    /\ batch.after + 1 < batch.from => batch.gap /\ batch.from <= oldest

BatchesSound ==
    /\ \A k \in Conns : \A i \in 1..Len(conn[k].wire) : Sound(conn[k].wire[i], Len(history), first)
    /\ \A p \in Pages : page[p].poll.state = "answered" =>
           Sound(page[p].poll.batch, Len(history), first)

-----------------------------------------------------------------------------
(* A set of numbers that is not empty and has a bound has a greatest one.  *)
LEMMA GreatestExists ==
    ASSUME NEW bound \in Nat, NEW S \in SUBSET (0..bound), S # {}
    PROVE  \E n \in S : \A m \in S : m <= n
  <1> DEFINE Distances == {d \in Nat : bound - d \in S}
             Less == OpToRel(<, Nat)
  <1>1. PICK n \in S : TRUE
    OBVIOUS
  <1>2. Distances # {} /\ Distances \subseteq Nat
    <2>1. bound - n \in Nat /\ bound - (bound - n) = n
      BY <1>1
    <2> QED BY <2>1
  <1>3. IsWellFoundedOn(Less, Nat)
    BY NatLessThanWellFounded
  <1>4. \A d, e \in Nat : e < d => <<e, d>> \in Less
    BY DEF OpToRel
  <1> HIDE DEF Distances, Less
  <1>5. PICK d \in Distances : \A e \in Distances : ~(<<e, d>> \in Less)
    BY <1>2, <1>3, WFMin
  <1>6. d \in Nat /\ bound - d \in S
    BY <1>5 DEF Distances
  <1>7. ASSUME NEW m \in S PROVE m <= bound - d
    <2>1. m \in Nat /\ bound - m \in Nat /\ bound - (bound - m) = m
      OBVIOUS
    <2>2. bound - m \in Distances
      BY <2>1 DEF Distances
    <2>3. ~(bound - m < d)
      BY <1>4, <1>5, <1>6, <2>1, <2>2
    <2> QED BY <1>6, <2>1, <2>3
  <1> QED BY <1>6, <1>7

LEMMA AfterIsSound ==
    ASSUME RemoteTypes, NEW cursor \in Nat
    PROVE  /\ After(cursor) \in Batches /\ Sound(After(cursor), Len(history), first)
           /\ After(cursor).after = cursor /\ After(cursor).to = Len(history)
  <1>1. /\ Len(history) \in Nat /\ first \in 1..Len(history) + 1
        /\ Len(history) > 0 => first <= Len(history)
    BY DEF RemoteTypes, WorldTypes
  <1>2. After(cursor) \in Batches
    <2> DEFINE gap == first <= Len(history) /\ cursor + 1 < first
               from == IF cursor < first THEN first ELSE cursor + 1
    <2>1. gap \in BOOLEAN
      OBVIOUS
    <2>2. from \in Nat
      BY <1>1
    <2>3. After(cursor) = [after |-> cursor, gap |-> gap, from |-> from, to |-> Len(history)]
      BY DEF After
    <2> HIDE DEF gap, from
    <2> QED BY <1>1, <2>1, <2>2, <2>3 DEF Batches
  <1>3. After(cursor).from = IF cursor < first THEN first ELSE cursor + 1
    BY DEF After
  <1>4. cursor + 1 < After(cursor).from => first <= Len(history) /\ cursor + 1 < first
    BY <1>1, <1>3
  <1>5. After(cursor).gap = (first <= Len(history) /\ cursor + 1 < first)
    BY DEF After
  <1>6. After(cursor).after = cursor /\ After(cursor).to = Len(history)
    BY DEF After
  <1>7. Sound(After(cursor), Len(history), first)
    <2>1. cursor + 1 < After(cursor).from => After(cursor).gap
      BY <1>4, <1>5, Zenon
    <2>2. cursor + 1 < After(cursor).from => After(cursor).from <= first
      BY <1>1, <1>3
    <2>3. 1 <= After(cursor).from /\ cursor < After(cursor).from
      BY <1>1, <1>3
    <2>4. After(cursor).to <= Len(history)
      BY <1>1, <1>6
    <2> DEFINE batch == After(cursor)
    <2>5. /\ 1 <= batch.from /\ batch.to <= Len(history) /\ batch.after < batch.from
          /\ batch.after + 1 < batch.from => batch.gap /\ batch.from <= first
      BY <1>6, <2>1, <2>2, <2>3, <2>4, Zenon
    <2> QED BY <2>5 DEF Sound
  <1> QED BY <1>2, <1>6, <1>7

LEMMA PublishedType == ASSUME NEW v \in Nat PROVE Published(v) \in Events
  BY DEF Published, Events

LEMMA CompletionType ==
    ASSUME NEW identified, NEW v \in Nat
    PROVE  Completion(identified, v) \in Seq(Events)
  <1>1. [kind |-> "done", version |-> v] \in Events
    BY DEF Events
  <1> QED BY <1>1 DEF Completion

LEMMA FieldTypes ==
    ASSUME RemoteTypes, NEW p \in Pages
    PROVE  /\ page[p] \in PageStates
           /\ page[p].poll \in Polls /\ page[p].fetch \in [Slots -> Fetches]
           /\ page[p].cursor \in Nat /\ page[p].base \in Nat /\ page[p].answered \in Nat
           /\ page[p].seen \subseteq Nat /\ page[p].lost \subseteq Nat
           /\ page[p].socket \in 0..MaxConns
  BY DEF RemoteTypes, PageStates

LEMMA PollTypes ==
    ASSUME NEW poll \in Polls
    PROVE  /\ poll.state = "sent" => poll.cursor \in Nat
           /\ poll.state = "answered" => poll.batch \in Batches
  BY DEF Polls

LEMMA FetchTypes ==
    ASSUME NEW fetch \in Fetches
    PROVE  /\ fetch.state \in {"sent", "answered"} => fetch.owed \in Nat
           /\ fetch.state = "answered" => /\ fetch.version \in Nat /\ fetch.sequence \in Nat
                                          /\ fetch.epoch \in Nat
  BY DEF Fetches

LEMMA IdleTypes == Idle \in Polls /\ Idle \in Fetches
  BY DEF Idle, Polls, Fetches

(* What a page keeps when one of its fields is set. *)
LEMMA SetPoll ==
    ASSUME NEW state \in PageStates, NEW poll \in Polls
    PROVE  [state EXCEPT !.poll = poll] \in PageStates
  BY DEF PageStates

LEMMA SetFetch ==
    ASSUME NEW state \in PageStates, NEW i \in Slots, NEW fetch \in Fetches
    PROVE  [state EXCEPT !.fetch[i] = fetch] \in PageStates
  BY DEF PageStates

LEMMA SetPage ==
    ASSUME RemoteTypes, NEW p \in Pages, NEW state \in PageStates,
           page' = [page EXCEPT ![p] = state]
    PROVE  /\ page' \in [Pages -> PageStates]
           /\ page'[p] = state
           /\ \A q \in Pages \ {p} : page'[q] = page[q]
  BY DEF RemoteTypes

(* The page after a batch. *)
LEMMA HandledPage ==
    ASSUME RemoteTypes, NEW state \in PageStates, NEW batch \in Batches,
           Sound(batch, Len(history), first)
    PROVE  LET after == Handled(state, batch) IN
           /\ after \in PageStates
           /\ after.cursor \in {state.cursor, batch.to}
           /\ after.seen = state.seen \cup (batch.from..batch.to)
           /\ batch.gap => after.lost = state.lost \cup ((batch.after + 1)..(batch.from - 1))
           /\ ~batch.gap => after.lost = state.lost
           /\ after.base = state.base /\ after.socket = state.socket /\ after.opened = state.opened
           /\ after.poll = state.poll /\ after.fetch = state.fetch /\ after.shown = state.shown
           /\ \/ after.answered = state.answered
              \/ \E n \in 1..Len(history) :
                    history[n].kind = "done" /\ after.answered = history[n].version
  <1> DEFINE numbers == batch.from..batch.to
             done == {n \in numbers : history[n].kind = "done"}
             answered == IF done = {} THEN state.answered
                         ELSE history[CHOOSE n \in done : \A m \in done : m <= n].version
  <1>1. batch.after \in Nat /\ batch.from \in Nat /\ batch.to \in Nat /\ batch.to <= Len(history)
        /\ 1 <= batch.from
    BY DEF Batches, Sound
  <1>2. \/ answered = state.answered
        \/ \E n \in 1..Len(history) : history[n].kind = "done" /\ answered = history[n].version
    <2>1. CASE done = {}
      BY <2>1
    <2>2. CASE done # {}
      <3>1. done \in SUBSET (0..batch.to)
        BY <1>1
      <3>2. \E n \in done : \A m \in done : m <= n
        BY <1>1, <2>2, <3>1, GreatestExists
      <3>3. (CHOOSE n \in done : \A m \in done : m <= n) \in done
        BY <3>2
      <3> HIDE DEF answered
      <3>4. answered = history[CHOOSE n \in done : \A m \in done : m <= n].version
        BY <2>2 DEF answered
      <3>5. done \subseteq 1..Len(history) /\ \A n \in done : history[n].kind = "done"
        BY <1>1 DEF RemoteTypes, WorldTypes
      <3> QED BY <3>3, <3>4, <3>5
    <2> QED BY <2>1, <2>2
  <1>3. answered \in Nat
    <2>1. \A n \in 1..Len(history) : history[n].kind = "done" => history[n].version \in Nat
      BY DEF RemoteTypes, WorldTypes, Events
    <2>2. state.answered \in Nat
      BY DEF PageStates
    <2> HIDE DEF answered
    <2> QED BY <1>2, <2>1, <2>2
  <1> DEFINE cursor == IF batch.gap \/ batch.to > state.cursor THEN batch.to ELSE state.cursor
             seen == state.seen \cup numbers
             lost == IF batch.gap THEN state.lost \cup ((batch.after + 1)..(batch.from - 1))
                     ELSE state.lost
  <1>4. Handled(state, batch) =
          [state EXCEPT !.cursor = cursor, !.seen = seen, !.lost = lost, !.answered = answered]
    BY DEF Handled
  <1>5. /\ state.cursor \in Nat /\ state.seen \subseteq Nat /\ state.lost \subseteq Nat
    BY DEF PageStates
  <1>6. cursor \in Nat /\ cursor \in {state.cursor, batch.to}
    BY <1>1, <1>5
  <1>7. seen \subseteq Nat /\ lost \subseteq Nat
    BY <1>1, <1>5
  <1> HIDE DEF cursor, seen, lost, answered
  <1>8. /\ Handled(state, batch) \in PageStates
        /\ Handled(state, batch).cursor = cursor /\ Handled(state, batch).seen = seen
        /\ Handled(state, batch).lost = lost /\ Handled(state, batch).answered = answered
    BY <1>3, <1>4, <1>6, <1>7 DEF PageStates
  <1>9. LET after == Handled(state, batch) IN
        /\ after.base = state.base /\ after.socket = state.socket /\ after.opened = state.opened
        /\ after.poll = state.poll /\ after.fetch = state.fetch /\ after.shown = state.shown
    BY <1>4 DEF PageStates
  <1> QED BY <1>2, <1>6, <1>8, <1>9 DEF seen, lost

(* A connection with some of its fields set. *)
LEMMA SetConn ==
    ASSUME RemoteTypes, NEW k \in Conns, NEW state \in Connections,
           conn' = [conn EXCEPT ![k] = state]
    PROVE  /\ conn' \in [Conns -> Connections]
           /\ conn'[k] = state
           /\ \A l \in Conns \ {k} : conn'[l] = conn[l]
  BY DEF RemoteTypes

LEMMA ConnTypes ==
    ASSUME RemoteTypes, NEW k \in Conns
    PROVE  /\ conn[k] \in Connections
           /\ conn[k].cursor \in Nat /\ conn[k].frames \in Nat
           /\ conn[k].wire \in Seq(Batches) /\ Len(conn[k].wire) \in Nat
  BY DEF RemoteTypes, Connections

-----------------------------------------------------------------------------
(* Steps that no page notices: what a page has, what is on its way to it   *)
(* and where its readers stand stay as they are, but for a socket that is  *)
(* given up and a reader that ends.                                        *)
Used(link) == link.ws # "none" \/ link.pumps # {}

Quiet ==
    /\ \A p \in Pages :
        /\ page'[p].cursor = page[p].cursor /\ page'[p].poll = page[p].poll
        /\ page'[p].seen = page[p].seen /\ page'[p].lost = page[p].lost
        /\ page'[p].base = page[p].base
        /\ page'[p].socket \in {0, page[p].socket}
        /\ page'[p].socket # 0 => conn'[page[p].socket].wire = conn[page[p].socket].wire
        /\ page'[p].opened => page[p].opened \/ page[p].socket # 0
        /\ page'[p].opened => page'[p].socket = page[p].socket
    /\ \A k \in Conns :
        /\ Used(conn'[k]) => Used(conn[k]) \/ conn'[k].sniff # "none"
        /\ conn[k].sniff # "none" => conn'[k].sniff # "none"
        /\ conn'[k].cursor \in {0, conn[k].cursor}
        /\ conn'[k].wire \in {<<>>, conn[k].wire}
    /\ first' >= first /\ Len(history') >= Len(history)

LEMMA EnvironmentTypes ==
    ASSUME RemoteTypes
    PROVE  /\ env.commands > 0 => [env EXCEPT !.commands = @ - 1] \in Environment
           /\ env.ticks > 0 => [env EXCEPT !.ticks = @ - 1] \in Environment
           /\ env.frames > 0 => [env EXCEPT !.frames = @ - 1] \in Environment
           /\ env.restarts > 0 => [env EXCEPT !.restarts = @ - 1] \in Environment
  <1>1. env \in Environment
    BY DEF RemoteTypes, WorldTypes
  <1>2. env.commands \in Nat /\ env.ticks \in Nat /\ env.frames \in Nat /\ env.restarts \in Nat
    BY <1>1 DEF Environment
  <1>3. \A n \in Nat : /\ [env EXCEPT !.commands = n] \in Environment
                      /\ [env EXCEPT !.ticks = n] \in Environment
                      /\ [env EXCEPT !.frames = n] \in Environment
                      /\ [env EXCEPT !.restarts = n] \in Environment
    BY <1>1 DEF Environment
  <1>4. \A n \in Nat : n > 0 => n - 1 \in Nat
    OBVIOUS
  <1> QED BY <1>2, <1>3, <1>4

LEMMA RunCommandQuiet == ASSUME RemoteTypes, RunCommand PROVE RemoteTypes' /\ Quiet
  <1> USE DEF RunCommand, log, stopping
  <1>1. events' \in Seq(Events) /\ version' \in Nat
    <2>1. version' \in Nat
      BY DEF RemoteTypes, WorldTypes
    <2>2. Note \in Events /\ Published(version') \in Events
      BY <2>1, PublishedType DEF Note, Events
    <2>3. <<Note, Published(version')>> \in Seq(Events) /\ <<Note>> \in Seq(Events)
      BY <2>2
    <2>4. Completion(Head(cmds), version) \in Seq(Events)
          /\ Completion(Head(cmds), version') \in Seq(Events)
      BY <2>1, CompletionType DEF RemoteTypes, WorldTypes
    <2>5. events \in Seq(Events)
      BY DEF RemoteTypes, WorldTypes
    <2> HIDE DEF RunCommand
    <2>6. \/ events' = events \o <<Note, Published(version')>> \o Completion(Head(cmds), version')
          \/ events' = events \o <<Note>> \o Completion(Head(cmds), version)
          \/ events' = events \o Completion(Head(cmds), version)
      BY DEF RunCommand
    <2>7. \A s, t \in Seq(Events) : events \o s \o t \in Seq(Events) /\ events \o t \in Seq(Events)
      BY <2>5
    <2> QED BY <2>1, <2>3, <2>4, <2>6, <2>7
  <1>2. WorldTypes'
    BY <1>1 DEF RemoteTypes, WorldTypes
  <1> QED BY <1>2 DEF RemoteTypes, WorldTypes, Quiet

LEMMA TickQuiet == ASSUME RemoteTypes, Tick PROVE RemoteTypes' /\ Quiet
  <1> USE DEF Tick, log, stopping
  <1>1. version' \in Nat
    BY DEF RemoteTypes, WorldTypes
  <1>2. events' \in Seq(Events)
    BY <1>1, PublishedType DEF RemoteTypes, WorldTypes
  <1>3. env' \in Environment
    BY EnvironmentTypes
  <1>4. WorldTypes'
    BY <1>1, <1>2, <1>3 DEF RemoteTypes, WorldTypes
  <1> QED BY <1>4 DEF RemoteTypes, WorldTypes, Quiet

LEMMA PushTypes ==
    ASSUME RemoteTypes, NEW event \in Events, Push(event)
    PROVE  /\ history' \in Seq(Events)
           /\ Len(history') = Len(history) + 1
           /\ history'[Len(history')] = event
           /\ \A n \in 1..Len(history) : history'[n] = history[n]
           /\ first' \in first..Len(history')
  BY DEF Push, RemoteTypes, WorldTypes, Environment

LEMMA DrainOneQuiet == ASSUME RemoteTypes, DrainOne PROVE RemoteTypes' /\ Quiet
  <1> USE DEF DrainOne, stopping
  <1>1. Head(events) \in Events /\ events' \in Seq(Events)
    BY DEF RemoteTypes, WorldTypes
  <1>2. CASE Head(events).kind = "scene"
    <2>1. snaps' \in [version : Nat, sequence : Nat]
      BY <1>1, <1>2 DEF RemoteTypes, WorldTypes, Events
    <2> QED BY <1>1, <1>2, <2>1 DEF RemoteTypes, WorldTypes, Quiet
  <1>3. CASE Head(events).kind # "scene"
    <2>1. Push(Head(events)) /\ UNCHANGED snaps
      BY <1>3
    <2>2. /\ history' \in Seq(Events) /\ Len(history') = Len(history) + 1
          /\ first' \in first..Len(history')
      BY <1>1, <2>1, PushTypes
    <2> QED BY <1>1, <2>1, <2>2 DEF RemoteTypes, WorldTypes, Quiet
  <1> QED BY <1>2, <1>3

LEMMA AnswerCommandQuiet == ASSUME RemoteTypes, AnswerCommand PROVE RemoteTypes' /\ Quiet
  <1> USE DEF AnswerCommand, log, stopping
  <1>1. env' \in Environment
    BY EnvironmentTypes
  <1>2. cmds' \in Seq(BOOLEAN)
    BY DEF RemoteTypes, WorldTypes
  <1>3. WorldTypes'
    BY <1>1, <1>2 DEF RemoteTypes, WorldTypes
  <1> QED BY <1>3 DEF RemoteTypes, WorldTypes, Quiet

LEMMA StopQuiet ==
    ASSUME RemoteTypes, ServeExit \/ StopCall \/ JoinServe \/ JoinAccept \/ TakeHandles \/ JoinHandles
    PROVE  RemoteTypes' /\ Quiet
  BY DEF ServeExit, StopCall, JoinServe, JoinAccept, TakeHandles, JoinHandles, log, stopping,
         RemoteTypes, WorldTypes, Quiet

(* The requests for scenes. *)
LEMMA FetchQuiet ==
    ASSUME RemoteTypes, NEW p \in Pages, NEW i \in Slots, NEW fetch \in Fetches,
           page' = [page EXCEPT ![p] = [page[p] EXCEPT !.fetch[i] = fetch]],
           UNCHANGED <<conn, log, version, cmds, events, env, epoch, joiner>>
    PROVE  RemoteTypes' /\ Quiet
  <1>1. page[p] \in PageStates
    BY DEF RemoteTypes
  <1> DEFINE state == [page[p] EXCEPT !.fetch[i] = fetch]
  <1>2. state \in PageStates
    BY <1>1, SetFetch
  <1>3. page' \in [Pages -> PageStates] /\ page'[p] = state
        /\ \A q \in Pages \ {p} : page'[q] = page[q]
    BY <1>2, SetPage
  <1>4. /\ state.cursor = page[p].cursor /\ state.poll = page[p].poll /\ state.seen = page[p].seen
        /\ state.lost = page[p].lost /\ state.base = page[p].base
        /\ state.socket = page[p].socket /\ state.opened = page[p].opened
    BY <1>1 DEF PageStates
  <1> HIDE DEF state
  <1>5. RemoteTypes'
    BY <1>3 DEF RemoteTypes, WorldTypes, log
  <1> QED BY <1>3, <1>4, <1>5 DEF Quiet, log, RemoteTypes, WorldTypes

LEMMA AnswerSceneQuiet ==
    ASSUME RemoteTypes, NEW p \in Pages, NEW i \in Slots, AnswerScene(p, i)
    PROVE  RemoteTypes' /\ Quiet
  <1> DEFINE reply == [state |-> "answered", owed |-> page[p].fetch[i].owed, epoch |-> epoch,
                       version |-> snaps.version, sequence |-> snaps.sequence]
  <1>1. page[p].fetch[i] \in Fetches /\ page[p].fetch[i].state = "sent"
    BY FieldTypes DEF AnswerScene
  <1>2. reply \in Fetches
    BY <1>1, FetchTypes DEF Fetches, RemoteTypes, WorldTypes
  <1>3. page' = [page EXCEPT ![p] = [page[p] EXCEPT !.fetch[i] = reply]]
    BY DEF AnswerScene
  <1>4. UNCHANGED <<conn, log, version, cmds, events, env, epoch, joiner>>
    BY DEF AnswerScene, stopping
  <1> HIDE DEF reply
  <1> QED BY <1>2, <1>3, <1>4, FetchQuiet

LEMMA SendFetchQuiet ==
    ASSUME RemoteTypes, NEW p \in Pages, NEW i \in Slots, SendFetch(p, i)
    PROVE  RemoteTypes' /\ Quiet
  <1> DEFINE request == [state |-> "sent", owed |-> page[p].answered]
  <1>1. request \in Fetches
    BY FieldTypes DEF Fetches
  <1>2. page' = [page EXCEPT ![p] = [page[p] EXCEPT !.fetch[i] = request]]
    BY DEF SendFetch
  <1> QED BY <1>1, <1>2, FetchQuiet DEF SendFetch, PageUnchanged, stopping

LEMMA HandleFetchQuiet ==
    ASSUME RemoteTypes, NEW p \in Pages, NEW i \in Slots, HandleFetch(p, i)
    PROVE  RemoteTypes' /\ Quiet
  <1> DEFINE scene == page[p].fetch[i]
             shown == IF scene.sequence < page[p].shown.sequence THEN page[p].shown
                      ELSE [version |-> scene.version, sequence |-> scene.sequence,
                            epoch |-> epoch]
             state == [page[p] EXCEPT !.fetch[i] = Idle, !.shown = shown]
  <1>1. page[p] \in PageStates /\ scene \in Fetches /\ scene.state = "answered"
    BY FieldTypes DEF HandleFetch
  <1>2. shown \in [version : Nat, sequence : Nat, epoch : Nat]
    BY <1>1, FetchTypes DEF PageStates, RemoteTypes, WorldTypes
  <1> HIDE DEF shown
  <1>3. state \in PageStates
    BY <1>1, <1>2, IdleTypes DEF PageStates
  <1>4. page' = [page EXCEPT ![p] = state]
    BY DEF HandleFetch, shown
  <1>5. /\ state.cursor = page[p].cursor /\ state.poll = page[p].poll /\ state.seen = page[p].seen
        /\ state.lost = page[p].lost /\ state.base = page[p].base
        /\ state.socket = page[p].socket /\ state.opened = page[p].opened
    BY <1>1 DEF PageStates
  <1> HIDE DEF state
  <1>6. page' \in [Pages -> PageStates] /\ page'[p] = state
        /\ \A q \in Pages \ {p} : page'[q] = page[q]
    BY <1>3, <1>4, SetPage
  <1>7. RemoteTypes'
    BY <1>6 DEF HandleFetch, PageUnchanged, RemoteTypes, WorldTypes, log, stopping
  <1>8. /\ conn' = conn /\ first' = first /\ history' = history
        /\ first \in Nat /\ Len(history) \in Nat
    BY DEF HandleFetch, PageUnchanged, log, RemoteTypes, WorldTypes
  <1> QED BY <1>5, <1>6, <1>7, <1>8 DEF Quiet

LEMMA OpenQuiet == ASSUME RemoteTypes, NEW p \in Pages, Open(p) PROVE RemoteTypes' /\ Quiet
  <1> DEFINE state == [page[p] EXCEPT !.opened = TRUE]
  <1>1. page[p] \in PageStates
    BY FieldTypes
  <1>2. state \in PageStates
    BY <1>1 DEF PageStates
  <1>3. /\ state.cursor = page[p].cursor /\ state.poll = page[p].poll /\ state.seen = page[p].seen
        /\ state.lost = page[p].lost /\ state.base = page[p].base
        /\ state.socket = page[p].socket
    BY <1>1 DEF PageStates
  <1>4. page' = [page EXCEPT ![p] = state]
    BY DEF Open
  <1> HIDE DEF state
  <1>5. page' \in [Pages -> PageStates] /\ page'[p] = state
        /\ \A q \in Pages \ {p} : page'[q] = page[q]
    BY <1>2, <1>4, SetPage
  <1>6. RemoteTypes'
    BY <1>5 DEF Open, PageUnchanged, RemoteTypes, WorldTypes, log, stopping
  <1> QED BY <1>3, <1>5, <1>6 DEF Quiet, Open, PageUnchanged, log, RemoteTypes, WorldTypes

(* The threads of a connection, but for what it pushes. *)
LEMMA ConnQuiet ==
    ASSUME RemoteTypes, NEW k \in Conns, NEW state \in Connections,
           conn' = [conn EXCEPT ![k] = state],
           state.wire = conn[k].wire, state.cursor \in {0, conn[k].cursor}, state.sniff # "none",
           env' \in Environment, cmds' \in Seq(BOOLEAN),
           UNCHANGED <<page, log, version, events, epoch, joiner>>
    PROVE  RemoteTypes' /\ Quiet
  <1>1. conn' \in [Conns -> Connections] /\ conn'[k] = state
        /\ \A l \in Conns \ {k} : conn'[l] = conn[l]
    BY SetConn
  <1>2. RemoteTypes'
    BY <1>1 DEF RemoteTypes, WorldTypes, log
  <1> QED BY <1>1, <1>2 DEF Quiet, log, RemoteTypes, WorldTypes

LEMMA SetWire ==
    ASSUME NEW state \in Connections, NEW wire \in Seq(Batches)
    PROVE  LET after == [state EXCEPT !.wire = wire] IN
           /\ after \in Connections /\ after.wire = wire
           /\ after.cursor = state.cursor /\ after.sniff = state.sniff
  BY DEF Connections

LEMMA SpawnStreamQuiet ==
    ASSUME RemoteTypes, NEW k \in Conns, SpawnStream(k)
    PROVE  RemoteTypes' /\ Quiet
  <1> DEFINE state == [conn[k] EXCEPT !.sniff = "spawned", !.ws = "running"]
  <1>1. conn[k] \in Connections /\ env \in Environment /\ cmds \in Seq(BOOLEAN)
    BY ConnTypes DEF RemoteTypes, WorldTypes
  <1>2. state \in Connections /\ state.wire = conn[k].wire /\ state.cursor = conn[k].cursor
        /\ state.sniff = "spawned"
    BY <1>1 DEF Connections
  <1>3. conn' = [conn EXCEPT ![k] = state]
    BY DEF SpawnStream
  <1>4. UNCHANGED <<page, log, version, cmds, events, env, epoch, joiner>>
    BY DEF SpawnStream, stopping
  <1> HIDE DEF state
  <1> QED BY <1>1, <1>2, <1>3, <1>4, ConnQuiet

LEMMA RecordStreamQuiet ==
    ASSUME RemoteTypes, NEW k \in Conns, RecordStream(k)
    PROVE  RemoteTypes' /\ Quiet
  <1> DEFINE state == [conn[k] EXCEPT !.sniff = "done"]
  <1>1. conn[k] \in Connections /\ env \in Environment /\ cmds \in Seq(BOOLEAN)
    BY ConnTypes DEF RemoteTypes, WorldTypes
  <1>2. state \in Connections /\ state.wire = conn[k].wire /\ state.cursor = conn[k].cursor
        /\ state.sniff = "done"
    BY <1>1 DEF Connections
  <1>3. conn' = [conn EXCEPT ![k] = state]
    BY DEF RecordStream
  <1>4. UNCHANGED <<page, log, version, cmds, events, env, epoch, joiner>>
    BY DEF RecordStream
  <1> HIDE DEF state
  <1> QED BY <1>1, <1>2, <1>3, <1>4, ConnQuiet

LEMMA ProxyHttpQuiet ==
    ASSUME RemoteTypes, NEW k \in Conns, ProxyHttp(k)
    PROVE  RemoteTypes' /\ Quiet
  <1>1. PICK started \in SUBSET Pumps :
          conn' = [conn EXCEPT ![k].sniff = "done", ![k].pumps = started]
    BY DEF ProxyHttp
  <1> DEFINE state == [conn[k] EXCEPT !.sniff = "done", !.pumps = started]
  <1>2. conn[k] \in Connections /\ env \in Environment /\ cmds \in Seq(BOOLEAN)
    BY ConnTypes DEF RemoteTypes, WorldTypes
  <1>3. state \in Connections /\ state.wire = conn[k].wire /\ state.cursor = conn[k].cursor
        /\ state.sniff = "done"
    BY <1>2 DEF Connections
  <1>4. conn' = [conn EXCEPT ![k] = state]
    BY <1>1
  <1>5. UNCHANGED <<page, log, version, cmds, events, env, epoch, joiner>>
    BY DEF ProxyHttp, stopping
  <1> HIDE DEF state
  <1> QED BY <1>2, <1>3, <1>4, <1>5, ConnQuiet

(* SniffedFirst: a connection with a reader or with copying threads was    *)
(* sniffed before.                                                         *)
SniffedFirst == \A k \in Conns : Used(conn[k]) => conn[k].sniff # "none"

LEMMA EndPumpQuiet ==
    ASSUME RemoteTypes, SniffedFirst, NEW k \in Conns, EndPump(k)
    PROVE  RemoteTypes' /\ Quiet
  <1>1. PICK pump \in conn[k].pumps : conn' = [conn EXCEPT ![k].pumps = @ \ {pump}]
    BY DEF EndPump
  <1> DEFINE state == [conn[k] EXCEPT !.pumps = @ \ {pump}]
  <1>2. conn[k] \in Connections /\ env \in Environment /\ cmds \in Seq(BOOLEAN)
        /\ conn[k].sniff # "none"
    BY <1>1, ConnTypes DEF RemoteTypes, WorldTypes, SniffedFirst, Used
  <1>3. state \in Connections /\ state.wire = conn[k].wire /\ state.cursor = conn[k].cursor
        /\ state.sniff # "none"
    BY <1>2 DEF Connections
  <1>4. conn' = [conn EXCEPT ![k] = state]
    BY <1>1
  <1>5. UNCHANGED <<page, log, version, cmds, events, env, epoch, joiner>>
    BY DEF EndPump, stopping
  <1> HIDE DEF state
  <1> QED BY <1>2, <1>3, <1>4, <1>5, ConnQuiet

LEMMA ConnectPlainQuiet ==
    ASSUME RemoteTypes, NEW k \in Conns, ConnectPlain(k)
    PROVE  RemoteTypes' /\ Quiet
  <1> DEFINE state == [conn[k] EXCEPT !.sniff = "sniffing"]
  <1>1. conn[k] \in Connections /\ env \in Environment /\ cmds \in Seq(BOOLEAN)
    BY ConnTypes DEF RemoteTypes, WorldTypes
  <1>2. state \in Connections /\ state.wire = conn[k].wire /\ state.cursor = conn[k].cursor
        /\ state.sniff = "sniffing"
    BY <1>1 DEF Connections
  <1>3. conn' = [conn EXCEPT ![k] = state]
    BY DEF ConnectPlain
  <1>4. UNCHANGED <<page, log, version, cmds, events, env, epoch, joiner>>
    BY DEF ConnectPlain
  <1> HIDE DEF state
  <1> QED BY <1>1, <1>2, <1>3, <1>4, ConnQuiet

LEMMA ReadFrameQuiet ==
    ASSUME RemoteTypes, SniffedFirst, NEW k \in Conns, ReadFrame(k)
    PROVE  RemoteTypes' /\ Quiet
  <1> DEFINE state == [conn[k] EXCEPT !.frames = @ - 1]
  <1>1. conn[k] \in Connections /\ env \in Environment /\ cmds' \in Seq(BOOLEAN)
        /\ conn[k].frames - 1 \in Nat /\ conn[k].sniff # "none"
    BY ConnTypes DEF RemoteTypes, WorldTypes, ReadFrame, SniffedFirst, Used
  <1>2. state \in Connections /\ state.wire = conn[k].wire /\ state.cursor = conn[k].cursor
        /\ state.sniff # "none"
    BY <1>1 DEF Connections
  <1>3. conn' = [conn EXCEPT ![k] = state]
    BY DEF ReadFrame
  <1>4. UNCHANGED <<page, log, version, events, env, epoch, joiner>>
    BY DEF ReadFrame, stopping
  <1> HIDE DEF state
  <1> QED BY <1>1, <1>2, <1>3, <1>4, ConnQuiet

LEMMA EndStreamQuiet ==
    ASSUME RemoteTypes, SniffedFirst, NEW k \in Conns, EndStream(k)
    PROVE  RemoteTypes' /\ Quiet
  <1> DEFINE state == [conn[k] EXCEPT !.ws = "done", !.cursor = 0, !.frames = 0]
  <1>1. conn[k] \in Connections /\ env \in Environment /\ cmds \in Seq(BOOLEAN)
        /\ conn[k].sniff # "none"
    BY ConnTypes DEF RemoteTypes, WorldTypes, EndStream, SniffedFirst, Used
  <1>2. state \in Connections /\ state.wire = conn[k].wire /\ state.cursor = 0
        /\ state.sniff # "none"
    BY <1>1 DEF Connections
  <1>3. conn' = [conn EXCEPT ![k] = state]
    BY DEF EndStream
  <1>4. UNCHANGED <<page, log, version, cmds, events, env, epoch, joiner>>
    BY DEF EndStream, stopping
  <1> HIDE DEF state
  <1> QED BY <1>1, <1>2, <1>3, <1>4, ConnQuiet

(* SocketsOwned: a page's socket is a connection of its own, and an open   *)
(* one has a socket.                                                       *)
SocketsOwned ==
    /\ \A p \in Pages :
        /\ page[p].socket # 0 => conn[page[p].socket].sniff # "none"
        /\ page[p].opened => page[p].socket # 0
    /\ \A p, q \in Pages : p # q /\ page[p].socket # 0 => page[p].socket # page[q].socket

LEMMA SendFrameQuiet ==
    ASSUME RemoteTypes, SocketsOwned, NEW p \in Pages, SendFrame(p)
    PROVE  RemoteTypes' /\ Quiet
  <1> DEFINE k == page[p].socket
             state == [conn[k] EXCEPT !.frames = @ + 1]
  <1>1. k \in Conns /\ conn[k].sniff # "none"
    BY FieldTypes DEF SendFrame, SocketsOwned, Conns
  <1>2. conn[k] \in Connections /\ env' \in Environment /\ cmds \in Seq(BOOLEAN)
        /\ conn[k].frames + 1 \in Nat
    BY <1>1, ConnTypes, EnvironmentTypes DEF RemoteTypes, WorldTypes, SendFrame
  <1>3. state \in Connections /\ state.wire = conn[k].wire /\ state.cursor = conn[k].cursor
        /\ state.sniff # "none"
    BY <1>1, <1>2 DEF Connections
  <1>4. conn' = [conn EXCEPT ![k] = state]
    BY DEF SendFrame
  <1>5. UNCHANGED <<page, log, version, cmds, events, epoch, joiner>>
    BY DEF SendFrame, PageUnchanged, stopping
  <1> HIDE DEF state, k
  <1> QED BY <1>1, <1>2, <1>3, <1>4, <1>5, ConnQuiet

LEMMA ClosedQuiet ==
    ASSUME RemoteTypes, SocketsOwned, NEW p \in Pages, Closed(p)
    PROVE  RemoteTypes' /\ Quiet
  <1> DEFINE k == page[p].socket
             dead == [conn[k] EXCEPT !.wire = <<>>]
             state == [page[p] EXCEPT !.socket = 0, !.opened = FALSE]
  <1>1. k \in Conns /\ conn[k].sniff # "none" /\ page[p] \in PageStates
    BY FieldTypes DEF Closed, SocketsOwned, Conns
  <1>2. conn[k] \in Connections
    BY <1>1, ConnTypes
  <1>3. dead \in Connections /\ dead.wire = <<>> /\ dead.cursor = conn[k].cursor
        /\ dead.sniff = conn[k].sniff
    <2>1. <<>> \in Seq(Batches)
      OBVIOUS
    <2> QED BY <1>2, <2>1, SetWire
  <1>4. state \in PageStates
    <2>1. 0 \in 0..MaxConns
      BY RemoteAssumption
    <2> QED BY <1>1, <2>1 DEF PageStates
  <1>5. /\ state.cursor = page[p].cursor /\ state.poll = page[p].poll /\ state.seen = page[p].seen
        /\ state.lost = page[p].lost /\ state.base = page[p].base
        /\ state.socket = 0 /\ ~state.opened
    BY <1>1 DEF PageStates
  <1>6. conn' = [conn EXCEPT ![k] = dead] /\ page' = [page EXCEPT ![p] = state]
        /\ UNCHANGED <<log, version, cmds, events, env, epoch, joiner>>
    BY DEF Closed, PageUnchanged, stopping
  <1>7. \A q \in Pages \ {p} : page[q].socket # k
    BY DEF SocketsOwned, Closed
  <1> HIDE DEF state, dead, k
  <1>8. conn' \in [Conns -> Connections] /\ conn'[k] = dead
        /\ \A l \in Conns \ {k} : conn'[l] = conn[l]
    BY <1>1, <1>3, <1>6, SetConn
  <1>9. page' \in [Pages -> PageStates] /\ page'[p] = state
        /\ \A q \in Pages \ {p} : page'[q] = page[q]
    BY <1>4, <1>6, SetPage
  <1>10. RemoteTypes'
    BY <1>6, <1>8, <1>9 DEF RemoteTypes, WorldTypes, log
  <1>11. \A q \in Pages \ {p} : page[q].socket # 0 =>
            page[q].socket \in Conns /\ conn'[page[q].socket] = conn[page[q].socket]
    BY <1>7, <1>8, FieldTypes DEF Conns
  <1>12. \A q \in Pages \ {p} : page'[q].socket # 0 => conn'[page[q].socket].wire = conn[page[q].socket].wire
    BY <1>9, <1>11
  <1>13. first' >= first /\ Len(history') >= Len(history)
    BY <1>6 DEF log, RemoteTypes, WorldTypes
  <1>14. \A l \in Conns : /\ Used(conn'[l]) => Used(conn[l]) \/ conn'[l].sniff # "none"
                          /\ conn[l].sniff # "none" => conn'[l].sniff # "none"
                          /\ conn'[l].cursor \in {0, conn[l].cursor}
                          /\ conn'[l].wire \in {<<>>, conn[l].wire}
    BY <1>1, <1>3, <1>8
  <1>15. \A q \in Pages : /\ page'[q].cursor = page[q].cursor /\ page'[q].poll = page[q].poll
                          /\ page'[q].seen = page[q].seen /\ page'[q].lost = page[q].lost
                          /\ page'[q].base = page[q].base
                          /\ page'[q].socket \in {0, page[q].socket}
                          /\ page'[q].opened => page[q].opened \/ page[q].socket # 0
                          /\ page'[q].opened => page'[q].socket = page[q].socket
    BY <1>5, <1>9
  <1>16. \A q \in Pages : page'[q].socket # 0 => conn'[page[q].socket].wire = conn[page[q].socket].wire
    BY <1>5, <1>9, <1>12
  <1> QED BY <1>10, <1>13, <1>14, <1>15, <1>16 DEF Quiet

-----------------------------------------------------------------------------
(* Every event up to n is in the page's hands, or is carried by one of the *)
(* first m batches of the wire.                                            *)
Got(state, n) == n <= state.base \/ n \in state.seen \/ n \in state.lost
Carried(wire, m, n) == \E i \in 1..m : wire[i].after < n /\ n <= wire[i].to

Delivered(p) ==
    /\ \A n \in 1..page[p].cursor : Got(page[p], n)
    /\ page[p].lost \subseteq 1..(first - 1)
    /\ page[p].poll.state = "sent" => \A n \in 1..page[p].poll.cursor : Got(page[p], n)
    /\ page[p].poll.state = "answered" => \A n \in 1..page[p].poll.batch.after : Got(page[p], n)

(* The socket of a page leaves no hole either.                             *)
Streamed(p, k) ==
    LET wire == conn[k].wire IN
    /\ \A n \in 1..conn[k].cursor : Got(page[p], n) \/ Carried(wire, Len(wire), n)
    /\ \A i \in 1..Len(wire) : \A n \in 1..wire[i].after : Got(page[p], n) \/ Carried(wire, i - 1, n)

DeliveryIInv ==
    /\ RemoteTypes /\ BatchesSound /\ SniffedFirst /\ SocketsOwned
    /\ \A p \in Pages : Delivered(p)
    /\ \A p \in Pages : page[p].socket # 0 => Streamed(p, page[p].socket)

LEMMA OlderGaps == \A m, n \in Nat : m <= n => 1..(m - 1) \subseteq 1..(n - 1)
  OBVIOUS

LEMMA StaysSound ==
    ASSUME NEW last \in Nat, NEW oldest \in Nat, NEW later \in Nat, NEW older \in Nat,
           last <= later, oldest <= older,
           NEW batch \in Batches, Sound(batch, last, oldest)
    PROVE  Sound(batch, later, older)
  <1>1. batch.to \in Nat /\ batch.from \in Nat /\ batch.after \in Nat
    BY DEF Batches
  <1>2. batch.to <= last => batch.to <= later
    BY <1>1
  <1>3. batch.from <= oldest => batch.from <= older
    BY <1>1
  <1> QED BY <1>2, <1>3, Zenon DEF Sound

LEMMA QuietKeeps == ASSUME DeliveryIInv, RemoteTypes', Quiet PROVE DeliveryIInv'
  <1> USE DEF DeliveryIInv
  <1>1. /\ Len(history) \in Nat /\ Len(history') \in Nat /\ first \in Nat /\ first' \in Nat
        /\ first <= first' /\ Len(history) <= Len(history')
    BY DEF RemoteTypes, WorldTypes, Quiet
  <1>2. BatchesSound'
    <2>1. ASSUME NEW k \in Conns, NEW i \in 1..Len(conn'[k].wire)
          PROVE  Sound(conn'[k].wire[i], Len(history'), first')
      <3>1. conn'[k].wire = conn[k].wire
        BY <2>1 DEF Quiet
      <3>2. conn[k].wire[i] \in Batches /\ Sound(conn[k].wire[i], Len(history), first)
        BY <2>1, <3>1, ConnTypes DEF BatchesSound
      <3> QED BY <1>1, <3>1, <3>2, StaysSound
    <2>2. ASSUME NEW p \in Pages, page'[p].poll.state = "answered"
          PROVE  Sound(page'[p].poll.batch, Len(history'), first')
      <3>1. page'[p].poll = page[p].poll
        BY DEF Quiet
      <3>2. page[p].poll.batch \in Batches /\ Sound(page[p].poll.batch, Len(history), first)
        BY <2>2, <3>1, FieldTypes, PollTypes DEF BatchesSound
      <3> QED BY <1>1, <3>1, <3>2, StaysSound
    <2> QED BY <2>1, <2>2 DEF BatchesSound
  <1>3. SniffedFirst'
    BY DEF SniffedFirst, Quiet
  <1>4. \A p \in Pages : page[p].socket # 0 => page[p].socket \in Conns
    BY FieldTypes DEF Conns
  <1>5. SocketsOwned'
    <2>1. ASSUME NEW p \in Pages, page'[p].socket # 0
          PROVE  page'[p].socket = page[p].socket /\ conn'[page'[p].socket].sniff # "none"
      BY <1>4, <2>1 DEF SocketsOwned, Quiet
    <2>2. ASSUME NEW p \in Pages, page'[p].opened PROVE page'[p].socket # 0
      <3>1. page[p].socket # 0 /\ page'[p].socket = page[p].socket
        BY <2>2 DEF SocketsOwned, Quiet
      <3> QED BY <3>1
    <2>3. ASSUME NEW p \in Pages, NEW q \in Pages, p # q, page'[p].socket # 0
          PROVE  page'[p].socket # page'[q].socket
      BY <2>1, <2>3 DEF SocketsOwned, Quiet
    <2> QED BY <2>1, <2>2, <2>3 DEF SocketsOwned
  <1>6. ASSUME NEW p \in Pages PROVE Delivered(p)'
    <2>1. \A n : Got(page'[p], n) <=> Got(page[p], n)
      BY DEF Got, Quiet
    <2>2. Delivered(p)
      OBVIOUS
    <2>3. /\ page'[p].cursor = page[p].cursor /\ page'[p].poll = page[p].poll
          /\ page'[p].lost = page[p].lost
      BY DEF Quiet
    <2>5. 1..(first - 1) \subseteq 1..(first' - 1)
      BY <1>1, OlderGaps
    <2> QED BY <2>1, <2>2, <2>3, <2>5 DEF Delivered
  <1>7. ASSUME NEW p \in Pages, page'[p].socket # 0
        PROVE  Streamed(p, page[p].socket)' /\ page'[p].socket = page[p].socket
    <2>1. PICK k \in Conns : k = page[p].socket /\ page'[p].socket = k /\ k # 0
      BY <1>4, <1>7 DEF Quiet
    <2>2. conn'[k].wire = conn[k].wire
      BY <1>7, <2>1 DEF Quiet
    <2>3. conn'[k].cursor \in {0, conn[k].cursor} /\ conn[k].cursor \in Nat
      BY <2>1, ConnTypes DEF Quiet
    <2>4. \A n : Got(page'[p], n) <=> Got(page[p], n)
      BY DEF Got, Quiet
    <2>5. Streamed(p, k)
      BY <2>1
    <2>6. \A n \in 1..conn'[k].cursor : n \in 1..conn[k].cursor
      BY <2>3
    <2>7. Streamed(p, k)'
      BY <2>2, <2>4, <2>5, <2>6 DEF Streamed, Carried
    <2> QED BY <2>1, <2>7
  <1> QED BY <1>2, <1>3, <1>5, <1>6, <1>7

(* The page that took a batch has all that the batch carries or skips.     *)
LEMMA HandledGets ==
    ASSUME DeliveryIInv, NEW p \in Pages, NEW batch \in Batches,
           Sound(batch, Len(history), first), \A n \in 1..batch.after : Got(page[p], n)
    PROVE  LET after == Handled(page[p], batch) IN
           /\ \A n : Got(page[p], n) => Got(after, n)
           /\ \A n \in 1..batch.to : Got(after, n)
           /\ \A n \in 1..after.cursor : Got(after, n)
           /\ after.lost \subseteq 1..(first - 1)
  <1> DEFINE after == Handled(page[p], batch)
  <1>1. RemoteTypes /\ page[p] \in PageStates /\ Delivered(p)
    BY FieldTypes DEF DeliveryIInv
  <1>2. /\ after.cursor \in {page[p].cursor, batch.to}
        /\ after.seen = page[p].seen \cup (batch.from..batch.to)
        /\ batch.gap => after.lost = page[p].lost \cup ((batch.after + 1)..(batch.from - 1))
        /\ ~batch.gap => after.lost = page[p].lost
        /\ after.base = page[p].base
    BY <1>1, HandledPage
  <1>3. /\ batch.after \in Nat /\ batch.from \in Nat /\ batch.to \in Nat
        /\ first \in Nat
    BY <1>1 DEF Batches, RemoteTypes, WorldTypes
  <1>4. batch.after < batch.from /\ (batch.after + 1 < batch.from => batch.gap /\ batch.from <= first)
    BY DEF Sound
  <1> HIDE DEF after
  <1>5. \A n : Got(page[p], n) => Got(after, n)
    BY <1>2 DEF Got
  <1>6. \A n \in 1..batch.to : Got(after, n)
    <2> SUFFICES ASSUME NEW n \in 1..batch.to PROVE Got(after, n)
      OBVIOUS
    <2>1. CASE n <= batch.after
      BY <1>3, <1>5, <2>1
    <2>2. CASE n >= batch.from
      BY <1>2, <1>3, <2>2 DEF Got
    <2>3. CASE batch.after < n /\ n < batch.from
      <3>1. batch.gap
        BY <1>3, <1>4, <2>3
      <3>2. n \in (batch.after + 1)..(batch.from - 1)
        BY <1>3, <2>3
      <3> QED BY <1>2, <3>1, <3>2 DEF Got
    <2> QED BY <1>3, <2>1, <2>2, <2>3
  <1>7. \A n \in 1..after.cursor : Got(after, n)
    BY <1>1, <1>2, <1>5, <1>6 DEF Delivered
  <1>8. after.lost \subseteq 1..(first - 1)
    <2>1. page[p].lost \subseteq 1..(first - 1)
      BY <1>1 DEF Delivered
    <2>2. (batch.after + 1)..(batch.from - 1) \subseteq 1..(first - 1)
      BY <1>3, <1>4
    <2> QED BY <1>2, <2>1, <2>2
  <1> QED BY <1>5, <1>6, <1>7, <1>8 DEF after

(* A page that changes only in what it has and in its poll. *)
LEMMA PageKeeps ==
    ASSUME DeliveryIInv, NEW p \in Pages, NEW state \in PageStates,
           page' = [page EXCEPT ![p] = state],
           \A n : Got(page[p], n) => Got(state, n),
           \A n \in 1..state.cursor : Got(state, n),
           state.lost \subseteq 1..(first - 1),
           state.poll.state = "sent" => \A n \in 1..state.poll.cursor : Got(state, n),
           state.poll.state = "answered" =>
               /\ Sound(state.poll.batch, Len(history), first)
               /\ \A n \in 1..state.poll.batch.after : Got(state, n),
           state.socket = page[p].socket, state.opened = page[p].opened,
           UNCHANGED <<conn, log, version, cmds, events, env, epoch, joiner>>
    PROVE  DeliveryIInv'
  <1> USE DEF DeliveryIInv
  <1>1. /\ page' \in [Pages -> PageStates] /\ page'[p] = state
        /\ \A q \in Pages \ {p} : page'[q] = page[q]
    BY SetPage
  <1>2. history' = history /\ first' = first /\ snaps' = snaps /\ conn' = conn
    BY DEF log
  <1>3. RemoteTypes'
    BY <1>1, <1>2 DEF RemoteTypes, WorldTypes
  <1>4. BatchesSound'
    BY <1>1, <1>2 DEF BatchesSound
  <1>5. SniffedFirst'
    BY <1>2 DEF SniffedFirst
  <1>6. SocketsOwned'
    BY <1>1, <1>2 DEF SocketsOwned
  <1>7. ASSUME NEW q \in Pages PROVE Delivered(q)'
    <2>1. CASE q = p
      BY <1>1, <1>2, <2>1 DEF Delivered
    <2>2. CASE q # p
      BY <1>1, <1>2, <2>2 DEF Delivered
    <2> QED BY <2>1, <2>2
  <1>8. ASSUME NEW q \in Pages, page'[q].socket # 0 PROVE Streamed(q, page[q].socket)'
    <2>1. page'[q].socket = page[q].socket
      BY <1>1
    <2>2. \A n : Got(page[q], n) => Got(page'[q], n)
      BY <1>1
    <2>3. Streamed(q, page[q].socket)
      BY <1>8, <2>1
    <2> QED BY <1>2, <2>1, <2>2, <2>3 DEF Streamed
  <1> QED BY <1>3, <1>4, <1>5, <1>6, <1>7, <1>8

LEMMA PollKeeps ==
    ASSUME DeliveryIInv, NEW p \in Pages, NEW poll \in Polls,
           page' = [page EXCEPT ![p] = [page[p] EXCEPT !.poll = poll]],
           poll.state = "sent" => \A n \in 1..poll.cursor : Got(page[p], n),
           poll.state = "answered" =>
               /\ Sound(poll.batch, Len(history), first)
               /\ \A n \in 1..poll.batch.after : Got(page[p], n),
           UNCHANGED <<conn, log, version, cmds, events, env, epoch, joiner>>
    PROVE  DeliveryIInv'
  <1> DEFINE state == [page[p] EXCEPT !.poll = poll]
  <1>1. page[p] \in PageStates /\ Delivered(p)
    BY FieldTypes DEF DeliveryIInv
  <1>2. state \in PageStates
    BY <1>1, SetPoll
  <1>3. /\ state.poll = poll /\ state.cursor = page[p].cursor /\ state.seen = page[p].seen
        /\ state.lost = page[p].lost /\ state.base = page[p].base
        /\ state.socket = page[p].socket /\ state.opened = page[p].opened
    BY <1>1 DEF PageStates
  <1>4. page' = [page EXCEPT ![p] = state]
    OBVIOUS
  <1> HIDE DEF state
  <1>5. \A n : Got(state, n) <=> Got(page[p], n)
    BY <1>3 DEF Got
  <1>6. (\A n \in 1..state.cursor : Got(state, n)) /\ state.lost \subseteq 1..(first - 1)
    BY <1>1, <1>3, <1>5 DEF Delivered
  <1> QED BY <1>2, <1>3, <1>4, <1>5, <1>6, PageKeeps

LEMMA SendPollKeeps == ASSUME DeliveryIInv, NEW p \in Pages, SendPoll(p) PROVE DeliveryIInv'
  <1> DEFINE poll == [state |-> "sent", cursor |-> page[p].cursor]
  <1>1. poll \in Polls
    BY FieldTypes DEF Polls, DeliveryIInv
  <1>2. \A n \in 1..poll.cursor : Got(page[p], n)
    BY DEF DeliveryIInv, Delivered
  <1>3. page' = [page EXCEPT ![p] = [page[p] EXCEPT !.poll = poll]]
    BY DEF SendPoll
  <1>4. UNCHANGED <<conn, log, version, cmds, events, env, epoch, joiner>>
    BY DEF SendPoll, PageUnchanged, stopping
  <1>5. poll.state = "sent"
    OBVIOUS
  <1> HIDE DEF poll
  <1> QED BY <1>1, <1>2, <1>3, <1>4, <1>5, PollKeeps

LEMMA AnswerPollKeeps == ASSUME DeliveryIInv, NEW p \in Pages, AnswerPoll(p) PROVE DeliveryIInv'
  <1> DEFINE batch == After(page[p].poll.cursor)
             poll == [state |-> "answered", batch |-> batch, epoch |-> epoch]
  <1>1. page[p].poll.cursor \in Nat
    BY FieldTypes, PollTypes DEF DeliveryIInv, AnswerPoll
  <1>2. batch \in Batches /\ Sound(batch, Len(history), first) /\ batch.after = page[p].poll.cursor
    BY <1>1, AfterIsSound DEF DeliveryIInv
  <1> HIDE DEF batch
  <1>3. poll \in Polls
    BY <1>2 DEF Polls, DeliveryIInv, RemoteTypes, WorldTypes
  <1>4. \A n \in 1..batch.after : Got(page[p], n)
    BY <1>2 DEF DeliveryIInv, Delivered, AnswerPoll
  <1>5. page' = [page EXCEPT ![p] = [page[p] EXCEPT !.poll = poll]]
    BY DEF AnswerPoll, batch
  <1>6. UNCHANGED <<conn, log, version, cmds, events, env, epoch, joiner>>
    BY DEF AnswerPoll, stopping
  <1>7. poll.state = "answered" /\ poll.batch = batch
    OBVIOUS
  <1> HIDE DEF poll
  <1> QED BY <1>2, <1>3, <1>4, <1>5, <1>6, <1>7, PollKeeps

LEMMA HandlePollKeeps == ASSUME DeliveryIInv, NEW p \in Pages, HandlePoll(p) PROVE DeliveryIInv'
  <1> DEFINE batch == page[p].poll.batch
             after == Handled(page[p], batch)
             state == [after EXCEPT !.poll = Idle]
  <1>1. /\ RemoteTypes /\ page[p] \in PageStates
        /\ batch \in Batches /\ Sound(batch, Len(history), first)
        /\ \A n \in 1..batch.after : Got(page[p], n)
    BY FieldTypes, PollTypes DEF DeliveryIInv, HandlePoll, BatchesSound, Delivered
  <1>2. page' = [page EXCEPT ![p] = state]
    BY DEF HandlePoll
  <1> HIDE DEF batch
  <1>3. /\ after \in PageStates
        /\ after.socket = page[p].socket /\ after.opened = page[p].opened
    BY <1>1, HandledPage
  <1>4. /\ \A n : Got(page[p], n) => Got(after, n)
        /\ \A n \in 1..after.cursor : Got(after, n)
        /\ after.lost \subseteq 1..(first - 1)
    BY <1>1, HandledGets
  <1> HIDE DEF after
  <1>5. state \in PageStates
    BY <1>3, IdleTypes, SetPoll
  <1>6. /\ state.poll = Idle /\ state.cursor = after.cursor /\ state.seen = after.seen
        /\ state.lost = after.lost /\ state.base = after.base
        /\ state.socket = after.socket /\ state.opened = after.opened
    BY <1>3 DEF PageStates
  <1> HIDE DEF state
  <1>7. \A n : Got(state, n) <=> Got(after, n)
    BY <1>6 DEF Got
  <1>8. UNCHANGED <<conn, log, version, cmds, events, env, epoch, joiner>>
    BY DEF HandlePoll, PageUnchanged, stopping
  <1>9. state.poll.state = "idle"
    BY <1>6 DEF Idle
  <1> QED BY <1>2, <1>3, <1>4, <1>5, <1>6, <1>7, <1>8, <1>9, PageKeeps

-----------------------------------------------------------------------------
(* Steps on the wire of one connection and on the page that owns it.       *)
WireStep(p, k, state, link) ==
    /\ state \in PageStates /\ link \in Connections
    /\ page' = [page EXCEPT ![p] = state] /\ conn' = [conn EXCEPT ![k] = link]
    /\ state.socket = k /\ link.sniff # "none"
    /\ \A q \in Pages \ {p} : page[q].socket # k
    /\ \A n \in 1..state.cursor : Got(state, n)
    /\ state.lost \subseteq 1..(first - 1)
    /\ state.poll = page[p].poll
    /\ \A n : Got(page[p], n) => Got(state, n)
    /\ \A i \in 1..Len(link.wire) : Sound(link.wire[i], Len(history), first)
    /\ \A n \in 1..link.cursor : Got(state, n) \/ Carried(link.wire, Len(link.wire), n)
    /\ \A i \in 1..Len(link.wire) : \A n \in 1..link.wire[i].after :
           Got(state, n) \/ Carried(link.wire, i - 1, n)
    /\ UNCHANGED <<log, version, cmds, events, env, epoch, joiner>>

LEMMA WireKeeps ==
    ASSUME DeliveryIInv, NEW p \in Pages, NEW k \in Conns, NEW state, NEW link,
           WireStep(p, k, state, link)
    PROVE  DeliveryIInv'
  <1> USE DEF WireStep
  <1> USE DEF DeliveryIInv
  <1>1. /\ page' \in [Pages -> PageStates] /\ page'[p] = state
        /\ \A q \in Pages \ {p} : page'[q] = page[q]
    BY SetPage
  <1>2. /\ conn' \in [Conns -> Connections] /\ conn'[k] = link
        /\ \A l \in Conns \ {k} : conn'[l] = conn[l]
    BY SetConn
  <1>3. history' = history /\ first' = first /\ snaps' = snaps
    BY DEF log
  <1>4. RemoteTypes'
    BY <1>1, <1>2, <1>3 DEF RemoteTypes, WorldTypes
  <1>5. BatchesSound'
    BY <1>1, <1>2, <1>3 DEF BatchesSound
  <1>6. SniffedFirst'
    BY <1>2 DEF SniffedFirst
  <1>7. k # 0
    BY DEF Conns
  <1>8. \A q \in Pages \ {p} : page[q].socket # 0 => page[q].socket \in Conns \ {k}
    BY FieldTypes DEF Conns
  <1>9. SocketsOwned'
    BY <1>1, <1>2, <1>7, <1>8 DEF SocketsOwned
  <1>10. ASSUME NEW q \in Pages PROVE Delivered(q)'
    <2>1. CASE q = p
      <3>1. Delivered(p)
        OBVIOUS
      <3> QED BY <1>1, <1>3, <2>1, <3>1 DEF Delivered
    <2>2. CASE q # p
      <3>1. Delivered(q)
        OBVIOUS
      <3> QED BY <1>1, <1>3, <2>2, <3>1 DEF Delivered
    <2> QED BY <2>1, <2>2
  <1>11. ASSUME NEW q \in Pages, page'[q].socket # 0 PROVE Streamed(q, page[q].socket)'
    <2>1. CASE q = p
      BY <1>1, <1>2, <2>1 DEF Streamed
    <2>2. CASE q # p
      <3>1. page'[q] = page[q] /\ conn'[page[q].socket] = conn[page[q].socket]
        <4>1. page'[q] = page[q]
          BY <1>1, <2>2
        <4>2. page[q].socket \in Conns \ {k}
          BY <1>8, <1>11, <2>2, <4>1
        <4> QED BY <1>2, <4>1, <4>2
      <3>2. Streamed(q, page[q].socket)
        BY <1>11, <3>1
      <3> QED BY <3>1, <3>2 DEF Streamed
    <2> QED BY <2>1, <2>2
  <1> QED BY <1>4, <1>5, <1>6, <1>9, <1>10, <1>11

LEMMA ConnectKeeps ==
    ASSUME DeliveryIInv, NEW p \in Pages, NEW k \in Conns, Connect(p, k)
    PROVE  DeliveryIInv'
  <1> DEFINE state == [page[p] EXCEPT !.socket = k]
             link == [conn[k] EXCEPT !.sniff = "sniffing", !.cursor = page[p].cursor]
  <1>1. /\ page[p] \in PageStates /\ conn[k] \in Connections /\ page[p].cursor \in Nat
        /\ Delivered(p) /\ conn[k] = NoConn /\ k \in 0..MaxConns
    BY FieldTypes, ConnTypes DEF DeliveryIInv, Connect, Conns
  <1>2. /\ state \in PageStates /\ state.socket = k /\ state.cursor = page[p].cursor
        /\ state.seen = page[p].seen /\ state.lost = page[p].lost /\ state.base = page[p].base
        /\ state.poll = page[p].poll
    BY <1>1 DEF PageStates
  <1>3. link \in Connections /\ link.sniff = "sniffing" /\ link.cursor = page[p].cursor
    BY <1>1 DEF Connections
  <1>4. link.wire = <<>>
    BY <1>1 DEF NoConn
  <1>5. /\ page' = [page EXCEPT ![p] = state] /\ conn' = [conn EXCEPT ![k] = link]
        /\ UNCHANGED <<log, version, cmds, events, env, epoch, joiner>>
    BY DEF Connect
  <1>6. \A q \in Pages \ {p} : page[q].socket # k
    BY <1>1 DEF NoConn, DeliveryIInv, SocketsOwned, Conns
  <1> HIDE DEF state, link
  <1>7. \A n : Got(state, n) <=> Got(page[p], n)
    BY <1>2 DEF Got
  <1>8. (\A n \in 1..state.cursor : Got(state, n)) /\ state.lost \subseteq 1..(first - 1)
    BY <1>1, <1>2, <1>7 DEF Delivered
  <1>9. Len(link.wire) = 0 /\ \A n \in 1..link.cursor : Got(state, n)
    BY <1>2, <1>3, <1>4, <1>8
  <1>10. \A i \in 1..Len(link.wire) :
           /\ Sound(link.wire[i], Len(history), first)
           /\ \A n \in 1..link.wire[i].after : Got(state, n) \/ Carried(link.wire, i - 1, n)
    BY <1>9
  <1>11. link.sniff # "none"
    BY <1>3
  <1>12. WireStep(p, k, state, link)
    BY <1>2, <1>3, <1>5, <1>6, <1>7, <1>8, <1>9, <1>10, <1>11 DEF WireStep
  <1> QED BY <1>12, WireKeeps

LEMMA PushPendingKeeps ==
    ASSUME DeliveryIInv, NEW k \in Conns, PushPending(k)
    PROVE  DeliveryIInv'
  <1> DEFINE batch == After(conn[k].cursor)
             link == [conn[k] EXCEPT !.cursor = batch.to, !.wire = Append(@, batch)]
  <1>1. PICK p \in Pages : page[p].socket = k
    BY DEF PushPending, Live
  <1>2. /\ page[p] \in PageStates /\ conn[k] \in Connections /\ conn[k].cursor \in Nat
        /\ conn[k].wire \in Seq(Batches) /\ Len(conn[k].wire) \in Nat
        /\ Delivered(p) /\ Streamed(p, k) /\ k # 0
    BY <1>1, FieldTypes, ConnTypes DEF DeliveryIInv, Conns
  <1>3. /\ batch \in Batches /\ Sound(batch, Len(history), first)
        /\ batch.after = conn[k].cursor /\ batch.to = Len(history)
    BY <1>2, AfterIsSound DEF DeliveryIInv
  <1>4. /\ conn' = [conn EXCEPT ![k] = link]
        /\ UNCHANGED <<page, log, version, cmds, events, env, epoch, joiner>>
    BY DEF PushPending, stopping
  <1> HIDE DEF batch
  <1>5. batch.to \in Nat /\ batch.after \in Nat
    BY <1>3 DEF Batches
  <1> DEFINE wire == Append(conn[k].wire, batch)
  <1>6. /\ wire \in Seq(Batches) /\ Len(wire) = Len(conn[k].wire) + 1
        /\ \A i \in 1..Len(conn[k].wire) : wire[i] = conn[k].wire[i]
        /\ wire[Len(wire)] = batch
    BY <1>2, <1>3
  <1>7. link = [conn[k] EXCEPT !.cursor = batch.to, !.wire = wire]
    OBVIOUS
  <1> HIDE DEF wire, link
  <1>8. /\ link \in Connections /\ link.wire = wire /\ link.cursor = batch.to
        /\ link.sniff = conn[k].sniff
    BY <1>2, <1>5, <1>6, <1>7 DEF Connections
  <1>9. link.sniff # "none" /\ \A q \in Pages \ {p} : page[q].socket # k
    BY <1>1, <1>2, <1>8 DEF DeliveryIInv, SocketsOwned
  <1>10. \A i \in 1..Len(wire) : Sound(wire[i], Len(history), first)
    <2>1. \A i \in 1..Len(conn[k].wire) : Sound(conn[k].wire[i], Len(history), first)
      BY DEF DeliveryIInv, BatchesSound
    <2>2. ASSUME NEW i \in 1..Len(wire) PROVE i \in 1..Len(conn[k].wire) \/ i = Len(wire)
      BY <1>2, <1>6, <2>2
    <2> QED BY <1>3, <1>6, <2>1, <2>2
  <1>11. \A m \in 0..Len(conn[k].wire) : \A n :
            Carried(conn[k].wire, m, n) => Carried(wire, m, n) /\ Carried(wire, Len(wire), n)
    <2>1. SUFFICES ASSUME NEW m \in 0..Len(conn[k].wire), NEW n, Carried(conn[k].wire, m, n)
                   PROVE  Carried(wire, m, n) /\ Carried(wire, Len(wire), n)
      OBVIOUS
    <2>2. PICK i \in 1..m : conn[k].wire[i].after < n /\ n <= conn[k].wire[i].to
      BY <2>1 DEF Carried
    <2>3. i \in 1..Len(conn[k].wire) /\ i \in 1..Len(wire)
      BY <1>2, <1>6, <2>2
    <2>4. wire[i].after < n /\ n <= wire[i].to
      BY <1>6, <2>2, <2>3
    <2> QED BY <2>2, <2>3, <2>4 DEF Carried
  <1>12. ASSUME NEW n \in 1..batch.after PROVE Got(page[p], n) \/ Carried(wire, Len(wire) - 1, n)
    <2>1. Got(page[p], n) \/ Carried(conn[k].wire, Len(conn[k].wire), n)
      BY <1>2, <1>3 DEF Streamed
    <2>2. Len(wire) - 1 = Len(conn[k].wire) /\ Len(conn[k].wire) \in 0..Len(conn[k].wire)
      BY <1>2, <1>6
    <2> QED BY <1>11, <2>1, <2>2
  <1>13. ASSUME NEW n \in 1..batch.to PROVE Got(page[p], n) \/ Carried(wire, Len(wire), n)
    <2>1. CASE n <= batch.after
      <3>1. Got(page[p], n) \/ Carried(conn[k].wire, Len(conn[k].wire), n)
        BY <1>2, <1>3, <1>5, <2>1 DEF Streamed
      <3>2. Len(conn[k].wire) \in 0..Len(conn[k].wire)
        BY <1>2
      <3> QED BY <1>11, <3>1, <3>2
    <2>2. CASE batch.after < n
      BY <1>2, <1>5, <1>6, <2>2 DEF Carried
    <2> QED BY <1>5, <2>1, <2>2
  <1>14. ASSUME NEW i \in 1..Len(wire), NEW n \in 1..wire[i].after
         PROVE  Got(page[p], n) \/ Carried(wire, i - 1, n)
    <2>1. CASE i = Len(wire)
      BY <1>6, <1>12, <1>14, <2>1
    <2>2. CASE i # Len(wire)
      <3>1. i \in 1..Len(conn[k].wire) /\ wire[i] = conn[k].wire[i]
            /\ i - 1 \in 0..Len(conn[k].wire)
        BY <1>2, <1>6, <1>14, <2>2
      <3>2. Got(page[p], n) \/ Carried(conn[k].wire, i - 1, n)
        BY <1>2, <1>14, <3>1 DEF Streamed
      <3> QED BY <1>11, <3>1, <3>2
    <2> QED BY <2>1, <2>2
  <1>15. page' = [page EXCEPT ![p] = page[p]]
    BY <1>4 DEF DeliveryIInv, RemoteTypes
  <1>16. (\A n \in 1..page[p].cursor : Got(page[p], n)) /\ page[p].lost \subseteq 1..(first - 1)
    BY <1>2 DEF Delivered
  <1>17. UNCHANGED <<log, version, cmds, events, env, epoch, joiner>>
    BY <1>4
  <1>18. conn' = [conn EXCEPT ![k] = link] /\ link \in Connections
    BY <1>4, <1>8
  <1> DEFINE state == page[p]
  <1>19. state \in PageStates /\ state.socket = k /\ state.poll = page[p].poll
         /\ page' = [page EXCEPT ![p] = state]
    BY <1>1, <1>2, <1>15
  <1>20. /\ \A n \in 1..state.cursor : Got(state, n)
         /\ state.lost \subseteq 1..(first - 1)
         /\ \A n : Got(page[p], n) => Got(state, n)
    BY <1>16
  <1>21. /\ \A i \in 1..Len(link.wire) : Sound(link.wire[i], Len(history), first)
         /\ \A n \in 1..link.cursor : Got(state, n) \/ Carried(link.wire, Len(link.wire), n)
         /\ \A i \in 1..Len(link.wire) : \A n \in 1..link.wire[i].after :
                Got(state, n) \/ Carried(link.wire, i - 1, n)
    BY <1>8, <1>10, <1>13, <1>14
  <1> HIDE DEF state
  <1>22. WireStep(p, k, state, link)
    BY <1>9, <1>17, <1>18, <1>19, <1>20, <1>21 DEF WireStep
  <1>23. p \in Pages
    BY <1>1
  <1> QED BY <1>22, <1>23, WireKeeps

LEMMA ReceiveKeeps == ASSUME DeliveryIInv, NEW p \in Pages, Receive(p) PROVE DeliveryIInv'
  <1>1. PICK k \in Conns : k = page[p].socket
    BY FieldTypes DEF Receive, DeliveryIInv, SocketsOwned, Conns
  <1> DEFINE wire == conn[k].wire
             batch == Head(wire)
             state == Handled(page[p], batch)
             link == [conn[k] EXCEPT !.wire = Tail(wire)]
  <1>2. /\ RemoteTypes /\ page[p] \in PageStates /\ conn[k] \in Connections
        /\ wire \in Seq(Batches) /\ wire # <<>> /\ Len(wire) \in Nat /\ Len(wire) >= 1
        /\ Delivered(p) /\ Streamed(p, k) /\ k # 0
    BY <1>1, FieldTypes, ConnTypes DEF DeliveryIInv, Conns, Receive
  <1>3. /\ batch = wire[1] /\ batch \in Batches /\ Tail(wire) \in Seq(Batches)
        /\ Len(Tail(wire)) = Len(wire) - 1
        /\ \A i \in 1..Len(wire) - 1 : Tail(wire)[i] = wire[i + 1]
    BY <1>2
  <1>4. Sound(batch, Len(history), first)
    BY <1>2, <1>3 DEF DeliveryIInv, BatchesSound
  <1>5. \A n \in 1..batch.after : Got(page[p], n)
    BY <1>2, <1>3 DEF Streamed, Carried
  <1>6. page' = [page EXCEPT ![p] = state] /\ conn' = [conn EXCEPT ![k] = link]
        /\ UNCHANGED <<log, version, cmds, events, env, epoch, joiner>>
    BY <1>1 DEF Receive, PageUnchanged, stopping
  <1>7. link \in Connections /\ link.wire = Tail(wire) /\ link.cursor = conn[k].cursor
        /\ link.sniff = conn[k].sniff
    BY <1>2, <1>3, SetWire
  <1>8. /\ batch.after \in Nat /\ batch.to \in Nat
        /\ \A i \in 1..Len(wire) : wire[i].after \in Nat /\ wire[i].to \in Nat
    <2>1. \A i \in 1..Len(wire) : wire[i] \in Batches
      BY <1>2
    <2> QED BY <1>3, <2>1 DEF Batches
  <1> HIDE DEF batch, wire
  <1>9. /\ state \in PageStates /\ state.socket = page[p].socket /\ state.poll = page[p].poll
    BY <1>2, <1>3, <1>4, HandledPage
  <1>10. /\ \A n : Got(page[p], n) => Got(state, n)
         /\ \A n \in 1..batch.to : Got(state, n)
         /\ \A n \in 1..state.cursor : Got(state, n)
         /\ state.lost \subseteq 1..(first - 1)
    BY <1>3, <1>4, <1>5, HandledGets
  <1> HIDE DEF state, link
  <1>11. ASSUME NEW m \in 1..Len(wire), NEW n \in Nat \ {0}, Got(page[p], n) \/ Carried(wire, m, n)
         PROVE  Got(state, n) \/ Carried(Tail(wire), m - 1, n)
    <2>1. CASE Got(page[p], n)
      BY <1>10, <2>1
    <2>2. ASSUME NEW i \in 1..m, wire[i].after < n, n <= wire[i].to
          PROVE  Got(state, n) \/ Carried(Tail(wire), m - 1, n)
      <3>1. CASE i = 1
        <4>1. n \in 1..batch.to
          BY <1>3, <1>8, <2>2, <3>1
        <4> QED BY <1>10, <4>1
      <3>2. CASE i # 1
        <4>1. i - 1 \in 1..(m - 1) /\ i - 1 \in 1..Len(wire) - 1 /\ (i - 1) + 1 = i
          BY <1>2, <3>2
        <4>2. Tail(wire)[i - 1] = wire[i]
          BY <1>3, <4>1
        <4> QED BY <2>2, <4>1, <4>2 DEF Carried
      <3> QED BY <3>1, <3>2
    <2> QED BY <1>11, <2>1, <2>2 DEF Carried
  <1>12. \A i \in 1..Len(link.wire) : Sound(link.wire[i], Len(history), first)
    <2>1. \A i \in 1..Len(wire) : Sound(wire[i], Len(history), first)
      BY DEF DeliveryIInv, BatchesSound, wire
    <2>2. \A i \in 1..Len(link.wire) : i + 1 \in 1..Len(wire) /\ link.wire[i] = wire[i + 1]
      BY <1>2, <1>3, <1>7
    <2> QED BY <2>1, <2>2
  <1>13. ASSUME NEW n \in 1..link.cursor
         PROVE  Got(state, n) \/ Carried(link.wire, Len(link.wire), n)
    <2>1. Got(page[p], n) \/ Carried(wire, Len(wire), n)
      BY <1>2, <1>7, <1>13 DEF Streamed, wire
    <2>2. Len(wire) \in 1..Len(wire) /\ n \in Nat \ {0} /\ Len(link.wire) = Len(wire) - 1
      BY <1>2, <1>3, <1>7, <1>13
    <2> QED BY <1>7, <1>11, <2>1, <2>2
  <1>14. ASSUME NEW i \in 1..Len(link.wire), NEW n \in 1..link.wire[i].after
         PROVE  Got(state, n) \/ Carried(link.wire, i - 1, n)
    <2>1. /\ i + 1 \in 1..Len(wire) /\ link.wire[i] = wire[i + 1] /\ i \in 1..Len(wire)
          /\ (i + 1) - 1 = i /\ n \in Nat \ {0}
      BY <1>2, <1>3, <1>7, <1>14
    <2>2. Got(page[p], n) \/ Carried(wire, i, n)
      BY <1>2, <1>14, <2>1 DEF Streamed, wire
    <2> QED BY <1>7, <1>11, <2>1, <2>2
  <1>15. link.sniff # "none" /\ \A q \in Pages \ {p} : page[q].socket # k
    BY <1>1, <1>2, <1>7 DEF DeliveryIInv, SocketsOwned
  <1>16. WireStep(p, k, state, link)
    BY <1>1, <1>6, <1>7, <1>9, <1>10, <1>12, <1>13, <1>14, <1>15 DEF WireStep
  <1> QED BY <1>16, WireKeeps

-----------------------------------------------------------------------------
(* An engine that starts again: what a page of the last one had in flight  *)
(* is gone, and its cursor becomes its base.                               *)
FreshPage(cursor, shown) == [NewPage EXCEPT !.cursor = cursor, !.base = cursor, !.shown = shown]

LEMMA FreshPageType ==
    ASSUME NEW cursor \in Nat, NEW shown \in [version : Nat, sequence : Nat, epoch : Nat]
    PROVE  LET state == FreshPage(cursor, shown) IN
           /\ state \in PageStates /\ state.socket = 0 /\ ~state.opened
           /\ state.cursor = cursor /\ state.base = cursor /\ state.poll = Idle
           /\ state.seen = {} /\ state.lost = {}
           /\ state.fetch = [i \in Slots |-> Idle] /\ state.shown = shown /\ state.answered = 0
  <1>1. NewPage \in PageStates
    BY RemoteAssumption, IdleTypes DEF NewPage, PageStates
  <1>2. FreshPage(cursor, shown) \in PageStates
    BY <1>1 DEF FreshPage, PageStates
  <1>3. LET state == FreshPage(cursor, shown) IN
        /\ state.socket = 0 /\ ~state.opened
        /\ state.cursor = cursor /\ state.base = cursor /\ state.poll = Idle
        /\ state.seen = {} /\ state.lost = {}
    BY DEF FreshPage, NewPage
  <1>4. LET state == FreshPage(cursor, shown) IN
        state.fetch = [i \in Slots |-> Idle] /\ state.shown = shown /\ state.answered = 0
    BY DEF FreshPage, NewPage
  <1> QED BY <1>2, <1>3, <1>4

LEMMA NoConnType ==
    /\ NoConn \in Connections /\ [NoConn EXCEPT !.sniff = "done", !.ws = "done"] \in Connections
    /\ NoConn.wire = <<>> /\ NoConn.ws = "none" /\ NoConn.sniff = "none" /\ NoConn.pumps = {}
    /\ [NoConn EXCEPT !.sniff = "done", !.ws = "done"].wire = <<>>
    /\ [NoConn EXCEPT !.sniff = "done", !.ws = "done"].sniff = "done"
    /\ [NoConn EXCEPT !.sniff = "done", !.ws = "done"].ws = "done"
  <1>1. <<>> \in Seq(Batches)
    OBVIOUS
  <1> QED BY <1>1 DEF NoConn, Connections

LEMMA FreshWorldTypes ==
    Published(1) \in Events /\ <<Published(1)>> \in Seq(Events) /\ <<>> \in Seq(Events)
    /\ <<>> \in Seq(BOOLEAN) /\ Len(<<>>) = 0 /\ 1 \in 1..1
  BY PublishedType

LEMMA FreshEngine ==
    ASSUME NEW world \in [Pages -> PageStates],
           \A p \in Pages : /\ world[p].socket = 0 /\ ~world[p].opened
                            /\ world[p].cursor = world[p].base
                            /\ world[p].poll = Idle /\ world[p].lost = {},
           page' = world, conn' \in [Conns -> Connections],
           \A k \in Conns : conn'[k].wire = <<>> /\ (Used(conn'[k]) => conn'[k].sniff # "none"),
           env' \in Environment, epoch' \in Nat,
           version' = 1, cmds' = <<>>, events' = <<Published(1)>>,
           history' = <<>>, first' = 1, snaps' = [version |-> 0, sequence |-> 0],
           joiner' = "idle"
    PROVE  DeliveryIInv'
  <1>1. WorldTypes'
    BY FreshWorldTypes DEF WorldTypes
  <1>2. RemoteTypes'
    BY <1>1 DEF RemoteTypes
  <1>3. BatchesSound'
    BY FreshWorldTypes DEF BatchesSound, Idle
  <1>4. SniffedFirst' /\ SocketsOwned'
    BY DEF SniffedFirst, SocketsOwned
  <1>5. ASSUME NEW p \in Pages PROVE Delivered(p)'
    <2>1. page'[p].cursor \in Nat /\ page'[p].base = page'[p].cursor
      BY DEF PageStates
    <2>2. \A n \in 1..page'[p].cursor : Got(page'[p], n)
      BY <2>1 DEF Got
    <2> QED BY <2>2 DEF Delivered, Idle
  <1> QED BY <1>2, <1>3, <1>4, <1>5 DEF DeliveryIInv

LEMMA RestartKeeps == ASSUME DeliveryIInv, Restart PROVE DeliveryIInv'
  <1> DEFINE world == [p \in Pages |-> FreshPage(page[p].cursor, page[p].shown)]
  <1>1. \A p \in Pages : page[p].cursor \in Nat
                         /\ page[p].shown \in [version : Nat, sequence : Nat, epoch : Nat]
    BY DEF DeliveryIInv, RemoteTypes, PageStates
  <1>2. /\ world \in [Pages -> PageStates]
        /\ \A p \in Pages : /\ world[p].socket = 0 /\ ~world[p].opened
                            /\ world[p].cursor = world[p].base
                            /\ world[p].poll = Idle /\ world[p].lost = {}
    BY <1>1, FreshPageType
  <1>3. page' = world
    BY DEF Restart, FreshPage
  <1> DEFINE dead == [NoConn EXCEPT !.sniff = "done", !.ws = "done"]
  <1>4. \A k \in Conns : conn'[k] \in {NoConn, dead}
    BY DEF Restart
  <1>5. /\ conn' \in [Conns -> Connections]
        /\ \A k \in Conns : conn'[k].wire = <<>> /\ (Used(conn'[k]) => conn'[k].sniff # "none")
    <2> HIDE DEF dead
    <2>1. conn' = [k \in Conns |-> conn'[k]]
      BY DEF Restart
    <2>2. NoConn \in Connections /\ dead \in Connections /\ NoConn.wire = <<>> /\ dead.wire = <<>>
          /\ NoConn.ws = "none" /\ NoConn.pumps = {} /\ dead.sniff = "done"
      BY NoConnType DEF dead
    <2> QED BY <1>4, <2>1, <2>2 DEF Used
  <1>6. env' \in Environment /\ epoch' \in Nat
    <2>1. RemoteTypes /\ epoch \in Nat
      BY DEF DeliveryIInv, RemoteTypes, WorldTypes
    <2>2. env' \in Environment
      BY <2>1, EnvironmentTypes DEF Restart
    <2>3. epoch' = epoch + 1
      BY DEF Restart
    <2> QED BY <2>1, <2>2, <2>3
  <1> HIDE DEF world
  <1>7. /\ version' = 1 /\ cmds' = <<>> /\ events' = <<Published(1)>>
        /\ history' = <<>> /\ first' = 1 /\ snaps' = [version |-> 0, sequence |-> 0]
        /\ joiner' = "idle"
    BY DEF Restart
  <1> QED BY <1>2, <1>3, <1>5, <1>6, <1>7, FreshEngine

LEMMA DeliveryInitially == RemoteInit => DeliveryIInv
  <1> SUFFICES ASSUME RemoteInit PROVE DeliveryIInv
    OBVIOUS
  <1>1. NewPage \in PageStates /\ NewPage.socket = 0 /\ ~NewPage.opened /\ NewPage.cursor = 0
        /\ NewPage.base = 0 /\ NewPage.poll = Idle /\ NewPage.lost = {}
    BY RemoteAssumption, IdleTypes DEF NewPage, PageStates
  <1>2. page = [p \in Pages |-> NewPage] /\ conn = [k \in Conns |-> NoConn]
    BY DEF RemoteInit
  <1>3. WorldTypes
    BY FreshWorldTypes, RemoteAssumption DEF RemoteInit, WorldTypes, Environment
  <1>4. RemoteTypes
    BY <1>1, <1>2, <1>3, NoConnType DEF RemoteTypes, RemoteInit
  <1>5. BatchesSound
    BY <1>1, <1>2, NoConnType, FreshWorldTypes DEF BatchesSound, Idle
  <1>6. SniffedFirst /\ SocketsOwned
    BY <1>1, <1>2, NoConnType DEF SniffedFirst, SocketsOwned, Used
  <1>7. ASSUME NEW p \in Pages PROVE Delivered(p) /\ page[p].socket = 0
    BY <1>1, <1>2 DEF Delivered, Idle
  <1> QED BY <1>4, <1>5, <1>6, <1>7 DEF DeliveryIInv

LEMMA QuietSteps ==
    ASSUME DeliveryIInv,
           \/ RunCommand \/ Tick \/ DrainOne \/ AnswerCommand
           \/ ServeExit \/ StopCall \/ JoinServe \/ JoinAccept \/ TakeHandles \/ JoinHandles
    PROVE  DeliveryIInv'
  BY RunCommandQuiet, TickQuiet, DrainOneQuiet, AnswerCommandQuiet, StopQuiet, QuietKeeps
  DEF DeliveryIInv

LEMMA ConnKeeps == ASSUME DeliveryIInv, NEW k \in Conns, ConnStep(k) PROVE DeliveryIInv'
  <1>1. RemoteTypes /\ SniffedFirst
    BY DEF DeliveryIInv
  <1>2. CASE PushPending(k)
    BY <1>2, PushPendingKeeps
  <1>3. CASE SpawnStream(k) \/ RecordStream(k) \/ ReadFrame(k) \/ EndStream(k)
    BY <1>1, <1>3, SpawnStreamQuiet, RecordStreamQuiet, ReadFrameQuiet, EndStreamQuiet, QuietKeeps
  <1>4. CASE ConnectPlain(k) \/ ProxyHttp(k) \/ EndPump(k)
    BY <1>1, <1>4, ConnectPlainQuiet, ProxyHttpQuiet, EndPumpQuiet, QuietKeeps
  <1> QED BY <1>2, <1>3, <1>4 DEF ConnStep

LEMMA PageStepKeeps == ASSUME DeliveryIInv, NEW p \in Pages, PageStep(p) PROVE DeliveryIInv'
  <1>1. RemoteTypes /\ SocketsOwned
    BY DEF DeliveryIInv
  <1>2. ASSUME NEW k \in Conns, Connect(p, k) PROVE DeliveryIInv'
    BY <1>2, ConnectKeeps
  <1>3. CASE Receive(p) \/ SendPoll(p) \/ HandlePoll(p)
    BY <1>3, ReceiveKeeps, SendPollKeeps, HandlePollKeeps
  <1>4. CASE Open(p) \/ Closed(p) \/ SendFrame(p)
    BY <1>1, <1>4, OpenQuiet, ClosedQuiet, SendFrameQuiet, QuietKeeps
  <1>5. ASSUME NEW i \in Slots, SendFetch(p, i) \/ HandleFetch(p, i) PROVE DeliveryIInv'
    BY <1>1, <1>5, SendFetchQuiet, HandleFetchQuiet, QuietKeeps
  <1> QED BY <1>2, <1>3, <1>4, <1>5 DEF PageStep

LEMMA DeliveryStep == DeliveryIInv /\ [RemoteNext]_vars => DeliveryIInv'
  <1> SUFFICES ASSUME DeliveryIInv, [RemoteNext]_vars PROVE DeliveryIInv'
    OBVIOUS
  <1>1. CASE UNCHANGED vars
    <2>1. RemoteTypes' /\ Quiet
      BY <1>1 DEF vars, DeliveryIInv, RemoteTypes, WorldTypes, Quiet
    <2> QED BY <2>1, QuietKeeps
  <1>2. CASE WorldStep
    BY <1>2, QuietSteps DEF WorldStep
  <1>3. CASE ServeStep
    <2>1. CASE DrainOne \/ ServeExit \/ AnswerCommand
      BY <2>1, QuietSteps
    <2>2. ASSUME NEW p \in Pages, AnswerPoll(p) PROVE DeliveryIInv'
      BY <2>2, AnswerPollKeeps
    <2>3. ASSUME NEW p \in Pages, NEW i \in Slots, AnswerScene(p, i) PROVE DeliveryIInv'
      BY <2>3, AnswerSceneQuiet, QuietKeeps DEF DeliveryIInv
    <2> QED BY <1>3, <2>1, <2>2, <2>3 DEF ServeStep
  <1>4. ASSUME NEW k \in Conns, ConnStep(k) PROVE DeliveryIInv'
    BY <1>4, ConnKeeps
  <1>5. ASSUME NEW p \in Pages, PageStep(p) PROVE DeliveryIInv'
    BY <1>5, PageStepKeeps
  <1>6. CASE StopCall \/ StopStep
    BY <1>6, QuietSteps DEF StopStep
  <1>7. CASE Restart
    BY <1>7, RestartKeeps
  <1> QED BY <1>1, <1>2, <1>3, <1>4, <1>5, <1>6, <1>7 DEF RemoteNext

LEMMA DeliveryInvariant == RemoteSpec => []DeliveryIInv
  <1>1. RemoteInit => DeliveryIInv
    BY DeliveryInitially
  <1>2. DeliveryIInv /\ [RemoteNext]_vars => DeliveryIInv'
    BY DeliveryStep
  <1> QED BY <1>1, <1>2, PTL DEF RemoteSpec

(* No event that a page's cursor has passed is missing without a notice,   *)
(* whether it came by the socket, by a poll or by both, over connections   *)
(* that died at any point and whatever the log had dropped by then, and a  *)
(* notice is only of events that the log no longer keeps.                  *)
THEOREM NothingIsSilentlyLost == RemoteSpec => []NothingSilentlyLost
  <1>1. DeliveryIInv => NothingSilentlyLost
    <2> SUFFICES ASSUME DeliveryIInv, NEW p \in Pages
                 PROVE  /\ (page[p].base + 1)..page[p].cursor \subseteq page[p].seen \cup page[p].lost
                        /\ page[p].lost \subseteq 1..(first - 1)
      BY DEF NothingSilentlyLost
    <2>1. page[p].base \in Nat /\ page[p].cursor \in Nat /\ Delivered(p)
      BY FieldTypes DEF DeliveryIInv
    <2>2. ASSUME NEW n \in (page[p].base + 1)..page[p].cursor
          PROVE  n \in page[p].seen \cup page[p].lost
      <3>1. n \in 1..page[p].cursor /\ ~(n <= page[p].base)
        BY <2>1
      <3> QED BY <2>1, <3>1 DEF Delivered, Got
    <2> QED BY <2>1, <2>2 DEF Delivered
  <1> QED BY <1>1, DeliveryInvariant, PTL

-----------------------------------------------------------------------------
(* Stopping.  Threads that run are in the handles or in what stop took of  *)
(* them, but for the reader whose sniffing thread has yet to record it; in *)
(* which case that thread runs, and is in them.                            *)
Sniffing(k) == conn[k].sniff \in {"sniffing", "spawned"}

StopIInv ==
    /\ joiner \in {"accept", "take", "joining", "stopped"} => ~serving
    /\ joiner \in {"idle", "serve", "accept"} => joining = {}
    /\ \A k \in Conns :
        /\ Sniffing(k) => <<"sniff", k>> \in handles \cup joining
        /\ conn[k].ws = "running" => conn[k].sniff = "spawned" \/ <<"ws", k>> \in handles \cup joining
        /\ <<"ws", k>> \in handles \cup joining => conn[k].sniff = "done"
        /\ joiner = "take" /\ <<"sniff", k>> \in joining => ~Sniffing(k)
        /\ joiner = "take" /\ <<"ws", k>> \in joining => conn[k].ws # "running"
        /\ joiner = "stopped" => ~Sniffing(k) /\ conn[k].ws # "running"
        /\ conn[k].pumps # {} => conn[k].sniff = "done"

LEMMA RunningIs ==
    ASSUME NEW k \in Conns
    PROVE  /\ Running(<<"sniff", k>>) <=> Sniffing(k)
           /\ Running(<<"ws", k>>) <=> conn[k].ws = "running"
           /\ \A pump \in Pumps : Running(<<pump, k>>) <=> pump \in conn[k].pumps
  BY DEF Running, Sniffing, Pumps

LEMMA Remembered ==
    ASSUME NEW k \in Conns, NEW thread, Remember(thread)
    PROVE  /\ thread \in handles'
           /\ Sniffing(k) /\ <<"sniff", k>> \in handles => <<"sniff", k>> \in handles'
           /\ conn[k].ws = "running" /\ <<"ws", k>> \in handles => <<"ws", k>> \in handles'
           /\ handles' \subseteq handles \cup {thread}
  BY RunningIs DEF Remember

(* Most steps leave the threads and the joiner alone. *)
ThreadsAsBefore ==
    /\ \A k \in Conns : /\ conn'[k].sniff = conn[k].sniff /\ conn'[k].ws \in {conn[k].ws, "done"}
                        /\ conn'[k].pumps \subseteq conn[k].pumps
    /\ UNCHANGED <<serving, stopping>>

LEMMA ThreadsAsBeforeKeep == ASSUME StopIInv, ThreadsAsBefore PROVE StopIInv'
  BY DEF StopIInv, ThreadsAsBefore, stopping, Sniffing

LEMMA WorldLeavesThreads ==
    ASSUME RemoteTypes, RunCommand \/ Tick \/ DrainOne \/ AnswerCommand
    PROVE  ThreadsAsBefore
  BY DEF RunCommand, Tick, DrainOne, AnswerCommand, ThreadsAsBefore

LEMMA AnswersLeaveThreads ==
    ASSUME RemoteTypes, NEW p \in Pages,
           AnswerPoll(p) \/ \E i \in Slots : AnswerScene(p, i)
    PROVE  ThreadsAsBefore
  BY DEF AnswerPoll, AnswerScene, ThreadsAsBefore

LEMMA StreamsLeaveThreads ==
    ASSUME RemoteTypes, NEW k \in Conns, ReadFrame(k) \/ PushPending(k) \/ EndStream(k) \/ EndPump(k)
    PROVE  ThreadsAsBefore
  <1>1. conn \in [Conns -> Connections] /\ conn[k] \in Connections
    BY DEF RemoteTypes
  <1>2. CASE ReadFrame(k)
    <2>1. conn' = [conn EXCEPT ![k].frames = @ - 1] /\ UNCHANGED <<serving, stopping>>
      BY <1>2 DEF ReadFrame
    <2> QED BY <1>1, <2>1 DEF ThreadsAsBefore, Connections
  <1>3. CASE PushPending(k)
    <2> DEFINE batch == After(conn[k].cursor)
    <2>1. conn' = [conn EXCEPT ![k].cursor = batch.to, ![k].wire = Append(@, batch)]
          /\ UNCHANGED <<serving, stopping>>
      BY <1>3 DEF PushPending
    <2> HIDE DEF batch
    <2> QED BY <1>1, <2>1 DEF ThreadsAsBefore, Connections
  <1>4. CASE EndStream(k)
    <2>1. conn' = [conn EXCEPT ![k].ws = "done", ![k].cursor = 0, ![k].frames = 0]
          /\ UNCHANGED <<serving, stopping>>
      BY <1>4 DEF EndStream
    <2> QED BY <1>1, <2>1 DEF ThreadsAsBefore, Connections
  <1>5. CASE EndPump(k)
    <2>1. PICK pump : conn' = [conn EXCEPT ![k].pumps = @ \ {pump}] /\ UNCHANGED <<serving, stopping>>
      BY <1>5 DEF EndPump
    <2> QED BY <1>1, <2>1 DEF ThreadsAsBefore, Connections
  <1> QED BY <1>2, <1>3, <1>4, <1>5

LEMMA PagesLeaveThreads ==
    ASSUME RemoteTypes, NEW p \in Pages,
           \/ Open(p) \/ Receive(p) \/ Closed(p) \/ SendFrame(p) \/ SendPoll(p) \/ HandlePoll(p)
           \/ \E i \in Slots : SendFetch(p, i) \/ HandleFetch(p, i)
    PROVE  ThreadsAsBefore
  <1> DEFINE k == page[p].socket
  <1>1. conn \in [Conns -> Connections]
    BY DEF RemoteTypes
  <1>2. UNCHANGED <<serving, stopping>>
    BY DEF Open, Receive, Closed, SendFrame, SendPoll, HandlePoll, SendFetch, HandleFetch,
           PageUnchanged
  <1>3. \/ conn' = conn
        \/ conn' = [conn EXCEPT ![k].wire = Tail(@)]
        \/ conn' = [conn EXCEPT ![k].wire = <<>>]
        \/ conn' = [conn EXCEPT ![k].frames = @ + 1]
    BY DEF Open, Receive, Closed, SendFrame, SendPoll, HandlePoll, SendFetch, HandleFetch
  <1> HIDE DEF k
  <1>4. \A l \in Conns : /\ conn'[l].sniff = conn[l].sniff /\ conn'[l].ws = conn[l].ws
                          /\ conn'[l].pumps = conn[l].pumps
    <2> SUFFICES ASSUME NEW l \in Conns
                 PROVE  /\ conn'[l].sniff = conn[l].sniff /\ conn'[l].ws = conn[l].ws
                        /\ conn'[l].pumps = conn[l].pumps
      OBVIOUS
    <2>1. conn[l] \in Connections
      BY <1>1
    <2>2. CASE conn' = conn
      BY <2>2
    <2>3. CASE conn' = [conn EXCEPT ![k].wire = Tail(@)]
      BY <1>1, <2>1, <2>3 DEF Connections
    <2>4. CASE conn' = [conn EXCEPT ![k].wire = <<>>]
      BY <1>1, <2>1, <2>4 DEF Connections
    <2>5. CASE conn' = [conn EXCEPT ![k].frames = @ + 1]
      BY <1>1, <2>1, <2>5 DEF Connections
    <2> QED BY <1>3, <2>2, <2>3, <2>4, <2>5
  <1> QED BY <1>2, <1>4 DEF ThreadsAsBefore

LEMMA ConnectKeepsThreads ==
    ASSUME RemoteTypes, StopIInv, NEW k \in Conns,
           (\E p \in Pages : Connect(p, k)) \/ ConnectPlain(k)
    PROVE  StopIInv'
  <1> DEFINE thread == <<"sniff", k>>
  <1>1. conn \in [Conns -> Connections] /\ conn[k] = NoConn
    BY DEF RemoteTypes, Connect, ConnectPlain
  <1>2. /\ conn'[k].sniff = "sniffing" /\ conn'[k].ws = "none" /\ conn'[k].pumps = {}
        /\ \A l \in Conns \ {k} : conn'[l] = conn[l]
    BY <1>1 DEF Connect, ConnectPlain, NoConn
  <1>3. joiner \in {"idle", "serve", "accept"} /\ joining = {}
        /\ UNCHANGED <<serving, joiner, joining>>
    BY DEF Connect, ConnectPlain, StopIInv
  <1>4. /\ thread \in handles' /\ handles' \subseteq handles \cup {thread}
        /\ \A l \in Conns :
             /\ Sniffing(l) /\ <<"sniff", l>> \in handles => <<"sniff", l>> \in handles'
             /\ conn[l].ws = "running" /\ <<"ws", l>> \in handles => <<"ws", l>> \in handles'
    BY Remembered DEF Connect, ConnectPlain
  <1>5. <<"ws", k>> \notin handles
    <2>1. conn[k].sniff = "none"
      BY <1>1 DEF NoConn
    <2>2. <<"ws", k>> \in handles \cup joining => conn[k].sniff = "done"
      BY DEF StopIInv
    <2> QED BY <2>1, <2>2
  <1>6. \A l \in Conns : <<"ws", l>> # thread
    OBVIOUS
  <1> HIDE DEF thread
  <1>7. ASSUME NEW l \in Conns
        PROVE  /\ Sniffing(l)' => <<"sniff", l>> \in handles'
               /\ conn'[l].ws = "running" => conn'[l].sniff = "spawned" \/ <<"ws", l>> \in handles'
               /\ <<"ws", l>> \in handles' => conn'[l].sniff = "done"
               /\ conn'[l].pumps # {} => conn'[l].sniff = "done"
    <2>1. CASE l = k
      BY <1>2, <1>4, <1>5, <1>6, <2>1 DEF thread
    <2>2. CASE l # k
      BY <1>2, <1>3, <1>4, <1>6, <2>2 DEF StopIInv, Sniffing
    <2> QED BY <2>1, <2>2
  <1> QED BY <1>3, <1>7 DEF StopIInv

LEMMA SpawnKeepsThreads ==
    ASSUME RemoteTypes, StopIInv, NEW k \in Conns, SpawnStream(k)
    PROVE  StopIInv'
  <1>1. conn \in [Conns -> Connections] /\ conn[k] \in Connections /\ conn[k].sniff = "sniffing"
    BY DEF RemoteTypes, SpawnStream
  <1>2. /\ conn'[k].sniff = "spawned" /\ conn'[k].ws = "running" /\ conn'[k].pumps = conn[k].pumps
        /\ \A l \in Conns \ {k} : conn'[l] = conn[l]
    BY <1>1 DEF SpawnStream, Connections
  <1>3. UNCHANGED <<serving, joiner, handles, joining>>
    BY DEF SpawnStream, stopping
  <1> QED BY <1>1, <1>2, <1>3 DEF StopIInv, Sniffing

LEMMA ProxyKeepsThreads ==
    ASSUME RemoteTypes, StopIInv, NEW k \in Conns, ProxyHttp(k)
    PROVE  StopIInv'
  <1>1. conn \in [Conns -> Connections] /\ conn[k] \in Connections /\ conn[k].sniff = "sniffing"
    BY DEF RemoteTypes, ProxyHttp
  <1>2. PICK started : conn' = [conn EXCEPT ![k].sniff = "done", ![k].pumps = started]
    BY DEF ProxyHttp
  <1>3. /\ conn'[k].sniff = "done" /\ conn'[k].ws = conn[k].ws
        /\ \A l \in Conns \ {k} : conn'[l] = conn[l]
    BY <1>1, <1>2 DEF Connections
  <1>4. UNCHANGED <<serving, joiner, handles, joining>>
    BY DEF ProxyHttp, stopping
  <1> QED BY <1>1, <1>3, <1>4 DEF StopIInv, Sniffing

LEMMA RecordKeepsThreads ==
    ASSUME RemoteTypes, StopIInv, NEW k \in Conns, RecordStream(k)
    PROVE  StopIInv'
  <1> DEFINE thread == <<"ws", k>>
  <1>1. conn \in [Conns -> Connections] /\ conn[k] \in Connections /\ conn[k].sniff = "spawned"
    BY DEF RemoteTypes, RecordStream
  <1>2. /\ conn'[k].sniff = "done" /\ conn'[k].ws = conn[k].ws
        /\ \A l \in Conns \ {k} : conn'[l] = conn[l]
    BY <1>1 DEF RecordStream, Connections
  <1>9. \A l \in Conns : conn'[l].pumps # {} => conn'[l].sniff = "done"
    BY <1>2 DEF StopIInv
  <1>3. UNCHANGED <<serving, joiner, joining>>
    BY DEF RecordStream
  <1>4. /\ thread \in handles' /\ handles' \subseteq handles \cup {thread}
        /\ \A l \in Conns :
             /\ Sniffing(l) /\ <<"sniff", l>> \in handles => <<"sniff", l>> \in handles'
             /\ conn[l].ws = "running" /\ <<"ws", l>> \in handles => <<"ws", l>> \in handles'
    BY Remembered DEF RecordStream
  <1>5. \A l \in Conns : <<"ws", l>> = thread => l = k
    OBVIOUS
  <1>6. <<"ws", k>> \notin joining /\ joiner # "stopped"
    BY <1>1 DEF StopIInv, Sniffing
  <1> HIDE DEF thread
  <1>7. ASSUME NEW l \in Conns
        PROVE  /\ Sniffing(l)' => <<"sniff", l>> \in handles' \cup joining
               /\ conn'[l].ws = "running" =>
                      conn'[l].sniff = "spawned" \/ <<"ws", l>> \in handles' \cup joining
               /\ <<"ws", l>> \in handles' \cup joining => conn'[l].sniff = "done"
    <2>1. CASE l = k
      BY <1>2, <1>4, <2>1 DEF Sniffing, thread
    <2>2. CASE l # k
      BY <1>2, <1>4, <1>5, <2>2 DEF StopIInv, Sniffing
    <2> QED BY <2>1, <2>2
  <1>8. ASSUME NEW l \in Conns
        PROVE  /\ joiner = "take" /\ <<"sniff", l>> \in joining => ~Sniffing(l)'
               /\ joiner = "take" /\ <<"ws", l>> \in joining => conn'[l].ws # "running"
    BY <1>2, <1>6 DEF StopIInv, Sniffing
  <1> QED BY <1>3, <1>6, <1>7, <1>8, <1>9 DEF StopIInv

LEMMA StoppingKeepsThreads ==
    ASSUME RemoteTypes, StopIInv,
           ServeExit \/ StopCall \/ JoinServe \/ JoinAccept \/ TakeHandles \/ JoinHandles
    PROVE  StopIInv'
  <1>1. CASE ServeExit \/ StopCall \/ JoinServe \/ JoinAccept
    BY <1>1 DEF ServeExit, StopCall, JoinServe, JoinAccept, Stopped, stopping, StopIInv, Sniffing
  <1>2. CASE TakeHandles
    <2>1. /\ joiner = "take" /\ joining' = handles /\ handles' = {}
          /\ joiner' = (IF handles = {} THEN "stopped" ELSE "joining")
          /\ UNCHANGED <<conn, serving>>
      BY <1>2 DEF TakeHandles
    <2>2. \A k \in Conns : /\ Sniffing(k) => <<"sniff", k>> \in handles
                           /\ conn[k].ws = "running" => conn[k].sniff = "spawned" \/ <<"ws", k>> \in handles
      BY <2>1 DEF StopIInv
    <2>3. handles = {} => \A k \in Conns : ~Sniffing(k) /\ conn[k].ws # "running"
      BY <2>2 DEF Sniffing
    <2> QED BY <2>1, <2>2, <2>3 DEF StopIInv, Sniffing
  <1>3. CASE JoinHandles
    <2>1. /\ joiner = "joining" /\ joiner' = "take" /\ \A thread \in joining : ~Running(thread)
          /\ UNCHANGED <<conn, serving, handles, joining>>
      BY <1>3 DEF JoinHandles
    <2>2. \A k \in Conns : /\ <<"sniff", k>> \in joining => ~Sniffing(k)
                           /\ <<"ws", k>> \in joining => conn[k].ws # "running"
      BY <2>1, RunningIs
    <2> QED BY <2>1, <2>2 DEF StopIInv, Sniffing
  <1> QED BY <1>1, <1>2, <1>3

LEMMA RestartKeepsThreads == ASSUME Restart PROVE StopIInv'
  <1> DEFINE dead == [NoConn EXCEPT !.sniff = "done", !.ws = "done"]
  <1>1. \A k \in Conns : conn'[k] \in {NoConn, dead}
    BY DEF Restart
  <1>2. /\ dead.sniff = "done" /\ dead.ws = "done" /\ dead.pumps = {}
        /\ NoConn.sniff = "none" /\ NoConn.ws = "none" /\ NoConn.pumps = {}
    BY DEF NoConn
  <1>3. serving' /\ joiner' = "idle" /\ handles' = {} /\ joining' = {}
    BY DEF Restart
  <1> HIDE DEF dead
  <1> QED BY <1>1, <1>2, <1>3 DEF StopIInv, Sniffing

LEMMA StopStepKeeps == RemoteTypes /\ StopIInv /\ [RemoteNext]_vars => StopIInv'
  <1> SUFFICES ASSUME RemoteTypes, StopIInv, [RemoteNext]_vars PROVE StopIInv'
    OBVIOUS
  <1>1. CASE UNCHANGED vars
    BY <1>1 DEF vars, stopping, StopIInv, Sniffing
  <1>2. CASE WorldStep \/ DrainOne \/ AnswerCommand
    BY <1>2, WorldLeavesThreads, ThreadsAsBeforeKeep DEF WorldStep
  <1>3. ASSUME NEW p \in Pages, AnswerPoll(p) \/ \E i \in Slots : AnswerScene(p, i)
        PROVE  StopIInv'
    BY <1>3, AnswersLeaveThreads, ThreadsAsBeforeKeep
  <1>4. ASSUME NEW k \in Conns, ConnStep(k) PROVE StopIInv'
    BY <1>4, ConnectKeepsThreads, SpawnKeepsThreads, ProxyKeepsThreads, RecordKeepsThreads,
       StreamsLeaveThreads, ThreadsAsBeforeKeep
    DEF ConnStep
  <1>5. ASSUME NEW p \in Pages, PageStep(p) PROVE StopIInv'
    <2>1. ASSUME NEW k \in Conns, Connect(p, k) PROVE StopIInv'
      BY <2>1, ConnectKeepsThreads
    <2> QED BY <1>5, <2>1, PagesLeaveThreads, ThreadsAsBeforeKeep DEF PageStep
  <1>6. CASE ServeExit \/ StopCall \/ StopStep
    BY <1>6, StoppingKeepsThreads DEF StopStep
  <1>7. CASE Restart
    BY <1>7, RestartKeepsThreads
  <1> QED BY <1>1, <1>2, <1>3, <1>4, <1>5, <1>6, <1>7 DEF RemoteNext, ServeStep

(* When RemoteEditor::stop returns, whatever connections arrived while it  *)
(* waited, and though each event stream starts a thread of its own that is *)
(* recorded only later, neither the serve thread nor any dispatching or    *)
(* event-stream thread runs: what does are the two copying threads of a    *)
(* proxied connection, in no list, and none is left that would start more. *)
THEOREM StopLeavesOnlyPumps == RemoteSpec => []StopIsComplete
  <1>1. RemoteInit => StopIInv
    BY DEF RemoteInit, StopIInv, NoConn, Sniffing
  <1>2. DeliveryIInv => RemoteTypes
    BY DEF DeliveryIInv
  <1>3. RemoteTypes /\ StopIInv /\ [RemoteNext]_vars => StopIInv'
    BY StopStepKeeps
  <1>4. StopIInv => StopIsComplete
    BY RunningIs DEF StopIInv, StopIsComplete, Pumps
  <1> QED BY <1>1, <1>2, <1>3, <1>4, DeliveryInvariant, PTL DEF RemoteSpec

-----------------------------------------------------------------------------
(* Scenes.  The queue's publications never go back, the latest one tells   *)
(* the current version, and a completion comes after a publication of what *)
(* it completes.                                                           *)
QueueInOrder ==
    /\ \A i \in 1..Len(events) : events[i].kind = "scene" =>
           /\ snaps.version <= events[i].version /\ events[i].version <= version
           /\ \A j \in i..Len(events) :
                  events[j].kind = "scene" => events[i].version <= events[j].version
    /\ \A i \in 1..Len(events) : events[i].kind = "done" =>
           \/ events[i].version <= snaps.version
           \/ \E j \in 1..(i - 1) :
                  events[j].kind = "scene" /\ events[i].version <= events[j].version
    /\ snaps.version <= version
    /\ \/ version <= snaps.version
       \/ \E j \in 1..Len(events) : events[j].kind = "scene" /\ version <= events[j].version

(* A scene that was handed out is of the past or is the present one. *)
Past(scene) ==
    /\ scene.sequence <= snaps.sequence /\ scene.version <= snaps.version
    /\ scene.sequence = snaps.sequence => scene.version = snaps.version

(* Of two scenes handed out the one with the greater sequence number is    *)
(* not older.                                                              *)
InOrder(scene, later) == scene.sequence <= later.sequence => scene.version <= later.version

ScenesInOrder ==
    \A p \in Pages :
        /\ page[p].shown.epoch <= epoch
        /\ page[p].shown.epoch = epoch => Past(page[p].shown)
        /\ \A i \in Slots : page[p].fetch[i].state = "answered" =>
               /\ Past(page[p].fetch[i])
               /\ page[p].shown.epoch = epoch => InOrder(page[p].shown, page[p].fetch[i])
               /\ \A j \in Slots : page[p].fetch[j].state = "answered" =>
                      InOrder(page[p].fetch[i], page[p].fetch[j])

(* What completions told is in the snapshot. *)
CompletionsCovered ==
    /\ \A n \in 1..Len(history) : history[n].kind = "done" => history[n].version <= snaps.version
    /\ \A p \in Pages :
        /\ page[p].answered <= snaps.version
        /\ \A i \in Slots :
            /\ page[p].fetch[i].state = "sent" => page[p].fetch[i].owed <= snaps.version
            /\ page[p].fetch[i].state = "answered" => page[p].fetch[i].owed <= page[p].fetch[i].version

SceneIInv == QueueInOrder /\ ScenesInOrder /\ CompletionsCovered

-----------------------------------------------------------------------------
LEMMA SceneTypes ==
    ASSUME RemoteTypes
    PROVE  /\ version \in Nat /\ epoch \in Nat /\ snaps.version \in Nat /\ snaps.sequence \in Nat
           /\ events \in Seq(Events) /\ Len(events) \in Nat /\ Len(history) \in Nat
           /\ \A i \in 1..Len(events) : events[i] \in Events
           /\ \A i \in 1..Len(history) : history[i] \in Events
           /\ \A p \in Pages :
                /\ page[p] \in PageStates /\ page[p].answered \in Nat
                /\ page[p].shown \in [version : Nat, sequence : Nat, epoch : Nat]
                /\ page[p].fetch \in [Slots -> Fetches]
                /\ \A i \in Slots : page[p].fetch[i] \in Fetches
  BY DEF RemoteTypes, WorldTypes, PageStates

LEMMA EventVersions ==
    ASSUME NEW event \in Events, event.kind \in {"scene", "done"}
    PROVE  event.version \in Nat
  BY DEF Events

(* Steps that hand nothing out and publish nothing. *)
ScenesAsBefore ==
    /\ UNCHANGED <<version, events, snaps, epoch, history>>
    /\ \A p \in Pages : /\ page'[p].shown = page[p].shown /\ page'[p].fetch = page[p].fetch
                        /\ \/ page'[p].answered = page[p].answered
                           \/ \E n \in 1..Len(history) :
                                 /\ history[n].kind = "done"
                                 /\ page'[p].answered = history[n].version

LEMMA ScenesAsBeforeKeep == ASSUME SceneIInv, ScenesAsBefore PROVE SceneIInv'
  <1>1. QueueInOrder'
    BY DEF SceneIInv, ScenesAsBefore, QueueInOrder
  <1>2. ScenesInOrder'
    BY DEF SceneIInv, ScenesAsBefore, ScenesInOrder, Past, InOrder
  <1>3. CompletionsCovered'
    BY DEF SceneIInv, ScenesAsBefore, CompletionsCovered
  <1> QED BY <1>1, <1>2, <1>3 DEF SceneIInv

(* The world publishes: more is added to the queue. *)
LEMMA PublishingKeeps ==
    ASSUME RemoteTypes, SceneIInv, version' \in Nat, version <= version',
           NEW more \in Seq(Events), events' = events \o more,
           \A i \in 1..Len(more) :
               /\ more[i].kind = "scene" => more[i].version = version'
               /\ more[i].kind = "done" => more[i].version = version'
               /\ more[i].kind = "done" /\ version' # version =>
                      \E j \in 1..(i - 1) : more[j].kind = "scene",
           version' # version => \E j \in 1..Len(more) : more[j].kind = "scene",
           UNCHANGED <<log, page, epoch>>
    PROVE  SceneIInv'
  <1> DEFINE old == Len(events)
             all == old + Len(more)
  <1>1. /\ version \in Nat /\ snaps.version \in Nat /\ events \in Seq(Events)
        /\ old \in Nat /\ Len(more) \in Nat
        /\ \A i \in 1..old : events[i] \in Events
        /\ snaps' = snaps /\ history' = history
    BY SceneTypes DEF log
  <1>2. /\ Len(events') = all
        /\ \A i \in 1..old : events'[i] = events[i]
        /\ \A i \in 1..Len(more) : events'[old + i] = more[i]
    BY <1>1
  <1>3. \A i \in 1..all : i \in 1..old \/ \E m \in 1..Len(more) : i = old + m
    <2> SUFFICES ASSUME NEW i \in 1..all, i \notin 1..old
                 PROVE  \E m \in 1..Len(more) : i = old + m
      OBVIOUS
    <2>1. i - old \in 1..Len(more) /\ i = old + (i - old)
      BY <1>1
    <2> QED BY <2>1
  <1>4. QueueInOrder
    BY DEF SceneIInv
  <1>5. \A i \in 1..old : events[i].kind \in {"scene", "done"} => events[i].version \in Nat
    BY <1>1, EventVersions
  <1> HIDE DEF old, all
  <1>6. \A i \in 1..all : events'[i].kind = "scene" =>
            /\ snaps.version <= events'[i].version /\ events'[i].version <= version'
            /\ events'[i].version \in Nat
            /\ i \in 1..old => events'[i].version <= version
            /\ i \notin 1..old => events'[i].version = version'
    <2> SUFFICES ASSUME NEW i \in 1..all, events'[i].kind = "scene"
                 PROVE  /\ snaps.version <= events'[i].version /\ events'[i].version <= version'
                        /\ events'[i].version \in Nat
                        /\ i \in 1..old => events'[i].version <= version
                        /\ i \notin 1..old => events'[i].version = version'
      OBVIOUS
    <2>1. CASE i \in 1..old
      BY <1>1, <1>2, <1>4, <1>5, <2>1 DEF QueueInOrder, old
    <2>2. CASE i \notin 1..old
      <3>1. events'[i].version = version'
        <4>1. PICK m \in 1..Len(more) : i = old + m
          BY <1>3, <2>2
        <4>2. events'[i] = more[m] /\ more[m].kind = "scene"
          BY <1>2, <4>1
        <4> QED BY <4>2
      <3>2. snaps.version <= version'
        BY <1>1, <1>4 DEF QueueInOrder
      <3> QED BY <2>2, <3>1, <3>2
    <2> QED BY <2>1, <2>2
  <1>7. ASSUME NEW i \in 1..all, NEW j \in i..all,
               events'[i].kind = "scene", events'[j].kind = "scene"
        PROVE  events'[i].version <= events'[j].version
    <2>1. i \in Nat /\ j \in Nat /\ j \in 1..all
      BY <1>1 DEF all
    <2>2. CASE j \in 1..old
      <3>1. i \in 1..old /\ j \in i..old
        BY <1>1, <1>7, <2>1, <2>2
      <3> QED BY <1>2, <1>4, <1>7, <3>1 DEF QueueInOrder, old
    <2>3. CASE j \notin 1..old
      BY <1>6, <1>7, <2>1, <2>3
    <2> QED BY <2>2, <2>3
  <1>8. ASSUME NEW i \in 1..all, events'[i].kind = "done"
        PROVE  \/ events'[i].version <= snaps.version
               \/ \E j \in 1..(i - 1) :
                      events'[j].kind = "scene" /\ events'[i].version <= events'[j].version
    <2>1. CASE i \in 1..old
      <3>1. \A j \in 1..(i - 1) : j \in 1..old
        BY <1>1, <2>1
      <3>2. /\ events'[i] = events[i] /\ \A j \in 1..(i - 1) : events'[j] = events[j]
        BY <1>2, <2>1, <3>1
      <3> QED BY <1>4, <1>8, <2>1, <3>2 DEF QueueInOrder, old
    <2>2. CASE i \notin 1..old
      <3>1. PICK m \in 1..Len(more) : i = old + m
        BY <1>3, <2>2
      <3>2. events'[i].version = version' /\ more[m].kind = "done"
        BY <1>2, <1>8, <3>1
      <3>3. CASE version' # version
        <4>1. PICK j \in 1..(m - 1) : more[j].kind = "scene"
          BY <3>2, <3>3
        <4>2. j \in 1..Len(more) /\ old + j \in 1..(i - 1)
          BY SMTT(30), <1>1, <3>1, <4>1
        <4>3. events'[old + j].kind = "scene" /\ events'[old + j].version = version'
          BY <1>2, <4>1, <4>2
        <4>4. events'[i].version <= events'[old + j].version
          BY <3>2, <4>3
        <4> QED BY <4>2, <4>3, <4>4
      <3>4. CASE version' = version
        <4>1. \/ version <= snaps.version
              \/ \E j \in 1..old : events[j].kind = "scene" /\ version <= events[j].version
          BY <1>4 DEF QueueInOrder, old
        <4>2. \A j \in 1..old : j \in 1..(i - 1) /\ events'[j] = events[j]
          BY SMTT(30), <1>1, <1>2, <3>1
        <4> QED BY <3>2, <3>4, <4>1, <4>2
      <3> QED BY <3>3, <3>4
    <2> QED BY <2>1, <2>2
  <1>9. \/ version' <= snaps.version
        \/ \E j \in 1..all : events'[j].kind = "scene" /\ version' <= events'[j].version
    <2>1. CASE version' # version
      <3>1. PICK j \in 1..Len(more) : more[j].kind = "scene"
        BY <2>1
      <3>2. old + j \in 1..all
        BY <1>1, <3>1 DEF all
      <3>3. events'[old + j] = more[j] /\ more[j].version = version'
        BY <1>2, <3>1
      <3>4. events'[old + j].kind = "scene" /\ version' <= events'[old + j].version
        BY <3>1, <3>3
      <3> QED BY <3>2, <3>4
    <2>2. CASE version' = version
      <3>1. \/ version <= snaps.version
            \/ \E j \in 1..old : events[j].kind = "scene" /\ version <= events[j].version
        BY <1>4 DEF QueueInOrder, old
      <3>2. \A j \in 1..old : j \in 1..all /\ events'[j] = events[j]
        BY <1>1, <1>2 DEF all
      <3> QED BY <2>2, <3>1, <3>2
    <2> QED BY <2>1, <2>2
  <1>10. snaps'.version <= version'
    BY <1>1, <1>4 DEF QueueInOrder
  <1>11. QueueInOrder'
    BY <1>1, <1>2, <1>6, <1>7, <1>8, <1>9, <1>10 DEF QueueInOrder
  <1>12. ScenesInOrder' /\ CompletionsCovered'
    BY <1>1 DEF SceneIInv, ScenesInOrder, CompletionsCovered, Past, InOrder
  <1> QED BY <1>11, <1>12 DEF SceneIInv

LEMMA RunCommandPublishes ==
    ASSUME RemoteTypes, SceneIInv, RunCommand PROVE SceneIInv'
  <1>1. version \in Nat /\ version + 1 \in Nat /\ events \in Seq(Events)
    BY SceneTypes
  <1> DEFINE done(v) == Completion(Head(cmds), v)
  <1>2. \A v \in Nat : done(v) \in Seq(Events) /\ Published(v) \in Events /\ Note \in Events
    BY CompletionType, PublishedType DEF Note, Events
  <1>3. \A v \in Nat : done(v) = <<>> \/ done(v) = <<[kind |-> "done", version |-> v]>>
    BY DEF Completion
  <1>4. Note.kind = "note" /\ \A v \in Nat : Published(v) = [kind |-> "scene", version |-> v]
    BY DEF Note, Published
  <1>5. UNCHANGED <<log, page, epoch>>
    BY DEF RunCommand
  <1> HIDE DEF done
  <1>6. CASE version' = version + 1 /\ events' = events \o <<Note, Published(version')>> \o done(version')
    <2> DEFINE more == <<Note, Published(version')>> \o done(version')
    <2>1. version' \in Nat /\ version <= version' /\ version' # version
      BY <1>1, <1>6
    <2>2. <<Note, Published(version')>> \in Seq(Events) /\ done(version') \in Seq(Events)
      BY <1>2, <2>1
    <2>3. more \in Seq(Events) /\ events' = events \o more
      BY <1>1, <1>6, <2>2
    <2>4. /\ Len(more) \in {2, 3} /\ more[1] = Note /\ more[2] = Published(version')
          /\ Len(more) = 3 => more[3] = [kind |-> "done", version |-> version']
      <3>1. CASE done(version') = <<>>
        BY <2>2, <3>1
      <3>2. CASE done(version') = <<[kind |-> "done", version |-> version']>>
        BY <2>2, <3>2
      <3> QED BY <1>3, <2>1, <3>1, <3>2
    <2> HIDE DEF more
    <2>5. \A i \in 1..Len(more) :
               /\ more[i].kind = "scene" => more[i].version = version'
               /\ more[i].kind = "done" => more[i].version = version'
               /\ more[i].kind = "done" => \E j \in 1..(i - 1) : more[j].kind = "scene"
      <3> SUFFICES ASSUME NEW i \in 1..Len(more)
                   PROVE  /\ more[i].kind = "scene" => more[i].version = version'
                          /\ more[i].kind = "done" => more[i].version = version'
                          /\ more[i].kind = "done" => \E j \in 1..(i - 1) : more[j].kind = "scene"
        OBVIOUS
      <3>1. i = 1 \/ i = 2 \/ (i = 3 /\ Len(more) = 3)
        <4>1. CASE Len(more) = 2
          BY <4>1
        <4>2. CASE Len(more) = 3
          BY <4>2
        <4> QED BY <2>4, <4>1, <4>2
      <3>2. more[2].kind = "scene" /\ more[2].version = version' /\ more[1].kind = "note"
        BY <1>4, <2>1, <2>4
      <3>3. 2 \in 1..(3 - 1)
        OBVIOUS
      <3>4. Len(more) = 3 => more[3].kind = "done" /\ more[3].version = version'
        BY <2>4
      <3> QED BY <3>1, <3>2, <3>3, <3>4
    <2>6. \E j \in 1..Len(more) : more[j].kind = "scene"
      <3>1. 2 \in 1..Len(more) /\ more[2].kind = "scene"
        BY <1>4, <2>1, <2>4
      <3> QED BY <3>1
    <2> QED BY <1>5, <2>1, <2>3, <2>5, <2>6, PublishingKeeps
  <1>7. ASSUME NEW said \in {<<>>, <<Note>>}, version' = version,
               events' = events \o (said \o done(version))
        PROVE  SceneIInv'
    <2> DEFINE more == said \o done(version)
    <2>1. version' \in Nat /\ version <= version'
      BY <1>1, <1>7
    <2>2. said \in Seq(Events) /\ done(version) \in Seq(Events)
      <3>1. Note \in Events /\ done(version) \in Seq(Events)
        BY <1>1, <1>2
      <3>2. <<>> \in Seq(Events) /\ <<Note>> \in Seq(Events)
        BY <3>1
      <3> QED BY <1>7, <3>1, <3>2
    <2>3. more \in Seq(Events) /\ events' = events \o more
      BY <1>7, <2>2
    <2>4. \A i \in 1..Len(more) : more[i] = Note \/ more[i] = [kind |-> "done", version |-> version]
      BY <1>1, <1>3, <2>2
    <2> HIDE DEF more
    <2>5. \A i \in 1..Len(more) :
               /\ more[i].kind = "scene" => more[i].version = version'
               /\ more[i].kind = "done" => more[i].version = version'
      BY <1>4, <1>7, <2>4
    <2> QED BY <1>5, <1>7, <2>1, <2>3, <2>5, PublishingKeeps
  <1>8. events \o <<Note>> \o done(version) = events \o (<<Note>> \o done(version))
        /\ events \o done(version) = events \o (<<>> \o done(version))
    <2>1. <<Note>> \in Seq(Events) /\ done(version) \in Seq(Events) /\ <<>> \in Seq(Events)
      BY <1>1, <1>2
    <2> QED BY <1>1, <2>1
  <1> QED BY <1>6, <1>7, <1>8 DEF RunCommand, done

LEMMA TickPublishes ==
    ASSUME RemoteTypes, SceneIInv, Tick PROVE SceneIInv'
  <1> DEFINE more == <<Published(version')>>
  <1>1. version \in Nat /\ version' = version + 1 /\ events \in Seq(Events)
        /\ UNCHANGED <<log, page, epoch>>
    BY SceneTypes DEF Tick
  <1>2. version' \in Nat /\ version <= version' /\ version' # version
    BY <1>1
  <1>3. more \in Seq(Events) /\ events' = events \o more
    <2>1. Published(version') \in Events
      BY <1>2, PublishedType
    <2>2. events' = Append(events, Published(version'))
      BY DEF Tick
    <2> QED BY <1>1, <2>1, <2>2
  <1>4. /\ Len(more) = 1 /\ more[1].kind = "scene" /\ more[1].version = version'
    BY <1>2 DEF Published
  <1> HIDE DEF more
  <1>5. \A i \in 1..Len(more) :
               /\ more[i].kind = "scene" => more[i].version = version'
               /\ more[i].kind # "done"
    BY <1>4
  <1> QED BY SMTT(30), <1>1, <1>2, <1>3, <1>4, <1>5, PublishingKeeps

LEMMA DrainKeepsScenes ==
    ASSUME RemoteTypes, SceneIInv, DrainOne PROVE SceneIInv'
  <1> DEFINE head == events[1]
  <1>1. /\ version \in Nat /\ epoch \in Nat /\ snaps.version \in Nat /\ snaps.sequence \in Nat
        /\ events \in Seq(Events) /\ Len(events) \in Nat /\ Len(events) >= 1
        /\ \A i \in 1..Len(events) : events[i] \in Events
        /\ head \in Events /\ head = Head(events)
    BY SceneTypes DEF DrainOne
  <1>2. /\ Len(events') = Len(events) - 1
        /\ \A i \in 1..Len(events') : events'[i] = events[i + 1] /\ i + 1 \in 1..Len(events)
    BY <1>1 DEF DrainOne
  <1>3. UNCHANGED <<version, page, epoch>>
    BY DEF DrainOne
  <1>4. /\ head.kind = "scene" => /\ snaps' = [version |-> head.version, sequence |-> snaps.sequence + 1]
                                  /\ history' = history
        /\ head.kind # "scene" => Push(head) /\ snaps' = snaps
    BY <1>1 DEF DrainOne
  <1> HIDE DEF head
  <1>5. QueueInOrder
    BY DEF SceneIInv
  <1>6. \A i \in 1..Len(events) : events[i].kind \in {"scene", "done"} => events[i].version \in Nat
    BY <1>1, EventVersions
  <1>7. head.kind = "scene" => head.version \in Nat /\ snaps.version <= head.version
                               /\ head.version <= version
    BY <1>1, <1>5, <1>6 DEF QueueInOrder, head
  <1>8. /\ snaps'.version \in Nat /\ snaps.version <= snaps'.version /\ snaps'.version <= version
        /\ head.kind = "scene" => snaps'.version = head.version
        /\ \/ snaps' = snaps
           \/ snaps'.sequence = snaps.sequence + 1
    <2>1. CASE head.kind = "scene"
      BY <1>4, <1>7, <2>1
    <2>2. CASE head.kind # "scene"
      BY <1>1, <1>4, <1>5, <2>2 DEF QueueInOrder
    <2> QED BY <2>1, <2>2
  <1>9. QueueInOrder'
    <2>1. ASSUME NEW i \in 1..Len(events'), events'[i].kind = "scene"
          PROVE  /\ snaps'.version <= events'[i].version /\ events'[i].version <= version
                 /\ \A j \in i..Len(events') :
                        events'[j].kind = "scene" => events'[i].version <= events'[j].version
      <3>1. events'[i] = events[i + 1] /\ i + 1 \in 1..Len(events) /\ events[i + 1].kind = "scene"
        BY <1>2, <2>1
      <3>2. snaps.version <= events[i + 1].version /\ events[i + 1].version <= version
        BY <1>5, <3>1 DEF QueueInOrder
      <3>3. snaps'.version <= events[i + 1].version
        <4>1. CASE head.kind = "scene"
          <5>1. 1 \in 1..Len(events) /\ i + 1 \in 1..Len(events)
            BY <1>1, <3>1
          <5>2. head.version <= events[i + 1].version
            BY <1>5, <3>1, <4>1, <5>1 DEF QueueInOrder, head
          <5> QED BY <1>8, <4>1, <5>2
        <4>2. CASE head.kind # "scene"
          BY <1>4, <3>2, <4>2
        <4> QED BY <4>1, <4>2
      <3>4. ASSUME NEW j \in i..Len(events'), events'[j].kind = "scene"
            PROVE  events'[i].version <= events'[j].version
        <4>1. j \in 1..Len(events') /\ j + 1 \in (i + 1)..Len(events)
          BY <1>1, <1>2, <3>1
        <4>2. events'[j] = events[j + 1]
          BY <1>2, <4>1
        <4> QED BY <1>5, <3>1, <3>4, <4>1, <4>2 DEF QueueInOrder
      <3> QED BY <3>1, <3>2, <3>3, <3>4
    <2>2. \A j \in 1..Len(events) : j = 1 \/ (j - 1 \in 1..Len(events') /\ events'[j - 1] = events[j])
      <3> SUFFICES ASSUME NEW j \in 1..Len(events), j # 1
                   PROVE  j - 1 \in 1..Len(events') /\ events'[j - 1] = events[j]
        OBVIOUS
      <3>1. j - 1 \in 1..Len(events') /\ (j - 1) + 1 = j
        BY <1>1, <1>2
      <3> QED BY <1>2, <3>1
    <2>3. ASSUME NEW i \in 1..Len(events'), events'[i].kind = "done"
          PROVE  \/ events'[i].version <= snaps'.version
                 \/ \E j \in 1..(i - 1) :
                        events'[j].kind = "scene" /\ events'[i].version <= events'[j].version
      <3>1. events'[i] = events[i + 1] /\ i + 1 \in 1..Len(events) /\ events[i + 1].kind = "done"
        BY <1>2, <2>3
      <3>2. events[i + 1].version \in Nat
        BY <1>6, <3>1
      <3>3. CASE events[i + 1].version <= snaps.version
        BY <1>1, <1>8, <3>1, <3>2, <3>3
      <3>4. ASSUME NEW j \in 1..i, events[j].kind = "scene", events[i + 1].version <= events[j].version
            PROVE  \/ events'[i].version <= snaps'.version
                   \/ \E n \in 1..(i - 1) :
                          events'[n].kind = "scene" /\ events'[i].version <= events'[n].version
        <4>1. CASE j = 1
          BY <1>8, <3>1, <3>4, <4>1 DEF head
        <4>2. CASE j # 1
          <5>1. j - 1 \in 1..(i - 1) /\ j \in 1..Len(events)
            BY <1>1, <3>1, <4>2
          <5> QED BY <2>2, <3>1, <3>4, <4>2, <5>1
        <4> QED BY <4>1, <4>2
      <3>5. (i + 1) - 1 = i
        BY <1>1
      <3> QED BY <1>5, <3>1, <3>3, <3>4, <3>5 DEF QueueInOrder
    <2>4. \/ version <= snaps'.version
          \/ \E j \in 1..Len(events') : events'[j].kind = "scene" /\ version <= events'[j].version
      <3>1. CASE version <= snaps.version
        BY <1>1, <1>8, <3>1
      <3>2. ASSUME NEW j \in 1..Len(events), events[j].kind = "scene", version <= events[j].version
            PROVE  \/ version <= snaps'.version
                   \/ \E n \in 1..Len(events') : events'[n].kind = "scene" /\ version <= events'[n].version
        <4>1. CASE j = 1
          BY <1>8, <3>2, <4>1 DEF head
        <4>2. CASE j # 1
          BY <2>2, <3>2, <4>2
        <4> QED BY <4>1, <4>2
      <3> QED BY <1>5, <3>1, <3>2 DEF QueueInOrder
    <2> QED BY <1>3, <1>8, <2>1, <2>3, <2>4 DEF QueueInOrder
  <1>10. ScenesInOrder'
    <2>1. \A v, n \in Nat :
            /\ n <= snaps.sequence /\ v <= snaps.version /\ (n = snaps.sequence => v = snaps.version)
            => /\ n <= snaps'.sequence /\ v <= snaps'.version
               /\ n = snaps'.sequence => v = snaps'.version
      <3>1. CASE snaps' = snaps
        BY <3>1
      <3>2. CASE snaps'.sequence = snaps.sequence + 1
        BY <1>1, <1>8, <3>2
      <3> QED BY <1>8, <3>1, <3>2
    <2>2. \A p \in Pages :
            /\ page[p].shown.version \in Nat /\ page[p].shown.sequence \in Nat
            /\ \A i \in Slots : page[p].fetch[i].state = "answered" =>
                   page[p].fetch[i].version \in Nat /\ page[p].fetch[i].sequence \in Nat
      BY SceneTypes, FetchTypes
    <2>3. ASSUME NEW p \in Pages
          PROVE  /\ page[p].shown.epoch = epoch => Past(page[p].shown)'
                 /\ \A i \in Slots : page[p].fetch[i].state = "answered" => Past(page[p].fetch[i])'
      BY <1>3, <2>1, <2>2 DEF SceneIInv, ScenesInOrder, Past
    <2> QED BY <1>3, <2>3 DEF SceneIInv, ScenesInOrder, InOrder
  <1>11. CompletionsCovered'
    <2>1. ASSUME NEW n \in 1..Len(history'), history'[n].kind = "done"
          PROVE  history'[n].version <= snaps'.version
      <3>1. /\ history \in Seq(Events) /\ Len(history) \in Nat
            /\ \A m \in 1..Len(history) : history[m] \in Events
        BY DEF RemoteTypes, WorldTypes
      <3>2. ASSUME n \in 1..Len(history), history'[n] = history[n]
            PROVE  history'[n].version <= snaps'.version
        <4>1. history[n].version \in Nat /\ history[n].version <= snaps.version
          BY <2>1, <3>1, <3>2, EventVersions DEF SceneIInv, CompletionsCovered
        <4> QED BY <1>1, <1>8, <3>2, <4>1
      <3>3. CASE head.kind = "scene"
        BY <1>4, <2>1, <3>2, <3>3
      <3>4. CASE head.kind # "scene"
        <4>1. /\ Len(history') = Len(history) + 1 /\ history'[Len(history')] = head
              /\ \A m \in 1..Len(history) : history'[m] = history[m]
          BY <1>1, <1>4, <3>4, PushTypes
        <4>2. CASE n = Len(history')
          <5>1. head.kind = "done" /\ history'[n] = head
            BY <2>1, <4>1, <4>2
          <5>2. 1 \in 1..Len(events) /\ ~(\E j \in 1..(1 - 1) : TRUE)
            BY <1>1
          <5>3. head.version <= snaps.version
            BY <1>5, <5>1, <5>2 DEF QueueInOrder, head
          <5> QED BY <1>4, <3>4, <5>1, <5>3
        <4>3. CASE n # Len(history')
          <5>1. n \in 1..Len(history)
            BY <3>1, <4>1, <4>3
          <5> QED BY <3>2, <4>1, <5>1
        <4> QED BY <4>2, <4>3
      <3> QED BY <3>3, <3>4
    <2>2. \A p \in Pages :
            /\ page[p].answered \in Nat
            /\ \A i \in Slots : page[p].fetch[i].state = "sent" => page[p].fetch[i].owed \in Nat
      BY SceneTypes, FetchTypes
    <2>3. \A n \in Nat : n <= snaps.version => n <= snaps'.version
      BY <1>1, <1>8
    <2> QED BY <1>3, <2>1, <2>2, <2>3 DEF SceneIInv, CompletionsCovered
  <1> QED BY <1>9, <1>10, <1>11 DEF SceneIInv

(* A page whose scene or whose requests for it change. *)
LEMMA SceneStep ==
    ASSUME RemoteTypes, SceneIInv, NEW p \in Pages, NEW i \in Slots, NEW fetch, NEW shown,
           page' = [page EXCEPT ![p] = [page[p] EXCEPT !.fetch[i] = fetch, !.shown = shown]],
           UNCHANGED <<version, events, snaps, epoch, history>>,
           shown.epoch <= epoch,
           shown.epoch = epoch => Past(shown),
           fetch.state = "sent" => fetch.owed <= snaps.version,
           fetch.state = "answered" => /\ Past(fetch) /\ fetch.owed <= fetch.version
                                       /\ InOrder(fetch, fetch)
                                       /\ shown.epoch = epoch => InOrder(shown, fetch),
           \A j \in Slots \ {i} : page[p].fetch[j].state = "answered" =>
               /\ fetch.state = "answered" =>
                      InOrder(fetch, page[p].fetch[j]) /\ InOrder(page[p].fetch[j], fetch)
               /\ shown.epoch = epoch => InOrder(shown, page[p].fetch[j])
    PROVE  SceneIInv'
  <1>1. page[p] \in PageStates /\ page[p].fetch \in [Slots -> Fetches] /\ page \in [Pages -> PageStates]
    BY SceneTypes DEF RemoteTypes
  <1>2. /\ page'[p].shown = shown /\ page'[p].fetch[i] = fetch
        /\ page'[p].answered = page[p].answered
        /\ \A j \in Slots \ {i} : page'[p].fetch[j] = page[p].fetch[j]
    BY <1>1 DEF PageStates
  <1>3. \A q \in Pages \ {p} : page'[q] = page[q]
    BY <1>1
  <1>4. QueueInOrder'
    BY DEF SceneIInv, QueueInOrder
  <1>5. \A q \in Pages, j \in Slots :
           \/ page'[q].fetch[j] = page[q].fetch[j]
           \/ q = p /\ j = i /\ page'[q].fetch[j] = fetch
    BY <1>2, <1>3
  <1>6. \A q \in Pages : page'[q].answered = page[q].answered
    BY <1>2, <1>3
  <1>7. CompletionsCovered'
    BY <1>5, <1>6 DEF SceneIInv, CompletionsCovered
  <1>8. ScenesInOrder'
    <2>1. ASSUME NEW q \in Pages, q # p
          PROVE  /\ page'[q].shown.epoch <= epoch'
                 /\ page'[q].shown.epoch = epoch' => Past(page[q].shown)'
                 /\ \A j \in Slots : page'[q].fetch[j].state = "answered" =>
                        /\ Past(page[q].fetch[j])'
                        /\ page'[q].shown.epoch = epoch' => InOrder(page'[q].shown, page'[q].fetch[j])
                        /\ \A l \in Slots : page'[q].fetch[l].state = "answered" =>
                               InOrder(page'[q].fetch[j], page'[q].fetch[l])
      <3>1. page'[q] = page[q]
        BY <1>3, <2>1
      <3>2. /\ Past(page[q].shown)' <=> Past(page[q].shown)
            /\ \A j \in Slots : Past(page[q].fetch[j])' <=> Past(page[q].fetch[j])
        BY <3>1 DEF Past
      <3>3. /\ page[q].shown.epoch <= epoch
            /\ page[q].shown.epoch = epoch => Past(page[q].shown)
            /\ \A j \in Slots : page[q].fetch[j].state = "answered" =>
                   /\ Past(page[q].fetch[j])
                   /\ page[q].shown.epoch = epoch => InOrder(page[q].shown, page[q].fetch[j])
                   /\ \A l \in Slots : page[q].fetch[l].state = "answered" =>
                          InOrder(page[q].fetch[j], page[q].fetch[l])
        BY DEF SceneIInv, ScenesInOrder
      <3> QED BY <3>1, <3>2, <3>3
    <2>2. /\ page'[p].shown.epoch <= epoch'
          /\ page'[p].shown.epoch = epoch' => Past(page[p].shown)'
      BY <1>2 DEF Past
    <2>3. ASSUME NEW j \in Slots, page'[p].fetch[j].state = "answered"
          PROVE  /\ Past(page[p].fetch[j])'
                 /\ page'[p].shown.epoch = epoch' => InOrder(page'[p].shown, page'[p].fetch[j])
                 /\ \A l \in Slots : page'[p].fetch[l].state = "answered" =>
                        InOrder(page'[p].fetch[j], page'[p].fetch[l])
      <3>1. CASE j = i
        BY <1>2, <2>3, <3>1 DEF Past
      <3>2. CASE j # i
        BY <1>2, <2>3, <3>2 DEF SceneIInv, ScenesInOrder, Past
      <3> QED BY <3>1, <3>2
    <2> QED BY <2>1, <2>2, <2>3 DEF ScenesInOrder, InOrder
  <1> QED BY <1>4, <1>7, <1>8 DEF SceneIInv

LEMMA AnswerSceneKeepsScenes ==
    ASSUME RemoteTypes, SceneIInv, NEW p \in Pages, NEW i \in Slots, AnswerScene(p, i)
    PROVE  SceneIInv' /\ page'[p].shown = page[p].shown /\ \A q \in Pages \ {p} : page'[q] = page[q]
  <1> DEFINE fetch == [state |-> "answered", owed |-> page[p].fetch[i].owed, epoch |-> epoch,
                       version |-> snaps.version, sequence |-> snaps.sequence]
             shown == page[p].shown
  <1>1. page[p] \in PageStates /\ page \in [Pages -> PageStates]
        /\ snaps.version \in Nat /\ snaps.sequence \in Nat
    BY SceneTypes DEF RemoteTypes
  <1>2. page[p].fetch[i].state = "sent"
    BY DEF AnswerScene
  <1>3. page' = [page EXCEPT ![p] = [page[p] EXCEPT !.fetch[i] = fetch, !.shown = shown]]
    <2>1. [page[p] EXCEPT !.fetch[i] = fetch, !.shown = page[p].shown] = [page[p] EXCEPT !.fetch[i] = fetch]
      BY <1>1 DEF PageStates
    <2>2. page' = [page EXCEPT ![p] = [page[p] EXCEPT !.fetch[i] = fetch]]
      BY DEF AnswerScene
    <2> QED BY <2>1, <2>2
  <1>4. UNCHANGED <<version, events, snaps, epoch, history>>
    BY DEF AnswerScene, log
  <1>5. /\ fetch.state = "answered" /\ fetch.owed = page[p].fetch[i].owed
        /\ fetch.version = snaps.version /\ fetch.sequence = snaps.sequence
    OBVIOUS
  <1>6. /\ shown.epoch <= epoch /\ (shown.epoch = epoch => Past(shown))
        /\ page[p].fetch[i].owed <= snaps.version
        /\ \A j \in Slots : page[p].fetch[j].state = "answered" =>
               /\ Past(page[p].fetch[j])
               /\ shown.epoch = epoch => InOrder(shown, page[p].fetch[j])
    BY <1>2 DEF SceneIInv, ScenesInOrder, CompletionsCovered
  <1>7. shown.version \in Nat /\ shown.sequence \in Nat
        /\ \A j \in Slots : page[p].fetch[j].state = "answered" =>
               page[p].fetch[j].version \in Nat /\ page[p].fetch[j].sequence \in Nat
    BY SceneTypes, FetchTypes
  <1> HIDE DEF fetch, shown
  <1>8. Past(fetch) /\ InOrder(fetch, fetch) /\ fetch.owed <= fetch.version
        /\ (shown.epoch = epoch => InOrder(shown, fetch))
    BY <1>1, <1>5, <1>6, <1>7 DEF Past, InOrder
  <1>9. \A j \in Slots : page[p].fetch[j].state = "answered" =>
            InOrder(fetch, page[p].fetch[j]) /\ InOrder(page[p].fetch[j], fetch)
    BY <1>1, <1>5, <1>6, <1>7 DEF Past, InOrder
  <1>10. SceneIInv'
    BY <1>3, <1>4, <1>5, <1>6, <1>8, <1>9, SceneStep
  <1>11. page'[p].shown = page[p].shown /\ \A q \in Pages \ {p} : page'[q] = page[q]
    BY <1>1, <1>3 DEF PageStates, shown
  <1> QED BY <1>10, <1>11

LEMMA SendFetchKeepsScenes ==
    ASSUME RemoteTypes, SceneIInv, NEW p \in Pages, NEW i \in Slots, SendFetch(p, i)
    PROVE  SceneIInv' /\ page'[p].shown = page[p].shown /\ \A q \in Pages \ {p} : page'[q] = page[q]
  <1> DEFINE fetch == [state |-> "sent", owed |-> page[p].answered]
             shown == page[p].shown
  <1>1. page[p] \in PageStates /\ page \in [Pages -> PageStates]
    BY SceneTypes DEF RemoteTypes
  <1>3. page' = [page EXCEPT ![p] = [page[p] EXCEPT !.fetch[i] = fetch, !.shown = shown]]
    <2>1. [page[p] EXCEPT !.fetch[i] = fetch, !.shown = page[p].shown] = [page[p] EXCEPT !.fetch[i] = fetch]
      BY <1>1 DEF PageStates
    <2>2. page' = [page EXCEPT ![p] = [page[p] EXCEPT !.fetch[i] = fetch]]
      BY DEF SendFetch
    <2> QED BY <2>1, <2>2
  <1>4. UNCHANGED <<version, events, snaps, epoch, history>>
    BY DEF SendFetch, PageUnchanged, log
  <1>5. fetch.state = "sent" /\ fetch.owed = page[p].answered
    OBVIOUS
  <1>6. /\ shown.epoch <= epoch /\ (shown.epoch = epoch => Past(shown))
        /\ page[p].answered <= snaps.version
        /\ \A j \in Slots : page[p].fetch[j].state = "answered" /\ shown.epoch = epoch =>
               InOrder(shown, page[p].fetch[j])
    BY DEF SceneIInv, ScenesInOrder, CompletionsCovered
  <1> HIDE DEF fetch, shown
  <1>7. SceneIInv'
    BY <1>3, <1>4, <1>5, <1>6, SceneStep
  <1>8. page'[p].shown = page[p].shown /\ \A q \in Pages \ {p} : page'[q] = page[q]
    BY <1>1, <1>3 DEF PageStates, shown
  <1> QED BY <1>7, <1>8

LEMMA HandleFetchKeepsScenes ==
    ASSUME RemoteTypes, SceneIInv, NEW p \in Pages, NEW i \in Slots, HandleFetch(p, i)
    PROVE  /\ SceneIInv' /\ \A q \in Pages \ {p} : page'[q] = page[q]
           /\ page[p].shown.epoch = epoch => page'[p].shown.version >= page[p].shown.version
  <1> DEFINE scene == page[p].fetch[i]
             kept == page[p].shown
             shown == IF scene.sequence < kept.sequence THEN kept
                      ELSE [version |-> scene.version, sequence |-> scene.sequence,
                            epoch |-> epoch]
  <1>1. page[p] \in PageStates /\ page \in [Pages -> PageStates] /\ epoch \in Nat
    BY SceneTypes DEF RemoteTypes
  <1>2. scene.state = "answered"
    BY DEF HandleFetch
  <1>3. page' = [page EXCEPT ![p] = [page[p] EXCEPT !.fetch[i] = Idle, !.shown = shown]]
    BY DEF HandleFetch
  <1>4. UNCHANGED <<version, events, snaps, epoch, history>>
    BY DEF HandleFetch, PageUnchanged, log
  <1>5. /\ kept.epoch <= epoch /\ (kept.epoch = epoch => Past(kept))
        /\ Past(scene) /\ (kept.epoch = epoch => InOrder(kept, scene))
        /\ \A j \in Slots : page[p].fetch[j].state = "answered" =>
               /\ kept.epoch = epoch => InOrder(kept, page[p].fetch[j])
               /\ InOrder(scene, page[p].fetch[j])
    BY <1>2 DEF SceneIInv, ScenesInOrder
  <1>6. /\ kept.version \in Nat /\ kept.sequence \in Nat /\ kept.epoch \in Nat
        /\ scene.version \in Nat /\ scene.sequence \in Nat
    BY <1>2, SceneTypes, FetchTypes
  <1>7. Idle.state = "idle"
    BY DEF Idle
  <1>8. \/ shown = kept
        \/ /\ shown.version = scene.version /\ shown.sequence = scene.sequence
           /\ shown.epoch = epoch /\ ~(scene.sequence < kept.sequence)
    OBVIOUS
  <1> HIDE DEF shown, scene, kept
  <1>9. /\ shown.epoch <= epoch /\ (shown.epoch = epoch => Past(shown))
        /\ \A j \in Slots : page[p].fetch[j].state = "answered" /\ shown.epoch = epoch =>
               InOrder(shown, page[p].fetch[j])
    BY <1>1, <1>5, <1>6, <1>8 DEF Past, InOrder
  <1>10. SceneIInv'
    BY <1>3, <1>4, <1>7, <1>9, SceneStep
  <1>11. page'[p].shown = shown /\ \A q \in Pages \ {p} : page'[q] = page[q]
    BY <1>1, <1>3 DEF PageStates
  <1>12. kept.epoch = epoch => shown.version >= kept.version
    BY <1>5, <1>6, <1>8 DEF InOrder
  <1> QED BY <1>10, <1>11, <1>12 DEF kept

LEMMA WithoutPageScenesStay ==
    ASSUME \/ ServeExit \/ AnswerCommand \/ StopCall \/ StopStep \/ UNCHANGED vars
           \/ \E k \in Conns : ConnStep(k)
    PROVE  ScenesAsBefore
  BY DEF ServeExit, AnswerCommand, StopCall, StopStep, JoinServe, JoinAccept, TakeHandles,
         JoinHandles, vars, ConnStep, ConnectPlain, SpawnStream, RecordStream, ProxyHttp, EndPump, ReadFrame, PushPending, EndStream,
         ScenesAsBefore, log

LEMMA PageScenesStay ==
    ASSUME DeliveryIInv, NEW p \in Pages,
           \/ AnswerPoll(p) \/ \E k \in Conns : Connect(p, k)
           \/ Open(p) \/ Receive(p) \/ Closed(p) \/ SendFrame(p) \/ SendPoll(p) \/ HandlePoll(p)
    PROVE  ScenesAsBefore
  <1>1. /\ RemoteTypes /\ page[p] \in PageStates /\ page \in [Pages -> PageStates]
        /\ UNCHANGED <<version, events, snaps, epoch, history>>
    BY SceneTypes DEF DeliveryIInv, RemoteTypes, AnswerPoll, Connect, Open, Receive, Closed, SendFrame,
       SendPoll, HandlePoll, PageUnchanged, log
  <1>2. CASE SendFrame(p)
    BY <1>1, <1>2 DEF SendFrame, ScenesAsBefore
  <1>3. CASE \/ AnswerPoll(p) \/ (\E k \in Conns : Connect(p, k))
             \/ Open(p) \/ Closed(p) \/ SendPoll(p)
    <2>1. /\ page'[p].shown = page[p].shown /\ page'[p].fetch = page[p].fetch
          /\ page'[p].answered = page[p].answered
      <3>1. CASE AnswerPoll(p)
        <4> DEFINE poll == [state |-> "answered", batch |-> After(page[p].poll.cursor), epoch |-> epoch]
        <4>1. page' = [page EXCEPT ![p] = [page[p] EXCEPT !.poll = poll]]
          BY <3>1 DEF AnswerPoll
        <4> HIDE DEF poll
        <4> QED BY <1>1, <4>1 DEF PageStates
      <3>2. ASSUME NEW k \in Conns, Connect(p, k)
            PROVE  /\ page'[p].shown = page[p].shown /\ page'[p].fetch = page[p].fetch
                   /\ page'[p].answered = page[p].answered
        BY <1>1, <3>2 DEF Connect, PageStates
      <3>3. CASE Open(p) \/ Closed(p) \/ SendPoll(p)
        BY <1>1, <3>3 DEF Open, Closed, SendPoll, PageStates
      <3> QED BY <1>3, <3>1, <3>2, <3>3
    <2>2. \A q \in Pages \ {p} : page'[q] = page[q]
      BY <1>1, <1>3 DEF AnswerPoll, Connect, Open, Closed, SendPoll
    <2> QED BY <1>1, <2>1, <2>2 DEF ScenesAsBefore
  <1>4. ASSUME NEW batch \in Batches, Sound(batch, Len(history), first), NEW state \in PageStates,
               state.shown = Handled(page[p], batch).shown,
               state.fetch = Handled(page[p], batch).fetch,
               state.answered = Handled(page[p], batch).answered,
               page' = [page EXCEPT ![p] = state]
        PROVE  ScenesAsBefore
    <2>1. /\ state.shown = page[p].shown /\ state.fetch = page[p].fetch
          /\ \/ state.answered = page[p].answered
             \/ \E n \in 1..Len(history) :
                   history[n].kind = "done" /\ state.answered = history[n].version
      BY <1>1, <1>4, HandledPage
    <2>2. page'[p] = state /\ \A q \in Pages \ {p} : page'[q] = page[q]
      BY <1>1, <1>4
    <2> QED BY <1>1, <2>1, <2>2 DEF ScenesAsBefore
  <1>5. CASE Receive(p)
    <2>1. PICK k \in Conns : k = page[p].socket
      BY <1>5, FieldTypes DEF Receive, DeliveryIInv, SocketsOwned, Conns
    <2> DEFINE batch == Head(conn[k].wire)
               state == Handled(page[p], batch)
    <2>2. conn[k].wire \in Seq(Batches) /\ conn[k].wire # <<>>
      BY <1>1, <1>5, <2>1, ConnTypes DEF Receive
    <2>3. batch \in Batches /\ batch = conn[k].wire[1] /\ 1 \in 1..Len(conn[k].wire)
      BY <2>2
    <2>4. Sound(batch, Len(history), first)
      BY <2>3 DEF DeliveryIInv, BatchesSound
    <2>5. page' = [page EXCEPT ![p] = state]
      BY <1>5, <2>1 DEF Receive
    <2> HIDE DEF batch
    <2>6. state \in PageStates
      BY <1>1, <2>3, <2>4, HandledPage
    <2> QED BY <1>4, <2>3, <2>4, <2>5, <2>6
  <1>6. CASE HandlePoll(p)
    <2> DEFINE batch == page[p].poll.batch
               after == Handled(page[p], batch)
               state == [after EXCEPT !.poll = Idle]
    <2>1. batch \in Batches /\ Sound(batch, Len(history), first)
      BY <1>1, <1>6, FieldTypes, PollTypes DEF DeliveryIInv, HandlePoll, BatchesSound
    <2>2. page' = [page EXCEPT ![p] = state]
      BY <1>6 DEF HandlePoll
    <2> HIDE DEF batch
    <2>3. after \in PageStates
      BY <1>1, <2>1, HandledPage
    <2>4. state \in PageStates
      BY <2>3, IdleTypes, SetPoll
    <2>5. state.shown = after.shown /\ state.fetch = after.fetch /\ state.answered = after.answered
      BY <2>3 DEF PageStates
    <2> HIDE DEF state
    <2> QED BY <1>4, <2>1, <2>2, <2>4, <2>5
  <1> QED BY <1>2, <1>3, <1>5, <1>6

LEMMA RestartKeepsScenes == ASSUME RemoteTypes, SceneIInv, Restart PROVE SceneIInv' /\ epoch' # epoch
  <1>1. /\ epoch \in Nat /\ epoch' = epoch + 1 /\ version' = 1 /\ events' = <<Published(1)>>
        /\ history' = <<>> /\ snaps' = [version |-> 0, sequence |-> 0]
    BY SceneTypes DEF Restart
  <1>2. page' = [p \in Pages |-> FreshPage(page[p].cursor, page[p].shown)]
    BY DEF Restart, FreshPage
  <1>3. ASSUME NEW p \in Pages
        PROVE  /\ page'[p].fetch = [i \in Slots |-> Idle] /\ page'[p].answered = 0
               /\ page'[p].shown = page[p].shown
    BY SMTT(30), <1>2, FreshPageType, SceneTypes DEF PageStates
  <1>4. ASSUME NEW p \in Pages
        PROVE  page'[p].shown.epoch <= epoch' /\ page'[p].shown.epoch # epoch'
    <2>1. page[p].shown.epoch \in Nat /\ page[p].shown.epoch <= epoch
      BY SceneTypes DEF SceneIInv, ScenesInOrder
    <2> QED BY <1>1, <1>3, <2>1
  <1>5. Len(events') = 1 /\ events'[1].kind = "scene" /\ events'[1].version = 1 /\ Len(history') = 0
    BY <1>1 DEF Published
  <1>6. QueueInOrder'
    BY <1>1, <1>5 DEF QueueInOrder
  <1>7. ScenesInOrder' /\ CompletionsCovered'
    BY <1>1, <1>3, <1>4, <1>5 DEF ScenesInOrder, CompletionsCovered, Idle
  <1> QED BY <1>1, <1>6, <1>7 DEF SceneIInv

LEMMA ScenesInitially == RemoteInit => SceneIInv
  <1> SUFFICES ASSUME RemoteInit PROVE SceneIInv
    OBVIOUS
  <1>1. /\ version = 1 /\ Len(events) = 1 /\ events[1].kind = "scene" /\ events[1].version = 1
        /\ Len(history) = 0 /\ snaps.version = 0 /\ snaps.sequence = 0 /\ epoch = 0
    BY DEF RemoteInit, Published
  <1>2. \A p \in Pages : /\ page[p].answered = 0 /\ page[p].fetch = [i \in Slots |-> Idle]
                         /\ page[p].shown = [version |-> 0, sequence |-> 0, epoch |-> 0]
    BY DEF RemoteInit, NewPage
  <1>3. QueueInOrder
    BY <1>1 DEF QueueInOrder
  <1>4. ScenesInOrder /\ CompletionsCovered
    BY <1>1, <1>2 DEF ScenesInOrder, CompletionsCovered, Past, Idle
  <1> QED BY <1>3, <1>4 DEF SceneIInv

(* What the pages show only ever gets newer, while one engine runs. *)
ShownOnlyNewer ==
    \A p \in Pages :
        page[p].shown.epoch = epoch /\ epoch' = epoch
            => page'[p].shown.version >= page[p].shown.version

LEMMA SameShownIsNewer ==
    ASSUME RemoteTypes, \A p \in Pages : page'[p].shown = page[p].shown
    PROVE  ShownOnlyNewer
  <1>1. \A p \in Pages : page[p].shown.version \in Nat
    BY SceneTypes
  <1> QED BY <1>1 DEF ShownOnlyNewer

LEMMA SceneStepKeeps ==
    DeliveryIInv /\ SceneIInv /\ [RemoteNext]_vars => SceneIInv' /\ ShownOnlyNewer
  <1> SUFFICES ASSUME DeliveryIInv, SceneIInv, [RemoteNext]_vars
               PROVE  SceneIInv' /\ ShownOnlyNewer
    OBVIOUS
  <1>1. RemoteTypes
    BY DEF DeliveryIInv
  <1>2. ASSUME ScenesAsBefore PROVE SceneIInv' /\ ShownOnlyNewer
    BY <1>1, <1>2, ScenesAsBeforeKeep, SameShownIsNewer DEF ScenesAsBefore
  <1>3. CASE \/ UNCHANGED vars \/ ServeExit \/ AnswerCommand \/ StopCall \/ StopStep
             \/ \E k \in Conns : ConnStep(k)
    BY <1>2, <1>3, WithoutPageScenesStay
  <1>4. CASE WorldStep \/ DrainOne
    <2>1. page' = page
      BY <1>4 DEF WorldStep, RunCommand, Tick, DrainOne
    <2>2. SceneIInv'
      BY <1>1, <1>4, RunCommandPublishes, TickPublishes, DrainKeepsScenes DEF WorldStep
    <2> QED BY <1>1, <2>1, <2>2, SameShownIsNewer
  <1>5. ASSUME NEW p \in Pages, NEW i \in Slots, AnswerScene(p, i) \/ SendFetch(p, i)
        PROVE  SceneIInv' /\ ShownOnlyNewer
    <2>1. /\ SceneIInv' /\ page'[p].shown = page[p].shown
          /\ \A q \in Pages \ {p} : page'[q] = page[q]
      BY <1>1, <1>5, AnswerSceneKeepsScenes, SendFetchKeepsScenes
    <2>2. \A q \in Pages : page'[q].shown = page[q].shown
      BY <2>1
    <2> QED BY <1>1, <2>1, <2>2, SameShownIsNewer
  <1>6. ASSUME NEW p \in Pages, NEW i \in Slots, HandleFetch(p, i)
        PROVE  SceneIInv' /\ ShownOnlyNewer
    <2>1. /\ SceneIInv' /\ \A q \in Pages \ {p} : page'[q] = page[q]
          /\ page[p].shown.epoch = epoch => page'[p].shown.version >= page[p].shown.version
      BY <1>1, <1>6, HandleFetchKeepsScenes
    <2>2. \A q \in Pages : page[q].shown.version \in Nat
      BY <1>1, SceneTypes
    <2> QED BY <2>1, <2>2 DEF ShownOnlyNewer
  <1>7. CASE ServeStep
    <2>1. ASSUME NEW p \in Pages, AnswerPoll(p) PROVE SceneIInv' /\ ShownOnlyNewer
      BY <1>2, <2>1, PageScenesStay
    <2> QED BY <1>3, <1>4, <1>5, <1>7, <2>1 DEF ServeStep
  <1>8. ASSUME NEW p \in Pages, PageStep(p) PROVE SceneIInv' /\ ShownOnlyNewer
    <2>1. CASE \/ \E k \in Conns : Connect(p, k)
               \/ Open(p) \/ Receive(p) \/ Closed(p) \/ SendFrame(p) \/ SendPoll(p) \/ HandlePoll(p)
      BY <1>2, <2>1, PageScenesStay
    <2> QED BY <1>5, <1>6, <1>8, <2>1 DEF PageStep
  <1>9. CASE Restart
    BY <1>1, <1>9, RestartKeepsScenes DEF ShownOnlyNewer
  <1> QED BY <1>3, <1>4, <1>7, <1>8, <1>9 DEF RemoteNext

LEMMA SceneInvariant == RemoteSpec => []SceneIInv
  <1> QED BY ScenesInitially, SceneStepKeeps, DeliveryInvariant, PTL DEF RemoteSpec

(* A page that was told a command is done gets a scene with its effect     *)
(* when it asks: the world publishes the change before the completion, and *)
(* the serve thread takes both in that order.                              *)
THEOREM DoneIsVisible == RemoteSpec => []AnsweredMeansVisible
  <1>1. RemoteTypes /\ SceneIInv => AnsweredMeansVisible
    <2> SUFFICES ASSUME RemoteTypes, SceneIInv, NEW p \in Pages, NEW i \in Slots,
                        page[p].fetch[i].state = "answered"
                 PROVE  page[p].fetch[i].version >= page[p].fetch[i].owed
      BY DEF AnsweredMeansVisible
    <2>1. page[p].fetch[i].version \in Nat /\ page[p].fetch[i].owed \in Nat
      BY SceneTypes, FetchTypes
    <2>2. page[p].fetch[i].owed <= page[p].fetch[i].version
      BY DEF SceneIInv, CompletionsCovered
    <2> QED BY <2>1, <2>2
  <1>2. DeliveryIInv => RemoteTypes
    BY DEF DeliveryIInv
  <1> QED BY <1>1, <1>2, DeliveryInvariant, SceneInvariant, PTL

(* Answers may overtake each other on their way to a page, and never take  *)
(* back what it shows, while one engine runs.                              *)
THEOREM ScenesOnlyGetNewer == RemoteSpec => SceneNeverGoesBack
  <1>1. DeliveryIInv /\ SceneIInv /\ [RemoteNext]_vars => [ShownOnlyNewer]_vars
    BY SceneStepKeeps
  <1> QED BY <1>1, DeliveryInvariant, SceneInvariant, PTL
      DEF RemoteSpec, SceneNeverGoesBack, ShownOnlyNewer
================================================================================
