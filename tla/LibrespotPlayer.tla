--------------------------- MODULE LibrespotPlayer ---------------------------
(***************************************************************************)
(* The player thread with the librespot engine, which is the default:      *)
(* player/mod.rs with librespot set, the event forwarder of                *)
(* player/librespot.rs, and the engine thread of librespot-playback-patch. *)
(*                                                                         *)
(* The player sends commands to the engine; the engine's events go to the  *)
(* forwarder, which turns them into player events and appends them to the  *)
(* player's inbox.  The user interface sees an event when the player takes *)
(* it from the inbox, just before the player handles it.                   *)
(*                                                                         *)
(* Before it loads a track the player stops the one that plays.  The event *)
(* that reports this stop must not be taken for a stop the user asked for, *)
(* so a flag, "transitioning", tells the forwarder to drop it.  Each Stop  *)
(* carries its reason here, which the code does not keep.                  *)
(***************************************************************************)
EXTENDS QueueOps

CONSTANTS
  Local,        \* items that have no Spotify URI
  Lists,        \* the playlists a command may carry
  Behaviors,    \* the queue behaviours the user selects
  Queued,       \* the items the user queues
  MaxCommands,  \* bound: commands of the user in a behaviour
  MaxEvents     \* bound: events on their way when progress is reported

LibrespotAssumption ==
  /\ Local \subseteq Item /\ Queued \subseteq Item /\ Lists \subseteq Seq(Item)
  /\ Behaviors \subseteq Behavior /\ MaxCommands \in Nat /\ MaxEvents \in Nat

VARIABLES
  queue,            \* Player::queue
  state,            \* Player::state
  inbox,            \* Player::receiver: what the forwarder and the player sent
  transitioning,    \* LibrespotBackend::transitioning
  current_item,     \* the forwarder's current_item
  engine,           \* PlayerInternal::state
  engine_commands,  \* PlayerInternal::commands
  engine_events,    \* the forwarder's event channel
  view,             \* what the user interface shows
  stop_requested,   \* was Stop the last command of the user?
  alive,            \* FALSE once the player thread has panicked
  commands,         \* commands handled so far
  hasty             \* does a command, the end of a track or a failed load
                    \* come while an earlier one takes effect?  Chosen once

core == <<queue, state, alive>>
user == <<stop_requested, commands, hasty>>
vars == <<queue, state, inbox, transitioning, current_item, engine,
          engine_commands, engine_events, view, stop_requested, alive, commands, hasty>>

Reasons == {"transition", "stop", "none"}
Msg(kind, item, why) == [kind |-> kind, item |-> item, why |-> why]
Note(kind, item) == Msg(kind, item, "none")

Init ==
  /\ queue = EmptyQueue
  /\ state = [st |-> "Stopped", item |-> NoItem]
  /\ inbox = <<>> /\ engine_commands = <<>> /\ engine_events = <<>>
  /\ transitioning = FALSE /\ current_item = NoItem
  /\ engine = [st |-> "Stopped", item |-> NoItem, play |-> FALSE]
  /\ view = [st |-> "Stopped", item |-> NoItem]
  /\ stop_requested = FALSE /\ alive = TRUE /\ commands = 0
  /\ hasty \in BOOLEAN

Idle == inbox = <<>> /\ engine_commands = <<>> /\ engine_events = <<>>

-----------------------------------------------------------------------------
(* The player's own steps.                                                 *)

\* load(): an item without a URI is logged and dropped.
LoadOf(item) == IF item \in Local THEN <<>> ELSE <<Note("Load", item)>>

\* stop_for_transition(): suppression requested; before it a mutant.
SuppressNothing == UNCHANGED transitioning
Suppress == transitioning' = TRUE

\* load_and_play_librespot(item)
LoadAndPlay(item) ==
  /\ Suppress
  /\ engine_commands' =
       engine_commands \o <<Msg("Stop", NoItem, "transition")>> \o LoadOf(item)

\* The queue after stop(); before it a mutant.
StoppedKeepingQueue(q) == q
Stopped(q) == Clear(q)

\* stop()
StopEngine(q) ==
  /\ queue' = Stopped(q)
  /\ engine_commands' = Append(engine_commands, Msg("Stop", NoItem, "stop"))
  /\ UNCHANGED transitioning

\* Load the queue's current item, or stop when there is none.
PlayCurrent(q) ==
  IF Current(q) = NoItem THEN StopEngine(q)
  ELSE queue' = q /\ LoadAndPlay(Current(q))

\* The same after a queue operation, which panics when it has no result.
PlayOneOf(results) ==
  IF results = {}
    THEN /\ alive' = FALSE
         /\ UNCHANGED <<queue, transitioning, engine_commands>>
    ELSE /\ \E q \in results : PlayCurrent(q)
         /\ UNCHANGED alive

\* What the user interface makes of a player event.
Shown(m) ==
  CASE m.kind \in {"Loading", "Playing"} -> [st |-> m.kind, item |-> m.item]
    [] m.kind = "Pausing"  -> [view EXCEPT !.st = "Paused"]
    [] m.kind = "Resuming" -> [view EXCEPT !.st = "Playing"]
    [] m.kind = "Stopped"  -> [st |-> "Stopped", item |-> NoItem]
    [] OTHER -> view

\* The player takes the first event of its inbox.
Event == Head(inbox)
Take(kinds) ==
  /\ alive /\ inbox # <<>> /\ Event.kind \in kinds
  /\ inbox' = Tail(inbox)
  /\ view' = Shown(Event)
  /\ UNCHANGED <<current_item, engine, engine_events, user>>

\* handle(): events that carry a track; Loading is not looked at.
HandleReport ==
  /\ Take({"Loading", "Playing", "Resuming", "Pausing", "Position"})
  /\ state' = CASE Event.kind = "Loading" -> state
                [] Event.kind = "Pausing" -> [st |-> "Paused", item |-> Event.item]
                [] OTHER -> [st |-> "Playing", item |-> Event.item]
  /\ UNCHANGED <<queue, alive, transitioning, engine_commands>>

\* handle(Stopped)
HandleStopped ==
  /\ Take({"Stopped"})
  /\ state' = [st |-> "Stopped", item |-> NoItem]
  /\ queue' = Clear(queue)
  /\ UNCHANGED <<alive, transitioning, engine_commands>>

\* handle_end_of_track_librespot()
HandleEndOfTrack ==
  /\ Take({"EndOfTrack"})
  /\ PlayOneOf(SkipToFollowing(queue))
  /\ UNCHANGED state

-----------------------------------------------------------------------------
(* handle_command_librespot(): the commands the user interface sends.      *)

Accept ==
  /\ alive /\ commands < MaxCommands /\ (hasty \/ Idle)
  /\ commands' = commands + 1
  /\ UNCHANGED <<current_item, engine, engine_events, view, hasty>>

Command == Accept /\ stop_requested' = FALSE

LoadQueue ==
  /\ Command
  /\ \E list \in Lists : \E p \in 1..(IF list = <<>> THEN 1 ELSE Len(list)) :
       PlayOneOf(Fill(queue, list, p))
  /\ UNCHANGED <<state, inbox>>

Previous ==
  /\ Command /\ PlayOneOf({SkipToPrevious(queue)})
  /\ UNCHANGED <<state, inbox>>

SkipNext ==
  /\ Command /\ PlayOneOf(SkipToNext(queue))
  /\ UNCHANGED <<state, inbox>>

Stop ==
  /\ Accept /\ stop_requested' = TRUE
  /\ StopEngine(queue)
  /\ UNCHANGED <<state, inbox, alive>>

ToEngine(m) ==
  /\ engine_commands' = Append(engine_commands, m)
  /\ UNCHANGED <<queue, transitioning, alive>>

\* pause() and resume(): an event of their own when they change the state,
\* ahead of the one the engine will send.
Switch(from, to, order, event) ==
  /\ ToEngine(Note(order, NoItem))
  /\ IF state.st = from
       THEN /\ state' = [state EXCEPT !.st = to]
            /\ inbox' = Append(inbox, Note(event, state.item))
       ELSE UNCHANGED <<state, inbox>>

SwitchOff == Switch("Playing", "Paused", "Pause", "Pausing")
SwitchOn == Switch("Paused", "Playing", "Play", "Resuming")

Pause == Command /\ SwitchOff
Resume == Command /\ SwitchOn

PauseOrResume ==
  /\ Command
  /\ \/ state.st = "Playing" /\ SwitchOff
     \/ state.st = "Paused" /\ SwitchOn
     \/ state.st = "Stopped" /\ UNCHANGED <<core, inbox, transitioning, engine_commands>>

\* seek(): offered while a track is shown.
Seek ==
  /\ Command /\ view.item # NoItem
  /\ ToEngine(Note("Seek", NoItem))
  /\ UNCHANGED <<state, inbox>>

\* The commands that only change the queue.  A list that replaces the queue
\* holds the track that is shown.
EditQueue ==
  /\ Command
  /\ \/ \E item \in Queued : queue' \in {Add(queue, item), AddNext(queue, item)}
     \/ \E list \in Lists : /\ view.item = NoItem \/ view.item \in ToSet(list)
                            /\ queue' \in Replace(queue, list)
     \/ \E behavior \in Behaviors : queue' \in SetBehaviour(queue, behavior)
  /\ UNCHANGED <<state, inbox, transitioning, engine_commands, alive>>

-----------------------------------------------------------------------------
(* The event forwarder.                                                    *)

Forwarded(m, item) ==
  /\ inbox' = Append(inbox, m)
  /\ current_item' = item
  /\ UNCHANGED transitioning

\* The flag after a Loading event; before it a mutant.
ClearedLater(flag) == flag
Cleared(flag) == FALSE

ForwardLoading(m) ==
  /\ m.kind = "Loading"
  /\ transitioning' = Cleared(transitioning)
  /\ inbox' = Append(inbox, m)
  /\ UNCHANGED current_item

ForwardPlaying(m) ==
  /\ m.kind = "Playing"
  /\ Forwarded(IF current_item = m.item THEN Note("Resuming", m.item) ELSE m, m.item)

\* Mutant of ForwardPaused: the engine's event is passed on as it is.
ForwardPausedRaw(m) == m.kind = "Paused" /\ Forwarded(m, current_item)

ForwardPaused(m) ==
  m.kind = "Paused" /\ Forwarded(Note("Pausing", m.item), current_item)

ForwardPlain(m) ==
  m.kind \in {"Position", "EndOfTrack"} /\ Forwarded(m, current_item)

ForwardStopped(m) ==
  /\ m.kind = "Stopped"
  /\ IF transitioning
       THEN transitioning' = FALSE /\ UNCHANGED <<inbox, current_item>>
       ELSE Forwarded(m, NoItem)

ForwardUnavailable(m) ==
  m.kind = "Unavailable" /\ Forwarded(Note("Stopped", NoItem), NoItem)

Forward ==
  /\ engine_events # <<>>
  /\ engine_events' = Tail(engine_events)
  /\ LET m == Head(engine_events)
     IN \/ ForwardLoading(m) \/ ForwardPlaying(m) \/ ForwardPaused(m)
        \/ ForwardPlain(m) \/ ForwardStopped(m) \/ ForwardUnavailable(m)
  /\ UNCHANGED <<core, engine, engine_commands, view, user>>

-----------------------------------------------------------------------------
(* The engine thread.                                                      *)

Emits(m) == engine_events' = Append(engine_events, m)
Ignores == UNCHANGED <<engine, engine_events>>

\* A failed load leaves the engine in its Loading state.
Occupied == engine.st # "Stopped"
LoadPending == engine.st \in {"Loading", "Failed"}

\* handle_command_load(): always from Stopped, or from Loading by a seek.
Loading(item, play) ==
  /\ engine' = [st |-> "Loading", item |-> item, play |-> play]
  /\ Emits(Note("Loading", item))

\* handle_player_stop()
EngineStops(m) ==
  /\ m.kind = "Stop"
  /\ IF Occupied
       THEN /\ engine' = [engine EXCEPT !.st = "Stopped", !.item = NoItem, !.play = FALSE]
            /\ Emits(Msg("Stopped", NoItem, m.why))
       ELSE Ignores

\* handle_play() and handle_pause()
EngineSwitches(m, kind, play, from, to) ==
  /\ m.kind = kind
  /\ IF LoadPending
       THEN engine' = [engine EXCEPT !.play = play] /\ UNCHANGED engine_events
     ELSE IF engine.st = from
       THEN engine' = [engine EXCEPT !.st = to] /\ Emits(Note(to, engine.item))
     ELSE Ignores

\* handle_command_seek()
EngineSeeks(m) ==
  /\ m.kind = "Seek"
  /\ IF LoadPending THEN Loading(engine.item, engine.play) ELSE Ignores

EngineCommand ==
  /\ engine_commands # <<>>
  /\ engine_commands' = Tail(engine_commands)
  /\ LET m == Head(engine_commands)
     IN \/ m.kind = "Load" /\ Loading(m.item, TRUE)
        \/ EngineStops(m)
        \/ EngineSwitches(m, "Play", TRUE, "Paused", "Playing")
        \/ EngineSwitches(m, "Pause", FALSE, "Playing", "Paused")
        \/ EngineSeeks(m)
  /\ UNCHANGED <<core, inbox, transitioning, current_item, view, user>>

Engine(st, m) ==
  /\ engine' = [engine EXCEPT !.st = st]
  /\ Emits(m)
  /\ UNCHANGED <<core, inbox, transitioning, current_item, engine_commands, view, user>>

\* start_playback()
EngineLoaded ==
  /\ engine.st = "Loading"
  /\ LET st == IF engine.play THEN "Playing" ELSE "Paused"
     IN Engine(st, Note(st, engine.item))

\* No command is on its way to the engine, unless things happen in haste.
Unhurried == hasty \/ engine_commands = <<>>

EngineFailsToLoad ==
  engine.st = "Loading" /\ Unhurried /\ Engine("Failed", Note("Unavailable", engine.item))

EngineReports ==
  /\ engine.st = "Playing" /\ Len(engine_events) + Len(inbox) < MaxEvents
  /\ Engine("Playing", Note("Position", engine.item))

\* The audio sink fails: ensure_sink_running() and handle_packet() pause.
EngineSinkFails ==
  engine.st = "Playing" /\ Engine("Paused", Note("Paused", engine.item))

EngineEnds ==
  engine.st = "Playing" /\ Unhurried /\ Engine("EndOfTrack", Note("EndOfTrack", engine.item))

-----------------------------------------------------------------------------
Handle == HandleReport \/ HandleStopped \/ HandleEndOfTrack
Commands ==
  \/ LoadQueue \/ Previous \/ SkipNext \/ Stop \/ Pause \/ Resume \/ PauseOrResume
  \/ Seek \/ EditQueue
Playback ==
  EngineLoaded \/ EngineFailsToLoad \/ EngineReports \/ EngineSinkFails \/ EngineEnds

Next == Handle \/ Commands \/ Forward \/ EngineCommand \/ Playback

Spec == Init /\ [][Next]_vars

\* Each thread keeps taking what is sent to it; a load may take for ever.
FairSpec == Spec /\ WF_vars(Handle) /\ WF_vars(Forward) /\ WF_vars(EngineCommand)

-----------------------------------------------------------------------------
Maybe == Item \union {NoItem}

\* The variables keep their types.
TypeOK ==
  /\ queue \in QueueType
  /\ state \in [st : {"Stopped", "Playing", "Paused"}, item : Maybe]
  /\ view \in [st : {"Stopped", "Loading", "Playing", "Paused"}, item : Maybe]
  /\ engine \in [st : {"Stopped", "Loading", "Failed", "Playing", "Paused", "EndOfTrack"},
                 item : Maybe, play : BOOLEAN]
  /\ inbox \in Seq([kind : {"Loading", "Playing", "Pausing", "Resuming", "Position",
                            "Stopped", "EndOfTrack"}, item : Maybe, why : Reasons])
  /\ engine_commands \in Seq([kind : {"Load", "Stop", "Play", "Pause", "Seek"},
                              item : Maybe, why : Reasons])
  /\ engine_events \in Seq([kind : {"Loading", "Playing", "Paused", "Position", "Stopped",
                                    "Unavailable", "EndOfTrack"},
                            item : Maybe, why : Reasons])
  /\ current_item \in Maybe
  /\ {transitioning, stop_requested, alive, hasty} \subseteq BOOLEAN
  /\ commands \in 0..MaxCommands

\* A stop the player makes before it loads a track never reaches the player or
\* the user interface as a Stopped event, which would clear the queue
\* (stop_for_transition in librespot.rs).
TransitionStopsSuppressed ==
  \A k \in DOMAIN inbox : inbox[k].why # "transition"

\* A stop the user asks for is final: once it has taken effect, no end of
\* track, load or resume that was under way has started playback again.
StopIsFinal == stop_requested /\ alive /\ Idle => engine.st = "Stopped"

\* No suppression is left over once everything is quiet: the next stop of the
\* user would be swallowed by it.
NoSuppressionLeft == Idle /\ alive => ~transitioning

\* When everything is quiet, the user interface, the player and the engine
\* agree on what plays, and the queue still knows what is to come next; in
\* haste they may not.
QuietAgrees ==
  Idle /\ alive /\ ~hasty =>
    /\ engine.st \in {"Stopped", "Failed"} => view.st = "Stopped" /\ state.st = "Stopped"
    /\ engine.st = "Loading" => view.item = engine.item
    /\ engine.st \in {"Playing", "Paused"} =>
         {view, state} = {[st |-> engine.st, item |-> engine.item]}
    /\ engine.item # NoItem /\ engine.st # "Failed" => Current(queue) # NoItem

\* A stop the user asks for is shown, unless another command follows it.
StopIsShown ==
  (stop_requested /\ ~hasty) ~> (view.st = "Stopped" \/ ~stop_requested \/ ~alive)
=============================================================================
