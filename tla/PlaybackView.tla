---------------------------- MODULE PlaybackView ----------------------------
(***************************************************************************)
(* The playback controller of the user interface                           *)
(* (spotix-gui/src/controller/playback.rs) and the player it drives.       *)
(*                                                                         *)
(* The user interface keeps two lists of its own: the queue it believes    *)
(* the player has and the tracks the user queued (module QueueMirror).  It *)
(* changes them when it sends an order, the player changes its queue when  *)
(* it takes the order, and what plays comes back as reports.  Suggestions  *)
(* for what to play when the queue ends, and the track of the last         *)
(* launch, come from threads that answer when they can.                    *)
(*                                                                         *)
(* The player with its engine is module LibrespotPlayer cut down to one    *)
(* step per order.  Of the progress in a track the model keeps whether     *)
(* the last forty seconds have begun (AUTOPLAY_PREFETCH_WINDOW).           *)
(***************************************************************************)
EXTENDS QueueOps, QueueMirror

CONSTANTS
  Episodes,     \* items that are no tracks
  Locals,       \* tracks that are files of the user (is_local)
  Lists,        \* the lists the user plays
  Inserted,     \* the lists the user queues
  Behaviors,    \* the queue behaviours the user selects
  Suggested,    \* what the web API recommends for an item
  MaxCommands,  \* bound: commands of the user
  MaxEnds,      \* bound: tracks that end or cannot be loaded
  MaxLaunches   \* bound: launches after a crash or an exit

PlaybackViewAssumption ==
  /\ Episodes \subseteq Item /\ Locals \subseteq Item \ Episodes
  /\ Lists \subseteq Seq(Item) /\ Inserted \subseteq Seq(Item)
  /\ Behaviors \subseteq Behavior /\ Suggested \in [Item -> Seq(Item)]
  /\ {MaxCommands, MaxEnds, MaxLaunches} \subseteq Nat

VARIABLES
  queue,                \* Playback::queue
  added_queue,          \* AppState::added_queue
  playback,             \* Playback::state, queue_behavior
  now_playing,          \* Playback::now_playing
  drag,                 \* AppState::queue_drag: the index dragged, or 0
  autoplay,             \* autoplay_in_flight, autoplay_seed
  pending_restore,      \* the progress to seek to when a track plays
  user_stop_requested,
  eq_restart_timer,
  orders,               \* commands on their way to the player
  reports,              \* events on their way to the user interface
  player,               \* the player and its engine
  pq,                   \* the player's queue
  fetching,             \* recommendation threads, by their seed
  snapshot,             \* the file of the last playback
  restoring,            \* the thread that restores it
  forgotten,            \* queued tracks that have left the mirror as they played
  ended,                \* has the last track ended, with nothing played since?
  tangled,              \* has the queue been edited while nothing played, or ordered anew
                        \* after an entry was put next, and not replaced?
  curated,              \* has the queue been edited or reloaded since a track was announced
                        \* and nothing else was under way?
  bounds                \* commands, ends and launches so far
VARIABLE
  hasty,                \* do commands and answers come at any time?  Chosen once
  reachable             \* does the web API answer?  Chosen once

mirror == <<queue, added_queue>>
view == <<playback, now_playing>>
engine == <<player, pq>>
lists == <<queue, added_queue, forgotten, tangled>>
ghosts == <<forgotten, tangled, ended, curated>>
choices == <<hasty, reachable>>
vars == <<queue, added_queue, playback, now_playing, drag, autoplay, pending_restore,
          user_stop_requested, eq_restart_timer, orders, reports, player, pq, fetching,
          snapshot, restoring, forgotten, tangled, ended, curated, bounds, hasty, reachable>>

Nothing == [item |-> NoItem, late |-> FALSE, playing |-> FALSE]
NoAutoplay == [in_flight |-> FALSE, seed |-> NoItem]
Halted == [st |-> "Stopped", item |-> NoItem, play |-> TRUE, late |-> FALSE,
           announced |-> NoItem, state |-> "Stopped"]

\* A new process: only the snapshot file is left of the last one.
Launched ==
  /\ queue = <<>> /\ added_queue = <<>>
  /\ playback = [st |-> "Stopped", behavior |-> "Sequential"] /\ now_playing = Nothing
  /\ drag = 0 /\ autoplay = NoAutoplay /\ pending_restore = Nothing
  /\ user_stop_requested = FALSE /\ eq_restart_timer = FALSE
  /\ orders = <<>> /\ reports = <<>> /\ player = Halted /\ pq = EmptyQueue
  /\ fetching = [i \in Item |-> 0]
  /\ forgotten = {} /\ tangled = FALSE /\ ended = FALSE /\ curated = FALSE

Init ==
  /\ Launched /\ snapshot = Nothing /\ restoring = Nothing
  /\ bounds = [commands |-> 0, ends |-> 0, launches |-> 0]
  /\ hasty \in BOOLEAN /\ reachable \in BOOLEAN

Quiet == orders = <<>> /\ reports = <<>>
Calm == hasty \/ Quiet

Shown == now_playing.item
Combined == queue \o added_queue
Rows == PanelEntries(queue, added_queue, Shown)

\* queued_entry(): does the user interface know the item?
Known(item) == item \in ToSet(Combined)

Order(kind, items, at) == [kind |-> kind, items |-> items, at |-> at]
Report(kind, item) == [kind |-> kind, item |-> item]

-----------------------------------------------------------------------------
(* What the controller sends.                                              *)

Send(sent) == orders' = orders \o sent

\* play(): a position out of range becomes the first.
LoadOrder(items, at) == Order("LoadQueue", items, IF at > Len(items) THEN 1 ELSE at)

\* The lists start anew; they are edited, perhaps while nothing plays.
Anew == forgotten' = {} /\ tangled' = FALSE
Edited == tangled' = (tangled \/ Shown \notin ToSet(queue))

\* Does the player play its list from the first entry to the last?
InOrder == \A k \in DOMAIN pq.positions : pq.positions[k] = k

\* Mutant of Replaced: the player is not told.
ReplacedHere(list) ==
  /\ queue' = list /\ added_queue' = <<>> /\ forgotten' = {} /\ Edited
  /\ Send(<<>>)

\* The two lists joined have become the queue, and the player is told.
Replaced(list) ==
  /\ queue' = list /\ added_queue' = <<>> /\ forgotten' = {} /\ Edited
  /\ Send(<<Order("ReplaceQueue", list, 0)>>)

\* Mutant of SaveSnapshot: what was shown before.
SaveStale == snapshot' = now_playing

\* save_snapshot(), with the item, progress and state that are shown next: for a
\* file of the user's own it returns early, and the snapshot stays as it was.
SaveSnapshot ==
  snapshot' = IF now_playing'.item \in Locals THEN snapshot ELSE now_playing'

\* restart_playback_with_config()
RestartPlaybackWithConfig ==
  IF Shown \in ToSet(queue)
    THEN /\ pending_restore' = now_playing
         /\ Send(<<LoadOrder(queue, IndexIn(queue, Shown))>>)
         /\ Anew /\ curated' = TRUE /\ UNCHANGED mirror
    ELSE UNCHANGED <<pending_restore, orders, lists, curated>>

\* Mutant of StartAutoplay: the seed is not remembered.
StartUnseeded(seed) ==
  /\ fetching' = [fetching EXCEPT ![seed] = @ + 1]
  /\ autoplay' = [in_flight |-> TRUE, seed |-> NoItem]

\* start_autoplay_request(): a thread asks for recommendations.
StartAutoplay(seed) ==
  /\ fetching' = [fetching EXCEPT ![seed] = @ + 1]
  /\ autoplay' = [in_flight |-> TRUE, seed |-> seed]

-----------------------------------------------------------------------------
(* The reports of the player.                                              *)

\* handle(): the player, too, learns from a report what its engine does, and
\* clears its queue when it has stopped.
StateAfter(kind) ==
  CASE kind \in {"Playing", "Resuming", "Position"} -> "Playing"
    [] kind = "Pausing" -> "Paused"
    [] kind = "Stopped" -> "Stopped"
    [] OTHER -> player.state

Take(kind) ==
  /\ reports # <<>> /\ Head(reports).kind = kind
  /\ reports' = Tail(reports)
  /\ player' = [player EXCEPT !.state = StateAfter(kind)]
  /\ pq' = IF kind = "Stopped" THEN Clear(pq) ELSE pq
  /\ UNCHANGED <<queue, drag, eq_restart_timer, restoring, bounds, choices>>

Reported == Head(reports).item

\* PLAYBACK_LOADING
OnLoading ==
  /\ Take("Loading")
  /\ IF Known(Reported)
       THEN /\ playback' = [playback EXCEPT !.st = "Loading"]
            /\ now_playing' = [Nothing EXCEPT !.item = Reported]
       ELSE UNCHANGED view
  /\ UNCHANGED <<added_queue, autoplay, pending_restore, user_stop_requested, orders,
                 fetching, snapshot, ghosts>>

\* What a restored or restarted track is made to do: seek, and pause.
Restoring(was) ==
  IF was = Nothing THEN <<>>
  ELSE <<Order("Seek", <<>>, IF was.late THEN 1 ELSE 0)>>
       \o IF was.playing THEN <<>> ELSE <<Order("Pause", <<>>, 0)>>

\* The entries that are not the item, in their order.
Dequeued(added, item) ==
  LET kept == {k \in DOMAIN added : added[k] # item}
      Nth(n) == CHOOSE k \in kept : Cardinality({j \in kept : j <= k}) = n
  IN [n \in 1..Cardinality(kept) |-> added[Nth(n)]]

\* PLAYBACK_PLAYING
OnPlaying ==
  /\ Take("Playing")
  /\ autoplay' = NoAutoplay
  /\ curated' = (curated /\ (orders # <<>> \/ Tail(reports) # <<>>))
  /\ IF Known(Reported)
       THEN /\ added_queue' = Dequeued(added_queue, Reported)
            /\ forgotten' = forgotten \union (ToSet(added_queue) \ ToSet(added_queue'))
            /\ playback' = [playback EXCEPT !.st = "Playing"]
            /\ now_playing' = [item |-> Reported, late |-> FALSE, playing |-> TRUE]
            /\ SaveSnapshot
            /\ Send(Restoring(pending_restore)) /\ pending_restore' = Nothing
       ELSE UNCHANGED <<added_queue, forgotten, view, snapshot, orders, pending_restore>>
  /\ UNCHANGED <<user_stop_requested, fetching, tangled, ended>>

\* has_following_item()
HasFollowingItem(now) ==
  \/ added_queue # <<>>
  \/ now \in ToSet(queue) /\ IndexIn(queue, now) < Len(queue)

\* maybe_request_autoplay(), after the progress has been taken over.
WantsAutoplay ==
  /\ ~autoplay.in_flight
  /\ playback.behavior \in {"Sequential", "Random"}
  /\ Shown \notin Episodes \union {NoItem, autoplay.seed}
  /\ ~HasFollowingItem(Shown)
  /\ now_playing'.late

\* PLAYBACK_PROGRESS
OnProgress ==
  /\ Take("Position")
  /\ now_playing' = [now_playing EXCEPT !.late = (@ \/ Reported = Shown)]
  /\ IF WantsAutoplay THEN StartAutoplay(Shown) ELSE UNCHANGED <<autoplay, fetching>>
  /\ UNCHANGED <<added_queue, playback, pending_restore, user_stop_requested, orders,
                 snapshot, ghosts>>

\* PLAYBACK_PAUSING and PLAYBACK_RESUMING
Switched(kind, st) ==
  /\ Take(kind)
  /\ playback' = [playback EXCEPT !.st = st]
  /\ now_playing' = IF Shown = NoItem THEN Nothing
                    ELSE [now_playing EXCEPT !.playing = (st = "Playing")]
  /\ IF Shown = NoItem THEN UNCHANGED snapshot ELSE SaveSnapshot
  /\ UNCHANGED <<added_queue, autoplay, pending_restore, user_stop_requested, orders,
                 fetching, ghosts>>

OnPausing == Switched("Pausing", "Paused")
OnResuming == Switched("Resuming", "Playing")

\* PLAYBACK_STOPPED
OnStopped ==
  /\ Take("Stopped")
  /\ user_stop_requested' = FALSE
  /\ IF /\ ~user_stop_requested /\ autoplay = NoAutoplay
        /\ Shown \notin Episodes \union {NoItem}
       THEN StartAutoplay(Shown) ELSE UNCHANGED <<autoplay, fetching>>
  /\ playback' = [playback EXCEPT !.st = "Stopped"] /\ now_playing' = Nothing
  /\ UNCHANGED <<added_queue, pending_restore, orders, snapshot, ghosts>>

-----------------------------------------------------------------------------
(* Answers of the threads, and the timer.                                  *)

\* Mutant of Expected: whatever arrives is taken.
ExpectedAny(seed) == TRUE
Expected(seed) == autoplay.seed = seed

\* AUTOPLAY_READY: enqueue_autoplay_results()
AutoplayReady(seed) ==
  /\ Calm /\ fetching[seed] > 0
  /\ fetching' = [fetching EXCEPT ![seed] = @ - 1]
  /\ autoplay' = [autoplay EXCEPT !.in_flight = FALSE]
  /\ LET tracks == IF reachable THEN Suggested[seed] ELSE <<>>
     IN IF ~Expected(seed) \/ tracks = <<>>
          THEN UNCHANGED <<lists, orders>>
        ELSE IF playback.st = "Stopped"
          THEN /\ queue' = tracks /\ added_queue' = <<>> /\ Anew
               /\ Send(<<LoadOrder(tracks, 1)>>)
        ELSE /\ added_queue' = added_queue \o tracks
             /\ Send([k \in DOMAIN tracks |-> Order("AddToQueue", <<tracks[k]>>, 0)])
             /\ Edited /\ UNCHANGED <<queue, forgotten>>
  /\ UNCHANGED <<view, drag, pending_restore, user_stop_requested, eq_restart_timer,
                 reports, engine, snapshot, restoring, ended, curated, bounds, choices>>

Alone == UNCHANGED <<view, drag, autoplay, user_stop_requested, reports, engine, fetching,
                     ended, choices>>

\* RESTORE_SNAPSHOT_READY and RESTORE_SNAPSHOT_RESOLVED: the queue is one entry;
\* the tracks the user has queued in the meantime stay listed.
RestoreResolved ==
  /\ Calm /\ restoring # Nothing
  /\ restoring' = Nothing
  /\ queue' = <<restoring.item>> /\ Anew /\ curated' = TRUE
  /\ pending_restore' = restoring
  /\ Send(<<LoadOrder(queue', 1)>>)
  /\ Alone
  /\ UNCHANGED <<added_queue, eq_restart_timer, snapshot, bounds>>

\* An episode is not in the snapshot itself: when it cannot be fetched the
\* file is removed.
RestoreFails ==
  /\ restoring.item \in Episodes
  /\ restoring' = Nothing
  /\ snapshot' = Nothing
  /\ Alone
  /\ UNCHANGED <<lists, pending_restore, eq_restart_timer, orders, curated, bounds>>

\* The timer of 300 ms after the equaliser changed.
EqTimerFires ==
  /\ Calm /\ eq_restart_timer
  /\ eq_restart_timer' = FALSE
  /\ RestartPlaybackWithConfig
  /\ Alone
  /\ UNCHANGED <<snapshot, restoring, bounds>>

-----------------------------------------------------------------------------
(* The commands of the user.                                               *)

\* The user does something; the player may still be busy only in haste.
Acts ==
  /\ Calm /\ bounds.commands < MaxCommands
  /\ bounds' = [bounds EXCEPT !.commands = @ + 1]
  /\ UNCHANGED <<reports, engine, fetching, snapshot, restoring, autoplay, choices>>

Keeps == UNCHANGED <<playback, pending_restore, user_stop_requested, eq_restart_timer, drag>>

\* A command that starts, or edits, what is to be played.
Plays(sent) ==
  /\ Acts /\ Send(sent) /\ ended' = FALSE /\ UNCHANGED now_playing /\ Keeps
Edits == Acts /\ curated' = TRUE /\ UNCHANGED <<now_playing, ended>>

\* PLAY_TRACKS: the tracks the user had queued stay listed.
PlayTracks(list, at) ==
  /\ queue' = list /\ Anew /\ curated' = TRUE
  /\ Plays(<<LoadOrder(list, at)>>)
  /\ UNCHANGED added_queue

\* PLAY_QUEUE_ENTRIES: the user picks a row of the panel.
PlayQueueEntries(row) ==
  /\ row \in DOMAIN Rows
  /\ queue' = Rows /\ added_queue' = <<>> /\ Anew /\ curated' = TRUE
  /\ Plays(<<LoadOrder(Rows, row)>>)

\* ADD_TO_QUEUE and QUEUE_INSERT_ENTRIES at the end of the queue
InsertAtEnd(list) ==
  /\ Edits /\ Keeps
  /\ added_queue' = added_queue \o list
  /\ Send([k \in DOMAIN list |-> Order("AddToQueue", <<list[k]>>, 0)])
  /\ Edited /\ UNCHANGED <<queue, forgotten>>

\* Mutant of SentNext: the entries are sent in their order.
SentInOrder(list) == list
SentNext(list) == Reverse(list)

\* QUEUE_INSERT_ENTRIES after the track that plays: the player puts each
\* entry right after it, so the last is sent first.
InsertNext(list) ==
  /\ Edits /\ Keeps
  /\ queue' = InsertedNext(queue, Shown, list)
  /\ Send([k \in DOMAIN list |-> Order("AddNext", <<SentNext(list)[k]>>, 0)])
  /\ Edited /\ UNCHANGED <<added_queue, forgotten>>

\* REMOVE_FROM_QUEUE: remove_from_queue()
RemoveFromQueue(row) ==
  LET index == AbsoluteIndex(queue, Shown, row)
  IN /\ row \in DOMAIN Rows /\ Removable(Rows, Shown, row)
     /\ Edits /\ Keeps
     /\ IF CanRemove(Combined, IndexIn(Combined, Shown), index)
          THEN Replaced(RemoveAt(Combined, index))
          ELSE UNCHANGED <<lists, orders>>

\* CLEAR_QUEUE: clear_queue()
ClearQueue ==
  /\ Edits /\ Keeps
  /\ Replaced(IF Shown = NoItem THEN <<>> ELSE <<Shown>>)

\* QUEUE_DRAG_BEGIN, and the end of a drag elsewhere: the row that is dragged
\* is remembered by its index.
Drags == UNCHANGED <<lists, view, autoplay, pending_restore, user_stop_requested,
  eq_restart_timer, orders, reports, engine, fetching, snapshot, restoring, ended, curated,
  bounds, choices>>

DragBegin(row) ==
  /\ drag = 0 /\ bounds.commands < MaxCommands
  /\ row \in DOMAIN Rows /\ Draggable(Rows, Shown, row)
  /\ drag' = AbsoluteIndex(queue, Shown, row)
  /\ Drags

DragLeaves == drag # 0 /\ drag' = 0 /\ Drags

\* QUEUE_DRAG_OVER and QUEUE_DRAG_END: reorder_queue()
DragEnd(row, after) ==
  LET now == IndexIn(Combined, Shown)
      over == AbsoluteIndex(queue, Shown, row)
  IN /\ drag # 0 /\ row \in DOMAIN Rows /\ Draggable(Rows, Shown, row)
     /\ Edits /\ drag' = 0
     /\ IF drag > Len(Combined) \/ over > Len(Combined) \/ drag = now
          THEN UNCHANGED <<lists, orders>>
          ELSE Replaced(Reordered(Combined, now, drag, over, after))
     /\ UNCHANGED <<playback, pending_restore, user_stop_requested, eq_restart_timer>>

Lone == UNCHANGED lists

\* PLAY_QUEUE_BEHAVIOR: set_queue_behavior()
SetQueueBehavior(behavior) ==
  /\ Edits /\ tangled' = (tangled \/ ~InOrder) /\ UNCHANGED <<mirror, forgotten>>
  /\ playback' = [playback EXCEPT !.behavior = behavior]
  /\ Send(<<Order(behavior, <<>>, 0)>>)
  /\ UNCHANGED <<pending_restore, user_stop_requested, eq_restart_timer, drag>>

\* PLAY_SEEK, SKIP_TO_POSITION and seek_relative(): while a track is shown.
PlaySeek(late) ==
  /\ Shown # NoItem
  /\ Acts /\ Lone /\ Keeps
  /\ now_playing' = [now_playing EXCEPT !.late = late]
  /\ Send(<<Order("Seek", <<>>, IF late THEN 1 ELSE 0)>>)
  /\ UNCHANGED <<ended, curated>>

\* PLAY_PREVIOUS, PLAY_NEXT, PLAY_PAUSE, PLAY_RESUME, the space bar, and the
\* media keys, which go to the player directly.
Button(kind) == Lone /\ Plays(<<Order(kind, <<>>, 0)>>) /\ UNCHANGED curated

\* PLAY_STOP: the button of a track that is loading.
PlayStop ==
  /\ playback.st = "Loading"
  /\ Acts /\ Lone
  /\ user_stop_requested' = TRUE /\ ended' = FALSE
  /\ Send(<<Order("Stop", <<>>, 0)>>)
  /\ UNCHANGED <<view, pending_restore, eq_restart_timer, drag, curated>>

\* update(): mono or normalisation changes restart the track at once, the
\* equaliser after a while.
ConfigChanges ==
  /\ Acts
  /\ \/ eq_restart_timer' = FALSE /\ RestartPlaybackWithConfig
     \/ /\ Shown # NoItem /\ eq_restart_timer' = TRUE
        /\ UNCHANGED <<pending_restore, orders, lists, curated>>
  /\ UNCHANGED <<view, user_stop_requested, drag, ended>>

-----------------------------------------------------------------------------
(* The player and its engine.                                              *)

Plain == UNCHANGED <<mirror, view, drag, autoplay, pending_restore, user_stop_requested,
  eq_restart_timer, fetching, snapshot, restoring, forgotten, tangled, curated, choices>>

Reports(kind, item) == reports' = Append(reports, Report(kind, item))

\* Load the current item of the queue, or stop when there is none.  A track
\* that plays is stopped first, and this stop is not reported.
PlayCurrent(q) ==
  IF Current(q) = NoItem
    THEN /\ pq' = Clear(q)
         /\ player' = [Halted EXCEPT !.state = player.state]
         /\ IF player.st = "Stopped" THEN UNCHANGED reports ELSE Reports("Stopped", NoItem)
    ELSE /\ pq' = q
         /\ player' = [player EXCEPT !.st = "Loading", !.item = Current(q), !.play = TRUE,
                                     !.late = FALSE]
         /\ Reports("Loading", Current(q))

\* What the forwarder makes of a track that plays: resuming, when it is the
\* one that was last announced (spawn_event_forwarder).
PlaysAs(item) == Report(IF player.announced = item THEN "Resuming" ELSE "Playing", item)

\* pause(): an event of the player's own and one of the engine; a track that
\* loads will begin paused.
SwitchOff ==
  LET own == IF player.state = "Playing" THEN <<Report("Pausing", player.item)>> ELSE <<>>
      off == player.st = "Playing"
  IN /\ player' = [player EXCEPT !.st = IF off THEN "Paused" ELSE @, !.play = @ /\ player.st # "Loading",
                                 !.state = IF @ = "Playing" THEN "Paused" ELSE @]
     /\ reports' = reports \o own
                     \o IF off THEN <<Report("Pausing", player.item)>> ELSE <<>>
     /\ UNCHANGED pq

\* resume()
SwitchOn ==
  LET own == IF player.state = "Paused" THEN <<Report("Resuming", player.item)>> ELSE <<>>
      on == player.st = "Paused"
  IN /\ player' = [player EXCEPT !.st = IF on THEN "Playing" ELSE @, !.play = TRUE,
                                 !.announced = IF on THEN player.item ELSE @,
                                 !.state = IF @ = "Paused" THEN "Playing" ELSE @]
     /\ reports' = reports \o own \o IF on THEN <<PlaysAs(player.item)>> ELSE <<>>
     /\ UNCHANGED pq

EditQueue(results) == pq' \in results /\ UNCHANGED <<player, reports>>

\* pause_or_resume()
Toggled(kind) ==
  IF kind # "PauseOrResume" THEN kind
  ELSE CASE player.state = "Playing" -> "Pause"
         [] player.state = "Paused"  -> "Resume"
         [] OTHER                    -> "Nothing"

TakeOrder ==
  /\ orders # <<>> /\ orders' = Tail(orders)
  /\ LET o == Head(orders)
         kind == Toggled(o.kind)
     IN \/ kind = "LoadQueue" /\ \E q \in Fill(pq, o.items, o.at) : PlayCurrent(q)
        \/ kind = "ReplaceQueue" /\ EditQueue(Replace(pq, o.items))
        \/ kind = "AddToQueue" /\ EditQueue({Add(pq, o.items[1])})
        \/ kind = "AddNext" /\ EditQueue({AddNext(pq, o.items[1])})
        \/ kind \in Behavior /\ EditQueue(SetBehaviour(pq, kind))
        \/ kind = "Next" /\ \E q \in SkipToNext(pq) : PlayCurrent(q)
        \/ kind = "Previous" /\ PlayCurrent(SkipToPrevious(pq))
        \/ kind = "Stop" /\ PlayCurrent(Clear(pq))
        \/ kind = "Pause" /\ SwitchOff
        \/ kind = "Resume" /\ SwitchOn
        \/ kind = "Nothing" /\ UNCHANGED <<engine, reports>>
        \/ kind = "Seek" /\ player' = [player EXCEPT !.late = (o.at = 1)]
           /\ UNCHANGED <<pq, reports>>
  /\ UNCHANGED <<ended, bounds>> /\ Plain

PlayerOnly == Plain /\ UNCHANGED <<orders, bounds>>

EngineLoaded ==
  /\ player.st = "Loading"
  /\ IF player.play
       THEN /\ player' = [player EXCEPT !.st = "Playing", !.announced = player.item]
            /\ reports' = Append(reports, PlaysAs(player.item))
       ELSE player' = [player EXCEPT !.st = "Paused", !.play = TRUE]
            /\ Reports("Pausing", player.item)
  /\ ended' = FALSE /\ UNCHANGED pq /\ PlayerOnly

EngineFailsToLoad ==
  /\ player.st = "Loading" /\ Calm /\ bounds.ends < MaxEnds
  /\ bounds' = [bounds EXCEPT !.ends = @ + 1]
  /\ player' = [Halted EXCEPT !.st = "Failed", !.state = player.state]
  /\ Reports("Stopped", NoItem)
  /\ UNCHANGED <<pq, ended, orders>> /\ Plain

\* A position in the last forty seconds, the first or another one.
EngineReports ==
  /\ player.st = "Playing" /\ reports = <<>>
  /\ player' = [player EXCEPT !.late = TRUE]
  /\ Reports("Position", player.item)
  /\ UNCHANGED <<pq, ended>> /\ PlayerOnly

EngineEnds ==
  /\ player.st = "Playing" /\ Calm /\ bounds.ends < MaxEnds
  /\ bounds' = [bounds EXCEPT !.ends = @ + 1]
  /\ \E q \in SkipToFollowing(pq) :
       PlayCurrent(q) /\ ended' = (Current(q) = NoItem)
  /\ Plain /\ UNCHANGED orders

-----------------------------------------------------------------------------
\* The process dies or is left, and is started again: load_snapshot() reads
\* what has been saved.
Relaunch ==
  /\ Calm /\ bounds.launches < MaxLaunches
  /\ bounds' = [bounds EXCEPT !.launches = @ + 1]
  /\ queue' = <<>> /\ added_queue' = <<>>
  /\ playback' = [st |-> "Stopped", behavior |-> playback.behavior] /\ now_playing' = Nothing
  /\ drag' = 0 /\ autoplay' = NoAutoplay /\ pending_restore' = Nothing
  /\ user_stop_requested' = FALSE /\ eq_restart_timer' = FALSE
  /\ orders' = <<Order(playback.behavior, <<>>, 0)>> /\ reports' = <<>>
  /\ player' = Halted /\ pq' = EmptyQueue
  /\ fetching' = [i \in Item |-> 0]
  /\ restoring' = snapshot
  /\ Anew /\ ended' = FALSE /\ curated' = FALSE
  /\ UNCHANGED <<snapshot, choices>>

OnReport ==
  OnLoading \/ OnPlaying \/ OnProgress \/ OnPausing \/ OnResuming \/ OnStopped
Answer == (\E seed \in Item : AutoplayReady(seed)) \/ RestoreResolved
Chooses ==
  \/ \E list \in Lists : \E at \in DOMAIN list : PlayTracks(list, at)
  \/ \E row \in 1..Len(Rows) : PlayQueueEntries(row) \/ RemoveFromQueue(row) \/ DragBegin(row)
  \/ \E row \in 1..Len(Rows), after \in BOOLEAN : DragEnd(row, after)
  \/ \E list \in Inserted : InsertAtEnd(list) \/ InsertNext(list)
  \/ ClearQueue \/ DragLeaves \/ PlayStop \/ ConfigChanges
  \/ \E behavior \in Behaviors : SetQueueBehavior(behavior)
  \/ \E late \in BOOLEAN : PlaySeek(late)
  \/ \E kind \in {"Previous", "Next", "Pause", "Resume", "PauseOrResume"} : Button(kind)

Next ==
  \/ OnReport \/ Answer \/ RestoreFails \/ EqTimerFires \/ Chooses
  \/ TakeOrder \/ EngineLoaded \/ EngineFailsToLoad \/ EngineReports \/ EngineEnds
  \/ Relaunch

Spec == Init /\ [][Next]_vars

\* The player and the user interface take what is sent to them, threads
\* answer, and a track is loaded or found missing.
FairSpec ==
  /\ Spec /\ WF_vars(OnReport) /\ WF_vars(TakeOrder)
  /\ WF_vars(EngineLoaded) /\ WF_vars(\E seed \in Item : AutoplayReady(seed))

-----------------------------------------------------------------------------
\* What the player has, the mirror has: when no order is under way, every
\* track in the player's queue is listed by the user interface, unless the
\* user queued it and it has played.  A track that is not listed is shown by
\* nothing while it plays (queued_entry).
MirrorKnowsPlayer ==
  orders = <<>> =>
    ToSet(pq.items) \union ToSet(pq.user_items) \subseteq ToSet(Combined) \union forgotten

\* What the panel lists after the track that plays is what the player will
\* play, in that order, through edits, drops and the end of tracks: as long as
\* no track is queued or forgotten, none is in the list twice, the list was
\* not edited while nothing in it played, and no behaviour was selected after
\* a track was put next (the player then orders its list anew).
UpcomingAgrees ==
  (/\ Quiet /\ ~hasty /\ player.item \in ToSet(queue)
   /\ added_queue = <<>> /\ forgotten = {} /\ ~tangled /\ IsInjective(queue)) =>
    /\ Current(pq) = player.item
    /\ Tail(Rows) = [k \in 1..(Len(pq.positions) - pq.position) |->
                      pq.items[pq.positions[pq.position + k]]]

\* The player plays, and has no report under way that a track does.
SaidToPlay ==
  player.st = "Playing" /\ \A k \in DOMAIN reports : reports[k].kind # "Playing"

\* Once it has been reported that a track plays, recommendations are taken only
\* for this track: an answer for an earlier one is dropped however late it comes,
\* as long as the lists were not edited since and have all that was queued.
SuggestionsAreForWhatPlays ==
  [][\A seed \in Item :
       (/\ AutoplayReady(seed) /\ Combined # Combined'
        /\ playback.st = "Playing" /\ Shown # NoItem
        /\ SaidToPlay /\ ~curated /\ forgotten = {})
         => seed = Shown]_vars

\* The snapshot is of the track that is shown, as it is shown, so that after a
\* crash the last track comes back; it is never of a file of the user's own, and
\* while one is shown the snapshot of what was played before may stay.
SnapshotIsShown ==
  /\ snapshot.item \notin Locals
  /\ (/\ playback.st \in {"Playing", "Paused"}
      /\ Shown \notin Locals \union {NoItem} /\ snapshot # Nothing) =>
       snapshot.item = Shown /\ snapshot.playing = (playback.st = "Playing")

\* "Play similar tracks when your queue ends": when the last track has ended
\* and the web API recommends some for it, playback goes on.
AutoplayGoesOn ==
  (/\ ~hasty /\ reachable /\ ended /\ ~curated
   /\ Shown \in Item \ Episodes /\ Suggested[Shown] # <<>>) ~> ~ended
=============================================================================
