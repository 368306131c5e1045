------------------------------- MODULE Player -------------------------------
(***************************************************************************)
(* The player thread with the native engine (player/mod.rs, and the        *)
(* PlaybackManager of player/worker.rs), its loader threads and the audio  *)
(* callback (audio/output/cpal.rs, audio/source.rs, DecoderSource of       *)
(* player/worker.rs).                                                      *)
(*                                                                         *)
(* The player handles one event at a time from one unbounded channel.      *)
(* Commands of the user and results of loader threads may be handled at    *)
(* any time after they are possible, whatever else waits in the channel:   *)
(* their senders are concurrent, so every such order happens.  Events of   *)
(* the audio callback keep their order: "events".  The notifications the   *)
(* player sends itself are ignored when they come back; "notice" is the    *)
(* last one, which is what the user interface shows.                       *)
(*                                                                         *)
(* The sink drains its commands at the start of each callback, before the  *)
(* source is asked for samples, so a sink command takes effect at once.    *)
(* Time within a track is counted in ticks; every track lasts Duration.    *)
(***************************************************************************)
EXTENDS QueueOps

CONSTANTS
  Lists,               \* the playlists a command may carry
  Duration,            \* length of a track
  PreviousThreshold,   \* PREVIOUS_TRACK_THRESHOLD
  PreloadWindow,       \* PRELOAD_BEFORE_END_OF_TRACK
  Crossfades,          \* the crossfade durations a configuration may have
  Behaviors,           \* the queue behaviours the user selects
  MaxFailures,         \* STOP_AFTER_CONSECUTIVE_LOADING_FAILURES
  MaxCommands,         \* bound: commands of the user in a behaviour
  MaxEvents,           \* bound: audio events waiting in the channel
  MaxTracks            \* bound: length of the playlist, and how far past its
                       \* end crossfades take the position

PlayerAssumption ==
  /\ Lists \subseteq Seq(Item) /\ Behaviors \subseteq Behavior
  /\ Duration \in Nat \ {0} /\ PreviousThreshold \in Nat /\ PreloadWindow \in Nat
  /\ Crossfades \subseteq Nat /\ Crossfades # {}
  /\ MaxFailures \in Nat \ {0}
  /\ MaxCommands \in Nat /\ MaxEvents \in Nat /\ MaxTracks \in Nat

VARIABLES
  state,       \* Player::state
  preload,     \* Player::preload
  queue,       \* Player::queue
  failures,    \* Player::consecutive_loading_failures
  ignore_end_of_track,
  crossfade,   \* Player::config.crossfade_duration
  current,     \* PlaybackManager::current, the track a seek goes to
  loads,       \* loads[i]: threads that will report, or reported, Loaded(i)
  preloads,    \* preloads[i]: the same for Preloaded(i)
  sink,        \* the audio callback: is it playing, and the CrossfadeSource
  events,      \* events of the audio callback (and of seek) in the channel
  notice,      \* the last notification sent to the user interface
  alive,       \* FALSE once the player thread has panicked
  commands     \* commands handled so far

player == <<state, preload, queue, failures, ignore_end_of_track, crossfade, current>>
threads == <<loads, preloads>>
audio == <<sink, events>>
vars == <<player, threads, audio, notice, alive, commands>>

Stopped == [st |-> "Stopped", item |-> NoItem, pos |-> 0]
Invalid == [Stopped EXCEPT !.st = "Invalid"]
Loading(i) == [st |-> "Loading", item |-> i, pos |-> 0]
Playing(i, p) == [st |-> "Playing", item |-> i, pos |-> p]
Paused(i, p) == [st |-> "Paused", item |-> i, pos |-> p]

NoPreload == [st |-> "None", item |-> NoItem]
Preloading(i) == [st |-> "Preloading", item |-> i]
Preloaded(i) == [st |-> "Preloaded", item |-> i]

\* A DecoderSource: its track, its play head, whether it has sent its EndOfTrack,
\* and where its samples run out, which is short of the end once its worker has
\* stopped decoding.
NoSource == [item |-> NoItem, pos |-> 0, eot |-> FALSE, dry |-> Duration]
Source(i) == [NoSource EXCEPT !.item = i]
Silent == [on |-> FALSE, cur |-> NoSource, next |-> NoSource, fade |-> 0]

\* The source started last: the one the player takes for the current track.
Newest == IF sink.next # NoSource THEN sink.next ELSE sink.cur

Notice(kind, i) == [kind |-> kind, item |-> i]
Position(i, p) == [kind |-> "Position", item |-> i, pos |-> p]
EndOfTrack == [kind |-> "EndOfTrack", item |-> NoItem, pos |-> 0]

TypeOK ==
  /\ state \in {Stopped, Invalid} \cup
       [st : {"Loading", "Playing", "Paused"}, item : Item, pos : Nat]
  /\ preload \in {NoPreload} \cup [st : {"Preloading", "Preloaded"}, item : Item]
  /\ queue \in QueueType
  /\ failures \in Nat
  /\ ignore_end_of_track \in BOOLEAN /\ alive \in BOOLEAN
  /\ crossfade \in Crossfades
  /\ current \in Item \cup {NoItem}
  /\ loads \in [Item -> Nat] /\ preloads \in [Item -> Nat]
  /\ sink \in [on : BOOLEAN, fade : Nat,
       cur  : [item : Item \cup {NoItem}, pos : Nat, eot : BOOLEAN, dry : Nat],
       next : [item : Item \cup {NoItem}, pos : Nat, eot : BOOLEAN, dry : Nat]]
  /\ events \in Seq([kind : {"Position", "EndOfTrack"},
                     item : Item \cup {NoItem}, pos : Nat])
  /\ notice \in [kind : {"Loading", "Playing", "Pausing", "Resuming", "Stopped"},
                 item : Item \cup {NoItem}]
  /\ commands \in Nat

Init ==
  /\ state = Stopped /\ preload = NoPreload /\ queue = EmptyQueue
  /\ failures = 0 /\ ignore_end_of_track = FALSE
  /\ crossfade \in Crossfades
  /\ current = NoItem
  /\ loads = [i \in Item |-> 0] /\ preloads = [i \in Item |-> 0]
  /\ sink = Silent /\ events = <<>>
  /\ notice = Notice("Stopped", NoItem)
  /\ alive = TRUE /\ commands = 0
-----------------------------------------------------------------------------
(***************************************************************************)
(* The steps the handlers share.  Each sets "state", "preload", "sink",    *)
(* "current", "notice" and "loads", the last from the value "ls" that the  *)
(* handler leaves behind before it.                                        *)
(***************************************************************************)
\* play_loaded(): a fresh CrossfadeSource replaces whatever the sink played.
PlayLoaded(i) ==
  /\ sink' = [Silent EXCEPT !.on = TRUE, !.cur = Source(i)]
  /\ current' = i
  /\ state' = Playing(i, 0)
  /\ notice' = Notice("Playing", i)

\* Mutant of StartLoading: the sink plays on while the track loads.
StartLoadingUnstopped(i) ==
  /\ state' = Loading(i)
  /\ notice' = Notice("Loading", i)
  /\ UNCHANGED <<current, sink>>

\* load_and_play(): play what is preloaded, adopt the thread that preloads it,
\* or start a thread.  The sink is stopped in every case.
StartLoading(i) ==
  /\ sink' = Silent
  /\ state' = Loading(i)
  /\ notice' = Notice("Loading", i)
  /\ UNCHANGED current

\* Mutant of LoadAndPlay: adopts a preloading thread without comparing its item.
LoadAndPlayAnyPreload(i, ls) ==
  \/ /\ preload = Preloaded(i)
     /\ preload' = NoPreload /\ loads' = ls
     /\ PlayLoaded(i)
  \/ /\ preload.st = "Preloading"
     /\ preload' = NoPreload /\ loads' = ls
     /\ StartLoading(i)
  \/ /\ preload # Preloaded(i) /\ preload.st # "Preloading"
     /\ loads' = [ls EXCEPT ![i] = @ + 1]
     /\ StartLoading(i)
     /\ UNCHANGED preload

LoadAndPlay(i, ls) ==
  \/ /\ preload = Preloaded(i)
     /\ preload' = NoPreload /\ loads' = ls
     /\ PlayLoaded(i)
  \/ /\ preload = Preloading(i)
     /\ preload' = NoPreload /\ loads' = ls
     /\ StartLoading(i)
  \/ /\ preload \notin {Preloaded(i), Preloading(i)}
     /\ loads' = [ls EXCEPT ![i] = @ + 1]
     /\ StartLoading(i)
     /\ UNCHANGED preload

\* Mutant of StopPlayback: nobody is told.
StopSilently(q) ==
  /\ sink' = Silent
  /\ state' = Stopped
  /\ queue' = Clear(q)
  /\ failures' = 0
  /\ UNCHANGED <<preload, current, notice>>

\* stop(): the preload state survives, the queue does not.
StopPlayback(q) ==
  /\ sink' = Silent
  /\ state' = Stopped
  /\ notice' = Notice("Stopped", NoItem)
  /\ queue' = Clear(q)
  /\ failures' = 0
  /\ UNCHANGED <<preload, current>>

\* The queue moves to one of "results"; its current item is loaded, and if it
\* has none the player stops.  No result at all is a panic.
PlayCurrentOf(results, ls, fails) ==
  \/ /\ results = {}
     /\ alive' = FALSE /\ loads' = ls
     /\ UNCHANGED <<player, sink, notice>>
  \/ \E q \in results :
       /\ UNCHANGED <<alive, ignore_end_of_track, crossfade>>
       /\ \/ /\ Current(q) # NoItem
             /\ queue' = q /\ failures' = fails
             /\ LoadAndPlay(Current(q), ls)
          \/ /\ Current(q) = NoItem
             /\ loads' = ls
             /\ StopPlayback(q)

\* The queue operation is all the command does.
QueueOnly(results) ==
  /\ IF results = {} THEN alive' = FALSE /\ UNCHANGED queue
     ELSE queue' \in results /\ UNCHANGED alive
  /\ UNCHANGED <<state, preload, failures, ignore_end_of_track, crossfade,
                 current, threads, audio, notice>>
-----------------------------------------------------------------------------
(***************************************************************************)
(* Commands of the user interface.                                         *)
(***************************************************************************)
Command ==
  /\ alive /\ commands < MaxCommands
  /\ commands' = commands + 1

Positions(items) == IF items = <<>> THEN {1} ELSE DOMAIN items

LoadQueue(items, position) ==
  /\ Command
  /\ PlayCurrentOf(Fill(queue, items, position), loads, failures)
  /\ UNCHANGED <<preloads, events>>

NextTrack ==
  /\ Command
  /\ PlayCurrentOf(SkipToNext(queue), loads, failures)
  /\ UNCHANGED <<preloads, events>>

\* on_seek(): the worker of a source seeks and reads on, or fails to seek, which
\* it logs.  If it then was waiting for room in its ring, the timeout that would
\* have made it go on is lost: what is in the ring is the last that is decoded,
\* unless a later seek succeeds.
Sought(s, p) ==
  {s, [s EXCEPT !.pos = p, !.dry = Duration]} \cup
    {[s EXCEPT !.dry = d] : d \in {d \in s.pos..(Duration - 1) : ~s.eot /\ s.dry = Duration}}

\* seek(): the worker of the newest source is asked to; the position is reported
\* whatever comes of it.  The worker is gone if the source has been replaced.
SeekSource(p) ==
  IF sink.next # NoSource THEN {[sink EXCEPT !.next = s] : s \in Sought(sink.next, p)}
  ELSE IF sink.cur # NoSource THEN {[sink EXCEPT !.cur = s] : s \in Sought(sink.cur, p)}
  ELSE {sink}

SeekTo(p) ==
  /\ IF current = NoItem THEN UNCHANGED audio
     ELSE /\ sink' \in SeekSource(p)
          /\ events' = Append(events, Position(current, p))
  /\ UNCHANGED <<player, threads, notice, alive>>

Seek(p) == Command /\ Len(events) < MaxEvents /\ SeekTo(p)

IsNearPlaybackStart ==
  state.st \in {"Playing", "Paused"} /\ state.pos < PreviousThreshold

PreviousTrack ==
  /\ Command
  /\ \/ /\ IsNearPlaybackStart
        /\ PlayCurrentOf({SkipToPrevious(queue)}, loads, failures)
        /\ UNCHANGED <<preloads, events>>
     \/ /\ ~IsNearPlaybackStart
        /\ Len(events) < MaxEvents
        /\ SeekTo(0)

\* pause() and resume() first replace the state by Invalid, and put one back
\* only if a track was playing or paused.
SetPlaying(on) ==
  /\ IF state.st \in {"Playing", "Paused"}
       THEN /\ sink' = [sink EXCEPT !.on = on]
            /\ state' = [state EXCEPT !.st = IF on THEN "Playing" ELSE "Paused"]
            /\ notice' = Notice(IF on THEN "Resuming" ELSE "Pausing", state.item)
       ELSE state' = Invalid /\ UNCHANGED <<sink, notice>>
  /\ UNCHANGED <<preload, queue, failures, ignore_end_of_track, crossfade,
                 current, threads, events, alive>>

Pause == Command /\ SetPlaying(FALSE)
Resume == Command /\ SetPlaying(TRUE)
PauseOrResume ==
  /\ Command
  /\ state.st \in {"Playing", "Paused"}
  /\ SetPlaying(state.st = "Paused")

Stop ==
  /\ Command
  /\ StopPlayback(queue)
  /\ UNCHANGED <<ignore_end_of_track, crossfade, threads, events, alive>>

Configure(duration) ==
  /\ Command
  /\ crossfade' = duration
  /\ UNCHANGED <<state, preload, queue, failures, ignore_end_of_track, current,
                 threads, audio, notice, alive>>

HasRoom == Len(queue.items) + Len(queue.user_items) - queue.user_items_position < MaxTracks

SetQueueBehavior(behavior) == Command /\ QueueOnly(SetBehaviour(queue, behavior))
AddToQueue(i) == Command /\ HasRoom /\ QueueOnly({Add(queue, i)})
AddNextTrack(i) == Command /\ HasRoom /\ QueueOnly({AddNext(queue, i)})
ReplaceQueue(items) == Command /\ QueueOnly(Replace(queue, items))
-----------------------------------------------------------------------------
(***************************************************************************)
(* Results of the loader threads.                                          *)
(***************************************************************************)
\* A failed load may move on to the next track.
MayTryNext == failures + 1 < MaxFailures

\* handle_loaded(): "ls" are the loads left once this result is taken.
AcceptLoaded(i, ok, ls) ==
  \/ /\ state = Loading(i)
     /\ ok
     /\ failures' = 0 /\ loads' = ls
     /\ PlayLoaded(i)
     /\ UNCHANGED <<preload, queue, ignore_end_of_track, crossfade, alive>>
  \/ /\ state = Loading(i)
     /\ ~ok /\ MayTryNext
     /\ PlayCurrentOf(SkipToNext(queue), ls, failures + 1)
  \/ /\ state = Loading(i)
     /\ ~ok /\ ~MayTryNext
     /\ loads' = ls
     /\ StopPlayback(queue)
     /\ UNCHANGED <<ignore_end_of_track, crossfade, alive>>
  \/ /\ state # Loading(i)          \* a stale result
     /\ loads' = ls
     /\ UNCHANGED <<player, sink, notice, alive>>

HandleLoaded(i, ok) ==
  /\ alive /\ loads[i] > 0
  /\ AcceptLoaded(i, ok, [loads EXCEPT ![i] = @ - 1])
  /\ UNCHANGED <<preloads, events, commands>>

\* handle_preloaded(): a result that is not awaited as a preload may be the one
\* of an adopted thread, so it is handled as a load result.
HandlePreloaded(i, ok) ==
  /\ alive /\ preloads[i] > 0
  /\ preloads' = [preloads EXCEPT ![i] = @ - 1]
  /\ \/ /\ preload = Preloading(i)
        /\ preload' = IF ok THEN Preloaded(i) ELSE NoPreload
        /\ UNCHANGED <<state, queue, failures, ignore_end_of_track, crossfade,
                       current, loads, sink, notice, alive>>
     \/ /\ preload # Preloading(i)
        /\ AcceptLoaded(i, ok, loads)
  /\ UNCHANGED <<events, commands>>
-----------------------------------------------------------------------------
(***************************************************************************)
(* Events of the audio callback.                                           *)
(***************************************************************************)
TakeEvent(kind) ==
  /\ alive
  /\ events # <<>> /\ Head(events).kind = kind
  /\ events' = Tail(events)
  /\ UNCHANGED commands

HandleEndOfTrack ==
  /\ TakeEvent("EndOfTrack")
  /\ \/ /\ ignore_end_of_track
        /\ ignore_end_of_track' = FALSE
        /\ UNCHANGED <<state, preload, queue, failures, crossfade, current,
                       loads, sink, notice, alive>>
     \/ /\ ~ignore_end_of_track
        /\ PlayCurrentOf(SkipToFollowing(queue), loads, failures)
  /\ UNCHANGED preloads

\* The position is of the current track (the path, not the source, is
\* compared).
IsCurrentReport(e) == state.st \in {"Playing", "Paused"} /\ state.item = e.item

TimeLeft(p) == IF p < Duration THEN Duration - p ELSE 0

\* preload(): unless the item is already in the preloader.
IsInPreload(i) == preload \in {Preloading(i), Preloaded(i)}

ShouldPreload(p) ==
  /\ TimeLeft(p) <= PreloadWindow
  /\ Following(queue) # NoItem /\ ~IsInPreload(Following(queue))

\* maybe_start_crossfade(), with the following track already preloaded.  The
\* send to the CrossfadeSource fails only if the sink has dropped that source,
\* and SinkPlaysState says that it never has while a track plays.
CanCrossfade(p) ==
  /\ state.st = "Playing"
  /\ crossfade > 0 /\ TimeLeft(p) <= crossfade
  /\ Following(queue) # NoItem /\ preload = Preloaded(Following(queue))

HandlePosition ==
  /\ TakeEvent("Position")
  /\ LET e == Head(events)
         next == Following(queue)
     IN \/ /\ ~IsCurrentReport(e)
           /\ UNCHANGED <<player, threads, sink, notice>>
        \/ /\ IsCurrentReport(e) /\ ~CanCrossfade(e.pos)
           /\ state' = [state EXCEPT !.pos = e.pos]
           /\ IF ShouldPreload(e.pos)
                THEN /\ preload' = Preloading(next)
                     /\ preloads' = [preloads EXCEPT ![next] = @ + 1]
                ELSE UNCHANGED <<preload, preloads>>
           /\ UNCHANGED <<queue, failures, ignore_end_of_track, crossfade,
                          current, loads, sink, notice>>
        \/ /\ IsCurrentReport(e) /\ CanCrossfade(e.pos)
           /\ queue.position <= MaxTracks + 1
           /\ preload' = NoPreload
           /\ queue' \in SkipToFollowing(queue)
           /\ failures' = 0
           /\ ignore_end_of_track' = TRUE
           /\ sink' = [sink EXCEPT !.next = Source(next), !.fade = crossfade]
           /\ current' = next
           /\ state' = Playing(next, 0)
           /\ notice' = Notice("Playing", next)
           /\ UNCHANGED <<crossfade, threads>>
  /\ UNCHANGED alive

(***************************************************************************)
(* One callback of the audio device.  A source that has samples plays one  *)
(* tick of its track, reports its position, and at the end of the track    *)
(* sends EndOfTrack and falls silent; a source whose buffer is empty, for  *)
(* now or for good, plays nothing.  A fade goes on whether or not its      *)
(* sources have samples, and its end drops the older one.                  *)
(***************************************************************************)
CanPlay(s) == s # NoSource /\ ~s.eot /\ (s.dry = Duration \/ s.pos < s.dry)

Played(s) ==
  LET p == Smaller(s.pos + 1, Duration)
  IN [s EXCEPT !.pos = p, !.eot = p = Duration]

Reports(s) ==
  LET p == Played(s).pos
  IN <<Position(s.item, p)>> \o IF p = Duration THEN <<EndOfTrack>> ELSE <<>>

AudioCallback ==
  /\ sink.on
  /\ \E who \in SUBSET {"cur", "next"} :
       /\ who # {} \/ sink.fade > 0
       /\ \A w \in who : CanPlay(sink[w])
       /\ LET cur == IF "cur" \in who THEN Played(sink.cur) ELSE sink.cur
              next == IF "next" \in who THEN Played(sink.next) ELSE sink.next
              reports == (IF "cur" \in who THEN Reports(sink.cur) ELSE <<>>)
                         \o (IF "next" \in who THEN Reports(sink.next) ELSE <<>>)
          IN /\ Len(events \o reports) <= MaxEvents
             /\ events' = events \o reports
             /\ sink' = IF sink.fade > 1
                          THEN [sink EXCEPT !.cur = cur, !.next = next, !.fade = @ - 1]
                        ELSE IF sink.fade = 1
                          THEN [sink EXCEPT !.cur = next, !.next = NoSource, !.fade = 0]
                        ELSE [sink EXCEPT !.cur = cur]
  /\ UNCHANGED <<player, threads, notice, alive, commands>>
-----------------------------------------------------------------------------
UserCommand ==
  \/ \E items \in Lists :
       \/ ReplaceQueue(items)
       \/ \E position \in Positions(items) : LoadQueue(items, position)
  \/ NextTrack \/ PreviousTrack \/ Pause \/ Resume \/ PauseOrResume \/ Stop
  \/ \E p \in 0..Duration : Seek(p)
  \/ \E duration \in Crossfades : Configure(duration)
  \/ \E behavior \in Behaviors : SetQueueBehavior(behavior)
  \/ \E i \in Item : AddToQueue(i) \/ AddNextTrack(i)

LoaderResult == \E i \in Item, ok \in BOOLEAN : HandleLoaded(i, ok) \/ HandlePreloaded(i, ok)

Next ==
  \/ UserCommand \/ LoaderResult
  \/ HandleEndOfTrack \/ HandlePosition \/ AudioCallback

Spec == Init /\ [][Next]_vars

\* The player thread, the loader threads (a load ends, with some result) and
\* the audio device keep running; the user need not do anything.
FairSpec ==
  /\ Spec
  /\ WF_vars(HandleEndOfTrack) /\ WF_vars(HandlePosition) /\ WF_vars(AudioCallback)
  /\ \A i \in Item :
       WF_vars(\E ok \in BOOLEAN : HandleLoaded(i, ok) \/ HandlePreloaded(i, ok))
-----------------------------------------------------------------------------
\* A track that is loading, or being preloaded, has a thread whose result will
\* still be accepted for it, also after a preload was adopted as the load: the
\* player never waits for a result that nobody will send.
LoadIsPending ==
  /\ alive /\ state.st = "Loading" => loads[state.item] + preloads[state.item] > 0
  /\ preload.st = "Preloading" => preloads[preload.item] > 0

\* The sink and the player agree: the newest source is the current track, it
\* is audible exactly while the player says Playing, and nothing is left in
\* the sink in any other state (so the channel of a crossfade is never closed
\* while a track plays, and seeks go to the track the user sees).
SinkPlaysState ==
  IF state.st \in {"Playing", "Paused"}
    THEN /\ Newest.item = state.item /\ current = state.item
         /\ sink.on = (state.st = "Playing")
    ELSE sink = Silent

\* The user interface is in step with the player: the last notification names
\* the state and its track, unless a pause or resume has lost the state.
NoticeShowsState ==
  \/ state = Invalid
  \/ state = Stopped /\ notice = Notice("Stopped", NoItem)
  \/ state.st = "Loading" /\ notice = Notice("Loading", state.item)
  \/ state.st = "Paused" /\ notice = Notice("Pausing", state.item)
  \/ /\ state.st = "Playing"
     /\ notice \in {Notice("Playing", state.item), Notice("Resuming", state.item)}

\* When the current track has ended, the player will be told: its EndOfTrack is
\* still in the channel, and will not be swallowed.  Holds without crossfade.
EndedTrackIsReported ==
  (alive /\ Newest.eot) =>
    /\ ~ignore_end_of_track
    /\ \E k \in DOMAIN events : events[k] = EndOfTrack

\* Without tracks queued by the user, a crossfade fades into the track that the
\* queue moves to.
StartsFade == sink'.next # NoSource /\ sink'.next # sink.next /\ notice' # notice

FadesIntoQueueCurrent ==
  [][StartsFade /\ queue.items # <<>> /\ queue.user_items = <<>>
       => state'.item = Current(queue')]_vars

\* The loading of tracks comes to an end, also if every load fails.
LoadingEnds == (state.st = "Loading" /\ alive) ~> (state.st # "Loading" \/ ~alive)

\* Nothing of an earlier crossfade is left: no source fades, no EndOfTrack will
\* be swallowed, and none has been.
FadeIsOver ==
  /\ crossfade = 0 /\ sink.next = NoSource /\ ~ignore_end_of_track
  /\ Newest.eot => EndOfTrack \in Range(events)

\* No seek that failed has left the track that plays without an end.
Decodes == Newest.dry = Duration

\* Left alone in a mode that does not repeat, and with no crossfade, playback
\* reaches the end of the queue and stops, whatever the commands before and
\* however many loads fail: no EndOfTrack and no result of a load is lost.  The
\* exception is a seek that failed while its worker waited for room in the ring
\* and that no other seek has made good: such a track has no end, and the queue
\* stands still.
QueueRunsOut ==
  (/\ alive /\ commands = MaxCommands
   /\ FadeIsOver /\ Decodes
   /\ state.st \in {"Loading", "Playing"}
   /\ queue.behavior \in {"Sequential", "Random"})
    ~> (state = Stopped)
-----------------------------------------------------------------------------
\* Statements of the source that the code does not keep.

\* player/mod.rs:738-739: "Playing follows in case of success" after the result
\* of the load that the player announced last.
LoadSuccessPlays ==
  [][\A i \in Item :
       HandleLoaded(i, TRUE) /\ notice = Notice("Loading", i)
         => notice' = Notice("Playing", i)]_vars

\* player/mod.rs:744: what is preloaded is the "next item in queue".
PreloadedIsNextInQueue ==
  [][preload'.st = "Preloading" /\ preload' # preload
       => \A q \in SkipToFollowing(queue) : Current(q) = preload'.item]_vars

\* player/mod.rs:775: EndOfTrack means "Player has finished playing a track", so
\* it never ends one that is still loading.
EndOfTrackEndsPlayedTrack ==
  [][HandleEndOfTrack /\ state.st = "Loading" => state' = state]_vars

\* player/mod.rs:775-776: if the queue is empty when a track ends, Stopped
\* follows.
EndOfTrackOnEmptyQueueStops ==
  [][HandleEndOfTrack /\ queue.items = <<>> /\ queue.user_items = <<>>
       => alive' /\ notice' = Notice("Stopped", NoItem)]_vars
=============================================================================
