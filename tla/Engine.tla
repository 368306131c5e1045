------------------------------- MODULE Engine -------------------------------
(***************************************************************************)
(* The engine of librespot-playback-patch/src/player.rs: the thread that   *)
(* polls PlayerInternal and the threads that load tracks for it.           *)
(*                                                                         *)
(* A turn of poll's loop has the stages "command", "loaders" and "packet"; *)
(* loader threads step between any two of them.                            *)
(* Each stage is an operator on the engine's record, so that the handlers  *)
(* call each other as they do in the code. A command is drawn when the     *)
(* loop takes one: only the loop sees the channel, so a command that waits *)
(* in it is one drawn later. What is told to the listeners is kept in      *)
(* "told": the last event that says what the engine does.                  *)
(***************************************************************************)
EXTENDS Naturals, FiniteSets

CONSTANTS
  Remote,       \* tracks and episodes: fetched, or in the cache of the session
  OnDisk,       \* local files
  Duration,     \* of a track, in packets
  Suggested,    \* packets before the end at which the next track is suggested
  Offers,       \* the commands that are sent: [name, track, play, at]
  MaxCommands,  \* bound: commands taken
  MaxFaults     \* bound: failures of the sink, of seeks, packets and evictions

Track == Remote \cup OnDisk
Loaders == 1..(MaxCommands + 1)
NoTrack == "none"

EngineAssumption ==
  /\ Duration \in Nat /\ MaxCommands \in Nat /\ MaxFaults \in Nat
  /\ Offers \subseteq [name : {"Load", "Preload", "Seek", "Play", "Pause", "Stop"},
                       track : Track \cup {NoTrack}, play : BOOLEAN, at : Nat]

Smaller(a, b) == IF a < b THEN a ELSE b

VARIABLES
  e,        \* PlayerInternal, see Started below
  pc,       \* stage of the turn; or "closing", "draining", "joining", "ended"
  loader,   \* loader threads, the superseded ones too
  cached,   \* tracks the session's cache holds
  copy,     \* track -> at what a cached copy fails: "key", "decode", "seek" or "nothing"
  lock,     \* who holds the mutex of load_handles, the loader threads
  faults
vars == <<e, pc, loader, cached, copy, lock, faults>>

\* A loader's stage: item, open, read; ready or failed once its channel is answered or
\* dropped, which ends the thread; unused again when the engine has seen that.
Unused == [stage |-> "unused", track |-> NoTrack, at |-> 0, cached |-> FALSE]
LoadTrack(track, at) == [stage |-> "item", track |-> track, at |-> at, cached |-> FALSE]

NoPreload == [st |-> "None", track |-> NoTrack, loader |-> 0, at |-> 0]
Nothing == [what |-> "Nothing", track |-> NoTrack, id |-> 0, at |-> 0]

\* "asked" says which track and position the last request that was not refused is
\* for, until it begins; "began" what began in this stage: they are history.
Started(gapless) ==
  [st |-> "Stopped", track |-> NoTrack, id |-> 0, at |-> 0, start |-> FALSE, loader |-> 0,
   suggested |-> FALSE, preload |-> NoPreload, sink |-> "Closed", gapless |-> gapless,
   ids |-> 0, spawned |-> Nothing, commands |-> 0, alive |-> TRUE,
   fails |-> "nothing",   \* what fails during this stage
   stray |-> FALSE,       \* a packet was written to a sink that does not run
   told |-> Nothing, began |-> Nothing, asked |-> Nothing]

Init ==
  /\ \E gapless \in BOOLEAN : e = Started(gapless)
  /\ pc = "command" /\ loader = [l \in Loaders |-> Unused]
  /\ cached \in SUBSET Remote
  /\ copy \in [Remote -> {"key", "decode", "seek", "nothing"}]
  /\ \A t \in Remote \ cached : copy[t] = "nothing"
  /\ lock = "free" /\ faults = 0

----------------------------------------------------------------------------
(* Events and the sink.                                                     *)

Tell(s, what) ==
  [s EXCEPT !.told = [what |-> what, track |-> s.track, id |-> s.id, at |-> 0]]
Exit(s) == [s EXCEPT !.alive = FALSE]   \* the whole program exits

EnsureSinkStopped(s, temporarily) ==
  CASE s.sink = "Running" /\ s.fails = "stop" -> Exit(s)
    [] s.sink = "Running" /\ s.fails # "stop" ->
         [s EXCEPT !.sink = IF temporarily THEN "TemporarilyClosed" ELSE "Closed"]
    [] s.sink # "Running" -> IF temporarily THEN s ELSE [s EXCEPT !.sink = "Closed"]

PlayingToPaused(s) == [s EXCEPT !.st = "Paused"]
\* Mutant: the sink of a paused track is left running.
PauseLeavingSink(s) ==
  CASE s.st = "Playing" -> Tell(PlayingToPaused(s), "Paused")
    [] s.st = "Loading" -> [s EXCEPT !.start = FALSE]
    [] s.st \notin {"Playing", "Loading"} -> s
HandlePause(s) ==
  CASE s.st = "Paused" -> EnsureSinkStopped(s, FALSE)
    [] s.st = "Playing" -> Tell(EnsureSinkStopped(PlayingToPaused(s), FALSE), "Paused")
    [] s.st = "Loading" -> [s EXCEPT !.start = FALSE]
    [] s.st \notin {"Paused", "Playing", "Loading"} -> s

EnsureSinkRunning(s) ==
  IF s.sink = "Running" THEN s
  ELSE IF s.fails = "start" THEN HandlePause(s) ELSE [s EXCEPT !.sink = "Running"]

PausedToPlaying(s) == [s EXCEPT !.st = "Playing"]
\* Mutant: what has been resumed is told after the sink has started.
PlayThenTell(s) ==
  CASE s.st = "Paused" -> Tell(EnsureSinkRunning(PausedToPlaying(s)), "Playing")
    [] s.st = "Loading" -> [s EXCEPT !.start = TRUE]
    [] s.st \notin {"Paused", "Loading"} -> s
HandlePlay(s) ==
  CASE s.st = "Paused" -> EnsureSinkRunning(Tell(PausedToPlaying(s), "Playing"))
    [] s.st = "Loading" -> [s EXCEPT !.start = TRUE]
    [] s.st \notin {"Paused", "Loading"} -> s

HandlePlayerStop(s) ==
  CASE s.st = "Stopped" -> s
    [] s.st = "Invalid" -> Exit(s)
    [] s.st \notin {"Stopped", "Invalid"} ->
         [Tell(EnsureSinkStopped(s, FALSE), "Stopped")
            EXCEPT !.st = "Stopped", !.track = NoTrack, !.id = 0, !.at = 0, !.loader = 0,
                   !.began = Nothing, !.asked = Nothing]

\* While the sink starts, the engine is still in the state it leaves.
StartPlayback(s, track, id, at, start) ==
  LET ready == IF start THEN EnsureSinkRunning(s) ELSE EnsureSinkStopped(s, FALSE)
      began == [ready EXCEPT !.st = IF start THEN "Playing" ELSE "Paused", !.track = track,
                             !.id = id, !.at = at, !.start = FALSE, !.loader = 0,
                             !.suggested = FALSE]
  IN [Tell(began, began.st) EXCEPT !.began = [what |-> "Began", track |-> track, id |-> id, at |-> at]]

----------------------------------------------------------------------------
(* The commands.                                                            *)

Asked(s, track, id, at) ==
  [s EXCEPT !.asked = [what |-> "Asked", track |-> track, id |-> id, at |-> at]]
\* A decoder's seek stops at the end.
Begin(s, track, id, at, play) ==
  StartPlayback(Asked(s, track, id, at), track, id, Smaller(at, Duration), play)

\* A thread that loads the track; the engine keeps its channel.
Fresh == CHOOSE l \in Loaders : loader[l] = Unused
Spawn(s, track, at) == [s EXCEPT !.spawned = LoadTrack(track, at)]

\* The track has ended: its decoder is used again. A seek that fails leaves Invalid.
LoadAgain(s, track, id, play, at) ==
  LET taken == [s EXCEPT !.st = "Invalid"] IN
  IF at # s.at /\ s.fails = "seek" THEN taken
  ELSE Begin([taken EXCEPT !.preload = NoPreload], track, id, at, play)

\* The track is playing or paused: a seek.
LoadCurrent(s, track, id, play, at) ==
  IF at # s.at /\ s.fails = "seek" THEN s
  ELSE Begin([s EXCEPT !.st = "Invalid", !.preload = NoPreload], track, id, at, play)

\* The track is preloaded.
LoadPreloaded(s, track, id, play, at) ==
  LET taken == [s EXCEPT !.preload = NoPreload] IN
  IF at # s.preload.at /\ s.fails = "seek" THEN taken
  ELSE Begin(taken, track, id, at, play)

\* The track is being preloaded from its beginning, or has to be loaded.
\* Mutant: the loader of the preload is taken over for any position.
PendingAnyPosition(s, track, at) == s.preload.st = "Loading" /\ s.preload.track = track
Pending(s, track, at) == s.preload.st = "Loading" /\ s.preload.track = track /\ at = 0
LoadFresh(s, track, id, play, at) ==
  LET mine == Pending(s, track, at)
      told == [Asked(s, track, id, at) EXCEPT !.told = [what |-> "Loading", track |-> track, id |-> id, at |-> 0]]
      one == IF mine THEN told ELSE Spawn(told, track, at) IN
  [one EXCEPT !.preload = NoPreload, !.st = "Loading", !.track = track, !.id = id, !.at = 0,
              !.start = play, !.loader = IF mine THEN s.preload.loader ELSE Fresh]

\* id is 0 for a request of its own.
HandleCommandLoad(s0, track, id0, play, at) ==
  LET id == IF id0 = 0 THEN s0.ids + 1 ELSE id0
      named == [s0 EXCEPT !.ids = IF id0 = 0 THEN id ELSE @]
      s == IF named.gapless THEN named ELSE EnsureSinkStopped(named, play) IN
  CASE s.st = "Invalid" -> s
    [] s.st = "EndOfTrack" /\ s.track = track -> LoadAgain(s, track, id, play, at)
    [] s.st \in {"Playing", "Paused"} /\ s.track = track -> LoadCurrent(s, track, id, play, at)
    [] s.st # "Invalid" /\ ~(s.st \in {"EndOfTrack", "Playing", "Paused"} /\ s.track = track) ->
         IF s.preload.st = "Ready" /\ s.preload.track = track
         THEN LoadPreloaded(s, track, id, play, at) ELSE LoadFresh(s, track, id, play, at)

HandleCommandPreload(s, track) ==
  LET cancelled == IF s.preload.track = track THEN s ELSE [s EXCEPT !.preload = NoPreload]
      loaded == s.st \in {"Playing", "Paused", "EndOfTrack"} /\ s.track = track IN
  IF s.preload.track = track \/ loaded THEN cancelled
  ELSE LET one == Spawn(cancelled, track, 0) IN
       [one EXCEPT !.preload = [st |-> "Loading", track |-> track, loader |-> Fresh, at |-> 0]]

\* While a track loads, a seek loads it anew under the same request.
HandleCommandSeek(s, at) ==
  CASE s.st = "Loading" -> HandleCommandLoad(s, s.track, s.id, s.start, at)
    [] s.st \in {"Playing", "Paused"} ->
         IF s.fails = "seek" THEN s ELSE [s EXCEPT !.at = Smaller(at, Duration)]
    [] s.st = "Invalid" -> Exit(s)
    [] s.st \in {"Stopped", "EndOfTrack"} -> s

HandleCommand(s, c) ==
  CASE c.name = "Load" -> HandleCommandLoad(s, c.track, 0, c.play, c.at)
    [] c.name = "Preload" -> HandleCommandPreload(s, c.track)
    [] c.name = "Seek" -> HandleCommandSeek(s, c.at)
    [] c.name = "Play" -> HandlePlay(s)
    [] c.name = "Pause" -> HandlePause(s)
    [] c.name = "Stop" -> HandlePlayerStop(s)

----------------------------------------------------------------------------
(* The turn of the loop.                                                    *)

\* Loaders whose answer nobody waits for are forgotten once they have ended.
Forgotten(s, l) == loader[l].stage \in {"ready", "failed"} /\ l \notin {s.loader, s.preload.loader}
LoadersAfter(s) ==
  [l \in Loaders |-> IF Forgotten(s, l) THEN Unused
                     ELSE IF s.spawned # Nothing /\ l = Fresh THEN s.spawned ELSE loader[l]]

\* The stage after this one; the packet of a track that does not play is passed over.
States == {"Stopped", "Loading", "Paused", "Playing", "EndOfTrack", "Invalid"}
Then(stage) == [st \in States |-> stage]
IfLoaded == [st \in States |-> IF st \in {"Playing", "Paused", "Invalid"} THEN "packet" ELSE "command"]

\* A stage in which one of the things that may fail does, and it matters, or none.
Stage(now, next, may, Step(_)) ==
  LET before == IF e.began = Nothing THEN e ELSE [e EXCEPT !.began = Nothing, !.asked = Nothing]
      Result(f) == [Step([before EXCEPT !.fails = f]) EXCEPT !.fails = "nothing"] IN
  /\ pc = now /\ e.alive
  /\ \E f \in {"nothing"} \cup (IF faults < MaxFaults THEN may ELSE {}) :
       LET s == Result(f) IN
       /\ f = "nothing" \/ s # Result("nothing")
       /\ e' = [s EXCEPT !.spawned = Nothing] /\ loader' = LoadersAfter(s) /\ pc' = next[s.st]
       /\ faults' = faults + (IF f = "nothing" THEN 0 ELSE 1)
  /\ UNCHANGED <<cached, copy, lock>>

TakeCommand ==
  /\ e.commands < MaxCommands
  /\ \E c \in Offers :
       Stage("command", Then("loaders"), {"start", "stop", "seek"},
             LAMBDA s : [HandleCommand(s, c) EXCEPT !.commands = @ + 1])

Answered(l) == l # 0 /\ loader[l].stage \in {"ready", "failed"}

\* Without a command the loop turns while it plays, or when a loader has woken it.
Turn ==
  /\ e.st \in {"Playing", "Invalid"} \/ (e.st = "Loading" /\ Answered(e.loader))
       \/ Answered(e.preload.loader)
  /\ Stage("command", Then("loaders"), {}, LAMBDA s : s)

\* A loader that failed is not asked again: its request stays Loading.
PollLoader(s) ==
  IF s.st # "Loading" \/ ~Answered(s.loader) THEN s
  ELSE IF loader[s.loader].stage = "ready"
       THEN StartPlayback(s, s.track, s.id, loader[s.loader].at, s.start)
       ELSE [Tell(s, "Unavailable") EXCEPT !.loader = 0]

\* A preload that fails is told under the request that plays on.
TellMissed(s, track) ==
  IF s.st \in {"Playing", "Paused"}
  THEN [s EXCEPT !.told = [what |-> "Unavailable", track |-> track, id |-> s.id, at |-> 0]]
  ELSE s

PollPreload(s) ==
  IF ~Answered(s.preload.loader) THEN s
  ELSE IF loader[s.preload.loader].stage = "ready"
       THEN [s EXCEPT !.preload = [st |-> "Ready", track |-> s.preload.track, loader |-> 0,
                                   at |-> loader[s.preload.loader].at]]
       ELSE TellMissed([s EXCEPT !.preload = NoPreload], s.preload.track)

PlayingToEndOfTrack(s) == [s EXCEPT !.st = "EndOfTrack"]

\* A packet goes to the sink; no packet is the end of the track.
HandlePacket(s) ==
  IF s.at = Duration THEN Tell(PlayingToEndOfTrack(s), "EndOfTrack")
  ELSE LET next == [s EXCEPT !.at = @ + 1, !.stray = @ \/ s.sink # "Running"] IN
       IF s.fails = "write" THEN HandlePause(next) ELSE next

\* The decoder fails: the track is said to have ended, and goes on being played.
PollPacket(s0) ==
  LET s == EnsureSinkRunning(s0) IN
  CASE s0.st = "Invalid" -> Exit(s0)
    [] s0.st = "Playing" /\ s.st # "Playing" -> Exit(s)
    [] s0.st = "Playing" /\ s.st = "Playing" ->
         IF s.fails = "packet" THEN Tell(s, "EndOfTrack") ELSE HandlePacket(s)
    [] s0.st \notin {"Invalid", "Playing"} -> s0

Suggest(s) ==
  IF s.st \in {"Playing", "Paused"} /\ ~s.suggested /\ Duration - s.at < Suggested
  THEN [s EXCEPT !.suggested = TRUE] ELSE s

PollLoaders ==
  Stage("loaders", IfLoaded, {"start", "stop"}, LAMBDA s : PollPreload(PollLoader(s)))
Packet ==
  \E available \in BOOLEAN :   \* range_to_end_available
    Stage("packet", Then("command"), {"start", "stop", "write", "packet"},
          LAMBDA s : IF available THEN Suggest(PollPacket(s)) ELSE PollPacket(s))

----------------------------------------------------------------------------
(* The loader threads.                                                      *)

At(l, stage) == loader[l].stage = stage
Go(l, stage) == loader' = [loader EXCEPT ![l].stage = stage]

\* A local file is looked up, opened, decoded and sought in.
LoadLocalTrack(l) ==
  /\ At(l, "item") /\ loader[l].track \in OnDisk
  /\ \/ loader' = [loader EXCEPT ![l].stage = "ready", ![l].at = Smaller(@, Duration)]
     \/ Go(l, "failed")
  /\ UNCHANGED <<cached, faults>>

OpenFile(l) ==
  LET here == loader[l].track \in cached IN
  \/ loader' = [loader EXCEPT ![l].stage = "read", ![l].cached = here]
  \/ ~here /\ Go(l, "failed")

\* The item, one of its alternatives, and a format of it are found, or none is.
FindItem(l) ==
  /\ At(l, "item") /\ loader[l].track \in Remote
  /\ OpenFile(l) \/ Go(l, "failed")
  /\ UNCHANGED <<cached, faults>>
OpenAgain(l) == At(l, "open") /\ OpenFile(l) /\ UNCHANGED <<cached, faults>>

\* Mutant: a cached copy that cannot be read is tried again as it is.
KeepCopy(l, checked) == Go(l, "open") /\ UNCHANGED <<cached, faults>>
\* What fails on a cached copy takes it out of the cache and opens the file again;
\* only the decoder's failure looks whether that worked.
Evict(l, checked) ==
  \/ /\ cached' = cached \ {loader[l].track} /\ UNCHANGED faults
     /\ Go(l, "open")
  \/ /\ faults < MaxFaults /\ faults' = faults + 1 /\ UNCHANGED cached
     /\ Go(l, IF checked THEN "failed" ELSE "open")

Bad(l) == IF loader[l].cached THEN copy[loader[l].track] ELSE "nothing"

\* The key, the decoder and the position, in this order; without a key a file is
\* played as it is, and a position past the end is the beginning.
KeyFails(l) == Bad(l) = "key" /\ Evict(l, FALSE)
DecoderFails(l) ==
  \/ Bad(l) = "decode" /\ Evict(l, TRUE)
  \/ ~loader[l].cached /\ Go(l, "failed") /\ UNCHANGED <<cached, faults>>
SeekFails(l) ==
  \/ Bad(l) = "seek" /\ Evict(l, FALSE)
  \/ ~loader[l].cached /\ Go(l, "failed") /\ UNCHANGED <<cached, faults>>
Ready(l) ==
  /\ Bad(l) = "nothing" /\ UNCHANGED <<cached, faults>>
  /\ loader' = [loader EXCEPT ![l].stage = "ready", ![l].at = IF @ > Duration THEN 0 ELSE @]
ReadFile(l) == At(l, "read") /\ (KeyFails(l) \/ DecoderFails(l) \/ SeekFails(l) \/ Ready(l))

LoadRemoteTrack(l) == FindItem(l) \/ OpenAgain(l) \/ ReadFile(l)

\* A thread that has answered takes its handle away.
Load(l) ==
  /\ LoadRemoteTrack(l) \/ LoadLocalTrack(l)
  /\ loader'[l].stage \in {"ready", "failed"} => lock = "free"
  /\ UNCHANGED <<e, pc, copy, lock>>

----------------------------------------------------------------------------
(* The player is dropped: the loop ends and the loaders are joined.         *)

Close ==
  /\ pc = "command" /\ e.alive /\ pc' = "closing"
  /\ UNCHANGED <<e, loader, cached, copy, lock, faults>>

\* Mutant: the threads are joined under the mutex.
JoinUnderLock ==
  /\ pc = "draining" /\ pc' = "joining"
  /\ UNCHANGED <<e, loader, cached, copy, lock, faults>>
LockHandles ==
  /\ pc = "closing" /\ lock = "free" /\ lock' = "engine" /\ pc' = "draining"
  /\ UNCHANGED <<e, loader, cached, copy, faults>>
\* The handles are moved out of the map and the mutex is released.
Drain ==
  /\ pc = "draining" /\ lock' = "free" /\ pc' = "joining"
  /\ UNCHANGED <<e, loader, cached, copy, faults>>
Join ==
  /\ pc = "joining" /\ \A l \in Loaders : loader[l].stage \in {"unused", "ready", "failed"}
  /\ pc' = "ended"
  /\ UNCHANGED <<e, loader, cached, copy, lock, faults>>

Next ==
  \/ TakeCommand \/ Turn \/ PollLoaders \/ Packet
  \/ Close \/ LockHandles \/ Drain \/ Join
  \/ \E l \in Loaders : Load(l)

\* The loop runs when it is woken, and a loader's requests are answered or fail.
Fairness ==
  /\ WF_vars(Turn \/ PollLoaders \/ Packet)
  /\ WF_vars(LockHandles \/ Drain \/ Join)
  /\ \A l \in Loaders : WF_vars(Load(l))
Spec == Init /\ [][Next]_vars /\ Fairness

----------------------------------------------------------------------------
(* Correctness.                                                             *)

TypeOK ==
  /\ pc \in {"command", "loaders", "packet", "closing", "draining", "joining", "ended"}
  /\ e.st \in States
  /\ e.sink \in {"Running", "TemporarilyClosed", "Closed"}
  /\ cached \subseteq Remote /\ faults \in 0..MaxFaults

\* The listeners know what the engine does: the last event that says so names the
\* state, the track and the request the engine is in. A decoder that fails is told
\* as the end of a track that goes on. A preload that fails while a track plays or is
\* paused is told under the request of that track, with the track that was missed.
SaysWhatItDoes ==
  LET t == e.told  same == t.track = e.track /\ t.id = e.id IN
  e.alive /\ e.st # "Invalid" =>
    CASE t.what \in {"Playing", "Paused"} -> e.st = t.what /\ same
      [] t.what = "EndOfTrack" -> e.st \in {"EndOfTrack", "Playing", "Paused"} /\ same
      [] t.what = "Loading" -> e.st = "Loading" /\ same
      [] t.what = "Unavailable" ->
           (e.st = "Loading" /\ same) \/ (e.st \in {"Playing", "Paused"} /\ t.id = e.id)
      [] t.what \in {"Stopped", "Nothing"} -> e.st = "Stopped"

\* Sound only comes out of a running sink, and a sink runs for nobody who has paused
\* or stopped, however starts of the sink, writes and loads fail.
SinkFollows ==
  e.alive => /\ e.st \in {"Paused", "Stopped"} => e.sink # "Running"
             /\ ~e.stray

\* What begins for a request is the track it was last asked for, at the position it
\* was last asked for: seeks while loading, preloads taken over and superseded loaders
\* do not mix. A position past the end is the end or the beginning.
BeginsWhereAsked ==
  e.began.id # 0 /\ e.began.id = e.asked.id =>
    /\ e.began.track = e.asked.track
    /\ IF e.asked.at <= Duration THEN e.began.at = e.asked.at ELSE e.began.at \in {0, Duration}

\* Loading ends, with a track or with none, whatever the cached copies are like.
LoadEnds == (e.st = "Loading" /\ e.loader # 0) ~> (e.st # "Loading" \/ e.loader = 0 \/ ~e.alive \/ pc = "ended")

\* Dropping the player comes to an end: no loader waits for the mutex while it is waited for.
JoinEnds == (pc = "closing") ~> (pc = "ended")

\* The engine is never left in the state in which is_playing ends the program.
NeverInvalid == e.st # "Invalid"
=============================================================================
