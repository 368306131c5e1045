---------------------------- MODULE PlayerProofs ----------------------------
(***************************************************************************)
(* Proofs about the player with the native engine: its sink plays what it  *)
(* says it plays, what it waits for is on its way, the user interface is   *)
(* told of its state, and a crossfade fades into the track that the queue  *)
(* makes current.  Then, about the player with the librespot engine: its   *)
(* type, and that nothing plays after a stop; and about that engine: what  *)
(* it says that it does is what it does, and what begins is what was asked *)
(* for.  Last, about the output of the native engine: every frame is heard *)
(* in its turn.                                                            *)
(***************************************************************************)
EXTENDS MCPlayer, QueueLemmas, FiniteSetTheorems

States ==
  {Stopped, Invalid} \cup {Loading(i) : i \in Item}
    \cup [st : {"Playing", "Paused"}, item : Item, pos : Nat]
Preloads == {NoPreload} \cup {Preloading(i) : i \in Item} \cup {Preloaded(i) : i \in Item}
Sources ==
  {NoSource} \cup [item : Item, pos : Nat, eot : BOOLEAN, dry : Nat \cup {Duration}]
Notices ==
  [kind : {"Loading", "Playing", "Pausing", "Resuming", "Stopped"}, item : Item \cup {NoItem}]
Events == [kind : {"Position", "EndOfTrack"}, item : Item \cup {NoItem}, pos : Nat]

\* A second source is there exactly while one fades into it, so a fade that ends
\* leaves a source to play.
GoodSink ==
  /\ sink \in [on : BOOLEAN, fade : Nat, cur : Sources, next : Sources]
  /\ sink.fade > 0 <=> sink.next # NoSource

\* What the player, the sink and the user interface take for the current track.
Agreed ==
  /\ state \in States /\ GoodSink
  /\ current \in Item \cup {NoItem} /\ notice \in Notices
  /\ SinkPlaysState /\ NoticeShowsState

\* What the player waits for.  A track that is preloaded is not the one that is
\* loaded, so the result of one cannot be taken for that of the other.
Waits ==
  /\ preload \in Preloads
  /\ loads \in [Item -> Nat] /\ preloads \in [Item -> Nat]
  /\ LoadIsPending
  /\ state.st = "Loading" => preload.item # state.item

Flags ==
  /\ failures \in Nat
  /\ ignore_end_of_track \in BOOLEAN /\ alive \in BOOLEAN
  /\ crossfade \in Crossfades

Counted == events \in Seq(Events) /\ commands \in Nat

Inv == WellFormed(queue) /\ Agreed /\ Waits /\ Flags /\ Counted
-----------------------------------------------------------------------------
(***************************************************************************)
(* The steps that the handlers share.                                      *)
(***************************************************************************)
LEMMA SilentIsGood ==
  /\ Silent \in [on : BOOLEAN, fade : Nat, cur : Sources, next : Sources]
  /\ Silent.fade = 0 /\ Silent.next = NoSource
BY DEF Silent, Sources

LEMMA SourceIsGood ==
  ASSUME NEW i \in Item
  PROVE  /\ Source(i) \in Sources /\ Source(i) # NoSource
         /\ Source(i).item = i
BY NoItemAssumption DEF Source, Sources, NoSource

LEMMA PlayLoadedAgrees ==
  ASSUME NEW i \in Item, PlayLoaded(i)
  PROVE  Agreed' /\ state'.st = "Playing"
<1>1. sink' = [on |-> TRUE, cur |-> Source(i), next |-> NoSource, fade |-> 0]
  BY DEF PlayLoaded, Silent
<1>2. state' = [st |-> "Playing", item |-> i, pos |-> 0]
  BY DEF PlayLoaded, Playing
<1>3. notice' = [kind |-> "Playing", item |-> i] /\ current' = i
  BY DEF PlayLoaded, Notice
<1>4. GoodSink'
  BY <1>1, SourceIsGood, SilentIsGood DEF GoodSink, Silent
<1>5. SinkPlaysState'
  BY <1>1, <1>2, <1>3, SourceIsGood DEF SinkPlaysState, Newest
<1>6. NoticeShowsState'
  BY <1>2, <1>3 DEF NoticeShowsState, Notice
<1>7. state' \in States /\ notice' \in Notices
  BY <1>2, <1>3 DEF States, Notices
<1> QED  BY <1>2, <1>3, <1>4, <1>5, <1>6, <1>7 DEF Agreed

LEMMA StartLoadingAgrees ==
  ASSUME NEW i \in Item, StartLoading(i), Agreed
  PROVE  Agreed' /\ state' = Loading(i)
<1>1. sink' = Silent /\ current' = current /\ state' = Loading(i)
  BY DEF StartLoading
<1>2. notice' = [kind |-> "Loading", item |-> i]
  BY DEF StartLoading, Notice
<1>3. state'.st = "Loading" /\ state'.item = i
  BY <1>1 DEF Loading
<1>4. GoodSink'  BY <1>1, SilentIsGood DEF GoodSink
<1>5. SinkPlaysState'  BY <1>1, <1>3 DEF SinkPlaysState
<1>6. NoticeShowsState'  BY <1>2, <1>3 DEF NoticeShowsState, Notice
<1>7. state' \in States /\ notice' \in Notices
  BY <1>1, <1>2 DEF States, Notices
<1> QED  BY <1>1, <1>4, <1>5, <1>6, <1>7 DEF Agreed

LEMMA StopPlaybackAgrees ==
  ASSUME NEW q, WellFormed(q), StopPlayback(q), Agreed
  PROVE  /\ Agreed' /\ state'.st = "Stopped" /\ WellFormed(queue')
         /\ preload' = preload /\ failures' = 0
<1>1. sink' = Silent /\ current' = current /\ state' = Stopped /\ preload' = preload
  BY DEF StopPlayback
<1>2. notice' = [kind |-> "Stopped", item |-> NoItem]
  BY DEF StopPlayback, Notice
<1>3. state'.st = "Stopped"  BY <1>1 DEF Stopped
<1>4. GoodSink'  BY <1>1, SilentIsGood DEF GoodSink
<1>5. SinkPlaysState'  BY <1>1, <1>3 DEF SinkPlaysState
<1>6. NoticeShowsState'  BY <1>1, <1>2 DEF NoticeShowsState, Notice
<1>7. state' \in States /\ notice' \in Notices
  BY <1>1, <1>2 DEF States, Notices
<1>8. WellFormed(queue')
  BY WellFormedFacts, ClearWellFormed DEF StopPlayback
<1> QED
  BY <1>1, <1>3, <1>4, <1>5, <1>6, <1>7, <1>8 DEF Agreed, StopPlayback

\* The threads that have been asked for something: "ls" are the loads a handler
\* leaves behind, before it asks for one more.
Asked(ls) ==
  /\ ls \in [Item -> Nat] /\ preloads' \in [Item -> Nat]
  /\ preload.st = "Preloading" => preloads'[preload.item] > 0

LEMMA PreloadKinds ==
  ASSUME preload \in Preloads
  PROVE  /\ preload.st = "Preloading" => preload = Preloading(preload.item) /\ preload.item \in Item
         /\ preload.st # "Preloading" => \A i \in Item : preload # Preloading(i)
         /\ preload.item \in Item \cup {NoItem}
         /\ \A i \in Item : /\ preload = Preloading(i) => preload.item = i /\ preload.st = "Preloading"
                            /\ preload = Preloaded(i) => preload.item = i /\ preload.st = "Preloaded"
                            /\ preload.item = i => preload \in {Preloading(i), Preloaded(i)}
BY NoItemAssumption DEF Preloads, NoPreload, Preloading, Preloaded

LEMMA LoadAndPlayAgrees ==
  ASSUME NEW i \in Item, NEW ls, Agreed, preload \in Preloads, Asked(ls), LoadAndPlay(i, ls)
  PROVE  Agreed' /\ Waits'
<1>1. CASE preload = Preloaded(i) /\ preload' = NoPreload /\ loads' = ls /\ PlayLoaded(i)
  <2>1. Agreed' /\ state'.st = "Playing"  BY <1>1, PlayLoadedAgrees
  <2>2. preload' \in Preloads /\ preload'.st = "None"  BY <1>1 DEF Preloads, NoPreload
  <2> QED  BY <1>1, <2>1, <2>2 DEF Waits, LoadIsPending, Asked
<1>2. CASE preload = Preloading(i) /\ preload' = NoPreload /\ loads' = ls /\ StartLoading(i)
  <2>1. Agreed' /\ state'.item = i  BY <1>2, StartLoadingAgrees DEF Loading
  <2>2. /\ preload' \in Preloads /\ preload'.st = "None" /\ preload'.item = NoItem
        /\ preload.st = "Preloading" /\ preload.item = i
    BY <1>2 DEF Preloads, NoPreload, Preloading
  <2>3. ls[i] \in Nat /\ preloads'[i] \in Nat /\ preloads'[i] > 0  BY <2>2 DEF Asked
  <2>4. loads'[i] + preloads'[i] > 0  BY <1>2, <2>3
  <2>5. LoadIsPending'  BY <2>1, <2>2, <2>4 DEF LoadIsPending
  <2> QED  BY <1>2, <2>1, <2>2, <2>5, NoItemAssumption DEF Waits, Asked
<1>3. CASE /\ preload \notin {Preloaded(i), Preloading(i)}
           /\ loads' = [ls EXCEPT ![i] = @ + 1] /\ StartLoading(i) /\ preload' = preload
  <2>1. Agreed' /\ state'.item = i  BY <1>3, StartLoadingAgrees DEF Loading
  <2>2. preload.item # i  BY <1>3, PreloadKinds
  <2>3. /\ loads' \in [Item -> Nat] /\ loads'[i] = ls[i] + 1
        /\ ls[i] \in Nat /\ preloads'[i] \in Nat
    BY <1>3 DEF Asked
  <2>4. loads'[i] + preloads'[i] > 0  BY <2>3
  <2>5. LoadIsPending'  BY <1>3, <2>1, <2>4 DEF LoadIsPending, Asked
  <2> QED  BY <1>3, <2>1, <2>2, <2>3, <2>5 DEF Waits, Asked
<1> QED  BY <1>1, <1>2, <1>3 DEF LoadAndPlay

LEMMA StopPlaybackKeeps ==
  ASSUME NEW q, WellFormed(q), NEW ls, Agreed, preload \in Preloads, Asked(ls),
         loads' = ls, StopPlayback(q)
  PROVE  WellFormed(queue') /\ Agreed' /\ Waits' /\ failures' \in Nat
<1>1. /\ Agreed' /\ state'.st = "Stopped" /\ WellFormed(queue')
      /\ preload' = preload /\ failures' = 0
  BY StopPlaybackAgrees
<1> QED  BY <1>1 DEF Waits, LoadIsPending, Asked

\* The queue moves on, and what has become current is played, loaded, or not
\* there; or the player has panicked.
LEMMA PlayCurrentKeeps ==
  ASSUME NEW results, \A q \in results : WellFormed(q),
         NEW ls, NEW fails \in Nat, Asked(ls),
         WellFormed(queue), Agreed, Waits, Flags,
         PlayCurrentOf(results, ls, fails)
  PROVE  WellFormed(queue') /\ Agreed' /\ Waits' /\ Flags'
<1>1. CASE results = {} /\ alive' = FALSE /\ loads' = ls /\ UNCHANGED <<player, sink, notice>>
  <2>1. Agreed'
    BY <1>1 DEF player, Agreed, GoodSink, SinkPlaysState, Newest, NoticeShowsState
  <2>2. Waits'  BY <1>1 DEF player, Waits, LoadIsPending, Asked
  <2> QED  BY <1>1, <2>1, <2>2 DEF player, Flags
<1>2. ASSUME NEW q \in results,
             UNCHANGED <<alive, ignore_end_of_track, crossfade>>,
             Current(q) # NoItem, queue' = q, failures' = fails, LoadAndPlay(Current(q), ls)
      PROVE  WellFormed(queue') /\ Agreed' /\ Waits' /\ Flags'
  <2>1. WellFormed(q)  OBVIOUS
  <2>2. Current(q) \in Item  BY <1>2, <2>1, CurrentItem
  <2>3. Agreed' /\ Waits'  BY <1>2, <2>2, LoadAndPlayAgrees DEF Waits
  <2> QED  BY <1>2, <2>1, <2>3 DEF Flags
<1>3. ASSUME NEW q \in results,
             UNCHANGED <<alive, ignore_end_of_track, crossfade>>,
             loads' = ls, StopPlayback(q)
      PROVE  WellFormed(queue') /\ Agreed' /\ Waits' /\ Flags'
  <2>1. WellFormed(q)  OBVIOUS
  <2>2. WellFormed(queue') /\ Agreed' /\ Waits' /\ failures' \in Nat
    BY <1>3, <2>1, StopPlaybackKeeps DEF Waits
  <2> QED  BY <1>3, <2>2 DEF Flags
<1> QED  BY <1>1, <1>2, <1>3 DEF PlayCurrentOf
-----------------------------------------------------------------------------
(***************************************************************************)
(* Commands of the user.                                                   *)
(***************************************************************************)
\* A command that moves the queue starts no thread that preloads.
LEMMA MoveCommandKeeps ==
  ASSUME NEW results, \A q \in results : WellFormed(q), Inv, Command,
         PlayCurrentOf(results, loads, failures), UNCHANGED <<preloads, events>>
  PROVE  Inv'
<1>1. Asked(loads)  BY DEF Inv, Waits, LoadIsPending, Asked
<1>2. failures \in Nat  BY DEF Inv, Flags
<1>3. WellFormed(queue') /\ Agreed' /\ Waits' /\ Flags'
  BY <1>1, <1>2, PlayCurrentKeeps DEF Inv
<1>4. Counted'  BY DEF Inv, Counted, Command
<1> QED  BY <1>3, <1>4 DEF Inv

LEMMA LoadQueueKeeps ==
  ASSUME PlayerAssumption, Inv, NEW items \in Lists, NEW position \in Positions(items),
         LoadQueue(items, position)
  PROVE  Inv'
<1>1. items \in Seq(Item) /\ position \in Nat \ {0}
  BY DEF PlayerAssumption, Positions
<1>2. queue.behavior \in Behavior  BY WellFormedFacts DEF Inv
<1>3. \A q \in Fill(queue, items, position) : WellFormed(q)
  BY <1>1, <1>2, FillWellFormed
<1> QED  BY <1>3, MoveCommandKeeps DEF LoadQueue

LEMMA NextTrackKeeps ==
  ASSUME Inv, NextTrack
  PROVE  Inv'
<1>1. \A q \in SkipToNext(queue) : WellFormed(q)  BY SkipsWellFormed DEF Inv
<1> QED  BY <1>1, MoveCommandKeeps DEF NextTrack

\* A seek moves the play head of the newest source, whichever it is.
LEMMA SeekSourceAgrees ==
  ASSUME NEW p \in Nat, GoodSink, sink' \in SeekSource(p)
  PROVE  /\ GoodSink' /\ sink'.on = sink.on /\ Newest'.item = Newest.item
         /\ sink = Silent => sink' = Silent
<1>1. ASSUME NEW s \in Sources, s # NoSource, NEW t \in Sought(s, p)
      PROVE  t \in Sources /\ t # NoSource /\ t.item = s.item
  <2>1. s \in [item : Item, pos : Nat, eot : BOOLEAN, dry : Nat \cup {Duration}]
    BY <1>1 DEF Sources
  <2>2. CASE t = s  BY <1>1, <2>2
  <2>3. CASE t = [s EXCEPT !.pos = p, !.dry = Duration]
    BY <2>1, <2>3, NoItemAssumption DEF Sources, NoSource
  <2>4. ASSUME NEW d \in Nat, t = [s EXCEPT !.dry = d] PROVE t \in Sources /\ t.item = s.item /\ t # NoSource
    BY <2>1, <2>4, NoItemAssumption DEF Sources, NoSource
  <2>5. s.pos..(Duration - 1) \subseteq Nat  BY <2>1
  <2> QED  BY <1>1, <2>2, <2>3, <2>4, <2>5 DEF Sought
<1>2. CASE sink' = sink  BY <1>2 DEF GoodSink, Newest
<1>3. ASSUME NEW t \in Sought(sink.next, p), sink.next # NoSource, sink' = [sink EXCEPT !.next = t]
      PROVE  /\ GoodSink' /\ sink'.on = sink.on /\ Newest'.item = Newest.item
             /\ sink # Silent
  <2>1. t \in Sources /\ t # NoSource /\ t.item = sink.next.item
    BY <1>1, <1>3 DEF GoodSink
  <2>2. /\ sink'.next = t /\ sink'.fade = sink.fade /\ sink'.cur = sink.cur /\ sink'.on = sink.on
        /\ sink' \in [on : BOOLEAN, fade : Nat, cur : Sources, next : Sources]
    BY <1>3, <2>1 DEF GoodSink
  <2>3. sink # Silent  BY <1>3, SilentIsGood
  <2> QED  BY <1>3, <2>1, <2>2, <2>3 DEF GoodSink, Newest
<1>4. ASSUME NEW t \in Sought(sink.cur, p), sink.next = NoSource, sink.cur # NoSource,
             sink' = [sink EXCEPT !.cur = t]
      PROVE  /\ GoodSink' /\ sink'.on = sink.on /\ Newest'.item = Newest.item
             /\ sink # Silent
  <2>1. t \in Sources /\ t # NoSource /\ t.item = sink.cur.item
    BY <1>1, <1>4 DEF GoodSink
  <2>2. /\ sink'.cur = t /\ sink'.fade = sink.fade /\ sink'.next = sink.next /\ sink'.on = sink.on
        /\ sink' \in [on : BOOLEAN, fade : Nat, cur : Sources, next : Sources]
    BY <1>4, <2>1 DEF GoodSink
  <2>3. sink # Silent  BY <1>4 DEF Silent
  <2> QED  BY <1>4, <2>1, <2>2, <2>3 DEF GoodSink, Newest
<1> QED  BY <1>2, <1>3, <1>4 DEF SeekSource

LEMMA SeekToKeeps ==
  ASSUME PlayerAssumption, Inv, Command, NEW p \in Nat, SeekTo(p)
  PROVE  Inv'
<1>1. UNCHANGED <<player, threads, notice, alive>>  BY DEF SeekTo
<1>2. sink' = sink \/ sink' \in SeekSource(p)  BY DEF SeekTo, audio
<1>3. /\ GoodSink' /\ sink'.on = sink.on /\ Newest'.item = Newest.item
      /\ sink = Silent => sink' = Silent
  <2>1. CASE sink' = sink  BY <2>1 DEF Inv, Agreed, GoodSink, Newest
  <2>2. CASE sink' \in SeekSource(p)  BY <2>2, SeekSourceAgrees DEF Inv, Agreed
  <2> QED  BY <1>2, <2>1, <2>2
<1>4. SinkPlaysState'  BY <1>1, <1>3 DEF Inv, Agreed, SinkPlaysState, player
<1>5. Agreed'  BY <1>1, <1>3, <1>4 DEF Inv, Agreed, NoticeShowsState, player
<1>6. Waits'  BY <1>1 DEF Inv, Waits, LoadIsPending, player, threads
<1>7. Flags' /\ WellFormed(queue')  BY <1>1 DEF Inv, Flags, player
<1>8. events' \in Seq(Events)
  <2>1. CASE current = NoItem  BY <2>1 DEF SeekTo, audio, Inv, Counted
  <2>2. CASE current # NoItem
    <3>1. Position(current, p) \in Events  BY <2>2 DEF Inv, Agreed, Position, Events
    <3> QED  BY <2>2, <3>1 DEF SeekTo, Inv, Counted
  <2> QED  BY <2>1, <2>2
<1>9. commands' \in Nat  BY DEF Command, Inv, Counted
<1> QED  BY <1>5, <1>6, <1>7, <1>8, <1>9 DEF Inv, Counted

LEMMA PreviousTrackKeeps ==
  ASSUME PlayerAssumption, Inv, PreviousTrack
  PROVE  Inv'
<1>1. CASE PlayCurrentOf({SkipToPrevious(queue)}, loads, failures) /\ UNCHANGED <<preloads, events>>
  <2>1. \A q \in {SkipToPrevious(queue)} : WellFormed(q)  BY SkipsWellFormed DEF Inv
  <2> QED  BY <1>1, <2>1, MoveCommandKeeps DEF PreviousTrack
<1>2. CASE SeekTo(0)  BY <1>2, SeekToKeeps DEF PreviousTrack
<1> QED  BY <1>1, <1>2 DEF PreviousTrack

\* pause() and resume() start and stop the sink with the state, or lose the state
\* of a player whose sink is silent.
LEMMA SetPlayingKeeps ==
  ASSUME Inv, Command, NEW on \in BOOLEAN, SetPlaying(on)
  PROVE  Inv'
<1>1. UNCHANGED <<preload, queue, failures, ignore_end_of_track, crossfade,
                  current, threads, events, alive>>
  BY DEF SetPlaying
<1>2. commands' \in Nat  BY DEF Command, Inv, Counted
<1>3. WellFormed(queue') /\ Flags' /\ Counted'  BY <1>1, <1>2 DEF Inv, Flags, Counted
<1>4. CASE state.st \in {"Playing", "Paused"}
  <2>1. /\ sink' = [sink EXCEPT !.on = on]
        /\ state' = [state EXCEPT !.st = IF on THEN "Playing" ELSE "Paused"]
        /\ notice' = [kind |-> IF on THEN "Resuming" ELSE "Pausing", item |-> state.item]
    BY <1>4 DEF SetPlaying, Notice
  <2>2. state \in [st : {"Playing", "Paused"}, item : Item, pos : Nat]
    BY <1>4 DEF Inv, Agreed, States, Stopped, Invalid, Loading
  <2>3. /\ state' \in [st : {"Playing", "Paused"}, item : Item, pos : Nat]
        /\ state'.item = state.item /\ state'.st = IF on THEN "Playing" ELSE "Paused"
    BY <2>1, <2>2
  <2>4. GoodSink' /\ sink'.on = on /\ Newest'.item = Newest.item
    BY <2>1 DEF Inv, Agreed, GoodSink, Newest
  <2>5. Newest.item = state.item /\ current = state.item
    BY <1>4 DEF Inv, Agreed, SinkPlaysState
  <2>6. SinkPlaysState'  BY <1>1, <2>3, <2>4, <2>5 DEF SinkPlaysState
  <2>7. notice' \in Notices /\ NoticeShowsState'
    BY <2>1, <2>2, <2>3 DEF Notices, NoticeShowsState, Notice
  <2>8. Agreed'  BY <1>1, <2>3, <2>4, <2>6, <2>7 DEF Inv, Agreed, States
  <2>9. Waits'  BY <1>1, <2>3 DEF Inv, Waits, LoadIsPending, threads
  <2> QED  BY <1>3, <2>8, <2>9 DEF Inv
<1>5. CASE state.st \notin {"Playing", "Paused"}
  <2>1. state' = Invalid /\ sink' = sink /\ notice' = notice  BY <1>5 DEF SetPlaying
  <2>2. state'.st = "Invalid"  BY <2>1 DEF Invalid, Stopped
  <2>3. sink = Silent  BY <1>5 DEF Inv, Agreed, SinkPlaysState
  <2>4. SinkPlaysState'  BY <2>1, <2>2, <2>3 DEF SinkPlaysState
  <2>5. NoticeShowsState'  BY <2>1 DEF NoticeShowsState
  <2>6. Agreed'  BY <1>1, <2>1, <2>4, <2>5 DEF Inv, Agreed, States, GoodSink
  <2>7. Waits'  BY <1>1, <2>2 DEF Inv, Waits, LoadIsPending, threads
  <2> QED  BY <1>3, <2>6, <2>7 DEF Inv
<1> QED  BY <1>4, <1>5

LEMMA StopKeeps ==
  ASSUME Inv, Stop
  PROVE  Inv'
<1>1. Asked(loads)  BY DEF Inv, Waits, LoadIsPending, Asked, Stop, threads
<1>2. WellFormed(queue') /\ Agreed' /\ Waits' /\ failures' \in Nat
  BY <1>1, StopPlaybackKeeps DEF Inv, Waits, Stop, threads
<1>3. Flags' /\ Counted'  BY <1>2 DEF Inv, Flags, Counted, Stop, Command
<1> QED  BY <1>2, <1>3 DEF Inv

\* What changes neither the state nor what it is compared with.
LEMMA NothingMoves ==
  ASSUME Inv, UNCHANGED <<state, preload, current, threads, audio, notice>>,
         alive' \in BOOLEAN, alive' => alive
  PROVE  Agreed' /\ Waits'
<1>1. Agreed'
  BY DEF Inv, Agreed, GoodSink, SinkPlaysState, Newest, NoticeShowsState, audio
<1>2. Waits'  BY DEF Inv, Waits, LoadIsPending, threads
<1> QED  BY <1>1, <1>2

LEMMA ConfigureKeeps ==
  ASSUME Inv, NEW duration \in Crossfades, Configure(duration)
  PROVE  Inv'
<1>1. Agreed' /\ Waits'  BY NothingMoves DEF Configure, Inv, Flags
<1>2. WellFormed(queue') /\ Flags' /\ Counted'
  BY DEF Configure, Inv, Flags, Counted, Command, audio
<1> QED  BY <1>1, <1>2 DEF Inv

LEMMA QueueOnlyKeeps ==
  ASSUME Inv, Command, NEW results, \A q \in results : WellFormed(q), QueueOnly(results)
  PROVE  Inv'
<1>1. alive' \in BOOLEAN /\ (alive' => alive) /\ WellFormed(queue')
  BY DEF QueueOnly, Inv, Flags
<1>2. Agreed' /\ Waits'  BY <1>1, NothingMoves DEF QueueOnly
<1>3. Flags' /\ Counted'  BY <1>1 DEF QueueOnly, Inv, Flags, Counted, Command, audio
<1> QED  BY <1>1, <1>2, <1>3 DEF Inv

LEMMA EditKeeps ==
  ASSUME PlayerAssumption, Inv
  PROVE  /\ \A behavior \in Behaviors : SetQueueBehavior(behavior) => Inv'
         /\ \A i \in Item : AddToQueue(i) \/ AddNextTrack(i) => Inv'
         /\ \A items \in Lists : ReplaceQueue(items) => Inv'
<1>1. ASSUME NEW behavior \in Behaviors, SetQueueBehavior(behavior) PROVE Inv'
  <2>1. \A q \in SetBehaviour(queue, behavior) : WellFormed(q)
    BY SetBehaviourWellFormed DEF Inv, PlayerAssumption
  <2> QED  BY <1>1, <2>1, QueueOnlyKeeps DEF SetQueueBehavior
<1>2. ASSUME NEW i \in Item, AddToQueue(i) PROVE Inv'
  <2>1. \A q \in {Add(queue, i)} : WellFormed(q)  BY AddWellFormed DEF Inv
  <2> QED  BY <1>2, <2>1, QueueOnlyKeeps DEF AddToQueue
<1>3. ASSUME NEW i \in Item, AddNextTrack(i) PROVE Inv'
  <2>1. \A q \in {AddNext(queue, i)} : WellFormed(q)  BY AddNextWellFormed DEF Inv
  <2> QED  BY <1>3, <2>1, QueueOnlyKeeps DEF AddNextTrack
<1>4. ASSUME NEW items \in Lists, ReplaceQueue(items) PROVE Inv'
  <2>1. items \in Seq(Item) /\ queue.behavior \in Behavior
    BY WellFormedFacts DEF PlayerAssumption, Inv
  <2>2. PICK position \in Nat \ {0} : Replace(queue, items) = Fill(queue, items, position)
    BY <2>1, ReplaceIsFill
  <2>3. \A q \in Replace(queue, items) : WellFormed(q)  BY <2>1, <2>2, FillWellFormed
  <2> QED  BY <1>4, <2>3, QueueOnlyKeeps DEF ReplaceQueue
<1> QED  BY <1>1, <1>2, <1>3, <1>4

LEMMA CommandsKeep ==
  ASSUME PlayerAssumption, Inv, UserCommand
  PROVE  Inv'
<1>1. CASE Pause  BY <1>1, SetPlayingKeeps DEF Pause
<1>2. CASE Resume  BY <1>2, SetPlayingKeeps DEF Resume
<1>3. CASE PauseOrResume
  <2>1. (state.st = "Paused") \in BOOLEAN  OBVIOUS
  <2> QED  BY <1>3, <2>1, SetPlayingKeeps DEF PauseOrResume
<1>4. ASSUME NEW p \in 0..Duration, Seek(p) PROVE Inv'
  <2>1. p \in Nat  BY DEF PlayerAssumption
  <2> QED  BY <1>4, <2>1, SeekToKeeps DEF Seek
<1> QED
  BY <1>1, <1>2, <1>3, <1>4, LoadQueueKeeps, NextTrackKeeps, PreviousTrackKeeps, StopKeeps,
     ConfigureKeeps, EditKeeps
  DEF UserCommand
-----------------------------------------------------------------------------
(***************************************************************************)
(* Results of the loader threads.                                          *)
(***************************************************************************)
\* A result changes the player as AcceptLoaded says, once it is taken from the
\* threads that the player may still wait for.
LEMMA AcceptKeeps ==
  ASSUME PlayerAssumption, Inv, NEW i \in Item, NEW ok \in BOOLEAN, NEW ls,
         Asked(ls), alive' \in BOOLEAN,
         alive' /\ state.st = "Loading" /\ state.item # i
           => ls[state.item] + preloads'[state.item] > 0,
         AcceptLoaded(i, ok, ls)
  PROVE  WellFormed(queue') /\ Agreed' /\ Waits' /\ Flags'
<1>1. CASE /\ state = Loading(i) /\ ok /\ failures' = 0 /\ loads' = ls /\ PlayLoaded(i)
           /\ UNCHANGED <<preload, queue, ignore_end_of_track, crossfade, alive>>
  <2>1. Agreed' /\ state'.st = "Playing"  BY <1>1, PlayLoadedAgrees
  <2>2. Waits'  BY <1>1, <2>1 DEF Inv, Waits, LoadIsPending, Asked
  <2> QED  BY <1>1, <2>1, <2>2 DEF Inv, Flags
<1>2. CASE state = Loading(i) /\ PlayCurrentOf(SkipToNext(queue), ls, failures + 1)
  <2>1. \A q \in SkipToNext(queue) : WellFormed(q)  BY SkipsWellFormed DEF Inv
  <2>2. failures + 1 \in Nat  BY DEF Inv, Flags
  <2> QED  BY <1>2, <2>1, <2>2, PlayCurrentKeeps DEF Inv
<1>3. CASE /\ loads' = ls /\ StopPlayback(queue)
           /\ UNCHANGED <<ignore_end_of_track, crossfade, alive>>
  <2>1. WellFormed(queue') /\ Agreed' /\ Waits' /\ failures' \in Nat
    BY <1>3, StopPlaybackKeeps DEF Inv, Waits
  <2> QED  BY <1>3, <2>1 DEF Inv, Flags
<1>4. CASE state # Loading(i) /\ loads' = ls /\ UNCHANGED <<player, sink, notice, alive>>
  <2>1. Agreed'
    BY <1>4 DEF player, Inv, Agreed, GoodSink, SinkPlaysState, Newest, NoticeShowsState
  <2>2. state.st = "Loading" => state.item # i
    BY <1>4 DEF Inv, Agreed, States, Stopped, Invalid, Loading
  <2>3. Waits'
    BY <1>4, <2>2 DEF player, Inv, Waits, LoadIsPending, Asked
  <2> QED  BY <1>4, <2>1, <2>3 DEF player, Inv, Flags
<1> QED  BY <1>1, <1>2, <1>3, <1>4 DEF AcceptLoaded

LEMMA HandleLoadedKeeps ==
  ASSUME PlayerAssumption, Inv, NEW i \in Item, NEW ok \in BOOLEAN, HandleLoaded(i, ok)
  PROVE  Inv'
<1> DEFINE ls == [loads EXCEPT ![i] = @ - 1]
<1>1. loads[i] \in Nat /\ loads[i] > 0 /\ alive /\ preloads' = preloads
  BY DEF HandleLoaded, Inv, Waits
<1>2. ls \in [Item -> Nat]  BY <1>1 DEF Inv, Waits
<1>3. Asked(ls)  BY <1>1, <1>2 DEF Inv, Waits, LoadIsPending, Asked
<1>4. \A j \in Item : j # i => ls[j] = loads[j]  BY DEF Inv, Waits
<1>5. state.st = "Loading" => state.item \in Item
  BY DEF Inv, Agreed, States, Stopped, Invalid, Loading
<1>6. state.st = "Loading" /\ state.item # i => ls[state.item] + preloads'[state.item] > 0
  BY <1>1, <1>4, <1>5 DEF Inv, Waits, LoadIsPending
<1>7. AcceptLoaded(i, ok, ls) /\ Counted'  BY DEF HandleLoaded, Inv, Counted
<1>8. alive' \in BOOLEAN
  BY <1>1, <1>7 DEF AcceptLoaded, PlayCurrentOf
<1> HIDE DEF ls
<1>9. WellFormed(queue') /\ Agreed' /\ Waits' /\ Flags'
  BY <1>3, <1>6, <1>7, <1>8, AcceptKeeps
<1> QED  BY <1>7, <1>9 DEF Inv

\* A preloaded track is taken as such, or it is what an adopted thread loaded.
LEMMA HandlePreloadedKeeps ==
  ASSUME PlayerAssumption, Inv, NEW i \in Item, NEW ok \in BOOLEAN, HandlePreloaded(i, ok)
  PROVE  Inv'
<1>1. /\ preloads[i] \in Nat /\ preloads[i] > 0 /\ alive
      /\ preloads' = [preloads EXCEPT ![i] = @ - 1]
  BY DEF HandlePreloaded, Inv, Waits
<1>2. preloads' \in [Item -> Nat] /\ \A j \in Item : j # i => preloads'[j] = preloads[j]
  BY <1>1 DEF Inv, Waits
<1>3. state.st = "Loading" => state.item \in Item
  BY DEF Inv, Agreed, States, Stopped, Invalid, Loading
<1>4. Counted'  BY DEF HandlePreloaded, Inv, Counted
<1>5. CASE /\ preload = Preloading(i) /\ preload' = IF ok THEN Preloaded(i) ELSE NoPreload
           /\ UNCHANGED <<state, queue, failures, ignore_end_of_track, crossfade,
                          current, loads, sink, notice, alive>>
  <2>1. Agreed'
    BY <1>5 DEF Inv, Agreed, GoodSink, SinkPlaysState, Newest, NoticeShowsState
  <2>2. preload' \in Preloads /\ preload'.st # "Preloading" /\ preload'.item \in {i, NoItem}
    BY <1>5 DEF Preloads, Preloaded, NoPreload
  <2>3. preload.item = i  BY <1>5 DEF Preloading
  <2>4. state.st = "Loading" => state.item # i /\ state.item # NoItem
    BY <1>3, <2>3, NoItemAssumption DEF Inv, Waits
  <2>5. LoadIsPending'
    BY <1>1, <1>2, <1>3, <1>5, <2>2, <2>4 DEF Inv, Waits, LoadIsPending
  <2>6. Waits'
    BY <1>2, <1>5, <2>2, <2>4, <2>5 DEF Inv, Waits
  <2> QED  BY <1>4, <1>5, <2>1, <2>6 DEF Inv, Flags
<1>6. CASE preload # Preloading(i) /\ AcceptLoaded(i, ok, loads)
  <2>1. preload.st = "Preloading" => preload.item \in Item /\ preload.item # i
    BY <1>6, PreloadKinds DEF Inv, Waits
  <2>2. Asked(loads)
    BY <1>2, <2>1 DEF Inv, Waits, LoadIsPending, Asked
  <2>3. state.st = "Loading" /\ state.item # i => loads[state.item] + preloads'[state.item] > 0
    BY <1>1, <1>2, <1>3 DEF Inv, Waits, LoadIsPending
  <2>4. alive' \in BOOLEAN  BY <1>1, <1>6 DEF AcceptLoaded, PlayCurrentOf
  <2>5. WellFormed(queue') /\ Agreed' /\ Waits' /\ Flags'
    BY <1>6, <2>2, <2>3, <2>4, AcceptKeeps
  <2> QED  BY <1>4, <2>5 DEF Inv
<1> QED  BY <1>5, <1>6 DEF HandlePreloaded
-----------------------------------------------------------------------------
(***************************************************************************)
(* Events of the audio callback.                                           *)
(***************************************************************************)
LEMMA TakeEventCounts ==
  ASSUME Inv, NEW kind, TakeEvent(kind)
  PROVE  Counted' /\ Head(events) \in Events
BY DEF Inv, Counted, TakeEvent

LEMMA HandleEndOfTrackKeeps ==
  ASSUME Inv, HandleEndOfTrack
  PROVE  Inv'
<1>1. Counted' /\ preloads' = preloads
  BY TakeEventCounts DEF HandleEndOfTrack
<1>2. CASE /\ ignore_end_of_track' = FALSE
           /\ UNCHANGED <<state, preload, queue, failures, crossfade, current,
                          loads, sink, notice, alive>>
  <2>1. Agreed'
    BY <1>2 DEF Inv, Agreed, GoodSink, SinkPlaysState, Newest, NoticeShowsState
  <2>2. Waits'  BY <1>1, <1>2 DEF Inv, Waits, LoadIsPending
  <2> QED  BY <1>1, <1>2, <2>1, <2>2 DEF Inv, Flags
<1>3. CASE PlayCurrentOf(SkipToFollowing(queue), loads, failures)
  <2>1. \A q \in SkipToFollowing(queue) : WellFormed(q)  BY SkipsWellFormed DEF Inv
  <2>2. Asked(loads)  BY <1>1 DEF Inv, Waits, LoadIsPending, Asked
  <2>3. failures \in Nat  BY DEF Inv, Flags
  <2>4. WellFormed(queue') /\ Agreed' /\ Waits' /\ Flags'
    BY <1>3, <2>1, <2>2, <2>3, PlayCurrentKeeps DEF Inv
  <2> QED  BY <1>1, <2>4 DEF Inv
<1> QED  BY <1>2, <1>3 DEF HandleEndOfTrack

\* get_following() gives an item of the playlist, or one the user queued.
LEMMA FollowingItem ==
  ASSUME NEW q, WellFormed(q)
  PROVE  Following(q) \in Item \cup {NoItem}
<1> DEFINE ahead == {p \in FollowingPosition(q) : p \in DOMAIN q.positions}
<1>1. CASE q.items # <<>> /\ ahead # {}
  <2> DEFINE p == CHOOSE x \in ahead : TRUE
  <2>1. p \in ahead  BY <1>1
  <2>2. p \in DOMAIN q.positions  BY <2>1
  <2>3. q.positions[p] \in 1..Len(q.items)
    <3> HIDE DEF p
    <3> QED  BY <2>2, WellFormedFacts
  <2>4. q.items[q.positions[p]] \in Item  BY <2>3, WellFormedFacts
  <2> QED  BY <1>1, <2>4 DEF Following
<1>2. CASE ~(q.items # <<>> /\ ahead # {}) /\ q.user_items # <<>>
  <2>1. q.user_items[1] \in Item  BY <1>2, WellFormedFacts
  <2> QED  BY <1>2, <2>1 DEF Following
<1>3. CASE ~(q.items # <<>> /\ ahead # {}) /\ q.user_items = <<>>
  BY <1>3 DEF Following
<1> QED  BY <1>1, <1>2, <1>3

\* Without queued tracks, get_following() looks exactly where skip_to_following()
\* will go.
LEMMA FollowingBecomesCurrent ==
  ASSUME NEW q, WellFormed(q), q.items # <<>>, q.user_items = <<>>,
         Following(q) # NoItem, NEW r \in SkipToFollowing(q)
  PROVE  Current(r) = Following(q)
<1> DEFINE ahead == {p \in FollowingPosition(q) : p \in DOMAIN q.positions}
<1>1. HandleAddedQueue(q) = q
  BY WellFormedFacts DEF HandleAddedQueue, HasPendingUserItem
<1>2. PICK target \in FollowingPosition(q) : r = [q EXCEPT !.position = target]
  BY <1>1 DEF SkipToFollowing, MoveTo
<1>3. FollowingPosition(q) = {target}
  BY <1>2 DEF FollowingPosition, WrappedPosition
<1>4. ahead # {}  BY DEF Following
<1>5. ahead = {target}  BY <1>3, <1>4
<1>6. (CHOOSE x \in ahead : TRUE) = target  BY <1>5
<1>7. Following(q) = q.items[q.positions[target]]
  BY <1>4, <1>6 DEF Following
<1>8. /\ r.position = target /\ r.positions = q.positions /\ r.items = q.items
  BY <1>2 DEF WellFormed, QueueType
<1> QED  BY <1>5, <1>7, <1>8 DEF Current

\* A crossfade starts only while the sink plays, so the source it adds is heard.
LEMMA CrossfadeKeeps ==
  ASSUME PlayerAssumption, Inv, HandlePosition,
         IsCurrentReport(Head(events)) /\ CanCrossfade(Head(events).pos)
  PROVE  Inv'
<1> DEFINE next == Following(queue)
<1>1. /\ preload' = NoPreload /\ queue' \in SkipToFollowing(queue)
      /\ failures' = 0 /\ ignore_end_of_track' = TRUE
      /\ sink' = [sink EXCEPT !.next = Source(next), !.fade = crossfade]
      /\ current' = next /\ state' = Playing(next, 0) /\ notice' = Notice("Playing", next)
      /\ UNCHANGED <<crossfade, threads, alive>>
  BY DEF HandlePosition
<1>2. state.st = "Playing" /\ crossfade > 0 /\ next # NoItem
  BY DEF CanCrossfade
<1>3. next \in Item  BY <1>2, FollowingItem DEF Inv
<1> HIDE DEF next
<1>4. Counted'  BY TakeEventCounts DEF HandlePosition
<1>5. WellFormed(queue')  BY <1>1, SkipsWellFormed DEF Inv
<1>6. Flags'  BY <1>1 DEF Inv, Flags
<1>7. sink.on = TRUE  BY <1>2 DEF Inv, Agreed, SinkPlaysState
<1>8. crossfade \in Nat  BY DEF Inv, Flags, PlayerAssumption
<1>9. Source(next) \in Sources /\ Source(next) # NoSource /\ Source(next).item = next
  BY <1>3, SourceIsGood
<1>10. sink'.next = Source(next) /\ sink'.fade = crossfade /\ sink'.on = TRUE /\ GoodSink'
  BY <1>1, <1>2, <1>7, <1>8, <1>9 DEF Inv, Agreed, GoodSink
<1>11. state' = [st |-> "Playing", item |-> next, pos |-> 0]  BY <1>1 DEF Playing
<1>12. notice' = [kind |-> "Playing", item |-> next]  BY <1>1 DEF Notice
<1>13. SinkPlaysState'
  <2>1. Newest'.item = next  BY <1>9, <1>10 DEF Newest
  <2>2. state'.st = "Playing" /\ state'.item = next  BY <1>11
  <2>3. current' = next  BY <1>1
  <2> QED  BY <1>10, <2>1, <2>2, <2>3 DEF SinkPlaysState
<1>14. NoticeShowsState'  BY <1>11, <1>12 DEF NoticeShowsState, Notice
<1>15. state' \in States /\ notice' \in Notices
  BY <1>3, <1>11, <1>12 DEF States, Notices
<1>16. Agreed'  BY <1>1, <1>3, <1>10, <1>13, <1>14, <1>15 DEF Agreed
<1>17. preload' \in Preloads /\ preload'.st = "None"  BY <1>1 DEF Preloads, NoPreload
<1>18. Waits'
  BY <1>1, <1>11, <1>17 DEF Inv, Waits, LoadIsPending, threads
<1> QED  BY <1>4, <1>5, <1>6, <1>16, <1>18 DEF Inv

\* Any other report of the current track only says how far it is, and may have
\* the following track preloaded.
LEMMA ReportKeeps ==
  ASSUME Inv, HandlePosition,
         IsCurrentReport(Head(events)) /\ ~CanCrossfade(Head(events).pos)
  PROVE  Inv'
<1> DEFINE e == Head(events)
           next == Following(queue)
<1>1. /\ state' = [state EXCEPT !.pos = e.pos]
      /\ IF ShouldPreload(e.pos)
           THEN /\ preload' = Preloading(next)
                /\ preloads' = [preloads EXCEPT ![next] = @ + 1]
           ELSE UNCHANGED <<preload, preloads>>
      /\ UNCHANGED <<queue, failures, ignore_end_of_track, crossfade,
                     current, loads, sink, notice, alive>>
  BY DEF HandlePosition
<1>2. Counted' /\ e \in Events  BY TakeEventCounts DEF HandlePosition
<1>3. state \in [st : {"Playing", "Paused"}, item : Item, pos : Nat]
  BY DEF IsCurrentReport, Inv, Agreed, States, Stopped, Invalid, Loading
<1>4. /\ state' \in [st : {"Playing", "Paused"}, item : Item, pos : Nat]
      /\ state'.st = state.st /\ state'.item = state.item
  BY <1>1, <1>2, <1>3 DEF Events
<1>5. SinkPlaysState'  BY <1>1, <1>3, <1>4 DEF Inv, Agreed, SinkPlaysState, Newest
<1>6. NoticeShowsState'
  <2>1. state # Invalid /\ state # Stopped /\ state.st # "Loading"
    BY <1>3 DEF Invalid, Stopped
  <2> QED  BY <1>1, <1>4, <2>1 DEF Inv, Agreed, NoticeShowsState
<1>7. Agreed'  BY <1>1, <1>4, <1>5, <1>6 DEF Inv, Agreed, States, GoodSink
<1>8. CASE ShouldPreload(e.pos)
  <2>1. next \in Item  BY <1>8, FollowingItem DEF ShouldPreload, Inv
  <2>2. /\ preload' = Preloading(next) /\ preloads' = [preloads EXCEPT ![next] = @ + 1]
        /\ loads' = loads
    BY <1>1, <1>8
  <2>3. preload' \in Preloads /\ preload'.item = next
    BY <2>1, <2>2 DEF Preloads, Preloading
  <2>4. preloads' \in [Item -> Nat] /\ preloads'[next] > 0
    BY <2>1, <2>2 DEF Inv, Waits
  <2>5. state'.st # "Loading"  BY <1>4
  <2>6. Waits'  BY <2>2, <2>3, <2>4, <2>5 DEF Inv, Waits, LoadIsPending
  <2> QED  BY <1>1, <1>2, <1>7, <2>6 DEF Inv, Flags
<1>9. CASE ~ShouldPreload(e.pos)
  <2>1. state'.st # "Loading"  BY <1>4
  <2>2. Waits'  BY <1>1, <1>9, <2>1 DEF Inv, Waits, LoadIsPending
  <2> QED  BY <1>1, <1>2, <1>7, <2>2 DEF Inv, Flags
<1> QED  BY <1>8, <1>9

LEMMA HandlePositionKeeps ==
  ASSUME PlayerAssumption, Inv, HandlePosition
  PROVE  Inv'
<1>1. CASE ~IsCurrentReport(Head(events))
  <2>1. UNCHANGED <<player, threads, sink, notice, alive>>
    BY <1>1 DEF HandlePosition
  <2>2. Counted'  BY TakeEventCounts DEF HandlePosition
  <2>3. Agreed'
    BY <2>1 DEF player, Inv, Agreed, GoodSink, SinkPlaysState, Newest, NoticeShowsState
  <2>4. Waits'  BY <2>1 DEF player, threads, Inv, Waits, LoadIsPending
  <2> QED  BY <2>1, <2>2, <2>3, <2>4 DEF player, Inv, Flags
<1> QED  BY <1>1, ReportKeeps, CrossfadeKeeps
-----------------------------------------------------------------------------
(***************************************************************************)
(* The audio callback.                                                     *)
(***************************************************************************)
LEMMA PlayedSource ==
  ASSUME PlayerAssumption, NEW s \in Sources, s # NoSource
  PROVE  /\ Played(s) \in Sources /\ Played(s) # NoSource /\ Played(s).item = s.item
         /\ Reports(s) \in Seq(Events)
<1> DEFINE p == Smaller(s.pos + 1, Duration)
<1>1. s \in [item : Item, pos : Nat, eot : BOOLEAN, dry : Nat \cup {Duration}]  BY DEF Sources
<1>2. p \in Nat  BY <1>1 DEF PlayerAssumption, Smaller
<1>3. PICK e \in BOOLEAN : e = (p = Duration)  OBVIOUS
<1> HIDE DEF p
<1>4. Played(s) = [s EXCEPT !.pos = p, !.eot = e]  BY <1>3 DEF Played, p
<1>5. Played(s) \in Sources /\ Played(s).item = s.item /\ Played(s).item \in Item /\ Played(s).pos = p
  BY <1>1, <1>2, <1>4 DEF Sources
<1>6. Played(s) # NoSource  BY <1>5, NoItemAssumption DEF NoSource
<1>7. Position(s.item, p) \in Events /\ EndOfTrack \in Events
  BY <1>1, <1>2 DEF Position, EndOfTrack, Events
<1>8. Reports(s) = <<Position(s.item, p)>> \o IF p = Duration THEN <<EndOfTrack>> ELSE <<>>
  BY <1>5 DEF Reports
<1>9. Reports(s) \in Seq(Events)  BY <1>7, <1>8
<1> QED  BY <1>5, <1>6, <1>9

\* A source that may have played is still the same source.
Replayed(s, t) ==
  /\ t \in Sources
  /\ t.item = s.item
  /\ t # NoSource <=> s # NoSource

\* While it plays, the sink is at one track, or fading from one into another.
LEMMA AudioCallbackKeeps ==
  ASSUME PlayerAssumption, Inv, AudioCallback
  PROVE  Inv'
<1>1. UNCHANGED <<player, threads, notice, alive, commands>> /\ sink.on
  BY DEF AudioCallback
<1>2. /\ sink \in [on : BOOLEAN, fade : Nat, cur : Sources, next : Sources]
      /\ sink.fade > 0 <=> sink.next # NoSource
  BY DEF Inv, Agreed, GoodSink
<1>3. PICK who \in SUBSET {"cur", "next"} :
        LET cur == IF "cur" \in who THEN Played(sink.cur) ELSE sink.cur
            next == IF "next" \in who THEN Played(sink.next) ELSE sink.next
            reports == (IF "cur" \in who THEN Reports(sink.cur) ELSE <<>>)
                       \o (IF "next" \in who THEN Reports(sink.next) ELSE <<>>)
        IN /\ "cur" \in who => CanPlay(sink.cur)
           /\ "next" \in who => CanPlay(sink.next)
           /\ events' = events \o reports
           /\ sink' = IF sink.fade > 1
                        THEN [sink EXCEPT !.cur = cur, !.next = next, !.fade = @ - 1]
                      ELSE IF sink.fade = 1
                        THEN [sink EXCEPT !.cur = next, !.next = NoSource, !.fade = 0]
                      ELSE [sink EXCEPT !.cur = cur]
  BY DEF AudioCallback
<1> DEFINE cur == IF "cur" \in who THEN Played(sink.cur) ELSE sink.cur
           next == IF "next" \in who THEN Played(sink.next) ELSE sink.next
           reports == (IF "cur" \in who THEN Reports(sink.cur) ELSE <<>>)
                      \o (IF "next" \in who THEN Reports(sink.next) ELSE <<>>)
<1>4. /\ "cur" \in who => sink.cur # NoSource
      /\ "next" \in who => sink.next # NoSource
  BY <1>3 DEF CanPlay
<1>5. sink.cur \in Sources /\ sink.next \in Sources /\ sink.fade \in Nat
  BY <1>2
<1>6. Replayed(sink.cur, cur) /\ Replayed(sink.next, next)
  BY <1>4, <1>5, PlayedSource DEF Replayed
<1>7. reports \in Seq(Events)
  <2>1. (IF "cur" \in who THEN Reports(sink.cur) ELSE <<>>) \in Seq(Events)
    BY <1>4, <1>5, PlayedSource
  <2>2. (IF "next" \in who THEN Reports(sink.next) ELSE <<>>) \in Seq(Events)
    BY <1>4, <1>5, PlayedSource
  <2> QED  BY <2>1, <2>2
<1>8. events' = events \o reports  BY <1>3
<1>9. Counted'  BY <1>1, <1>7, <1>8 DEF Inv, Counted
<1>10. sink' = IF sink.fade > 1
                 THEN [sink EXCEPT !.cur = cur, !.next = next, !.fade = @ - 1]
               ELSE IF sink.fade = 1
                 THEN [sink EXCEPT !.cur = next, !.next = NoSource, !.fade = 0]
               ELSE [sink EXCEPT !.cur = cur]
  BY <1>3
<1> HIDE DEF cur, next, reports
<1>11. NoSource \in Sources  BY DEF Sources
<1>12. GoodSink' /\ sink'.on = sink.on /\ Newest'.item = Newest.item
  <2>1. CASE sink.fade > 1
    <3>1. sink' = [sink EXCEPT !.cur = cur, !.next = next, !.fade = @ - 1]  BY <1>10, <2>1
    <3>2. /\ sink'.next = next /\ sink'.fade = sink.fade - 1 /\ sink'.on = sink.on
          /\ sink' \in [on : BOOLEAN, fade : Nat, cur : Sources, next : Sources]
      <4>1. sink.fade - 1 \in Nat  BY <1>5, <2>1
      <4> QED  BY <1>2, <1>6, <3>1, <4>1 DEF Replayed
    <3>3. sink.next # NoSource /\ next # NoSource /\ next.item = sink.next.item
      BY <1>2, <1>5, <1>6, <2>1 DEF Replayed
    <3> QED  BY <1>5, <2>1, <3>2, <3>3 DEF GoodSink, Newest
  <2>2. CASE sink.fade = 1
    <3>1. sink' = [sink EXCEPT !.cur = next, !.next = NoSource, !.fade = 0]  BY <1>10, <2>2
    <3>2. /\ sink'.next = NoSource /\ sink'.fade = 0 /\ sink'.on = sink.on /\ sink'.cur = next
          /\ sink' \in [on : BOOLEAN, fade : Nat, cur : Sources, next : Sources]
      BY <1>2, <1>6, <1>11, <3>1 DEF Replayed
    <3>3. sink.next # NoSource /\ next.item = sink.next.item
      BY <1>2, <1>5, <1>6, <2>2 DEF Replayed
    <3> QED  BY <3>2, <3>3 DEF GoodSink, Newest
  <2>3. CASE sink.fade = 0
    <3>1. sink' = [sink EXCEPT !.cur = cur]  BY <1>10, <2>3
    <3>2. /\ sink'.next = sink.next /\ sink'.fade = 0 /\ sink'.on = sink.on /\ sink'.cur = cur
          /\ sink' \in [on : BOOLEAN, fade : Nat, cur : Sources, next : Sources]
      BY <1>2, <1>6, <2>3, <3>1 DEF Replayed
    <3>3. sink.next = NoSource /\ cur.item = sink.cur.item
      BY <1>2, <1>6, <2>3 DEF Replayed
    <3> QED  BY <3>2, <3>3 DEF GoodSink, Newest
  <2> QED  BY <1>5, <2>1, <2>2, <2>3
<1>13. state.st \in {"Playing", "Paused"}
  <2>1. Silent.on = FALSE  BY DEF Silent
  <2> QED  BY <1>1, <2>1 DEF Inv, Agreed, SinkPlaysState
<1>14. SinkPlaysState'
  BY <1>1, <1>12, <1>13 DEF player, Inv, Agreed, SinkPlaysState
<1>15. Agreed'
  BY <1>1, <1>12, <1>14 DEF player, Inv, Agreed, NoticeShowsState
<1>16. Waits'  BY <1>1 DEF player, threads, Inv, Waits, LoadIsPending
<1> QED  BY <1>1, <1>9, <1>15, <1>16 DEF player, Inv, Flags
-----------------------------------------------------------------------------
LEMMA InitInv ==
  ASSUME PlayerAssumption, Init
  PROVE  Inv
<1>1. EmptyQueue = Clear(EmptyQueue) /\ EmptyQueue.behavior \in Behavior
  BY DEF EmptyQueue, Clear, Behavior
<1>2. WellFormed(queue)  BY <1>1, ClearWellFormed DEF Init
<1>3. state = Stopped /\ state.st = "Stopped"  BY DEF Init, Stopped
<1>4. notice = [kind |-> "Stopped", item |-> NoItem]  BY DEF Init, Notice
<1>5. sink = Silent /\ GoodSink  BY SilentIsGood DEF Init, GoodSink
<1>6. SinkPlaysState  BY <1>3, <1>5 DEF SinkPlaysState
<1>7. NoticeShowsState  BY <1>3, <1>4 DEF NoticeShowsState, Notice
<1>8. Agreed  BY <1>3, <1>4, <1>5, <1>6, <1>7 DEF Agreed, States, Notices, Init
<1>9. preload \in Preloads /\ preload.st = "None"  BY DEF Init, Preloads, NoPreload
<1>10. Waits  BY <1>3, <1>9 DEF Init, Waits, LoadIsPending
<1>11. Flags /\ Counted
  <2>1. events = <<>> /\ commands = 0  BY DEF Init
  <2>2. Counted  BY <2>1 DEF Counted
  <2> QED  BY <2>2 DEF Init, Flags
<1> QED  BY <1>2, <1>8, <1>10, <1>11 DEF Inv

LEMMA NextInv ==
  ASSUME PlayerAssumption, Inv, [Next]_vars
  PROVE  Inv'
<1>1. CASE UNCHANGED vars
  <2>1. UNCHANGED <<state, preload, queue, failures, ignore_end_of_track, crossfade, current,
                    loads, preloads, sink, events, notice, alive, commands>>
    BY <1>1 DEF vars, player, threads, audio
  <2>2. Agreed' /\ Waits'  BY <2>1, NothingMoves DEF Inv, Flags, threads, audio
  <2> QED  BY <2>1, <2>2 DEF Inv, Flags, Counted
<1> QED
  BY <1>1, CommandsKeep, HandleLoadedKeeps, HandlePreloadedKeeps, HandleEndOfTrackKeeps,
     HandlePositionKeeps, AudioCallbackKeeps
  DEF Next, LoaderResult

LEMMA Invariance ==
  ASSUME PlayerAssumption
  PROVE  Spec => []Inv
<1>1. Init => Inv  BY InitInv
<1>2. Inv /\ [Next]_vars => Inv'  BY NextInv
<1> QED  BY <1>1, <1>2, PTL DEF Spec

\* Every variable of the player keeps its type; the queue it owns, moved by
\* commands, ends of tracks, failed loads and crossfades, stays well formed.
THEOREM TypeCorrect ==
  ASSUME PlayerAssumption
  PROVE  Spec => []TypeOK
<1>1. ASSUME Inv PROVE TypeOK
  <2>1. queue \in QueueType  BY <1>1 DEF Inv, WellFormed
  <2>2. state \in {Stopped, Invalid}
                    \cup [st : {"Loading", "Playing", "Paused"}, item : Item, pos : Nat]
    BY <1>1 DEF Inv, Agreed, States, Loading
  <2>3. preload \in {NoPreload} \cup [st : {"Preloading", "Preloaded"}, item : Item]
    BY <1>1 DEF Inv, Waits, Preloads, Preloading, Preloaded
  <2>4. Sources \subseteq [item : Item \cup {NoItem}, pos : Nat, eot : BOOLEAN, dry : Nat]
    <3>1. Duration \in Nat  BY DEF PlayerAssumption
    <3>2. NoSource = [item |-> NoItem, pos |-> 0, eot |-> FALSE, dry |-> Duration]
      BY DEF NoSource
    <3>3. NoSource \in [item : Item \cup {NoItem}, pos : Nat, eot : BOOLEAN, dry : Nat]
      BY <3>1, <3>2
    <3>4. ASSUME NEW s \in [item : Item, pos : Nat, eot : BOOLEAN, dry : Nat \cup {Duration}]
          PROVE  s \in [item : Item \cup {NoItem}, pos : Nat, eot : BOOLEAN, dry : Nat]
      BY <3>1
    <3> HIDE DEF NoSource
    <3> QED  BY <3>3, <3>4, Zenon DEF Sources
  <2>5. sink \in [on : BOOLEAN, fade : Nat,
                  cur  : [item : Item \cup {NoItem}, pos : Nat, eot : BOOLEAN, dry : Nat],
                  next : [item : Item \cup {NoItem}, pos : Nat, eot : BOOLEAN, dry : Nat]]
    BY <1>1, <2>4 DEF Inv, Agreed, GoodSink
  <2> QED
    BY <1>1, <2>1, <2>2, <2>3, <2>5
    DEF TypeOK, Inv, Agreed, Waits, Flags, Counted, Notices, Events
<1> QED  BY <1>1, Invariance, PTL

\* The newest source of the sink is the current track of the player, audible
\* exactly while the player says Playing, and in every other state the sink has
\* none: through loads that come late, crossfades, seeks and pauses (play_loaded,
\* load_and_play, stop, pause, resume and maybe_start_crossfade of player/mod.rs
\* against CrossfadeSource).
THEOREM SinkPlaysWhatIsSaid ==
  ASSUME PlayerAssumption
  PROVE  Spec => []SinkPlaysState
<1>1. Inv => SinkPlaysState  BY DEF Inv, Agreed
<1> QED  BY <1>1, Invariance, PTL

\* The player waits for no result that nobody will send, although a preload may be
\* adopted as the load of the current track and its result arrive as either
\* (load_and_play, handle_loaded, handle_preloaded).
THEOREM LoadsArePending ==
  ASSUME PlayerAssumption
  PROVE  Spec => []LoadIsPending
<1>1. Inv => LoadIsPending  BY DEF Inv, Waits
<1> QED  BY <1>1, Invariance, PTL

\* What the user interface was last told is what the player does, but for a pause
\* or resume that has lost the state.
THEOREM NoticesShowTheState ==
  ASSUME PlayerAssumption
  PROVE  Spec => []NoticeShowsState
<1>1. Inv => NoticeShowsState  BY DEF Inv, Agreed
<1> QED  BY <1>1, Invariance, PTL

\* A crossfade fades into the track the queue makes current, if none was queued
\* (maybe_start_crossfade: get_following of the queue against skip_to_following).
THEOREM FadesIntoCurrent ==
  ASSUME PlayerAssumption
  PROVE  Spec => FadesIntoQueueCurrent
<1> DEFINE Fades == StartsFade /\ queue.items # <<>> /\ queue.user_items = <<>>
                      => state'.item = Current(queue')
<1>1. ASSUME NEW results, NEW ls, NEW fails, PlayCurrentOf(results, ls, fails)
      PROVE  ~StartsFade
  <2>1. ASSUME NEW i, PlayLoaded(i) \/ StartLoading(i) PROVE sink'.next = NoSource
    <3>1. \/ sink' = [on |-> TRUE, cur |-> Source(i), next |-> NoSource, fade |-> 0]
          \/ sink' = [on |-> FALSE, cur |-> NoSource, next |-> NoSource, fade |-> 0]
      BY <2>1 DEF PlayLoaded, StartLoading, Silent
    <3> QED  BY <3>1
  <2>2. \A i : LoadAndPlay(i, ls) => sink'.next = NoSource  BY <2>1 DEF LoadAndPlay
  <2>3. \A q : StopPlayback(q) => sink'.next = NoSource  BY DEF StopPlayback, Silent
  <2> QED  BY <1>1, <2>2, <2>3 DEF PlayCurrentOf, StartsFade
<1>2. ASSUME Inv, UserCommand PROVE ~StartsFade
  <2>1. \A p : SeekTo(p) => ~StartsFade  BY DEF SeekTo, StartsFade
  <2>2. \A results : QueueOnly(results) => ~StartsFade  BY DEF QueueOnly, StartsFade
  <2>3. ASSUME NEW on, SetPlaying(on), sink'.next # sink.next PROVE FALSE
    BY <1>2, <2>3 DEF SetPlaying, Inv, Agreed, GoodSink
  <2>4. \A on : SetPlaying(on) => ~StartsFade  BY <2>3 DEF StartsFade
  <2>5. Stop => ~StartsFade  BY DEF Stop, StopPlayback, StartsFade, Silent
  <2>6. \A duration : Configure(duration) => ~StartsFade  BY DEF Configure, StartsFade
  <2> QED
    BY <1>1, <1>2, <2>1, <2>2, <2>4, <2>5, <2>6
    DEF UserCommand, ReplaceQueue, LoadQueue, NextTrack, PreviousTrack, Pause, Resume,
        PauseOrResume, Seek, SetQueueBehavior, AddToQueue, AddNextTrack
<1>3. ASSUME NEW i \in Item, NEW ok \in BOOLEAN, HandleLoaded(i, ok) \/ HandlePreloaded(i, ok)
      PROVE  ~StartsFade
  <2>1. ASSUME NEW ls, AcceptLoaded(i, ok, ls) PROVE ~StartsFade
    <3>1. ASSUME PlayLoaded(i) \/ StopPlayback(queue) PROVE sink'.next = NoSource
      <4>1. \/ sink' = [on |-> TRUE, cur |-> Source(i), next |-> NoSource, fade |-> 0]
            \/ sink' = [on |-> FALSE, cur |-> NoSource, next |-> NoSource, fade |-> 0]
        BY <3>1 DEF PlayLoaded, StopPlayback, Silent
      <4> QED  BY <4>1
    <3> QED  BY <1>1, <2>1, <3>1 DEF AcceptLoaded, StartsFade
  <2> QED  BY <1>3, <2>1 DEF HandleLoaded, HandlePreloaded, StartsFade
<1>4. ASSUME Inv, HandlePosition, StartsFade, queue.items # <<>>, queue.user_items = <<>>
      PROVE  state'.item = Current(queue')
  <2>1. /\ CanCrossfade(Head(events).pos) /\ queue' \in SkipToFollowing(queue)
        /\ state' = Playing(Following(queue), 0)
    BY <1>4 DEF HandlePosition, StartsFade
  <2>2. Current(queue') = Following(queue)
    BY <1>4, <2>1, FollowingBecomesCurrent DEF Inv, CanCrossfade
  <2> QED  BY <2>1, <2>2 DEF Playing
<1>5. HandleEndOfTrack => ~StartsFade  BY <1>1 DEF HandleEndOfTrack, StartsFade
<1>6. AudioCallback \/ UNCHANGED vars => ~StartsFade
  BY DEF AudioCallback, StartsFade, vars, audio
<1>7. Inv /\ [Next]_vars => [Fades]_vars
  BY <1>2, <1>3, <1>4, <1>5, <1>6 DEF Next, LoaderResult
<1> QED  BY <1>7, Invariance, PTL DEF Spec, FadesIntoQueueCurrent

-----------------------------------------------------------------------------
(***************************************************************************)
(* The player with the librespot engine: its variables keep their types,   *)
(* and a stop of the user is final.  From the stop on the queue is empty,  *)
(* so that no end of track finds anything to load; and the last order to   *)
(* the engine that loads or stops is a stop, or the engine has stopped.    *)
(***************************************************************************)
Orders ==
  [kind : {"Load", "Stop", "Play", "Pause", "Seek"}, item : L!Maybe, why : L!Reasons]
EngineEvents ==
  [kind : {"Loading", "Playing", "Paused", "Position", "Stopped", "Unavailable", "EndOfTrack"},
   item : L!Maybe, why : L!Reasons]
Received ==
  [kind : {"Loading", "Playing", "Pausing", "Resuming", "Position", "Stopped", "EndOfTrack"},
   item : L!Maybe, why : L!Reasons]

NothingLeft(q) ==
  q.items = <<>> /\ q.positions = <<>> /\ q.user_items = <<>> /\ q.user_items_position = 0

\* No order after the first k loads.
NoLoadAfter(k, es) == \A j \in DOMAIN es : j > k => es[j].kind # "Load"
StopsIn(st, es) ==
  \/ st = "Stopped" /\ NoLoadAfter(0, es)
  \/ \E k \in DOMAIN es : es[k].kind = "Stop" /\ NoLoadAfter(k, es)

StopStays == stop_requested => NothingLeft(lib_queue) /\ StopsIn(engine.st, engine_commands)
LInv == WellFormed(lib_queue) /\ L!TypeOK /\ StopStays

\* The instance has the operations of the queue.
LEMMA SameOperations ==
  /\ L!EmptyQueue = EmptyQueue /\ L!QueueType = QueueType /\ L!Behavior = Behavior
  /\ \A q : L!Clear(q) = Clear(q) /\ L!Current(q) = Current(q)
  /\ \A q, item : L!Add(q, item) = Add(q, item) /\ L!AddNext(q, item) = AddNext(q, item)
  /\ \A q, items, p : L!Fill(q, items, p) = Fill(q, items, p)
  /\ \A q, items : L!Replace(q, items) = Replace(q, items)
  /\ \A q, b : L!SetBehaviour(q, b) = SetBehaviour(q, b)
  /\ \A q : /\ L!SkipToPrevious(q) = SkipToPrevious(q)
            /\ L!SkipToNext(q) = SkipToNext(q)
            /\ L!SkipToFollowing(q) = SkipToFollowing(q)
<1>1. L!EmptyQueue = EmptyQueue /\ L!Behavior = Behavior
  BY DEF L!EmptyQueue, EmptyQueue, L!Behavior, Behavior
<1>2. L!QueueType = QueueType
  BY <1>1, Zenon DEF L!QueueType, QueueType
<1>3. \A q : L!Clear(q) = Clear(q)
  BY <1>1, Zenon DEF L!Clear, Clear
<1>4. \A q : L!Current(q) = Current(q)
  BY Zenon DEF L!Current, Current
<1>5. \A q, item : L!InsertAfterCurrent(q, item) = InsertAfterCurrent(q, item)
  BY Zenon DEF L!InsertAfterCurrent, InsertAfterCurrent, L!InsertAt, InsertAt, L!Smaller, Smaller
<1>6. \A q, item : L!Add(q, item) = Add(q, item) /\ L!AddNext(q, item) = AddNext(q, item)
  BY <1>5, Zenon DEF L!Add, Add, L!AddNext, AddNext
<1>7. \A first, n : L!ShuffledFrom(first, n) = ShuffledFrom(first, n)
  BY Zenon DEF L!ShuffledFrom, ShuffledFrom, L!IsInjective, IsInjective
<1>8. \A q : L!ComputePositions(q) = ComputePositions(q)
  BY <1>7, Zenon DEF L!ComputePositions, ComputePositions
<1>9. \A q, items, p : L!Fill(q, items, p) = Fill(q, items, p)
  BY <1>3, <1>8, Zenon DEF L!Fill, Fill, L!Filled, Filled
<1>10. \A q, items : L!Replace(q, items) = Replace(q, items)
  <2> TAKE q, items
  <2> DEFINE Kept(now) == {i \in DOMAIN items : items[i] = now}
             Least(kept) == IF kept = {} THEN 1 ELSE CHOOSE i \in kept : \A j \in kept : i <= j
  <2>1. Replace(q, items) = Fill(q, items, Least(Kept(Current(q))))
    BY DEF Replace
  <2>2. L!Replace(q, items) = L!Fill(q, items, Least(Kept(L!Current(q))))
    BY DEF L!Replace
  <2> HIDE DEF Kept, Least
  <2> QED
    BY <1>4, <1>9, <2>1, <2>2
<1>11. \A q, b : L!SetBehaviour(q, b) = SetBehaviour(q, b)
  BY <1>8, Zenon DEF L!SetBehaviour, SetBehaviour
<1>12. \A q : L!HandleAddedQueue(q) = HandleAddedQueue(q)
  BY <1>5, Zenon DEF L!HandleAddedQueue, HandleAddedQueue, L!HasPendingUserItem,
       HasPendingUserItem, L!PendingUserItem, PendingUserItem
<1>13. \A q : L!NextPosition(q) = NextPosition(q) /\ L!FollowingPosition(q) = FollowingPosition(q)
  BY Zenon DEF L!NextPosition, NextPosition, L!FollowingPosition, FollowingPosition,
       L!WrappedPosition, WrappedPosition
<1>14. \A q, ps : L!MoveTo(q, ps) = MoveTo(q, ps)
  BY Zenon DEF L!MoveTo, MoveTo
<1>15. \A q : L!SkipToPrevious(q) = SkipToPrevious(q)
  BY Zenon DEF L!SkipToPrevious, SkipToPrevious, L!PreviousPosition, PreviousPosition
<1>16. \A q : L!SkipToNext(q) = SkipToNext(q) /\ L!SkipToFollowing(q) = SkipToFollowing(q)
  BY <1>12, <1>13, <1>14, Zenon DEF L!SkipToNext, SkipToNext, L!SkipToFollowing, SkipToFollowing
<1> QED
  BY <1>1, <1>2, <1>3, <1>4, <1>6, <1>9, <1>10, <1>11, <1>15, <1>16

LEMMA OrderIsTyped ==
  /\ \A kind \in {"Load", "Stop", "Play", "Pause", "Seek"}, item \in L!Maybe, why \in L!Reasons :
       L!Msg(kind, item, why) \in Orders /\ L!Msg(kind, item, why).kind = kind
  /\ NoItem \in L!Maybe /\ Item \subseteq L!Maybe /\ "none" \in L!Reasons
BY DEF L!Msg, Orders, L!Maybe, L!Reasons

\* What sends no load leaves a stop the last that counts.
LEMMA SentAfterStop ==
  ASSUME NEW st, NEW es \in Seq(Orders), NEW order \in Orders, order.kind # "Load"
  PROVE  /\ Append(es, order) \in Seq(Orders)
         /\ StopsIn(st, es) => StopsIn(st, Append(es, order))
         /\ order.kind = "Stop" => StopsIn(st, Append(es, order))
<1> DEFINE after == Append(es, order)
<1>1. /\ after \in Seq(Orders) /\ Len(es) \in Nat
      /\ DOMAIN es = 1..Len(es) /\ DOMAIN after = 1..(Len(es) + 1)
      /\ after[Len(es) + 1] = order
      /\ \A j \in 1..Len(es) : after[j] = es[j]
  OBVIOUS
<1> HIDE DEF after
<1>2. \A k : NoLoadAfter(k, es) => NoLoadAfter(k, after)
  <2> SUFFICES ASSUME NEW k, NoLoadAfter(k, es), NEW j \in DOMAIN after, j > k
               PROVE  after[j].kind # "Load"
    BY DEF NoLoadAfter
  <2> QED
    BY <1>1 DEF NoLoadAfter
<1>3. NoLoadAfter(Len(es) + 1, after)
  BY <1>1 DEF NoLoadAfter
<1>4. StopsIn(st, es) => StopsIn(st, after)
  <2>1. ASSUME NEW k \in DOMAIN es, es[k].kind = "Stop", NoLoadAfter(k, es)
        PROVE  StopsIn(st, after)
    <3>1. k \in DOMAIN after /\ after[k].kind = "Stop"
      BY <1>1, <2>1
    <3> QED
      BY <1>2, <2>1, <3>1 DEF StopsIn
  <2> QED
    BY <1>2, <2>1 DEF StopsIn
<1>5. order.kind = "Stop" => StopsIn(st, after)
  <2>1. Len(es) + 1 \in DOMAIN after /\ after[Len(es) + 1] = order
    BY <1>1
  <2> QED
    BY <1>3, <2>1 DEF StopsIn
<1> QED
  BY <1>1, <1>4, <1>5 DEF after

\* stop(): nothing is left, and the engine will stop.
LEMMA StopIsSent ==
  ASSUME LInv, NEW q, WellFormed(q), L!StopEngine(q)
  PROVE  /\ WellFormed(lib_queue') /\ lib_queue' \in L!QueueType /\ NothingLeft(lib_queue')
         /\ engine_commands' \in Seq(Orders) /\ transitioning' \in BOOLEAN
         /\ StopsIn(engine.st, engine_commands')
<1> DEFINE stop == L!Msg("Stop", NoItem, "stop")
<1>1. stop \in Orders /\ stop.kind = "Stop"
  BY OrderIsTyped DEF L!Reasons
<1>2. lib_queue' = Clear(q) /\ engine_commands' = Append(engine_commands, stop)
      /\ transitioning' = transitioning
  BY SameOperations DEF L!StopEngine, L!Stopped
<1> HIDE DEF stop
<1>3. engine_commands \in Seq(Orders) /\ transitioning \in BOOLEAN
  BY DEF LInv, L!TypeOK, Orders
<1>4. WellFormed(lib_queue') /\ lib_queue' \in L!QueueType
  BY <1>2, ClearWellFormed, WellFormedFacts, SameOperations
<1>5. NothingLeft(lib_queue')
  BY <1>2 DEF NothingLeft, Clear, EmptyQueue
<1> QED
  BY <1>1, <1>2, <1>3, <1>4, <1>5, SentAfterStop

\* A track is loaded, or playback stops; with nothing to load it stops.
LEMMA OneIsPlayed ==
  ASSUME LInv, NEW results, \A q \in results : WellFormed(q), L!PlayOneOf(results)
  PROVE  /\ WellFormed(lib_queue') /\ lib_queue' \in L!QueueType /\ lib_alive' \in BOOLEAN
         /\ engine_commands' \in Seq(Orders) /\ transitioning' \in BOOLEAN
         /\ StopStays /\ stop_requested /\ (\A q \in results : Current(q) = NoItem) =>
              NothingLeft(lib_queue') /\ StopsIn(engine.st, engine_commands')
<1>1. CASE results = {}
  <2>1. lib_alive' = FALSE /\ UNCHANGED <<lib_queue, transitioning, engine_commands>>
    BY <1>1 DEF L!PlayOneOf
  <2> QED
    BY <2>1 DEF LInv, L!TypeOK, Orders, StopStays
<1>2. CASE results # {}
  <2>1. PICK q \in results : L!PlayCurrent(q)
    BY <1>2 DEF L!PlayOneOf
  <2>2. lib_alive' = lib_alive /\ lib_alive \in BOOLEAN
    BY <1>2 DEF L!PlayOneOf, LInv, L!TypeOK
  <2>3. CASE Current(q) = NoItem
    <3>1. L!StopEngine(q)
      BY <2>1, <2>3, SameOperations DEF L!PlayCurrent
    <3> QED
      BY <2>1, <2>2, <3>1, StopIsSent
  <2>4. CASE Current(q) # NoItem
    <3> DEFINE item == Current(q)
               stop == L!Msg("Stop", NoItem, "transition")
    <3>1. lib_queue' = q /\ L!LoadAndPlay(item)
      BY <2>1, <2>4, SameOperations DEF L!PlayCurrent
    <3>2. item \in Item
      BY <2>4, CurrentItem
    <3>3. stop \in Orders /\ L!Note("Load", item) \in Orders
      BY <3>2, OrderIsTyped DEF L!Note, L!Reasons
    <3>4. L!LoadOf(item) \in Seq(Orders)
      BY <3>3 DEF L!LoadOf
    <3>5. /\ transitioning' = TRUE
          /\ engine_commands' = engine_commands \o <<stop>> \o L!LoadOf(item)
      BY <3>1 DEF L!LoadAndPlay, L!Suppress
    <3> HIDE DEF item, stop
    <3>6. engine_commands \in Seq(Orders)
      BY DEF LInv, L!TypeOK, Orders
    <3>7. <<stop>> \in Seq(Orders)
      BY <3>3
    <3>8. engine_commands' \in Seq(Orders)
      BY <3>4, <3>5, <3>6, <3>7, ConcatProperties
    <3>9. WellFormed(lib_queue') /\ lib_queue' \in L!QueueType
      BY <2>1, <3>1, WellFormedFacts, SameOperations
    <3> QED
      BY <2>1, <2>2, <2>4, <3>5, <3>8, <3>9
  <2> QED
    BY <2>3, <2>4
<1> QED
  BY <1>1, <1>2

\* What may follow a command or an event: the other parts have their types.
Rest ==
  /\ lib_state \in [st : {"Stopped", "Playing", "Paused"}, item : L!Maybe]
  /\ view \in [st : {"Stopped", "Loading", "Playing", "Paused"}, item : L!Maybe]
  /\ inbox \in Seq(Received) /\ engine_events \in Seq(EngineEvents)
  /\ engine \in [st : {"Stopped", "Loading", "Failed", "Playing", "Paused", "EndOfTrack"},
                 item : L!Maybe, play : BOOLEAN]
  /\ current_item \in L!Maybe /\ {stop_requested, hasty} \subseteq BOOLEAN
  /\ lib_commands \in 0..MaxCommands
Queues ==
  /\ WellFormed(lib_queue) /\ lib_queue \in L!QueueType /\ lib_alive \in BOOLEAN
  /\ engine_commands \in Seq(Orders) /\ transitioning \in BOOLEAN

LEMMA LInvParts == LInv <=> Rest /\ Queues /\ StopStays
BY DEF LInv, L!TypeOK, Rest, Queues, Orders, Received, EngineEvents

LEMMA EmptyHasNoFollowing ==
  ASSUME NEW q, WellFormed(q), NothingLeft(q), NEW r \in SkipToFollowing(q)
  PROVE  Current(r) = NoItem
<1>1. HandleAddedQueue(q) = q
  BY DEF HandleAddedQueue, HasPendingUserItem, NothingLeft
<1>2. PICK p : r = [q EXCEPT !.position = p]
  BY <1>1 DEF SkipToFollowing, MoveTo
<1>3. r.positions = <<>>
  BY <1>2 DEF NothingLeft, WellFormed, QueueType
<1> QED
  BY <1>3 DEF Current

LEMMA HandlerKeepsL ==
  ASSUME LInv, L!Handle
  PROVE  LInv'
<1> USE DEF L!Event
<1>1. Rest /\ Queues /\ StopStays
  BY LInvParts
<1>2. ASSUME NEW kinds, L!Take(kinds)
      PROVE  /\ Head(inbox) \in Received /\ Head(inbox).kind \in kinds
             /\ inbox' \in Seq(Received)
             /\ view' \in [st : {"Stopped", "Loading", "Playing", "Paused"}, item : L!Maybe]
             /\ UNCHANGED <<current_item, engine, engine_events, stop_requested, lib_commands, hasty>>
  <2>1. Head(inbox) \in Received /\ inbox' \in Seq(Received) /\ Head(inbox).kind \in kinds
    BY <1>1, <1>2 DEF L!Take, Rest
  <2>2. view' = L!Shown(Head(inbox))
    BY <1>2 DEF L!Take
  <2>3. \A m \in Received :
          L!Shown(m) \in [st : {"Stopped", "Loading", "Playing", "Paused"}, item : L!Maybe]
    <3> TAKE m \in Received
    <3>1. m.item \in L!Maybe /\ NoItem \in L!Maybe
      BY DEF Received, L!Maybe
    <3>2. CASE m.kind \in {"Loading", "Playing"}
      BY <3>1, <3>2 DEF L!Shown
    <3>3. CASE m.kind = "Pausing"
      BY <1>1, <3>3 DEF L!Shown, Rest
    <3>4. CASE m.kind = "Resuming"
      BY <1>1, <3>4 DEF L!Shown, Rest
    <3>5. CASE m.kind = "Stopped"
      BY <3>1, <3>5 DEF L!Shown
    <3>6. CASE m.kind \in {"Position", "EndOfTrack"}
      BY <1>1, <3>6 DEF L!Shown, Rest
    <3> QED
      BY <3>2, <3>3, <3>4, <3>5, <3>6 DEF Received
  <2> QED
    BY <1>2, <2>1, <2>2, <2>3 DEF L!Take, L!user
<1>3. CASE L!HandleReport
  <2>1. L!Take({"Loading", "Playing", "Resuming", "Pausing", "Position"})
        /\ UNCHANGED <<lib_queue, lib_alive, transitioning, engine_commands>>
    BY <1>3 DEF L!HandleReport
  <2>2. /\ Head(inbox) \in Received /\ inbox' \in Seq(Received)
        /\ view' \in [st : {"Stopped", "Loading", "Playing", "Paused"}, item : L!Maybe]
        /\ UNCHANGED <<current_item, engine, engine_events, stop_requested, lib_commands, hasty>>
    BY <1>2, <2>1
  <2>3. \/ lib_state' = lib_state \/ lib_state' = [st |-> "Paused", item |-> Head(inbox).item]
        \/ lib_state' = [st |-> "Playing", item |-> Head(inbox).item]
    BY <1>3 DEF L!HandleReport
  <2>4. Head(inbox).item \in L!Maybe
    BY <2>2 DEF Received
  <2>5. lib_state' \in [st : {"Stopped", "Playing", "Paused"}, item : L!Maybe]
    BY <1>1, <2>3, <2>4 DEF Rest
  <2>6. Rest'
    BY <1>1, <2>2, <2>5 DEF Rest
  <2>7. Queues' /\ StopStays'
    BY <1>1, <2>1, <2>2 DEF Queues, StopStays
  <2> QED
    BY <2>6, <2>7, LInvParts, PTL
<1>4. CASE L!HandleStopped
  <2>1. /\ L!Take({"Stopped"}) /\ UNCHANGED <<lib_alive, transitioning, engine_commands>>
        /\ lib_state' = [st |-> "Stopped", item |-> NoItem] /\ lib_queue' = Clear(lib_queue)
    BY <1>4, SameOperations DEF L!HandleStopped
  <2>2. /\ inbox' \in Seq(Received)
        /\ view' \in [st : {"Stopped", "Loading", "Playing", "Paused"}, item : L!Maybe]
        /\ UNCHANGED <<current_item, engine, engine_events, stop_requested, lib_commands, hasty>>
    BY <1>2, <2>1
  <2>3. Rest'
    BY <1>1, <2>1, <2>2, OrderIsTyped DEF Rest
  <2>4. WellFormed(lib_queue') /\ lib_queue' \in L!QueueType /\ NothingLeft(lib_queue')
    <3>1. WellFormed(Clear(lib_queue))
      BY <1>1, ClearWellFormed, WellFormedFacts DEF Queues
    <3> QED
      BY <2>1, <3>1, WellFormedFacts, SameOperations DEF NothingLeft, Clear, EmptyQueue
  <2>5. Queues' /\ StopStays'
    BY <1>1, <2>1, <2>2, <2>4 DEF Queues, StopStays
  <2> QED
    BY <2>3, <2>5, LInvParts, PTL
<1>5. CASE L!HandleEndOfTrack
  <2>1. L!Take({"EndOfTrack"}) /\ L!PlayOneOf(SkipToFollowing(lib_queue)) /\ lib_state' = lib_state
    BY <1>5, SameOperations DEF L!HandleEndOfTrack
  <2>2. /\ inbox' \in Seq(Received)
        /\ view' \in [st : {"Stopped", "Loading", "Playing", "Paused"}, item : L!Maybe]
        /\ UNCHANGED <<current_item, engine, engine_events, stop_requested, lib_commands, hasty>>
    BY <1>2, <2>1
  <2>3. Rest'
    BY <1>1, <2>1, <2>2 DEF Rest
  <2>4. \A q \in SkipToFollowing(lib_queue) : WellFormed(q)
    BY <1>1, SkipsWellFormed DEF Queues
  <2>5. /\ WellFormed(lib_queue') /\ lib_queue' \in L!QueueType /\ lib_alive' \in BOOLEAN
        /\ engine_commands' \in Seq(Orders) /\ transitioning' \in BOOLEAN
        /\ StopStays /\ stop_requested /\ (\A q \in SkipToFollowing(lib_queue) : Current(q) = NoItem) =>
              NothingLeft(lib_queue') /\ StopsIn(engine.st, engine_commands')
    BY <2>1, <2>4, OneIsPlayed
  <2>6. stop_requested => \A q \in SkipToFollowing(lib_queue) : Current(q) = NoItem
    BY <1>1, EmptyHasNoFollowing DEF Queues, StopStays
  <2>7. Queues' /\ StopStays'
    BY <1>1, <2>2, <2>5, <2>6 DEF Queues, StopStays
  <2> QED
    BY <2>3, <2>7, LInvParts, PTL
<1> QED
  BY <1>3, <1>4, <1>5 DEF L!Handle

LEMMA CommandKeepsL ==
  ASSUME L!LibrespotAssumption, LInv, L!Commands
  PROVE  LInv'
<1>1. Rest /\ Queues /\ StopStays
  BY LInvParts
<1>2. ASSUME L!Accept
      PROVE  /\ UNCHANGED <<current_item, engine, engine_events, view, hasty>>
             /\ lib_commands' \in 0..MaxCommands
  <2>1. lib_commands \in Nat /\ MaxCommands \in Nat /\ lib_commands < MaxCommands /\ lib_commands' = lib_commands + 1
    BY <1>1, <1>2 DEF L!Accept, Rest, L!LibrespotAssumption
  <2> QED
    BY <1>2, <2>1 DEF L!Accept
<1>3. ASSUME L!Command PROVE L!Accept /\ stop_requested' = FALSE
  BY <1>3 DEF L!Command
\* A command other than Stop that leaves the queue and its orders well typed.
<1>4. ASSUME L!Command, Queues', inbox' \in Seq(Received),
             lib_state' \in [st : {"Stopped", "Playing", "Paused"}, item : L!Maybe]
      PROVE  LInv'
  <2>1. Rest' /\ StopStays'
    BY <1>1, <1>2, <1>3, <1>4 DEF Rest, StopStays
  <2> QED
    BY <1>4, <2>1, LInvParts, PTL
<1>5. ASSUME NEW results, \A q \in results : WellFormed(q),
             L!Command, L!PlayOneOf(results), UNCHANGED <<lib_state, inbox>>
      PROVE  LInv'
  <2>1. Queues'
    BY <1>5, OneIsPlayed DEF Queues
  <2>2. /\ inbox' \in Seq(Received)
        /\ lib_state' \in [st : {"Stopped", "Playing", "Paused"}, item : L!Maybe]
    BY <1>1, <1>5 DEF Rest
  <2> QED
    BY <1>4, <1>5, <2>1, <2>2
<1>6. CASE L!LoadQueue
  <2>1. PICK list \in Lists : \E p \in 1..(IF list = <<>> THEN 1 ELSE Len(list)) :
          L!PlayOneOf(Fill(lib_queue, list, p))
    BY <1>6, SameOperations DEF L!LoadQueue
  <2>2. list \in Seq(Item)
    BY DEF L!LibrespotAssumption
  <2>3. PICK p \in Nat \ {0} : L!PlayOneOf(Fill(lib_queue, list, p))
    BY <2>1, <2>2
  <2>4. \A q \in Fill(lib_queue, list, p) : WellFormed(q)
    BY <1>1, <2>2, <2>3, FillWellFormed, WellFormedFacts DEF Queues
  <2> QED
    BY <1>5, <1>6, <2>3, <2>4 DEF L!LoadQueue
<1>7. CASE L!Previous \/ L!SkipNext
  <2>1. /\ WellFormed(SkipToPrevious(lib_queue))
        /\ \A q \in SkipToNext(lib_queue) : WellFormed(q)
    BY <1>1, SkipsWellFormed DEF Queues
  <2> QED
    BY <1>5, <1>7, <2>1, SameOperations DEF L!Previous, L!SkipNext
<1>8. CASE L!Stop
  <2>1. L!Accept /\ stop_requested' = TRUE /\ L!StopEngine(lib_queue) /\ UNCHANGED <<lib_state, inbox, lib_alive>>
    BY <1>8 DEF L!Stop
  <2>2. /\ WellFormed(lib_queue') /\ lib_queue' \in L!QueueType /\ NothingLeft(lib_queue')
        /\ engine_commands' \in Seq(Orders) /\ transitioning' \in BOOLEAN
        /\ StopsIn(engine.st, engine_commands')
    BY <1>1, <2>1, StopIsSent DEF Queues
  <2>3. Rest' /\ Queues' /\ StopStays'
    BY <1>1, <1>2, <2>1, <2>2 DEF Rest, Queues, StopStays
  <2> QED
    BY <2>3, LInvParts, PTL
<1>9. ASSUME NEW kind \in {"Play", "Pause", "Seek"}, L!ToEngine(L!Note(kind, NoItem))
      PROVE  Queues'
  <2>1. L!Note(kind, NoItem) \in Orders /\ L!Note(kind, NoItem).kind # "Load"
    BY OrderIsTyped DEF L!Note
  <2>2. engine_commands' \in Seq(Orders)
    BY <1>1, <1>9, <2>1, SentAfterStop DEF L!ToEngine, Queues
  <2> QED
    BY <1>1, <1>9, <2>2 DEF L!ToEngine, Queues
<1>10. ASSUME L!Command, L!SwitchOff \/ L!SwitchOn
       PROVE  LInv'
  <2>1. Queues'
    BY <1>9, <1>10 DEF L!SwitchOff, L!SwitchOn, L!Switch
  <2>2. L!Note("Pausing", lib_state.item) \in Received /\ L!Note("Resuming", lib_state.item) \in Received
    BY <1>1 DEF Rest, L!Note, L!Msg, Received, L!Reasons
  <2>3. \/ inbox' = inbox \/ inbox' = Append(inbox, L!Note("Pausing", lib_state.item))
        \/ inbox' = Append(inbox, L!Note("Resuming", lib_state.item))
    BY <1>10 DEF L!SwitchOff, L!SwitchOn, L!Switch
  <2>5. inbox' \in Seq(Received)
    <3>1. inbox \in Seq(Received)
      BY <1>1 DEF Rest
    <3>2. \A m \in Received : Append(inbox, m) \in Seq(Received)
      BY <3>1
    <3> QED
      BY <2>2, <2>3, <3>1, <3>2
  <2>4. lib_state' \in [st : {"Stopped", "Playing", "Paused"}, item : L!Maybe]
    BY <1>1, <1>10 DEF L!SwitchOff, L!SwitchOn, L!Switch, Rest
  <2> QED
    BY <1>4, <1>10, <2>1, <2>4, <2>5
<1>11. CASE L!Pause \/ L!Resume \/ L!PauseOrResume
  <2>1. CASE L!SwitchOff \/ L!SwitchOn
    BY <1>10, <1>11, <2>1 DEF L!Pause, L!Resume, L!PauseOrResume
  <2>2. CASE ~(L!SwitchOff \/ L!SwitchOn)
    <3>1. L!Command /\ UNCHANGED <<L!core, inbox, transitioning, engine_commands>>
      BY <1>11, <2>2 DEF L!Pause, L!Resume, L!PauseOrResume
    <3> QED
      BY <1>1, <1>4, <3>1 DEF L!core, Queues, Rest
  <2> QED
    BY <2>1, <2>2
<1>12. CASE L!Seek
  <2>1. Queues'
    BY <1>9, <1>12 DEF L!Seek
  <2> QED
    BY <1>1, <1>4, <1>12, <2>1 DEF L!Seek, Rest
<1>13. CASE L!EditQueue
  <2>1. L!Command /\ UNCHANGED <<lib_state, inbox, transitioning, engine_commands, lib_alive>>
    BY <1>13 DEF L!EditQueue
  <2>2. CASE \E item \in Queued : lib_queue' \in {Add(lib_queue, item), AddNext(lib_queue, item)}
    <3>1. PICK item \in Queued : lib_queue' \in {Add(lib_queue, item), AddNext(lib_queue, item)}
      BY <2>2
    <3>2. item \in Item
      BY DEF L!LibrespotAssumption
    <3>3. WellFormed(lib_queue')
      BY <1>1, <3>1, <3>2, AddWellFormed, AddNextWellFormed DEF Queues
    <3> QED
      BY <1>1, <1>4, <2>1, <3>3, WellFormedFacts, SameOperations DEF Queues, Rest
  <2>3. CASE \E list \in Lists : lib_queue' \in Replace(lib_queue, list)
    <3>1. PICK list \in Lists : lib_queue' \in Replace(lib_queue, list)
      BY <2>3
    <3>2. list \in Seq(Item)
      BY DEF L!LibrespotAssumption
    <3>3. PICK p \in Nat \ {0} : lib_queue' \in Fill(lib_queue, list, p)
      BY <3>1, <3>2, ReplaceIsFill
    <3>4. WellFormed(lib_queue')
      BY <1>1, <3>2, <3>3, FillWellFormed, WellFormedFacts DEF Queues
    <3> QED
      BY <1>1, <1>4, <2>1, <3>4, WellFormedFacts, SameOperations DEF Queues, Rest
  <2>4. CASE \E behavior \in Behaviors : lib_queue' \in SetBehaviour(lib_queue, behavior)
    <3>1. PICK behavior \in Behaviors : lib_queue' \in SetBehaviour(lib_queue, behavior)
      BY <2>4
    <3>2. behavior \in Behavior
      BY SameOperations DEF L!LibrespotAssumption
    <3>3. WellFormed(lib_queue')
      BY <1>1, <3>1, <3>2, SetBehaviourWellFormed DEF Queues
    <3> QED
      BY <1>1, <1>4, <2>1, <3>3, WellFormedFacts, SameOperations DEF Queues, Rest
  <2> QED
    BY <1>13, <2>2, <2>3, <2>4, SameOperations DEF L!EditQueue
<1> QED
  BY <1>6, <1>7, <1>8, <1>11, <1>12, <1>13 DEF L!Commands

LEMMA ForwardKeepsL ==
  ASSUME LInv, L!Forward
  PROVE  LInv'
<1> DEFINE m == Head(engine_events)
<1>1. Rest /\ Queues /\ StopStays
  BY LInvParts
<1>2. /\ m \in EngineEvents /\ engine_events' \in Seq(EngineEvents)
      /\ UNCHANGED <<lib_queue, lib_state, lib_alive, engine, engine_commands, view, stop_requested,
                     lib_commands, hasty>>
  BY <1>1 DEF L!Forward, Rest, L!core, L!user
<1>3. \/ L!ForwardLoading(m) \/ L!ForwardPlaying(m) \/ L!ForwardPaused(m)
      \/ L!ForwardPlain(m) \/ L!ForwardStopped(m) \/ L!ForwardUnavailable(m)
  BY DEF L!Forward
<1> HIDE DEF m
<1>4. m.item \in L!Maybe /\ NoItem \in L!Maybe
  BY <1>2 DEF EngineEvents, L!Maybe
<1>5. \A kind \in {"Resuming", "Pausing", "Stopped"}, item \in L!Maybe : L!Note(kind, item) \in Received
  BY DEF L!Note, L!Msg, Received, L!Reasons
<1>6. m.kind \in {"Loading", "Playing", "Position", "EndOfTrack", "Stopped"} => m \in Received
  BY <1>2 DEF EngineEvents, Received
<1>7. /\ inbox' = inbox \/ \E r \in Received : inbox' = Append(inbox, r)
      /\ current_item' \in L!Maybe /\ transitioning' \in BOOLEAN
  <2>1. current_item \in L!Maybe /\ transitioning \in BOOLEAN
    BY <1>1 DEF Rest, Queues
  <2>2. CASE L!ForwardLoading(m)
    BY <1>6, <2>1, <2>2 DEF L!ForwardLoading, L!Cleared
  <2>3. CASE L!ForwardPlaying(m)
    BY <1>4, <1>5, <1>6, <2>1, <2>3 DEF L!ForwardPlaying, L!Forwarded
  <2>4. CASE L!ForwardPaused(m)
    BY <1>4, <1>5, <2>1, <2>4 DEF L!ForwardPaused, L!Forwarded
  <2>5. CASE L!ForwardPlain(m)
    BY <1>6, <2>1, <2>5 DEF L!ForwardPlain, L!Forwarded
  <2>6. CASE L!ForwardStopped(m)
    BY <1>4, <1>6, <2>1, <2>6 DEF L!ForwardStopped, L!Forwarded
  <2>7. CASE L!ForwardUnavailable(m)
    BY <1>4, <1>5, <2>1, <2>7 DEF L!ForwardUnavailable, L!Forwarded
  <2> QED
    BY <1>3, <2>2, <2>3, <2>4, <2>5, <2>6, <2>7
<1>8. Rest'
  <2>1. inbox' \in Seq(Received)
    <3>1. inbox \in Seq(Received)
      BY <1>1 DEF Rest
    <3>2. \A r \in Received : Append(inbox, r) \in Seq(Received)
      BY <3>1
    <3> QED
      BY <1>7, <3>1, <3>2
  <2>2. /\ current_item' \in L!Maybe /\ engine_events' \in Seq(EngineEvents)
        /\ UNCHANGED <<lib_state, view, engine, stop_requested, hasty, lib_commands>>
    BY <1>2, <1>7
  <2> QED
    BY <1>1, <2>1, <2>2 DEF Rest
<1>9. Queues' /\ StopStays'
  BY <1>1, <1>2, <1>7 DEF Queues, StopStays
<1> QED
  BY <1>8, <1>9, LInvParts, PTL

\* The engine takes its first order: what was the last stop still is, or has been.
LEMMA OrderIsDone ==
  ASSUME NEW es \in Seq(Orders), es # <<>>, NEW st, NEW now, StopsIn(st, es),
         Head(es).kind = "Stop" => now = "Stopped",
         Head(es).kind # "Load" /\ st = "Stopped" => now = "Stopped"
  PROVE  StopsIn(now, Tail(es))
<1> DEFINE rest == Tail(es)
<1>1. /\ Len(es) \in Nat /\ Len(es) >= 1 /\ DOMAIN es = 1..Len(es) /\ Head(es) = es[1]
      /\ DOMAIN rest = 1..(Len(es) - 1) /\ \A j \in 1..(Len(es) - 1) : rest[j] = es[j + 1]
  OBVIOUS
<1> HIDE DEF rest
<1>2. ASSUME NEW k \in Nat, NoLoadAfter(k + 1, es) PROVE NoLoadAfter(k, rest)
  <2> SUFFICES ASSUME NEW j \in DOMAIN rest, j > k PROVE rest[j].kind # "Load"
    BY DEF NoLoadAfter
  <2>1. j + 1 \in DOMAIN es /\ j + 1 > k + 1 /\ rest[j] = es[j + 1]
    BY <1>1
  <2> QED
    BY <1>2, <2>1 DEF NoLoadAfter
<1>3. CASE st = "Stopped" /\ NoLoadAfter(0, es)
  <2>1. Head(es).kind # "Load" /\ NoLoadAfter(1, es)
    BY <1>1, <1>3 DEF NoLoadAfter
  <2>2. NoLoadAfter(0, rest)
    BY <1>2, <2>1
  <2> QED
    BY <1>3, <2>1, <2>2 DEF StopsIn, rest
<1>4. CASE \E k \in DOMAIN es : es[k].kind = "Stop" /\ NoLoadAfter(k, es)
  <2>1. PICK k \in DOMAIN es : es[k].kind = "Stop" /\ NoLoadAfter(k, es)
    BY <1>4
  <2>2. CASE k = 1
    BY <1>1, <1>2, <2>1, <2>2 DEF StopsIn, rest
  <2>3. CASE k # 1
    <3>1. k - 1 \in DOMAIN rest /\ k - 1 \in Nat /\ (k - 1) + 1 = k /\ rest[k - 1] = es[k]
      BY <1>1, <2>3
    <3>2. NoLoadAfter(k - 1, rest)
      BY <1>2, <2>1, <3>1
    <3> QED
      BY <2>1, <3>1, <3>2 DEF StopsIn, rest
  <2> QED
    BY <2>2, <2>3
<1> QED
  BY <1>3, <1>4 DEF StopsIn

LEMMA EngineKeepsL ==
  ASSUME LInv, L!EngineCommand \/ L!Playback
  PROVE  LInv'
<1>1. Rest /\ Queues /\ StopStays
  BY LInvParts
<1> DEFINE States1 == {"Stopped", "Loading", "Failed", "Playing", "Paused", "EndOfTrack"}
           Engines == [st : States1, item : L!Maybe, play : BOOLEAN]
<1>2. \A kind \in {"Loading", "Playing", "Paused", "Position", "Stopped", "Unavailable", "EndOfTrack"},
         item \in L!Maybe, why \in L!Reasons :
        L!Msg(kind, item, why) \in EngineEvents /\ L!Note(kind, item) \in EngineEvents
  BY DEF L!Msg, L!Note, EngineEvents, L!Reasons
<1>3. engine \in Engines /\ engine_events \in Seq(EngineEvents) /\ NoItem \in L!Maybe
  BY <1>1 DEF Rest, L!Maybe
<1>4. ASSUME engine' \in Engines, engine_events' \in Seq(EngineEvents),
             engine_commands' \in Seq(Orders),
             stop_requested => StopsIn(engine'.st, engine_commands'),
             UNCHANGED <<lib_queue, lib_state, lib_alive, inbox, transitioning, current_item, view,
                         stop_requested, lib_commands, hasty>>
      PROVE  LInv'
  <2>1. Rest' /\ Queues' /\ StopStays'
    BY <1>1, <1>4 DEF Rest, Queues, StopStays
  <2> QED
    BY <2>1, LInvParts, PTL
<1>5. CASE L!EngineCommand
  <2> DEFINE m == Head(engine_commands)
  <2>1. /\ engine_commands # <<>> /\ engine_commands' = Tail(engine_commands)
        /\ UNCHANGED <<lib_queue, lib_state, lib_alive, inbox, transitioning, current_item, view,
                       stop_requested, lib_commands, hasty>>
    BY <1>5 DEF L!EngineCommand, L!core, L!user
  <2>2. engine_commands \in Seq(Orders) /\ m \in Orders /\ engine_commands' \in Seq(Orders)
    BY <1>1, <2>1 DEF Queues
  <2>3. \/ m.kind = "Load" /\ L!Loading(m.item, TRUE)
        \/ L!EngineStops(m)
        \/ L!EngineSwitches(m, "Play", TRUE, "Paused", "Playing")
        \/ L!EngineSwitches(m, "Pause", FALSE, "Playing", "Paused")
        \/ L!EngineSeeks(m)
    BY <1>5 DEF L!EngineCommand
  <2> HIDE DEF m
  <2>4. m.item \in L!Maybe /\ m.why \in L!Reasons
    BY <2>2 DEF Orders
  <2>5. /\ engine' \in Engines
        /\ engine_events' = engine_events
           \/ \E event \in EngineEvents : engine_events' = Append(engine_events, event)
        /\ m.kind = "Stop" => engine'.st = "Stopped"
        /\ m.kind # "Load" /\ engine.st = "Stopped" => engine'.st = "Stopped"
    <3>1. CASE m.kind = "Load" /\ L!Loading(m.item, TRUE)
      BY <1>2, <2>4, <3>1 DEF L!Loading, L!Emits, L!Reasons
    <3>2. CASE L!EngineStops(m)
      BY <1>2, <1>3, <2>4, <3>2 DEF L!EngineStops, L!Emits, L!Ignores, L!Occupied
    <3>3. ASSUME NEW kind \in {"Play", "Pause"}, NEW play \in BOOLEAN, NEW from \in {"Playing", "Paused"},
                 NEW to \in {"Playing", "Paused"}, L!EngineSwitches(m, kind, play, from, to)
          PROVE  <2>5!:
      BY <1>2, <1>3, <2>4, <3>3
      DEF L!EngineSwitches, L!Emits, L!Ignores, L!LoadPending, L!Reasons
    <3>4. CASE L!EngineSeeks(m)
      BY <1>2, <1>3, <2>4, <3>4
      DEF L!EngineSeeks, L!Loading, L!Emits, L!Ignores, L!LoadPending, L!Reasons
    <3> QED
      BY <2>3, <3>1, <3>2, <3>3, <3>4
  <2>6. engine_events' \in Seq(EngineEvents)
    BY <1>3, <2>5
  <2>7. stop_requested => StopsIn(engine'.st, engine_commands')
    BY <1>1, <2>1, <2>2, <2>5, OrderIsDone DEF StopStays, m
  <2> QED
    BY <1>4, <2>1, <2>2, <2>5, <2>6, <2>7
<1>6. CASE L!Playback
  <2>1. PICK st \in States1, kind \in {"Playing", "Paused", "Position", "Unavailable", "EndOfTrack"} :
          engine.st # "Stopped" /\ L!Engine(st, L!Note(kind, engine.item))
    BY <1>6 DEF L!Playback, L!EngineLoaded, L!EngineFailsToLoad, L!EngineReports,
                L!EngineSinkFails, L!EngineEnds
  <2>2. /\ engine' = [engine EXCEPT !.st = st]
        /\ engine_events' = Append(engine_events, L!Note(kind, engine.item))
        /\ UNCHANGED <<lib_queue, lib_state, lib_alive, inbox, transitioning, current_item, view,
                       stop_requested, lib_commands, hasty, engine_commands>>
    BY <2>1 DEF L!Engine, L!Emits, L!core, L!user
  <2>3. engine' \in Engines /\ L!Note(kind, engine.item) \in EngineEvents
    BY <1>2, <1>3, <2>2 DEF L!Reasons
  <2>4. stop_requested => StopsIn(engine'.st, engine_commands')
    BY <1>1, <2>1, <2>2 DEF StopStays, StopsIn
  <2>5. engine_events' \in Seq(EngineEvents) /\ engine_commands' \in Seq(Orders)
    BY <1>1, <1>3, <2>2, <2>3 DEF Queues
  <2> QED
    BY <1>4, <2>2, <2>3, <2>4, <2>5
<1> QED
  BY <1>5, <1>6

LEMMA LInvariance ==
  ASSUME L!LibrespotAssumption
  PROVE  L!Spec => []LInv
<1>1. L!Init => LInv
  <2> SUFFICES ASSUME L!Init PROVE LInv
    OBVIOUS
  <2>1. WellFormed(lib_queue) /\ lib_queue \in L!QueueType
    <3>1. lib_queue = EmptyQueue /\ EmptyQueue.behavior \in Behavior
      BY SameOperations DEF L!Init, EmptyQueue, Behavior
    <3>2. Clear(EmptyQueue) = EmptyQueue
      BY DEF Clear, EmptyQueue
    <3> QED
      BY <3>1, <3>2, ClearWellFormed, WellFormedFacts, SameOperations
  <2>2. Rest
    <3>1. NoItem \in L!Maybe /\ MaxCommands \in Nat
      BY DEF L!Maybe, L!LibrespotAssumption
    <3>2. /\ lib_state \in [st : {"Stopped", "Playing", "Paused"}, item : L!Maybe]
          /\ view \in [st : {"Stopped", "Loading", "Playing", "Paused"}, item : L!Maybe]
          /\ engine \in [st : {"Stopped", "Loading", "Failed", "Playing", "Paused", "EndOfTrack"},
                          item : L!Maybe, play : BOOLEAN]
      BY <3>1 DEF L!Init
    <3>3. inbox \in Seq(Received) /\ engine_events \in Seq(EngineEvents)
      BY DEF L!Init
    <3>4. current_item \in L!Maybe /\ {stop_requested, hasty} \subseteq BOOLEAN
      BY <3>1 DEF L!Init
    <3>5. lib_commands \in 0..MaxCommands
      BY <3>1 DEF L!Init
    <3> QED
      BY <3>2, <3>3, <3>4, <3>5 DEF Rest
  <2>3. Queues /\ StopStays
    <3>1. engine_commands \in Seq(Orders)
      BY DEF L!Init
    <3>3. transitioning \in BOOLEAN /\ lib_alive \in BOOLEAN
      BY Zenon DEF L!Init
    <3>2. ~stop_requested
      BY DEF L!Init
    <3> QED
      BY <2>1, <3>1, <3>2, <3>3 DEF Queues, StopStays
  <2> QED
    BY <2>2, <2>3, LInvParts
<1>2. LInv /\ [L!Next]_L!vars => LInv'
  <2> SUFFICES ASSUME LInv, [L!Next]_L!vars PROVE LInv'
    OBVIOUS
  <2>1. CASE UNCHANGED L!vars
    BY <2>1 DEF L!vars, LInv, L!TypeOK, StopStays, WellFormed
  <2>2. CASE L!Next
    BY <2>2, HandlerKeepsL, CommandKeepsL, ForwardKeepsL, EngineKeepsL DEF L!Next
  <2> QED
    BY <2>1, <2>2
<1> QED
  BY <1>1, <1>2, PTL DEF L!Spec

\* The variables of the player with librespot keep their types.
THEOREM LibrespotTypeCorrect ==
  ASSUME L!LibrespotAssumption
  PROVE  L!Spec => []L!TypeOK
<1>1. LInv => L!TypeOK
  BY DEF LInv
<1> QED
  BY <1>1, LInvariance, PTL

\* A stop of the user is final: when the messages that were under way have all
\* been taken, the engine stands still, whatever ends of tracks, loads and
\* resumes crossed the stop (stop() of player/mod.rs, handle_player_stop of the
\* engine).
THEOREM StopStaysFinal ==
  ASSUME L!LibrespotAssumption
  PROVE  L!Spec => []StopIsFinal
<1>1. LInv => StopIsFinal
  BY DEF LInv, StopStays, StopsIn, StopIsFinal, L!StopIsFinal, L!Idle
<1> QED
  BY <1>1, LInvariance, PTL

-----------------------------------------------------------------------------
(***************************************************************************)
(* The librespot engine.  Each of its operators is shown to keep what is    *)
(* Good of the engine's record, from the sink up to the commands; then the  *)
(* stages of a turn keep EngineInv.  A loader that the engine waits for is  *)
(* never taken for another, as a free one is left for every command.        *)
(***************************************************************************)
AnyTrack == E!Track \cup {E!NoTrack}
Facts == [what : {"Nothing", "Loading", "Playing", "Paused", "EndOfTrack", "Unavailable", "Stopped",
                  "Asked", "Began"},
          track : AnyTrack, id : Nat, at : Nat]
Threads == [stage : {"unused", "item", "open", "read", "ready", "failed"}, track : AnyTrack,
            at : Nat, cached : BOOLEAN]
NewThreads == [stage : {"item"}, track : AnyTrack, at : Nat, cached : BOOLEAN]
Handles == E!Loaders \cup {0}
PreloadStates == [st : {"None", "Loading", "Ready"}, track : AnyTrack, loader : Handles, at : Nat]
Fails == {"nothing", "start", "stop", "seek", "write", "packet"}
Engines ==
  [st : E!States, track : AnyTrack, id : Nat, at : Nat, start : BOOLEAN, loader : Handles,
   suggested : BOOLEAN, preload : PreloadStates, sink : {"Running", "TemporarilyClosed", "Closed"},
   gapless : BOOLEAN,
   ids : Nat, spawned : NewThreads \cup {E!Nothing}, commands : Nat, alive : BOOLEAN,
   fails : Fails, stray : BOOLEAN, told : Facts, began : Facts, asked : Facts]

OfIts(s) == s.told.track = s.track /\ s.told.id = s.id
Says(s) ==
  s.alive /\ s.st # "Invalid" =>
    \/ s.told.what \in {"Playing", "Paused"} /\ s.st = s.told.what /\ OfIts(s)
    \/ s.told.what = "EndOfTrack" /\ s.st \in {"EndOfTrack", "Playing", "Paused"} /\ OfIts(s)
    \/ s.told.what \in {"Loading", "Unavailable"} /\ s.st = "Loading" /\ OfIts(s)
    \/ s.told.what = "Unavailable" /\ s.st \in {"Playing", "Paused"} /\ s.told.id = s.id
    \/ s.told.what \in {"Stopped", "Nothing"} /\ s.st = "Stopped"

\* What r leaves as it was in s.
Frame(s, r) ==
  /\ r \in Engines
  /\ r.alive => s.alive
  /\ r.st = "Loading" => s.st = "Loading"
  /\ r.track = s.track /\ r.id = s.id /\ r.loader = s.loader /\ r.preload = s.preload
  /\ r.spawned = s.spawned /\ r.commands = s.commands
  /\ r.began = s.began /\ r.asked = s.asked

LEMMA TellFrame ==
  ASSUME NEW s \in Engines,
         NEW what \in {"Playing", "Paused", "EndOfTrack", "Unavailable", "Stopped"}
  PROVE  /\ Frame(s, E!Tell(s, what)) /\ E!Tell(s, what).st = s.st
         /\ E!Tell(s, what).told = [what |-> what, track |-> s.track, id |-> s.id, at |-> 0]
         /\ E!Tell(s, what).alive = s.alive
  BY DEF Engines, E!Tell, Facts, Frame

LEMMA SaysAsBefore ==
  ASSUME NEW s \in Engines, NEW r, Frame(s, r), r.st = s.st, r.told = s.told, Says(s)
  PROVE  Says(r)
<1>1. r.track = s.track /\ r.id = s.id /\ (r.alive => s.alive)
  BY DEF Frame
<1> QED
  BY <1>1 DEF Says, OfIts

\* What is told of the state is right.
LEMMA SaysWhatIsTold ==
  ASSUME NEW s \in Engines,
         NEW what \in {"Playing", "Paused", "EndOfTrack", "Unavailable"},
         \/ (what \in {"Playing", "Paused", "EndOfTrack"} /\ s.st = what)
         \/ (what = "EndOfTrack" /\ s.st = "Playing")
         \/ (what = "Unavailable" /\ s.st = "Loading")
  PROVE  Says(E!Tell(s, what))
<1> DEFINE t == E!Tell(s, what)
<1>0. what \in {"Playing", "Paused", "EndOfTrack", "Unavailable", "Stopped"}
  OBVIOUS
<1>1. /\ t.st = s.st /\ t.track = s.track /\ t.id = s.id
      /\ t.told = [what |-> what, track |-> s.track, id |-> s.id, at |-> 0]
  BY <1>0, TellFrame DEF Frame
<1>2. t.told.what = what /\ t.told.track = t.track /\ t.told.id = t.id
  BY <1>1
<1> SUFFICES Says(t)
  OBVIOUS
<1> HIDE DEF t
<1>3. CASE what \in {"Playing", "Paused"}
  BY <1>1, <1>2, <1>3 DEF Says, OfIts
<1>4. CASE what = "EndOfTrack"
  BY <1>1, <1>2, <1>4 DEF Says, OfIts
<1>5. CASE what = "Unavailable"
  BY <1>1, <1>2, <1>5 DEF Says, OfIts
<1> QED
  BY <1>3, <1>4, <1>5

LEMMA StartFrame ==
  ASSUME NEW s \in Engines, NEW start \in BOOLEAN
  PROVE  LET r == [s EXCEPT !.start = start] IN
         Frame(s, r) /\ r.st = s.st /\ r.told = s.told
  BY DEF Engines, Frame

LEMMA StoppedFrame ==
  ASSUME NEW s \in Engines, NEW temporarily \in BOOLEAN
  PROVE  LET r == E!EnsureSinkStopped(s, temporarily) IN
         Frame(s, r) /\ r.st = s.st /\ r.told = s.told
  BY DEF Engines, E!EnsureSinkStopped, E!Exit, Frame

LEMMA PauseFrame ==
  ASSUME NEW s \in Engines
  PROVE  /\ Frame(s, E!HandlePause(s))
         /\ Says(s) => Says(E!HandlePause(s))
         /\ E!HandlePause(s).st = s.st \/ (s.st = "Playing" /\ E!HandlePause(s).st = "Paused")
<1> DEFINE p == E!PlayingToPaused(s)
           c == E!EnsureSinkStopped(p, FALSE)
<1>1. CASE s.st = "Paused"
  BY <1>1, StoppedFrame, SaysAsBefore DEF E!HandlePause
<1>2. CASE s.st = "Playing"
  <2>1. p \in Engines /\ Frame(s, p) /\ p.st = "Paused"
    BY <1>2 DEF E!PlayingToPaused, Frame, Engines, E!States
  <2>2. Frame(p, c) /\ c.st = "Paused"
    BY <2>1, StoppedFrame
  <2>3. c \in Engines
    BY <2>2 DEF Frame
  <2>4. E!HandlePause(s) = E!Tell(c, "Paused")
    BY <1>2 DEF E!HandlePause
  <2> HIDE DEF p, c
  <2>5. Frame(c, E!Tell(c, "Paused")) /\ Says(E!Tell(c, "Paused")) /\ E!Tell(c, "Paused").st = "Paused"
    BY <2>2, <2>3, TellFrame, SaysWhatIsTold
  <2> QED
    BY <2>1, <2>2, <2>4, <2>5, <1>2 DEF Frame
<1>3. CASE s.st = "Loading"
  BY <1>3, StartFrame, SaysAsBefore DEF E!HandlePause
<1>4. CASE s.st \notin {"Paused", "Playing", "Loading"}
  BY <1>4 DEF E!HandlePause, Frame
<1> QED
  BY <1>1, <1>2, <1>3, <1>4

LEMMA RunningFrame ==
  ASSUME NEW s \in Engines
  PROVE  LET r == E!EnsureSinkRunning(s) IN
         /\ Frame(s, r)
         /\ Says(s) => Says(r)
         /\ r.st = s.st \/ (s.st = "Playing" /\ r.st = "Paused")
<1>1. CASE s.sink # "Running" /\ s.fails = "start"
  BY <1>1, PauseFrame DEF E!EnsureSinkRunning
<1>2. CASE s.sink = "Running"
  BY <1>2 DEF E!EnsureSinkRunning, Frame
<1>3. CASE s.sink # "Running" /\ s.fails # "start"
  <2>1. LET r == [s EXCEPT !.sink = "Running"] IN
        Frame(s, r) /\ r.st = s.st /\ r.told = s.told
    BY DEF Engines, Frame
  <2> QED
    BY <1>3, <2>1, SaysAsBefore DEF E!EnsureSinkRunning
<1> QED
  BY <1>1, <1>2, <1>3

LEMMA PlayFrame ==
  ASSUME NEW s \in Engines
  PROVE  Frame(s, E!HandlePlay(s)) /\ (Says(s) => Says(E!HandlePlay(s)))
<1>1. CASE s.st = "Paused"
  <2> DEFINE p == E!PausedToPlaying(s)
             t == E!Tell(p, "Playing")
  <2>1. p \in Engines /\ Frame(s, p) /\ p.st = "Playing"
    BY <1>1 DEF E!PausedToPlaying, Frame, Engines, E!States
  <2>2. Frame(p, t) /\ Says(t) /\ t \in Engines
    BY <2>1, TellFrame, SaysWhatIsTold DEF Frame
  <2>3. E!HandlePlay(s) = E!EnsureSinkRunning(t)
    BY <1>1 DEF E!HandlePlay
  <2> HIDE DEF p, t
  <2>4. Frame(t, E!HandlePlay(s)) /\ Says(E!HandlePlay(s))
    BY <2>2, <2>3, RunningFrame
  <2> QED
    BY <2>1, <2>2, <2>4, <1>1 DEF Frame
<1>2. CASE s.st = "Loading"
  BY <1>2, StartFrame, SaysAsBefore DEF E!HandlePlay
<1>3. CASE s.st \notin {"Paused", "Loading"}
  BY <1>3 DEF E!HandlePlay, Frame
<1> QED
  BY <1>1, <1>2, <1>3

\* The position at fits the one wanted, also past the end of the track.
Fits(wanted, at) == at = wanted \/ (wanted > Duration /\ at \in {0, Duration})
Begun(s) ==
  s.began.id # 0 /\ s.began.id = s.asked.id =>
    /\ s.asked.track = s.began.track
    /\ s.began.at <= Duration /\ Fits(s.asked.at, s.began.at)
\* The loader the engine waits for loads what was last asked for,
Coming(s, ls) ==
  s.st = "Loading" /\ s.loader # 0 =>
    /\ ls[s.loader].stage # "unused"
    /\ s.id # 0 /\ s.asked.id = s.id =>
         s.asked.track = s.track /\ Fits(s.asked.at, ls[s.loader].at)
\* and the one that preloads begins at the beginning.
OnItsWay(s, ls) ==
  s.preload.st = "Loading" =>
    s.preload.loader # 0 /\ ls[s.preload.loader].stage # "unused" /\ ls[s.preload.loader].at = 0

Good(s) ==
  /\ s \in Engines /\ s.spawned = E!Nothing
  /\ Says(s) /\ Begun(s) /\ Coming(s, loader) /\ OnItsWay(s, loader)

LEMMA FrameGood ==
  ASSUME NEW s, Good(s), NEW r, Frame(s, r), Says(r)
  PROVE  Good(r)
  BY DEF Good, Frame, Begun, Coming, OnItsWay

LEMMA FrameChain ==
  ASSUME NEW s, NEW r, Frame(s, r), NEW q, Frame(r, q)
  PROVE  Frame(s, q)
  BY DEF Frame

LEMMA Begins ==
  ASSUME NEW s \in Engines, s.spawned = E!Nothing, OnItsWay(s, loader),
         NEW track \in AnyTrack, NEW id \in Nat, NEW at \in Nat, NEW start \in BOOLEAN,
         at <= Duration,
         id # 0 /\ id = s.asked.id => s.asked.track = track /\ Fits(s.asked.at, at)
  PROVE  LET r == E!StartPlayback(s, track, id, at, start) IN
         Good(r) /\ r.commands = s.commands
<1> DEFINE ready == IF start THEN E!EnsureSinkRunning(s) ELSE E!EnsureSinkStopped(s, FALSE)
           st == IF start THEN "Playing" ELSE "Paused"
           began == [ready EXCEPT !.st = st, !.track = track,
                             !.id = id, !.at = at, !.start = FALSE, !.loader = 0,
                             !.suggested = FALSE]
           told == E!Tell(began, began.st)
           fact == [what |-> "Began", track |-> track, id |-> id, at |-> at]
           r == [told EXCEPT !.began = fact]
<1>1. Frame(s, ready)
  BY StoppedFrame, RunningFrame
<1>2. r = E!StartPlayback(s, track, id, at, start)
  BY Zenon DEF E!StartPlayback
<1> SUFFICES Good(r) /\ r.commands = s.commands
  BY <1>2
<1>3. ready \in Engines
  BY <1>1 DEF Frame
<1> HIDE DEF ready
<1>0. st \in {"Playing", "Paused"}
  OBVIOUS
<1> HIDE DEF st
<1>4. began \in Engines
  <2>1. st \in E!States /\ 0 \in Handles
    BY <1>0 DEF E!States, Handles
  <2> QED
    BY <1>3, <2>1 DEF Engines
<1>5. /\ began.st = st /\ began.track = track /\ began.id = id /\ began.at = at
      /\ began.loader = 0 /\ began.preload = ready.preload /\ began.asked = ready.asked
      /\ began.spawned = ready.spawned /\ began.commands = ready.commands
  BY <1>3 DEF Engines
<1> HIDE DEF began
<1>6. began.st \in {"Playing", "Paused"}
  BY <1>0, <1>5
<1>7. Frame(began, told) /\ told.st = st /\ Says(told)
  BY <1>4, <1>5, <1>6, TellFrame, SaysWhatIsTold
<1>8. told \in Engines
  BY <1>7 DEF Frame
<1> HIDE DEF told
<1>9. fact \in Facts
  BY DEF Facts
<1>10. fact.id = id /\ fact.track = track /\ fact.at = at
  OBVIOUS
<1> HIDE DEF fact
<1>11. r \in Engines
  BY <1>8, <1>9 DEF Engines
<1>12. /\ r.began = fact /\ r.st = st /\ r.told = told.told /\ r.track = told.track /\ r.id = told.id
       /\ r.alive = told.alive
       /\ r.loader = 0 /\ r.preload = s.preload /\ r.asked = s.asked /\ r.spawned = E!Nothing
       /\ r.commands = s.commands
  BY <1>1, <1>5, <1>7, <1>8 DEF Engines, Frame
<1> HIDE DEF r
<1>13. Says(r)
  BY <1>7, <1>12 DEF Says, OfIts
<1>14. Begun(r) /\ Coming(r, loader)
  BY <1>10, <1>12 DEF Begun, Coming
<1>15. OnItsWay(r, loader)
  BY <1>12 DEF OnItsWay
<1> QED
  BY <1>11, <1>12, <1>13, <1>14, <1>15 DEF Good

LEMMA BeginsGood ==
  ASSUME NEW s \in Engines, s.spawned = E!Nothing, OnItsWay(s, loader),
         NEW track \in AnyTrack, NEW id \in Nat, NEW at \in Nat, NEW play \in BOOLEAN
  PROVE  LET r == E!Begin(s, track, id, at, play) IN
         Good(r) /\ r.commands = s.commands
<1> DEFINE fact == [what |-> "Asked", track |-> track, id |-> id, at |-> at]
           a == E!Asked(s, track, id, at)
           where == E!Smaller(at, Duration)
<1>1. fact \in Facts
  BY DEF Facts
<1>2. fact.track = track /\ fact.id = id /\ fact.at = at
  OBVIOUS
<1>3. a = [s EXCEPT !.asked = fact]
  BY DEF E!Asked
<1> HIDE DEF fact, a
<1>4. a \in Engines
  BY <1>1, <1>3 DEF Engines
<1>5. a.asked = fact /\ a.spawned = E!Nothing /\ a.preload = s.preload /\ a.commands = s.commands
  BY <1>3 DEF Engines
<1>6. OnItsWay(a, loader)
  BY <1>5 DEF OnItsWay
<1>7. where \in Nat /\ where <= Duration /\ Fits(at, where)
  BY MCPlayerAssumption DEF E!EngineAssumption, E!Smaller, Fits
<1>8. E!Begin(s, track, id, at, play) = E!StartPlayback(a, track, id, where, play)
  BY DEF E!Begin, a
<1> HIDE DEF where
<1> QED
  BY <1>2, <1>4, <1>5, <1>6, <1>7, <1>8, Begins

LEMMA LoadAgainGood ==
  ASSUME NEW s, Good(s),
         NEW track \in AnyTrack, NEW id \in Nat, NEW play \in BOOLEAN, NEW at \in Nat
  PROVE  LET r == E!LoadAgain(s, track, id, play, at) IN
         Good(r) /\ r.commands = s.commands
<1> DEFINE taken == [s EXCEPT !.st = "Invalid"]
           free == [taken EXCEPT !.preload = E!NoPreload]
<1>1. s \in Engines
  BY DEF Good
<1>2. taken \in Engines /\ taken.st = "Invalid" /\ taken.commands = s.commands
  BY <1>1 DEF Engines, E!States
<1>3. Good(taken)
  <2>1. Frame(s, taken)
    BY <1>1, <1>2 DEF Frame, Engines
  <2>2. Says(taken)
    BY <1>2 DEF Says
  <2> QED
    BY <2>1, <2>2, FrameGood
<1>4. /\ free \in Engines /\ free.spawned = E!Nothing /\ OnItsWay(free, loader)
      /\ free.commands = s.commands
  BY <1>1, <1>2, <1>3 DEF Engines, Good, OnItsWay, E!NoPreload, PreloadStates, Handles, AnyTrack
<1>5. E!LoadAgain(s, track, id, play, at)
        = IF at # s.at /\ s.fails = "seek" THEN taken ELSE E!Begin(free, track, id, at, play)
  BY DEF E!LoadAgain
<1> HIDE DEF taken, free
<1> QED
  BY <1>2, <1>3, <1>4, <1>5, BeginsGood

LEMMA LoadCurrentGood ==
  ASSUME NEW s, Good(s),
         NEW track \in AnyTrack, NEW id \in Nat, NEW play \in BOOLEAN, NEW at \in Nat
  PROVE  LET r == E!LoadCurrent(s, track, id, play, at) IN
         Good(r) /\ r.commands = s.commands
<1> DEFINE free == [s EXCEPT !.st = "Invalid", !.preload = E!NoPreload]
<1>1. s \in Engines /\ s.spawned = E!Nothing
  BY DEF Good
<1>2. /\ free \in Engines /\ free.spawned = E!Nothing /\ OnItsWay(free, loader)
      /\ free.commands = s.commands
  <2>1. E!NoPreload \in PreloadStates /\ E!NoPreload.st = "None" /\ "Invalid" \in E!States
    BY DEF E!NoPreload, PreloadStates, Handles, AnyTrack, E!States
  <2>2. /\ free \in Engines /\ free.spawned = s.spawned /\ free.preload = E!NoPreload
        /\ free.commands = s.commands
    BY <1>1, <2>1 DEF Engines
  <2> QED
    BY <1>1, <2>1, <2>2 DEF OnItsWay
<1>3. E!LoadCurrent(s, track, id, play, at)
        = IF at # s.at /\ s.fails = "seek" THEN s ELSE E!Begin(free, track, id, at, play)
  BY DEF E!LoadCurrent
<1> HIDE DEF free
<1> QED
  BY <1>2, <1>3, BeginsGood

LEMMA WithoutPreload ==
  ASSUME NEW s, Good(s)
  PROVE  LET r == [s EXCEPT !.preload = E!NoPreload] IN
         Good(r) /\ r.commands = s.commands
<1> DEFINE r == [s EXCEPT !.preload = E!NoPreload]
<1>1. s \in Engines
  BY DEF Good
<1>2. r \in Engines /\ r.preload = E!NoPreload
  BY <1>1 DEF Engines, E!NoPreload, PreloadStates, Handles, AnyTrack
<1>3. /\ r.st = s.st /\ r.track = s.track /\ r.id = s.id /\ r.loader = s.loader
      /\ r.alive = s.alive /\ r.told = s.told /\ r.began = s.began /\ r.asked = s.asked
      /\ r.spawned = s.spawned /\ r.commands = s.commands
  BY <1>1 DEF Engines
<1> HIDE DEF r
<1>4. Says(r) /\ Begun(r) /\ Coming(r, loader)
  BY <1>3 DEF Good, Says, OfIts, Begun, Coming
<1>5. OnItsWay(r, loader)
  BY <1>2 DEF OnItsWay, E!NoPreload
<1>6. Good(r) /\ r.commands = s.commands
  BY <1>2, <1>3, <1>4, <1>5 DEF Good
<1> QED
  BY <1>6 DEF r

LEMMA LoadPreloadedGood ==
  ASSUME NEW s, Good(s),
         NEW track \in AnyTrack, NEW id \in Nat, NEW play \in BOOLEAN, NEW at \in Nat
  PROVE  LET r == E!LoadPreloaded(s, track, id, play, at) IN
         Good(r) /\ r.commands = s.commands
<1> DEFINE taken == [s EXCEPT !.preload = E!NoPreload]
<1>1. Good(taken) /\ taken.commands = s.commands
  BY WithoutPreload
<1>2. taken \in Engines /\ taken.spawned = E!Nothing /\ OnItsWay(taken, loader)
  BY <1>1 DEF Good
<1>3. E!LoadPreloaded(s, track, id, play, at)
        = IF at # s.preload.at /\ s.fails = "seek" THEN taken ELSE E!Begin(taken, track, id, at, play)
  BY DEF E!LoadPreloaded
<1> HIDE DEF taken
<1> QED
  BY <1>1, <1>2, <1>3, BeginsGood

\* What holds when the loaders of the stage have been brought up to date.
After(s) ==
  /\ s \in Engines
  /\ Says(s) /\ Begun(s) /\ Coming(s, E!LoadersAfter(s)) /\ OnItsWay(s, E!LoadersAfter(s))

LEMMA GoodAfter ==
  ASSUME NEW s, Good(s)
  PROVE  After(s)
<1>1. \A l \in Handles : l # 0 => l \in E!Loaders
  BY DEF Handles
<1>2. \A l \in E!Loaders : l \in {s.loader, s.preload.loader} => E!LoadersAfter(s)[l] = loader[l]
  BY DEF E!LoadersAfter, E!Forgotten, Good
<1>3. s.loader \in Handles /\ s.preload.loader \in Handles
  BY DEF Good, Engines, PreloadStates
<1> QED
  BY <1>1, <1>2, <1>3 DEF Good, After, Coming, OnItsWay

\* A loader that is free is found while commands are left.
Free == E!Fresh \in E!Loaders /\ loader[E!Fresh] = E!Unused

LEMMA LoadFreshGood ==
  ASSUME NEW s, Good(s), s.began = E!Nothing, Free,
         NEW track \in AnyTrack, NEW id \in Nat, NEW play \in BOOLEAN, NEW at \in Nat
  PROVE  LET r == E!LoadFresh(s, track, id, play, at) IN
         After(r) /\ r.commands = s.commands
<1> DEFINE mine == E!Pending(s, track, at)
           asks == [what |-> "Asked", track |-> track, id |-> id, at |-> at]
           tells == [what |-> "Loading", track |-> track, id |-> id, at |-> 0]
           told == [E!Asked(s, track, id, at) EXCEPT !.told = tells]
           one == IF mine THEN told ELSE E!Spawn(told, track, at)
           l == IF mine THEN s.preload.loader ELSE E!Fresh
           r == [one EXCEPT !.preload = E!NoPreload, !.st = "Loading", !.track = track, !.id = id,
                            !.at = 0, !.start = play, !.loader = l]
<1>1. s \in Engines /\ OnItsWay(s, loader) /\ s.spawned = E!Nothing
  BY DEF Good
<1>2. asks \in Facts /\ tells \in Facts
  BY DEF Facts
<1>3. /\ asks.track = track /\ asks.id = id /\ asks.at = at
      /\ tells.track = track /\ tells.id = id /\ tells.what = "Loading"
  OBVIOUS
<1>4. told = [[s EXCEPT !.asked = asks] EXCEPT !.told = tells]
  BY DEF E!Asked
<1>5. E!LoadTrack(track, at) \in NewThreads /\ E!LoadTrack(track, at).at = at /\ E!LoadTrack(track, at).stage = "item"
  BY DEF E!LoadTrack, NewThreads
<1> HIDE DEF asks, tells, told
<1>6. told \in Engines
  BY <1>1, <1>2, <1>4 DEF Engines
<1>7. /\ told.asked = asks /\ told.told = tells /\ told.began = E!Nothing /\ told.spawned = E!Nothing
      /\ told.commands = s.commands
  BY <1>1, <1>4 DEF Engines
<1>8. mine => s.preload.loader \in E!Loaders /\ loader[s.preload.loader].at = 0
                /\ loader[s.preload.loader].stage # "unused" /\ at = 0
  BY <1>1 DEF E!Pending, OnItsWay, Engines, PreloadStates, Handles
<1>9. l \in E!Loaders /\ l \in Handles /\ l # 0
  BY <1>8 DEF Free, Handles, E!Loaders
<1> HIDE DEF mine
<1>10. /\ one \in Engines /\ one.asked = asks /\ one.told = tells /\ one.began = E!Nothing
       /\ one.commands = s.commands
       /\ one.spawned = IF mine THEN E!Nothing ELSE E!LoadTrack(track, at)
  <2>1. CASE mine
    BY <1>6, <1>7, <2>1
  <2>2. CASE ~mine
    BY <1>5, <1>6, <1>7, <2>2 DEF E!Spawn, Engines
  <2> QED
    BY <2>1, <2>2
<1> HIDE DEF one, l
<1>11. r \in Engines
  BY <1>9, <1>10 DEF Engines, E!NoPreload, PreloadStates, Handles, AnyTrack, E!States
<1>12. /\ r.preload = E!NoPreload /\ r.st = "Loading" /\ r.track = track /\ r.id = id /\ r.loader = l
       /\ r.asked = asks /\ r.told = tells /\ r.began = E!Nothing /\ r.commands = s.commands
       /\ r.spawned = IF mine THEN E!Nothing ELSE E!LoadTrack(track, at)
  BY <1>10 DEF Engines
<1>13. r = E!LoadFresh(s, track, id, play, at)
  BY DEF E!LoadFresh, r, one, told, mine, l, tells
<1> HIDE DEF r
<1>14. Says(r)
  BY <1>3, <1>12 DEF Says, OfIts
<1>15. Begun(r)
  BY <1>12 DEF Begun, E!Nothing
<1>16. OnItsWay(r, E!LoadersAfter(r))
  BY <1>12 DEF OnItsWay, E!NoPreload
<1>17. E!LoadersAfter(r)[l].stage # "unused" /\ E!LoadersAfter(r)[l].at = at
  <2>1. E!LoadersAfter(r)[l] = IF E!Forgotten(r, l) THEN E!Unused
                             ELSE IF r.spawned # E!Nothing /\ l = E!Fresh THEN r.spawned ELSE loader[l]
    BY <1>9 DEF E!LoadersAfter
  <2>2. ~E!Forgotten(r, l)
    BY <1>12 DEF E!Forgotten
  <2>3. CASE mine
    BY <1>8, <1>12, <2>1, <2>2, <2>3 DEF l
  <2>4. CASE ~mine
    <3>1. E!LoadTrack(track, at) # E!Nothing
      BY <1>5 DEF E!Nothing, E!LoadTrack
    <3> QED
      BY <1>5, <1>12, <2>1, <2>2, <2>4, <3>1 DEF l
  <2> QED
    BY <2>3, <2>4
<1>18. Coming(r, E!LoadersAfter(r))
  BY <1>3, <1>12, <1>17 DEF Coming, Fits
<1> QED
  BY <1>11, <1>12, <1>13, <1>14, <1>15, <1>16, <1>18 DEF After

LEMMA CommandLoadGood ==
  ASSUME NEW s0, Good(s0), s0.began = E!Nothing, Free,
         NEW track \in AnyTrack, NEW id0 \in Nat, NEW play \in BOOLEAN, NEW at \in Nat
  PROVE  LET r == E!HandleCommandLoad(s0, track, id0, play, at) IN
         After(r) /\ r.commands = s0.commands
<1> DEFINE id == IF id0 = 0 THEN s0.ids + 1 ELSE id0
           named == [s0 EXCEPT !.ids = IF id0 = 0 THEN id ELSE @]
           s == IF named.gapless THEN named ELSE E!EnsureSinkStopped(named, play)
           r == E!HandleCommandLoad(s0, track, id0, play, at)
<1> SUFFICES After(r) /\ r.commands = s0.commands
  OBVIOUS
<1>1. s0 \in Engines
  BY DEF Good
<1>2. id \in Nat /\ s0.ids \in Nat
  BY <1>1 DEF Engines
<1> HIDE DEF id
<1>3. named \in Engines /\ Frame(s0, named) /\ named.st = s0.st /\ named.told = s0.told
  BY <1>1, <1>2 DEF Engines, Frame
<1> HIDE DEF named
<1>4. Frame(named, s) /\ s.st = named.st /\ s.told = named.told
  BY <1>3, StoppedFrame DEF Frame
<1>5. Good(s) /\ s.began = E!Nothing /\ s.commands = s0.commands
  <2>1. Frame(s0, s) /\ s.st = s0.st /\ s.told = s0.told
    BY <1>3, <1>4, FrameChain
  <2>2. Says(s)
    BY <1>1, <2>1, SaysAsBefore DEF Good
  <2> QED
    BY <2>1, <2>2, FrameGood DEF Frame
<1>6. CASE s.st = "Invalid"
  <2>1. r = s
    BY <1>6 DEF E!HandleCommandLoad, id, named
  <2> HIDE DEF s, r
  <2> QED
    BY <1>5, <2>1, GoodAfter
<1>7. CASE s.st = "EndOfTrack" /\ s.track = track
  <2>1. r = E!LoadAgain(s, track, id, play, at)
    BY <1>7 DEF E!HandleCommandLoad, id, named
  <2> HIDE DEF s, r
  <2>2. Good(r) /\ r.commands = s.commands
    BY <1>2, <1>5, <2>1, LoadAgainGood
  <2> QED
    BY <1>5, <2>2, GoodAfter
<1>8. CASE s.st \in {"Playing", "Paused"} /\ s.track = track
  <2>1. r = E!LoadCurrent(s, track, id, play, at)
    BY <1>8 DEF E!HandleCommandLoad, id, named
  <2> HIDE DEF s, r
  <2>2. Good(r) /\ r.commands = s.commands
    BY <1>2, <1>5, <2>1, LoadCurrentGood
  <2> QED
    BY <1>5, <2>2, GoodAfter
<1>9. CASE s.st # "Invalid" /\ ~(s.st \in {"EndOfTrack", "Playing", "Paused"} /\ s.track = track)
  <2>1. r = IF s.preload.st = "Ready" /\ s.preload.track = track
            THEN E!LoadPreloaded(s, track, id, play, at) ELSE E!LoadFresh(s, track, id, play, at)
    BY <1>9 DEF E!HandleCommandLoad, id, named
  <2> HIDE DEF s, r
  <2>2. CASE r = E!LoadPreloaded(s, track, id, play, at)
    <3>1. Good(r) /\ r.commands = s.commands
      BY <1>2, <1>5, <2>2, LoadPreloadedGood
    <3> QED
      BY <1>5, <3>1, GoodAfter
  <2>3. CASE r = E!LoadFresh(s, track, id, play, at)
    BY <1>2, <1>5, <2>3, LoadFreshGood
  <2> QED
    BY <2>1, <2>2, <2>3
<1> QED
  BY <1>6, <1>7, <1>8, <1>9

LEMMA CommandPreloadGood ==
  ASSUME NEW s, Good(s), Free, NEW track \in AnyTrack
  PROVE  LET r == E!HandleCommandPreload(s, track) IN
         After(r) /\ r.commands = s.commands
<1> DEFINE c == IF s.preload.track = track THEN s ELSE [s EXCEPT !.preload = E!NoPreload]
           loaded == s.st \in {"Playing", "Paused", "EndOfTrack"} /\ s.track = track
           one == E!Spawn(c, track, 0)
           p == [st |-> "Loading", track |-> track, loader |-> E!Fresh, at |-> 0]
           r == [one EXCEPT !.preload = p]
<1>1. E!HandleCommandPreload(s, track) = IF s.preload.track = track \/ loaded THEN c ELSE r
  BY DEF E!HandleCommandPreload
<1>2. Good(c) /\ c.commands = s.commands
  BY WithoutPreload
<1> HIDE DEF c, loaded
<1>3. E!LoadTrack(track, 0) \in NewThreads /\ E!LoadTrack(track, 0).at = 0 /\ E!LoadTrack(track, 0).stage = "item"
      /\ E!LoadTrack(track, 0) # E!Nothing
  BY DEF E!LoadTrack, NewThreads, E!Nothing
<1>4. p \in PreloadStates /\ p.st = "Loading" /\ p.loader = E!Fresh /\ E!Fresh # 0
  BY DEF PreloadStates, Free, Handles, E!Loaders
<1>5. c \in Engines
  BY <1>2 DEF Good
<1> HIDE DEF p
<1>6. /\ r \in Engines /\ r.preload = p /\ r.spawned = E!LoadTrack(track, 0)
      /\ r.st = c.st /\ r.track = c.track /\ r.id = c.id /\ r.loader = c.loader
      /\ r.alive = c.alive /\ r.told = c.told /\ r.began = c.began /\ r.asked = c.asked
      /\ r.commands = c.commands
  BY <1>3, <1>4, <1>5 DEF E!Spawn, Engines
<1> HIDE DEF r
<1>7. Says(r) /\ Begun(r)
  BY <1>2, <1>6 DEF Good, Says, OfIts, Begun
<1>8. \A l \in E!Loaders : l \in {r.loader, r.preload.loader} =>
        E!LoadersAfter(r)[l] = IF l = E!Fresh THEN E!LoadTrack(track, 0) ELSE loader[l]
  BY <1>3, <1>6 DEF E!LoadersAfter, E!Forgotten
<1>9. OnItsWay(r, E!LoadersAfter(r))
  BY <1>3, <1>4, <1>6, <1>8 DEF OnItsWay, Free
<1>10. Coming(r, E!LoadersAfter(r))
  <2>1. SUFFICES ASSUME r.st = "Loading", r.loader # 0
                 PROVE  E!LoadersAfter(r)[r.loader] = loader[r.loader]
    BY <1>2, <1>6 DEF Coming, Good
  <2>2. r.loader \in E!Loaders
    BY <1>6, <2>1 DEF Engines, Handles
  <2>3. r.loader # E!Fresh
    BY <1>2, <1>6, <2>1 DEF Good, Coming, Free, E!Unused
  <2> QED
    BY <1>8, <2>2, <2>3
<1>11. After(r) /\ r.commands = s.commands
  BY <1>2, <1>6, <1>7, <1>9, <1>10 DEF After
<1> QED
  BY <1>1, <1>2, <1>11, GoodAfter

LEMMA SeekFrame ==
  ASSUME NEW s \in Engines, NEW at \in Nat
  PROVE  LET r == [s EXCEPT !.at = E!Smaller(at, Duration)] IN
         Frame(s, r) /\ r.st = s.st /\ r.told = s.told
<1>1. E!Smaller(at, Duration) \in Nat
  BY MCPlayerAssumption DEF E!EngineAssumption, E!Smaller
<1> QED
  BY <1>1 DEF Engines, Frame

LEMMA CommandSeekGood ==
  ASSUME NEW s, Good(s), s.began = E!Nothing, Free, NEW at \in Nat
  PROVE  LET r == E!HandleCommandSeek(s, at) IN
         After(r) /\ r.commands = s.commands
<1> DEFINE r == E!HandleCommandSeek(s, at)
<1>1. s \in Engines
  BY DEF Good
<1>2. CASE s.st = "Loading"
  <2>1. r = E!HandleCommandLoad(s, s.track, s.id, s.start, at)
    BY <1>2 DEF E!HandleCommandSeek
  <2>2. s.track \in AnyTrack /\ s.id \in Nat /\ s.start \in BOOLEAN
    BY <1>1 DEF Engines
  <2> HIDE DEF r
  <2>3. After(r) /\ r.commands = s.commands
    BY <2>1, <2>2, CommandLoadGood
  <2> QED
    BY <2>3 DEF r
<1>3. CASE s.st \in {"Playing", "Paused"}
  <2> DEFINE q == [s EXCEPT !.at = E!Smaller(at, Duration)]
  <2>1. r = IF s.fails = "seek" THEN s ELSE q
    BY <1>3 DEF E!HandleCommandSeek
  <2>2. Frame(s, q) /\ Says(q)
    BY <1>1, SeekFrame, SaysAsBefore DEF Good
  <2>3. Good(q) /\ q.commands = s.commands
    BY <2>2, FrameGood DEF Frame
  <2> QED
    BY <2>1, <2>3, GoodAfter
<1>4. CASE s.st = "Invalid"
  <2>1. r = E!Exit(s)
    BY <1>4 DEF E!HandleCommandSeek
  <2>2. Frame(s, E!Exit(s)) /\ Says(E!Exit(s))
    BY <1>1 DEF E!Exit, Frame, Engines, Says
  <2> QED
    BY <2>1, <2>2, FrameGood, GoodAfter DEF Frame
<1>5. CASE s.st \in {"Stopped", "EndOfTrack"}
  BY <1>5, GoodAfter DEF E!HandleCommandSeek
<1> QED
  BY <1>1, <1>2, <1>3, <1>4, <1>5 DEF Engines, E!States

LEMMA PlayerStopGood ==
  ASSUME NEW s, Good(s)
  PROVE  LET r == E!HandlePlayerStop(s) IN
         After(r) /\ r.commands = s.commands
<1>1. s \in Engines
  BY DEF Good
<1>2. CASE s.st = "Stopped"
  BY <1>2, GoodAfter DEF E!HandlePlayerStop
<1>3. CASE s.st = "Invalid"
  <2>1. Frame(s, E!Exit(s)) /\ Says(E!Exit(s))
    BY <1>1 DEF E!Exit, Frame, Engines, Says
  <2> QED
    BY <1>3, <2>1, FrameGood, GoodAfter DEF Frame, E!HandlePlayerStop
<1>4. CASE s.st \notin {"Stopped", "Invalid"}
  <2> DEFINE c == E!EnsureSinkStopped(s, FALSE)
             t == E!Tell(c, "Stopped")
             r == [t EXCEPT !.st = "Stopped", !.track = E!NoTrack, !.id = 0, !.at = 0, !.loader = 0,
                            !.began = E!Nothing, !.asked = E!Nothing]
  <2>1. Frame(s, c) /\ c \in Engines
    BY <1>1, StoppedFrame DEF Frame
  <2>2. Frame(c, t) /\ t \in Engines /\ t.told.what = "Stopped"
    <3> HIDE DEF c
    <3>1. Frame(c, t) /\ t.told = [what |-> "Stopped", track |-> c.track, id |-> c.id, at |-> 0]
      BY <2>1, TellFrame
    <3> QED
      BY <3>1 DEF Frame
  <2>3. r = E!HandlePlayerStop(s)
    BY <1>4 DEF E!HandlePlayerStop
  <2> HIDE DEF t
  <2>4. r \in Engines
    BY <2>2 DEF Engines, E!States, Handles, E!Nothing, Facts, AnyTrack
  <2>5. /\ r.st = "Stopped" /\ r.told = t.told /\ r.began = E!Nothing
        /\ r.preload = s.preload /\ r.spawned = E!Nothing /\ r.commands = s.commands
    BY <2>1, <2>2 DEF Engines, Frame, Good
  <2> HIDE DEF r
  <2>6. Good(r)
    BY <2>2, <2>4, <2>5 DEF Good, Says, Begun, E!Nothing, Coming, OnItsWay
  <2> QED
    BY <2>3, <2>5, <2>6, GoodAfter
<1> QED
  BY <1>2, <1>3, <1>4

LEMMA CommandGood ==
  ASSUME NEW s, Good(s), s.began = E!Nothing, Free, NEW c \in Offers
  PROVE  LET r == E!HandleCommand(s, c) IN
         After(r) /\ r.commands = s.commands
<1> DEFINE r == E!HandleCommand(s, c)
<1>1. /\ c.name \in {"Load", "Preload", "Seek", "Play", "Pause", "Stop"}
      /\ c.track \in AnyTrack /\ c.play \in BOOLEAN /\ c.at \in Nat
  BY MCPlayerAssumption DEF E!EngineAssumption, AnyTrack
<1>2. s \in Engines /\ Says(s)
  BY DEF Good
<1>3. CASE c.name = "Load"
  BY <1>1, <1>3, CommandLoadGood DEF E!HandleCommand
<1>4. CASE c.name = "Preload"
  BY <1>1, <1>4, CommandPreloadGood DEF E!HandleCommand
<1>5. CASE c.name = "Seek"
  BY <1>1, <1>5, CommandSeekGood DEF E!HandleCommand
<1>6. CASE c.name = "Play"
  <2>1. Frame(s, E!HandlePlay(s)) /\ Says(E!HandlePlay(s))
    BY <1>2, PlayFrame
  <2> QED
    BY <1>6, <2>1, FrameGood, GoodAfter DEF E!HandleCommand, Frame
<1>7. CASE c.name = "Pause"
  <2>1. Frame(s, E!HandlePause(s)) /\ Says(E!HandlePause(s))
    BY <1>2, PauseFrame
  <2> QED
    BY <1>7, <2>1, FrameGood, GoodAfter DEF E!HandleCommand, Frame
<1>8. CASE c.name = "Stop"
  BY <1>8, PlayerStopGood DEF E!HandleCommand
<1> QED
  BY <1>1, <1>3, <1>4, <1>5, <1>6, <1>7, <1>8

\* What is ready to be played begins within the track.
ReadyInside == \A l \in E!Loaders : loader[l].stage = "ready" => loader[l].at <= Duration

LEMMA PollLoaderGood ==
  ASSUME NEW s, Good(s), loader \in [E!Loaders -> Threads], ReadyInside
  PROVE  Good(E!PollLoader(s)) /\ E!PollLoader(s).commands = s.commands
<1>1. s \in Engines /\ s.spawned = E!Nothing /\ OnItsWay(s, loader) /\ s.loader \in Handles
  BY DEF Good, Engines
<1>2. CASE s.st # "Loading" \/ ~E!Answered(s.loader)
  BY <1>2 DEF E!PollLoader
<1>3. CASE s.st = "Loading" /\ E!Answered(s.loader) /\ loader[s.loader].stage = "ready"
  <2>1. E!PollLoader(s) = E!StartPlayback(s, s.track, s.id, loader[s.loader].at, s.start)
    BY <1>3 DEF E!PollLoader
  <2>2. s.loader \in E!Loaders /\ s.loader # 0
    BY <1>1, <1>3 DEF E!Answered, Handles
  <2>3. loader[s.loader].at \in Nat /\ loader[s.loader].at <= Duration
    BY <1>3, <2>2 DEF ReadyInside, Threads
  <2>4. s.id # 0 /\ s.id = s.asked.id => s.asked.track = s.track /\ Fits(s.asked.at, loader[s.loader].at)
    BY <1>3, <2>2 DEF Good, Coming
  <2>5. s.track \in AnyTrack /\ s.id \in Nat /\ s.start \in BOOLEAN
    BY <1>1 DEF Engines
  <2> QED
    BY <1>1, <2>1, <2>3, <2>4, <2>5, Begins
<1>4. CASE s.st = "Loading" /\ E!Answered(s.loader) /\ loader[s.loader].stage # "ready"
  <2> DEFINE t == E!Tell(s, "Unavailable")
             r == [t EXCEPT !.loader = 0]
  <2>1. E!PollLoader(s) = r
    BY <1>4 DEF E!PollLoader
  <2>2. Frame(s, t) /\ Says(t) /\ t.st = "Loading" /\ t \in Engines
    BY <1>1, <1>4, TellFrame, SaysWhatIsTold DEF Frame
  <2>3. Good(t) /\ t.commands = s.commands
    BY <2>2, FrameGood DEF Frame
  <2> HIDE DEF t
  <2>4. /\ r \in Engines /\ r.loader = 0
        /\ r.st = t.st /\ r.track = t.track /\ r.id = t.id /\ r.preload = t.preload
        /\ r.alive = t.alive /\ r.told = t.told /\ r.began = t.began /\ r.asked = t.asked
        /\ r.spawned = t.spawned /\ r.commands = t.commands
    BY <2>2 DEF Engines, Handles
  <2> HIDE DEF r
  <2>5. Good(r)
    BY <2>3, <2>4 DEF Good, Says, OfIts, Begun, Coming, OnItsWay
  <2> QED
    BY <2>1, <2>3, <2>4, <2>5
<1> QED
  BY <1>2, <1>3, <1>4

LEMMA PollPreloadGood ==
  ASSUME NEW s, Good(s), loader \in [E!Loaders -> Threads]
  PROVE  Good(E!PollPreload(s)) /\ E!PollPreload(s).commands = s.commands
<1> DEFINE l == s.preload.loader
           ready == [st |-> "Ready", track |-> s.preload.track, loader |-> 0, at |-> loader[l].at]
           r == [s EXCEPT !.preload = ready]
<1>1. s \in Engines /\ l \in Handles /\ s.preload.track \in AnyTrack
  BY DEF Good, Engines, PreloadStates
<1>2. CASE ~E!Answered(l)
  BY <1>2 DEF E!PollPreload
<1>3. CASE E!Answered(l) /\ loader[l].stage # "ready"
  <2> DEFINE w == [s EXCEPT !.preload = E!NoPreload]
             missed == [what |-> "Unavailable", track |-> s.preload.track, id |-> w.id, at |-> 0]
             m == [w EXCEPT !.told = missed]
  <2>1. Good(w) /\ w.commands = s.commands /\ w \in Engines
    BY WithoutPreload DEF Good
  <2>2. E!PollPreload(s) = IF w.st \in {"Playing", "Paused"} THEN m ELSE w
    BY <1>3 DEF E!PollPreload, E!TellMissed
  <2>3. missed \in Facts
    BY <1>1, <2>1 DEF Facts, Engines
  <2> HIDE DEF w
  <2>4. missed.what = "Unavailable" /\ missed.id = w.id
    OBVIOUS
  <2> HIDE DEF missed
  <2>5. /\ m \in Engines /\ m.told = missed
        /\ m.st = w.st /\ m.track = w.track /\ m.id = w.id /\ m.loader = w.loader
        /\ m.alive = w.alive /\ m.preload = w.preload /\ m.began = w.began /\ m.asked = w.asked
        /\ m.spawned = w.spawned /\ m.commands = w.commands
    BY <2>1, <2>3 DEF Engines
  <2> HIDE DEF m
  <2>6. CASE w.st \in {"Playing", "Paused"}
    <3>1. Frame(w, m)
      BY <2>1, <2>5 DEF Frame
    <3>2. Says(m)
      BY <2>4, <2>5, <2>6 DEF Says
    <3> QED
      BY <2>1, <2>2, <2>5, <2>6, <3>1, <3>2, FrameGood
  <2> QED
    BY <2>1, <2>2, <2>6
<1>4. CASE E!Answered(l) /\ loader[l].stage = "ready"
  <2>1. loader[l].at \in Nat
    BY <1>1, <1>4 DEF E!Answered, Handles, Threads
  <2>2. ready \in PreloadStates /\ ready.st = "Ready"
    BY <1>1, <2>1 DEF PreloadStates, Handles
  <2>3. E!PollPreload(s) = r
    BY <1>4 DEF E!PollPreload
  <2> HIDE DEF ready
  <2>4. /\ r \in Engines /\ r.preload = ready
        /\ r.st = s.st /\ r.track = s.track /\ r.id = s.id /\ r.loader = s.loader
        /\ r.alive = s.alive /\ r.told = s.told /\ r.began = s.began /\ r.asked = s.asked
        /\ r.spawned = s.spawned /\ r.commands = s.commands
    BY <1>1, <2>2 DEF Engines
  <2> HIDE DEF r
  <2>5. Good(r)
    BY <2>2, <2>4 DEF Good, Says, OfIts, Begun, Coming, OnItsWay
  <2> QED
    BY <2>3, <2>4, <2>5
<1> QED
  BY <1>2, <1>3, <1>4

LEMMA PacketFrame ==
  ASSUME NEW s \in Engines, Says(s), s.st = "Playing"
  PROVE  Frame(s, E!HandlePacket(s)) /\ Says(E!HandlePacket(s))
<1> DEFINE ended == E!PlayingToEndOfTrack(s)
           next == [s EXCEPT !.at = @ + 1, !.stray = @ \/ s.sink # "Running"]
<1>1. ended \in Engines /\ ended.st = "EndOfTrack" /\ Frame(s, ended)
  BY DEF E!PlayingToEndOfTrack, Engines, E!States, Frame
<1>2. Frame(ended, E!Tell(ended, "EndOfTrack")) /\ Says(E!Tell(ended, "EndOfTrack"))
  BY <1>1, TellFrame, SaysWhatIsTold
<1>3. next \in Engines /\ next.st = s.st /\ next.told = s.told /\ Frame(s, next)
  <2>1. s.at + 1 \in Nat /\ (s.stray \/ s.sink # "Running") \in BOOLEAN
    BY DEF Engines
  <2> QED
    BY <2>1 DEF Engines, Frame
<1>4. Says(next)
  BY <1>3, SaysAsBefore
<1>5. E!HandlePacket(s) = IF s.at = Duration THEN E!Tell(ended, "EndOfTrack")
                        ELSE IF s.fails = "write" THEN E!HandlePause(next) ELSE next
  BY DEF E!HandlePacket
<1>6. Frame(next, E!HandlePause(next)) /\ Says(E!HandlePause(next))
  BY <1>3, <1>4, PauseFrame
<1> HIDE DEF ended, next
<1> QED
  BY <1>1, <1>2, <1>3, <1>4, <1>5, <1>6, FrameChain

LEMMA PollPacketFrame ==
  ASSUME NEW s0 \in Engines, Says(s0)
  PROVE  Frame(s0, E!PollPacket(s0)) /\ Says(E!PollPacket(s0))
<1> DEFINE s == E!EnsureSinkRunning(s0)
           r == E!PollPacket(s0)
<1>1. Frame(s0, s) /\ Says(s) /\ s \in Engines
  BY RunningFrame DEF Frame
<1>2. CASE s0.st = "Invalid"
  <2>1. r = E!Exit(s0)
    BY <1>2 DEF E!PollPacket
  <2>2. Frame(s0, E!Exit(s0)) /\ Says(E!Exit(s0))
    BY DEF E!Exit, Frame, Engines, Says
  <2> QED
    BY <2>1, <2>2
<1>3. CASE s0.st = "Playing" /\ s.st # "Playing"
  <2>1. r = E!Exit(s)
    BY <1>3 DEF E!PollPacket
  <2>2. Frame(s, E!Exit(s)) /\ Says(E!Exit(s))
    BY <1>1 DEF E!Exit, Frame, Engines, Says
  <2> QED
    BY <1>1, <2>1, <2>2, FrameChain
<1>4. CASE s0.st = "Playing" /\ s.st = "Playing"
  <2>1. r = IF s.fails = "packet" THEN E!Tell(s, "EndOfTrack") ELSE E!HandlePacket(s)
    BY <1>4 DEF E!PollPacket
  <2>2. Frame(s, E!Tell(s, "EndOfTrack")) /\ Says(E!Tell(s, "EndOfTrack"))
    BY <1>1, <1>4, TellFrame, SaysWhatIsTold
  <2>3. Frame(s, E!HandlePacket(s)) /\ Says(E!HandlePacket(s))
    BY <1>1, <1>4, PacketFrame
  <2> QED
    BY <1>1, <2>1, <2>2, <2>3, FrameChain
<1>5. CASE s0.st \notin {"Invalid", "Playing"}
  BY <1>5 DEF E!PollPacket, Frame
<1> QED
  BY <1>2, <1>3, <1>4, <1>5

LEMMA SuggestFrame ==
  ASSUME NEW s \in Engines, Says(s)
  PROVE  Frame(s, E!Suggest(s)) /\ Says(E!Suggest(s))
<1>1. LET r == [s EXCEPT !.suggested = TRUE] IN
      Frame(s, r) /\ r.st = s.st /\ r.told = s.told
  BY DEF Engines, Frame
<1> QED
  BY <1>1, SaysAsBefore DEF E!Suggest, Frame

Used == {l \in E!Loaders : loader[l] # E!Unused}
EngineInv ==
  /\ Good(internal)
  /\ loader \in [E!Loaders -> Threads] /\ ReadyInside
  /\ Cardinality(Used) <= internal.commands

LEMMA FinitelyManyLoaders ==
  IsFiniteSet(E!Loaders) /\ Cardinality(E!Loaders) = MaxEngineCommands + 1 /\ MaxEngineCommands \in Nat
  BY MCPlayerAssumption, FS_Interval DEF E!EngineAssumption, E!Loaders

LEMMA FreeLoader ==
  ASSUME EngineInv, internal.commands < MaxEngineCommands
  PROVE  Free
<1>1. IsFiniteSet(E!Loaders) /\ Cardinality(E!Loaders) = MaxEngineCommands + 1 /\ MaxEngineCommands \in Nat
  BY FinitelyManyLoaders
<1>2. Used \subseteq E!Loaders /\ Cardinality(Used) \in Nat
  BY <1>1, FS_Subset, FS_CardinalityType DEF Used
<1>3. internal.commands \in Nat
  BY DEF EngineInv, Good, Engines
<1>4. Used # E!Loaders
  BY <1>1, <1>2, <1>3 DEF EngineInv
<1>5. \E l \in E!Loaders : loader[l] = E!Unused
  BY <1>2, <1>4 DEF Used
<1> QED
  BY <1>5 DEF E!Fresh, Free

LEMMA StageBegins ==
  ASSUME EngineInv, NEW f \in Fails
  PROVE  LET before == IF internal.began = E!Nothing THEN internal ELSE [internal EXCEPT !.began = E!Nothing, !.asked = E!Nothing]
             b == [before EXCEPT !.fails = f]
         IN  Good(b) /\ b.began = E!Nothing /\ b.commands = internal.commands
<1> DEFINE before == IF internal.began = E!Nothing THEN internal ELSE [internal EXCEPT !.began = E!Nothing, !.asked = E!Nothing]
           b == [before EXCEPT !.fails = f]
<1>1. Good(internal) /\ internal \in Engines
  BY DEF EngineInv, Good
<1>2. E!Nothing \in Facts /\ E!Nothing.id = 0
  BY DEF E!Nothing, Facts, AnyTrack
<1>3. /\ before \in Engines /\ before.began = E!Nothing
      /\ before.asked = internal.asked \/ before.asked = E!Nothing
      /\ before.st = internal.st /\ before.track = internal.track /\ before.id = internal.id /\ before.loader = internal.loader
      /\ before.preload = internal.preload /\ before.alive = internal.alive /\ before.told = internal.told
      /\ before.spawned = internal.spawned /\ before.commands = internal.commands
  <2>1. CASE internal.began = E!Nothing
    BY <1>1, <2>1
  <2>2. CASE internal.began # E!Nothing
    BY <1>1, <1>2, <2>2 DEF Engines
  <2> QED
    BY <2>1, <2>2
<1> HIDE DEF before
<1>4. /\ b \in Engines /\ b.began = E!Nothing
      /\ b.asked = internal.asked \/ b.asked = E!Nothing
      /\ b.st = internal.st /\ b.track = internal.track /\ b.id = internal.id /\ b.loader = internal.loader
      /\ b.preload = internal.preload /\ b.alive = internal.alive /\ b.told = internal.told
      /\ b.spawned = internal.spawned /\ b.commands = internal.commands
  BY <1>3 DEF Engines
<1> HIDE DEF b
<1>5. Says(b) /\ Begun(b) /\ OnItsWay(b, loader)
  BY <1>1, <1>2, <1>4 DEF Good, Says, OfIts, Begun, OnItsWay
<1>6. Coming(b, loader)
  BY <1>1, <1>2, <1>4 DEF Good, Coming
<1>7. Good(b) /\ b.began = E!Nothing /\ b.commands = internal.commands
  BY <1>1, <1>4, <1>5, <1>6 DEF Good
<1> QED
  BY <1>7 DEF b, before

LEMMA StageEnds ==
  ASSUME EngineInv, NEW r, After(r), NEW s, s = [r EXCEPT !.fails = "nothing"],
         internal' = [s EXCEPT !.spawned = E!Nothing], loader' = E!LoadersAfter(s),
         \/ (r.spawned = E!Nothing /\ r.commands = internal.commands)
         \/ (Free /\ r.commands = internal.commands + 1)
  PROVE  EngineInv'
<1>1. r \in Engines
  BY DEF After
<1>2. /\ s \in Engines
      /\ s.began = r.began /\ s.asked = r.asked
      /\ s.st = r.st /\ s.track = r.track /\ s.id = r.id /\ s.loader = r.loader
      /\ s.preload = r.preload /\ s.alive = r.alive /\ s.told = r.told
      /\ s.spawned = r.spawned /\ s.commands = r.commands
  BY <1>1 DEF Engines, Fails
<1>3. /\ internal' \in Engines /\ internal'.spawned = E!Nothing
      /\ internal'.began = r.began /\ internal'.asked = r.asked
      /\ internal'.st = r.st /\ internal'.track = r.track /\ internal'.id = r.id /\ internal'.loader = r.loader
      /\ internal'.preload = r.preload /\ internal'.alive = r.alive /\ internal'.told = r.told
      /\ internal'.commands = r.commands
  BY <1>2 DEF Engines
<1>4. loader' = E!LoadersAfter(r)
  BY <1>2 DEF E!LoadersAfter, E!Forgotten
<1>5. Says(internal') /\ Begun(internal') /\ Coming(internal', E!LoadersAfter(r)) /\ OnItsWay(internal', E!LoadersAfter(r))
  BY <1>3 DEF After, Says, OfIts, Begun, Coming, OnItsWay
<1>6. Good(internal)'
  BY <1>3, <1>4, <1>5 DEF Good, Says, OfIts, Begun, Coming, OnItsWay, Fits
<1>7. /\ r.spawned = E!Nothing \/ r.spawned \in NewThreads
      /\ E!Unused \in Threads /\ E!Unused.stage = "unused" /\ NewThreads \subseteq Threads
      /\ \A t \in NewThreads : t.stage = "item"
  BY <1>1 DEF Engines, NewThreads, Threads, E!Unused, AnyTrack
<1>8. \A l \in E!Loaders : \/ E!LoadersAfter(r)[l] = E!Unused \/ E!LoadersAfter(r)[l] = loader[l]
                         \/ (E!LoadersAfter(r)[l] = r.spawned /\ r.spawned \in NewThreads /\ l = E!Fresh)
  BY <1>7 DEF E!LoadersAfter
<1>9. (loader \in [E!Loaders -> Threads])'
  <2>1. \A l \in E!Loaders : E!LoadersAfter(r)[l] \in Threads
    BY <1>7, <1>8 DEF EngineInv
  <2>2. E!LoadersAfter(r) = [l \in E!Loaders |-> E!LoadersAfter(r)[l]]
    BY DEF E!LoadersAfter
  <2> QED
    BY <1>4, <2>1, <2>2
<1>10. ReadyInside'
  BY <1>4, <1>7, <1>8 DEF ReadyInside, EngineInv
<1>11. Cardinality(Used') <= internal'.commands
  <2>1. IsFiniteSet(E!Loaders)
    BY FinitelyManyLoaders
  <2>2. Used \subseteq E!Loaders /\ IsFiniteSet(Used) /\ Cardinality(Used) \in Nat
    BY <2>1, FS_Subset, FS_CardinalityType DEF Used
  <2>3. internal.commands \in Nat /\ Cardinality(Used) <= internal.commands
    BY DEF EngineInv, Good, Engines
  <2>4. CASE r.spawned = E!Nothing /\ r.commands = internal.commands
    <3>1. E!Nothing \notin NewThreads
      BY DEF E!Nothing, NewThreads
    <3>2. Used' \subseteq Used
      BY <1>4, <1>8, <2>4, <3>1 DEF Used
    <3> QED
      BY <1>3, <2>2, <2>3, <2>4, <3>2, FS_Subset, FS_CardinalityType
  <2>5. CASE Free /\ r.commands = internal.commands + 1
    <3>1. Used' \subseteq Used \cup {E!Fresh}
      BY <1>4, <1>8 DEF Used
    <3>2. IsFiniteSet(Used \cup {E!Fresh}) /\ Cardinality(Used \cup {E!Fresh}) <= Cardinality(Used) + 1
            /\ Cardinality(Used \cup {E!Fresh}) \in Nat
      <4>1. /\ IsFiniteSet(Used \cup {E!Fresh})
            /\ Cardinality(Used \cup {E!Fresh}) \in {Cardinality(Used), Cardinality(Used) + 1}
        BY <2>2, FS_AddElement, Zenon
      <4> QED
        BY <2>2, <4>1
    <3>3. Cardinality(Used') <= Cardinality(Used \cup {E!Fresh}) /\ Cardinality(Used') \in Nat
      BY <3>1, <3>2, FS_Subset, FS_CardinalityType
    <3> QED
      BY <1>3, <2>2, <2>3, <2>5, <3>2, <3>3
  <2> QED
    BY <2>4, <2>5
<1> QED
  BY <1>6, <1>9, <1>10, <1>11, <1>3 DEF EngineInv

\* The engine as it enters a stage in which f fails.
Entering(f) ==
  [IF internal.began = E!Nothing THEN internal ELSE [internal EXCEPT !.began = E!Nothing, !.asked = E!Nothing] EXCEPT !.fails = f]

LEMMA CommandKeepsInv ==
  ASSUME EngineInv, E!TakeCommand
  PROVE  EngineInv'
<1>1. PICK c \in Offers :
        E!Stage("command", E!Then("loaders"), {"start", "stop", "seek"},
              LAMBDA s : [E!HandleCommand(s, c) EXCEPT !.commands = @ + 1])
  BY DEF E!TakeCommand
<1> DEFINE h(f) == E!HandleCommand(Entering(f), c)
           r(f) == [h(f) EXCEPT !.commands = @ + 1]
           Results(f) ==
             LET s == [r(f) EXCEPT !.fails = "nothing"] IN
             internal' = [s EXCEPT !.spawned = E!Nothing] /\ loader' = E!LoadersAfter(s)
<1>2. PICK f \in Fails : Results(f)
  <2>1. \E f \in {"nothing"} \cup (IF faults < MaxFaults THEN {"start", "stop", "seek"} ELSE {}) : Results(f)
    BY <1>1, Zenon DEF E!Stage, Entering
  <2> HIDE DEF Results
  <2> QED
    BY <2>1 DEF Fails
<1>3. internal.commands < MaxEngineCommands
  BY DEF E!TakeCommand
<1>4. Good(Entering(f)) /\ Entering(f).began = E!Nothing /\ Entering(f).commands = internal.commands
  BY StageBegins DEF Entering
<1>5. Free
  BY <1>3, FreeLoader
<1>6. After(h(f)) /\ h(f).commands = internal.commands
  BY <1>4, <1>5, CommandGood
<1>7. After(r(f)) /\ r(f).commands = internal.commands + 1
  <2> DEFINE g == h(f)
             q == [g EXCEPT !.commands = @ + 1]
  <2>1. g \in Engines /\ After(g) /\ g.commands = internal.commands
    BY <1>6 DEF After
  <2> HIDE DEF g
  <2>2. /\ q \in Engines /\ q.commands = internal.commands + 1
        /\ q.began = g.began /\ q.asked = g.asked
        /\ q.st = g.st /\ q.track = g.track /\ q.id = g.id /\ q.loader = g.loader
        /\ q.preload = g.preload /\ q.alive = g.alive /\ q.told = g.told
        /\ q.spawned = g.spawned
    BY <2>1 DEF Engines
  <2> HIDE DEF q
  <2>3. E!LoadersAfter(q) = E!LoadersAfter(g)
    BY <2>2 DEF E!LoadersAfter, E!Forgotten
  <2>4. After(q)
    BY <2>1, <2>2, <2>3 DEF After, Says, OfIts, Begun, Coming, OnItsWay
  <2> QED
    BY <2>2, <2>4 DEF q, g
<1> HIDE DEF r
<1> QED
  BY <1>2, <1>5, <1>7, StageEnds

LEMMA TurnKeepsInv ==
  ASSUME EngineInv, E!Turn
  PROVE  EngineInv'
<1> DEFINE r(f) == Entering(f)
<1>1. PICK f \in Fails :
        LET s == [r(f) EXCEPT !.fails = "nothing"] IN
        internal' = [s EXCEPT !.spawned = E!Nothing] /\ loader' = E!LoadersAfter(s)
  BY DEF E!Turn, E!Stage, Entering, Fails
<1>2. Good(r(f)) /\ r(f).commands = internal.commands
  BY StageBegins DEF Entering
<1>3. After(r(f)) /\ r(f).spawned = E!Nothing
  BY <1>2, GoodAfter DEF Good
<1> HIDE DEF r
<1> QED
  BY <1>1, <1>2, <1>3, StageEnds

LEMMA PollLoadersKeepsInv ==
  ASSUME EngineInv, E!PollLoaders
  PROVE  EngineInv'
<1> DEFINE r(f) == E!PollPreload(E!PollLoader(Entering(f)))
<1>1. PICK f \in Fails :
        LET s == [r(f) EXCEPT !.fails = "nothing"] IN
        internal' = [s EXCEPT !.spawned = E!Nothing] /\ loader' = E!LoadersAfter(s)
  BY DEF E!PollLoaders, E!Stage, Entering, Fails
<1>2. Good(Entering(f)) /\ Entering(f).commands = internal.commands
  BY StageBegins DEF Entering
<1>3. Good(r(f)) /\ r(f).commands = internal.commands
  BY <1>2, PollLoaderGood, PollPreloadGood DEF EngineInv
<1>4. After(r(f)) /\ r(f).spawned = E!Nothing
  BY <1>3, GoodAfter DEF Good
<1> HIDE DEF r
<1> QED
  BY <1>1, <1>3, <1>4, StageEnds

LEMMA PacketKeepsInv ==
  ASSUME EngineInv, E!Packet
  PROVE  EngineInv'
<1>1. PICK available \in BOOLEAN :
        E!Stage("packet", E!Then("command"), {"start", "stop", "write", "packet"},
              LAMBDA s : IF available THEN E!Suggest(E!PollPacket(s)) ELSE E!PollPacket(s))
  BY DEF E!Packet
<1> DEFINE r(f) == IF available THEN E!Suggest(E!PollPacket(Entering(f))) ELSE E!PollPacket(Entering(f))
           Results(f) ==
             LET s == [r(f) EXCEPT !.fails = "nothing"] IN
             internal' = [s EXCEPT !.spawned = E!Nothing] /\ loader' = E!LoadersAfter(s)
<1>2. PICK f \in Fails : Results(f)
  <2>1. \E f \in {"nothing"} \cup (IF faults < MaxFaults THEN {"start", "stop", "write", "packet"} ELSE {}) :
          Results(f)
    BY <1>1, Zenon DEF E!Stage, Entering
  <2> HIDE DEF Results
  <2> QED
    BY <2>1 DEF Fails
<1>3. Good(Entering(f)) /\ Entering(f).commands = internal.commands /\ Entering(f) \in Engines
        /\ Says(Entering(f))
  BY StageBegins DEF Entering, Good
<1>4. LET p == E!PollPacket(Entering(f)) IN
      /\ Frame(Entering(f), p) /\ Says(p) /\ p \in Engines
      /\ Frame(p, E!Suggest(p)) /\ Says(E!Suggest(p))
  BY <1>3, PollPacketFrame, SuggestFrame DEF Frame
<1>5. Frame(Entering(f), r(f)) /\ Says(r(f))
  BY <1>4, FrameChain
<1> HIDE DEF r
<1>6. Good(r(f)) /\ r(f).commands = internal.commands
  BY <1>3, <1>5, FrameGood DEF Frame
<1>7. After(r(f)) /\ r(f).spawned = E!Nothing
  BY <1>6, GoodAfter DEF Good
<1> QED
  BY <1>2, <1>6, <1>7, StageEnds

LEMMA LoadKeepsInv ==
  ASSUME EngineInv, NEW l \in E!Loaders, E!Load(l)
  PROVE  EngineInv'
<1>1. internal' = internal /\ loader \in [E!Loaders -> Threads] /\ Good(internal) /\ internal \in Engines
  BY DEF E!Load, EngineInv, Good
<1>2. Duration \in Nat
  BY MCPlayerAssumption DEF E!EngineAssumption
<1>3. \E t \in Threads :
        /\ loader' = [loader EXCEPT ![l] = t]
        /\ t.stage # "unused" /\ loader[l].stage # "unused"
        /\ t.stage = "ready" => t.at <= Duration
        /\ t.at = loader[l].at \/ (loader[l].at > Duration /\ t.at \in {0, Duration})
  <2>1. loader[l] \in Threads
    BY <1>1
  <2> DEFINE GoesTo(stage) == [loader[l] EXCEPT !.stage = stage]
  <2>2. \A stage \in {"open", "failed", "read", "ready"} : E!Go(l, stage) =>
          loader' = [loader EXCEPT ![l] = GoesTo(stage)] /\ GoesTo(stage) \in Threads
            /\ GoesTo(stage).stage = stage /\ GoesTo(stage).at = loader[l].at
    BY <1>1, <2>1 DEF E!Go, Threads
  <2>3. CASE E!LoadLocalTrack(l)
    <3> DEFINE t == [loader[l] EXCEPT !.stage = "ready", !.at = E!Smaller(@, Duration)]
    <3>1. loader[l].stage = "item"
      BY <2>3 DEF E!LoadLocalTrack, E!At
    <3>2. CASE loader' = [loader EXCEPT ![l].stage = "ready", ![l].at = E!Smaller(@, Duration)]
      <4>1. E!Smaller(loader[l].at, Duration) \in Nat
        BY <1>2, <2>1 DEF E!Smaller, Threads
      <4>2. /\ t \in Threads /\ t.stage = "ready" /\ t.at = E!Smaller(loader[l].at, Duration)
            /\ loader' = [loader EXCEPT ![l] = t]
        BY <1>1, <2>1, <3>2, <4>1 DEF Threads
      <4> HIDE DEF t
      <4>3. loader[l].at \in Nat
        BY <2>1 DEF Threads
      <4>4. t.at <= Duration /\ (t.at = loader[l].at \/ (loader[l].at > Duration /\ t.at = Duration))
        BY <1>2, <4>2, <4>3 DEF E!Smaller
      <4> QED
        BY <3>1, <4>2, <4>4
    <3>3. CASE E!Go(l, "failed")
      BY <2>2, <3>1, <3>3
    <3> QED
      BY <2>3, <3>2, <3>3 DEF E!LoadLocalTrack
  <2>4. CASE E!LoadRemoteTrack(l)
    <3>1. loader[l].stage \in {"item", "open", "read"}
      BY <2>4 DEF E!LoadRemoteTrack, E!FindItem, E!OpenAgain, E!ReadFile, E!At
    <3>2. CASE E!Go(l, "open") \/ E!Go(l, "failed")
      BY <2>2, <3>1, <3>2
    <3>3. CASE E!OpenFile(l)
      <4> DEFINE here == loader[l].track \in cached
                 t == [loader[l] EXCEPT !.stage = "read", !.cached = here]
      <4>1. CASE loader' = [loader EXCEPT ![l].stage = "read", ![l].cached = here]
        <5>1. here \in BOOLEAN
          OBVIOUS
        <5> HIDE DEF here
        <5>2. /\ t \in Threads /\ t.stage = "read" /\ t.at = loader[l].at
              /\ loader' = [loader EXCEPT ![l] = t]
          BY <1>1, <2>1, <4>1, <5>1 DEF Threads
        <5> QED
          BY <3>1, <5>2
      <4> QED
        BY <3>2, <3>3, <4>1 DEF E!OpenFile
    <3>4. CASE loader' = [loader EXCEPT ![l].stage = "ready", ![l].at = IF @ > Duration THEN 0 ELSE @]
      <4> DEFINE at == IF loader[l].at > Duration THEN 0 ELSE loader[l].at
                 t == [loader[l] EXCEPT !.stage = "ready", !.at = at]
      <4>1. at \in Nat /\ at <= Duration
        BY <1>2, <2>1 DEF Threads
      <4>2. at = loader[l].at \/ (loader[l].at > Duration /\ at = 0)
        OBVIOUS
      <4>3. loader' = [loader EXCEPT ![l].stage = "ready", ![l].at = at]
        BY <3>4
      <4> HIDE DEF at
      <4>4. /\ t \in Threads /\ t.stage = "ready" /\ t.at = at
            /\ loader' = [loader EXCEPT ![l] = t]
        BY <1>1, <2>1, <4>1, <4>3 DEF Threads
      <4> QED
        BY <3>1, <4>1, <4>2, <4>4
    <3> QED
      BY <2>4, <3>2, <3>3, <3>4 DEF E!LoadRemoteTrack, E!FindItem, E!OpenAgain, E!ReadFile, E!KeyFails,
           E!DecoderFails, E!SeekFails, E!Ready, E!Evict
  <2> QED
    BY <2>3, <2>4 DEF E!Load
<1>4. PICK t \in Threads :
        /\ loader' = [loader EXCEPT ![l] = t]
        /\ t.stage # "unused" /\ loader[l].stage # "unused"
        /\ t.stage = "ready" => t.at <= Duration
        /\ t.at = loader[l].at \/ (loader[l].at > Duration /\ t.at \in {0, Duration})
  BY <1>3
<1>5. \A k \in E!Loaders : loader'[k] = IF k = l THEN t ELSE loader[k]
  BY <1>1, <1>4
<1>6. loader' \in [E!Loaders -> Threads]
  BY <1>1, <1>4
<1>7. ReadyInside'
  BY <1>4, <1>5 DEF ReadyInside, EngineInv
<1>8. Used' = Used
  BY <1>4, <1>5 DEF Used, E!Unused
<1>9. Coming(internal, loader')
  <2>1. internal.loader # 0 => internal.loader \in E!Loaders
    BY <1>1 DEF Engines, Handles
  <2>2. internal.asked.at \in Nat /\ loader[l].at \in Nat
    BY <1>1 DEF Engines, Facts, Threads
  <2> QED
    BY <1>1, <1>2, <1>4, <1>5, <2>1, <2>2 DEF Coming, Good, Fits
<1>10. OnItsWay(internal, loader')
  <2>1. internal.preload.loader # 0 => internal.preload.loader \in E!Loaders
    BY <1>1 DEF Engines, PreloadStates, Handles
  <2> QED
    BY <1>1, <1>2, <1>4, <1>5, <2>1 DEF OnItsWay, Good
<1>11. Good(internal)'
  BY <1>1, <1>9, <1>10 DEF Good, Says, OfIts, Begun, Fits, Coming, OnItsWay
<1> QED
  BY <1>1, <1>6, <1>7, <1>8, <1>11 DEF EngineInv

LEMMA EngineInvariance == E!Spec => []EngineInv
<1>1. E!Init => EngineInv
  <2> SUFFICES ASSUME E!Init PROVE EngineInv
    OBVIOUS
  <2>1. PICK gapless \in BOOLEAN : internal = E!Started(gapless)
    BY DEF E!Init
  <2>2. loader = [l \in E!Loaders |-> E!Unused]
    BY DEF E!Init
  <2>3. internal \in Engines
    BY <2>1 DEF E!Started, Engines, E!States, Handles, PreloadStates, E!NoPreload, Facts, E!Nothing, AnyTrack, Fails
  <2>4. /\ internal.spawned = E!Nothing /\ internal.st = "Stopped" /\ internal.told = E!Nothing /\ internal.began = E!Nothing
        /\ internal.preload = E!NoPreload /\ internal.commands = 0
    BY <2>1 DEF E!Started
  <2>5. Good(internal)
    BY <2>3, <2>4 DEF Good, Says, OfIts, Begun, Coming, OnItsWay, E!Nothing, E!NoPreload
  <2>6. loader \in [E!Loaders -> Threads] /\ ReadyInside
    BY <2>2 DEF E!Unused, Threads, AnyTrack, ReadyInside
  <2>7. Used = {}
    BY <2>2 DEF Used
  <2>8. Cardinality(Used) <= internal.commands
    BY <2>4, <2>7, FS_EmptySet
  <2> QED
    BY <2>5, <2>6, <2>8 DEF EngineInv
<1>2. EngineInv /\ [E!Next]_(E!vars) => EngineInv'
  <2> SUFFICES ASSUME EngineInv, [E!Next]_(E!vars) PROVE EngineInv'
    OBVIOUS
  <2>1. CASE UNCHANGED <<internal, loader>>
    BY <2>1 DEF EngineInv, Good, Says, OfIts, Begun, Coming, OnItsWay, Fits, ReadyInside, Used
  <2>2. CASE E!TakeCommand
    BY <2>2, CommandKeepsInv
  <2>3. CASE E!Turn
    BY <2>3, TurnKeepsInv
  <2>4. CASE E!PollLoaders
    BY <2>4, PollLoadersKeepsInv
  <2>5. CASE E!Packet
    BY <2>5, PacketKeepsInv
  <2>6. CASE E!Close \/ E!LockHandles \/ E!Drain \/ E!Join
    BY <2>1, <2>6 DEF E!Close, E!LockHandles, E!Drain, E!Join
  <2>7. CASE \E l \in E!Loaders : E!Load(l)
    BY <2>7, LoadKeepsInv
  <2> QED
    BY <2>1, <2>2, <2>3, <2>4, <2>5, <2>6, <2>7 DEF E!Next, E!vars
<1> QED
  BY <1>1, <1>2, PTL DEF E!Spec

\* The listeners of the engine are never told wrongly what it does: in the course
\* of any commands, failures of the sink, of seeks and of packets, and answers of
\* loaders, the last event names its state, its track and its request; a preload that
\* fails is told as Unavailable under the request that plays on (send_event and the
\* handlers of PlayerInternal).
THEOREM ListenersAreToldRight ==
  E!Spec => []SaysWhatItDoes
<1>1. EngineInv => SaysWhatItDoes
  <2> SUFFICES ASSUME EngineInv, internal.alive, internal.st # "Invalid"
               PROVE  SaysWhatItDoes
    BY DEF SaysWhatItDoes, E!SaysWhatItDoes
  <2>1. Says(internal)
    BY DEF EngineInv, Good
  <2> QED
    BY <2>1 DEF SaysWhatItDoes, E!SaysWhatItDoes, Says, OfIts
<1> QED
  BY <1>1, EngineInvariance, PTL

\* What begins to play for a request is the track that was last asked for under it, at
\* the position last asked for, whichever loader, preload or decoder it comes from
\* (handle_command_load and handle_command_seek of PlayerInternal).
THEOREM BeginsRightly ==
  E!Spec => []BeginsWhereAsked
<1>1. EngineInv => BeginsWhereAsked
  <2>1. EngineInv => Begun(internal) /\ internal.asked.at \in Nat /\ internal.began.at \in Nat /\ Duration \in Nat
    BY MCPlayerAssumption DEF EngineInv, Good, Engines, Facts, E!EngineAssumption
  <2> QED
    BY <2>1 DEF BeginsWhereAsked, E!BeginsWhereAsked, Begun, Fits
<1> QED
  BY <1>1, EngineInvariance, PTL
-----------------------------------------------------------------------------
(***************************************************************************)
(* The output of the native engine: what is heard, and where in the        *)
(* channels the sources stand.                                             *)
(***************************************************************************)
Heard == [last : Nat, ok : BOOLEAN]

\* What is listened to, one frame after the other.
Listened(at, frames, f) ==
  f[0] = at /\ \A i \in 1..Len(frames) : f[i] = O!Listen(f[i - 1], frames[i])

\* One frame is listened to.
LEMMA ListenTyped ==
  ASSUME NEW at \in Heard, NEW frame \in Nat
  PROVE  /\ O!Listen(at, frame) \in Heard
         /\ frame = 0 => O!Listen(at, frame) = at
         /\ frame # 0 => O!Listen(at, frame) = [last |-> frame, ok |-> at.ok /\ O!InTurn(at.last, frame)]
         /\ O!Listen(at, frame).ok => at.ok
BY Zenon DEF Heard, O!Listen

LEMMA HeardInTurn ==
  ASSUME NEW at \in Heard, NEW frame \in Nat, frame # 0, at.ok, O!InTurn(at.last, frame)
  PROVE  O!Listen(at, frame) = [last |-> frame, ok |-> TRUE]
BY ListenTyped

\* Listening to frames is a recursion over them.
LEMMA ListenIs ==
  ASSUME NEW at \in Heard, NEW frames \in Seq(Nat)
  PROVE  \E f \in [0..Len(frames) -> Heard] : Listened(at, frames, f)
         /\ O!ListenTo(at, frames) = f[Len(frames)]
<1> DEFINE n == Len(frames)
           step == [p \in (1..n) \X Heard |-> O!Listen(p[2], frames[p[1]])]
<1>1. n \in Nat /\ \A i \in 1..n : frames[i] \in Nat
  OBVIOUS
<1>2. \A i \in 1..n, v \in Heard : step[<<i, v>>] = O!Listen(v, frames[i]) /\ step[<<i, v>>] \in Heard
  <2> TAKE i \in 1..n, v \in Heard
  <2>1. step[<<i, v>>] = O!Listen(v, frames[i])
    OBVIOUS
  <2> QED BY <1>1, <2>1, ListenTyped
<1> HIDE DEF step, n
<1>3. PICK f \in [0..n -> Heard] : Recurs(f, n, at, step)
  BY <1>1, <1>2, Recursion
<1>4. f[0] = at /\ \A i \in 1..n : i - 1 \in 0..n /\ f[i] = O!Listen(f[i - 1], frames[i])
  <2>1. \A i \in 1..n : i - 1 \in 0..n
    BY <1>1
  <2> QED BY <1>2, <1>3, <2>1 DEF Recurs
<1> DEFINE Is(k) == k = [i \in 0..n |-> IF i = 0 THEN at ELSE O!Listen(k[i - 1], frames[i])]
<1>5. Is(f)
  <2> DEFINE g(i) == IF i = 0 THEN at ELSE O!Listen(f[i - 1], frames[i])
  <2>1. \A i \in 0..n : i = 0 \/ i \in 1..n
    BY <1>1
  <2>2. \A i \in 0..n : f[i] = g(i)
    BY <1>4, <2>1
  <2>3. f = [i \in 0..n |-> f[i]]
    BY <1>3
  <2> HIDE DEF g
  <2>4. f = [i \in 0..n |-> g(i)]
    BY <2>2, <2>3
  <2> QED BY <2>4, Zenon DEF g
<1> DEFINE k == CHOOSE k : Is(k)
<1>6. Is(k) BY <1>5
<1>7. O!ListenTo(at, frames) = k[n]
  BY Zenon DEF O!ListenTo, O!Over, n
<1> HIDE DEF k
<1>8. /\ k = [i \in 0..n |-> k[i]] /\ k[0] = at
      /\ \A i \in 1..n : k[i] = O!Listen(k[i - 1], frames[i])
  <2>1. k = [i \in 0..n |-> IF i = 0 THEN at ELSE O!Listen(k[i - 1], frames[i])]
    BY <1>6, Zenon
  <2> HIDE DEF Is
  <2>2. DOMAIN k = 0..n /\ \A i \in 0..n : k[i] = IF i = 0 THEN at ELSE O!Listen(k[i - 1], frames[i])
    BY <2>1, Zenon
  <2>3. k = [i \in 0..n |-> k[i]]
    BY <2>1, <2>2, Zenon
  <2>4. 0 \in 0..n /\ \A i \in 1..n : i \in 0..n /\ i # 0
    BY <1>1
  <2> QED BY <2>2, <2>3, <2>4, Zenon
<1> HIDE DEF Is
<1> DEFINE T == {m \in Nat : m <= n => k[m] \in Heard}
<1>9. Nat \subseteq T
  <2>1. 0 \in T BY <1>8
  <2>2. \A m \in Nat : m \in T => m + 1 \in T
    <3> SUFFICES ASSUME NEW m \in Nat, k[m] \in Heard, m + 1 <= n PROVE k[m + 1] \in Heard
      BY <1>1
    <3>1. m + 1 \in 1..n /\ (m + 1) - 1 = m BY <1>1
    <3>2. k[m + 1] = O!Listen(k[m], frames[m + 1]) BY <1>8, <3>1
    <3>3. frames[m + 1] \in Nat BY <1>1, <3>1
    <3>4. O!Listen(k[m], frames[m + 1]) \in Heard BY <3>3, ListenTyped
    <3> QED BY <3>2, <3>4
  <2> HIDE DEF T
  <2> QED BY <2>1, <2>2, Induction
<1>10. k \in [0..n -> Heard]
  <2>1. \A i \in 0..n : k[i] \in Heard BY <1>1, <1>9
  <2> QED BY <1>8, <2>1
<1> QED BY <1>7, <1>8, <1>10 DEF Listened, n

\* It is what any such account of it ends with.
LEMMA ListenEnds ==
  ASSUME NEW at \in Heard, NEW frames \in Seq(Nat), NEW g, Listened(at, frames, g)
  PROVE  O!ListenTo(at, frames) = g[Len(frames)]
<1>1. PICK f \in [0..Len(frames) -> Heard] : Listened(at, frames, f)
          /\ O!ListenTo(at, frames) = f[Len(frames)]
  BY ListenIs
<1> DEFINE n == Len(frames)
           T == {m \in Nat : m <= n => f[m] = g[m]}
<1>2. n \in Nat OBVIOUS
<1>3. 0 \in T BY <1>1 DEF Listened
<1>4. \A m \in Nat : m \in T => m + 1 \in T
  <2> SUFFICES ASSUME NEW m \in Nat, f[m] = g[m], m + 1 <= n PROVE f[m + 1] = g[m + 1]
    BY <1>2
  <2>1. m + 1 \in 1..n /\ (m + 1) - 1 = m BY <1>2
  <2> QED BY <1>1, <2>1 DEF Listened
<1>5. Nat \subseteq T
  <2> HIDE DEF T
  <2> QED BY <1>3, <1>4, Induction
<1> QED BY <1>1, <1>2, <1>5

\* One sequence after another.
LEMMA ListenOn ==
  ASSUME NEW at \in Heard, NEW a \in Seq(Nat), NEW b \in Seq(Nat)
  PROVE  /\ O!ListenTo(at, a) \in Heard
         /\ O!ListenTo(at, a \o b) = O!ListenTo(O!ListenTo(at, a), b)
<1>1. PICK f \in [0..Len(a) -> Heard] : Listened(at, a, f) /\ O!ListenTo(at, a) = f[Len(a)]
  BY ListenIs
<1> DEFINE m == Len(a)
           mid == f[m]
<1>2. m \in Nat /\ Len(b) \in Nat /\ mid \in Heard
  <2>1. Len(a) \in Nat /\ Len(b) \in Nat /\ Len(a) \in 0..Len(a)
    OBVIOUS
  <2> QED BY <1>1, <2>1
<1>3. PICK g \in [0..Len(b) -> Heard] : Listened(mid, b, g) /\ O!ListenTo(mid, b) = g[Len(b)]
  BY <1>2, ListenIs
<1> DEFINE s == a \o b
           h == [i \in 0..(m + Len(b)) |-> IF i <= m THEN f[i] ELSE g[i - m]]
<1>4. /\ s \in Seq(Nat) /\ Len(s) = m + Len(b)
      /\ \A i \in 1..m : s[i] = a[i]
      /\ \A i \in (m + 1)..(m + Len(b)) : i - m \in 1..Len(b) /\ s[i] = b[i - m]
  OBVIOUS
<1>5. f[0] = at /\ \A i \in 1..m : f[i] = O!Listen(f[i - 1], a[i])
  BY <1>1 DEF Listened
<1>6. g[0] = f[m] /\ \A i \in 1..Len(b) : g[i] = O!Listen(g[i - 1], b[i])
  BY <1>3 DEF Listened
<1> HIDE DEF s, m
<1>7. Listened(at, s, h)
  <2>1. h[0] = at BY <1>2, <1>5
  <2>2. ASSUME NEW i \in 1..Len(s) PROVE h[i] = O!Listen(h[i - 1], s[i])
    <3>1. CASE i <= m
      <4>1. i \in 1..m /\ i - 1 <= m /\ h[i] = f[i] /\ h[i - 1] = f[i - 1]
        BY <1>2, <1>4, <3>1
      <4> QED BY <1>4, <1>5, <4>1
    <3>2. CASE i = m + 1
      <4>1. i \in (m + 1)..(m + Len(b)) /\ i - m = 1 /\ 1 \in 1..Len(b) /\ 1 - 1 = 0
        BY <1>2, <1>4, <3>2
      <4>2. h[i] = g[1] /\ h[i - 1] = f[m]
        BY <1>2, <1>4, <3>2
      <4>3. s[i] = b[1] BY <1>4, <4>1
      <4>4. g[1] = O!Listen(g[0], b[1]) BY <1>6, <4>1
      <4> QED BY <1>6, <4>2, <4>3, <4>4
    <3>3. CASE i > m + 1
      <4>0. i \in 1..(m + Len(b))
        BY <1>4
      <4>1. i \in (m + 1)..(m + Len(b)) /\ i - m \in 1..Len(b) /\ (i - m) - 1 = (i - 1) - m
        BY <1>2, <3>3, <4>0
      <4>2. h[i] = g[i - m] /\ h[i - 1] = g[(i - 1) - m]
        BY <1>2, <1>4, <3>3
      <4>3. s[i] = b[i - m] BY <1>4, <4>1
      <4>4. g[i - m] = O!Listen(g[(i - m) - 1], b[i - m]) BY <1>6, <4>1
      <4> QED BY <4>1, <4>2, <4>3, <4>4
    <3> QED BY <1>2, <1>4, <3>1, <3>2, <3>3
  <2> QED BY <2>1, <2>2 DEF Listened
<1>8. O!ListenTo(at, s) = h[Len(s)]
  <2> HIDE DEF h
  <2> QED BY <1>4, <1>7, ListenEnds
<1>9. h[Len(s)] = g[Len(b)]
  <2>1. CASE Len(b) = 0
    <3>1. h[Len(s)] = f[m] BY <1>2, <1>4, <2>1
    <3> QED BY <1>6, <2>1, <3>1
  <2>2. CASE Len(b) # 0
    BY <1>2, <1>4, <2>2
  <2> QED BY <2>1, <2>2
<1> QED BY <1>1, <1>2, <1>3, <1>8, <1>9 DEF s, m

\* Silence is not noticed.
LEMMA SilenceIsNothing ==
  ASSUME NEW at \in Heard, NEW n \in Nat
  PROVE  O!Silence(n) \in Seq(Nat) /\ Len(O!Silence(n)) = n /\ O!ListenTo(at, O!Silence(n)) = at
<1> DEFINE s == O!Silence(n)
           f == [i \in 0..n |-> at]
<1>1. s \in Seq(Nat) /\ Len(s) = n /\ \A i \in 1..n : s[i] = 0
  BY DEF O!Silence
<1> HIDE DEF s
<1>2. Listened(at, s, f)
  <2>1. \A i \in 1..n : f[i] = at /\ f[i - 1] = at /\ O!Listen(at, 0) = at
    BY ListenTyped
  <2> QED BY <1>1, <2>1 DEF Listened
<1>3. O!ListenTo(at, s) = f[n]
  <2> HIDE DEF f
  <2> QED BY <1>1, <1>2, ListenEnds
<1> QED BY <1>1, <1>3 DEF s

\* What was once out of its turn stays so.
LEMMA OnceLost ==
  ASSUME NEW at \in Heard, NEW frames \in Seq(Nat), O!ListenTo(at, frames).ok
  PROVE  at.ok
<1>1. PICK f \in [0..Len(frames) -> Heard] : Listened(at, frames, f)
          /\ O!ListenTo(at, frames) = f[Len(frames)]
  BY ListenIs
<1> DEFINE n == Len(frames)
           T == {m \in Nat : m <= n => (f[m].ok => at.ok)}
<1>2. n \in Nat /\ \A i \in 1..n : frames[i] \in Nat
  OBVIOUS
<1>3. 0 \in T BY <1>1 DEF Listened
<1>4. \A m \in Nat : m \in T => m + 1 \in T
  <2> SUFFICES ASSUME NEW m \in Nat, f[m].ok => at.ok, m + 1 <= n, f[m + 1].ok PROVE at.ok
    BY <1>2
  <2>1. m + 1 \in 1..n /\ (m + 1) - 1 = m /\ m \in 0..n BY <1>2
  <2>2. f[m + 1] = O!Listen(f[m], frames[m + 1]) BY <1>1, <2>1 DEF Listened
  <2>3. frames[m + 1] \in Nat /\ f[m] \in Heard BY <1>1, <1>2, <2>1
  <2>4. O!Listen(f[m], frames[m + 1]).ok => f[m].ok BY <2>3, ListenTyped
  <2> QED BY <2>2, <2>4
<1>5. Nat \subseteq T
  <2> HIDE DEF T
  <2> QED BY <1>3, <1>4, Induction
<1> QED BY <1>1, <1>2, <1>5

\* Frames of the decoder, each Times times, and the silence behind them.
Lasts(d, n, i) == IF i <= n THEN d + i ELSE d + n
Counts(s, d, n, m) ==
  s \in Seq(Nat) /\ Len(s) = n + m /\ \A i \in 1..(n + m) : s[i] = IF i <= n THEN d + i ELSE 0
Padded(source, n, m) == O!Decoded(source, n) \o O!Silence(m)
LEMMA DecodedInTurn ==
  ASSUME NEW source, source.decoded \in Nat, NEW n \in Nat, NEW m \in Nat
  PROVE  /\ Counts(Padded(source, n, m), source.decoded, n, m)
         /\ O!ListenTo([last |-> source.decoded, ok |-> TRUE], Padded(source, n, m))
              = [last |-> source.decoded + n, ok |-> TRUE]
<1> DEFINE d == source.decoded
           a == O!Decoded(source, n)
           z == O!Silence(m)
           s == Padded(source, n, m)
           f == [i \in 0..(n + m) |-> [last |-> Lasts(d, n, i), ok |-> TRUE]]
<1>1. a \in Seq(Nat) /\ Len(a) = n /\ (\A i \in 1..n : a[i] = d + i) /\ z \in Seq(Nat)
      /\ Len(z) = m /\ (\A i \in 1..m : z[i] = 0)
  BY DEF O!Decoded, O!Silence
<1>0. s = a \o z BY DEF Padded
<1>7. d \in Nat OBVIOUS
<1> HIDE DEF a, z, s, d
<1>2. /\ s \in Seq(Nat) /\ Len(s) = n + m
      /\ \A i \in 1..n : s[i] = a[i]
      /\ \A i \in (n + 1)..(n + m) : i - n \in 1..m /\ s[i] = z[i - n]
  <2> DEFINE t == a \o z
  <2>0. /\ t \in Seq(Nat) /\ Len(t) = Len(a) + Len(z)
        /\ \A i \in 1..(Len(a) + Len(z)) : t[i] = IF i <= Len(a) THEN a[i] ELSE z[i - Len(a)]
    BY <1>1
  <2> HIDE DEF t
  <2>1. /\ s \in Seq(Nat) /\ Len(s) = Len(a) + Len(z)
        /\ \A i \in 1..(Len(a) + Len(z)) : s[i] = IF i <= Len(a) THEN a[i] ELSE z[i - Len(a)]
    BY <1>0, <2>0, Zenon DEF t
  <2>2. \A i \in 1..n : i \in 1..(n + m) /\ i <= n
    OBVIOUS
  <2>3. \A i \in (n + 1)..(n + m) : i - n \in 1..m /\ i \in 1..(n + m) /\ ~(i <= n)
    OBVIOUS
  <2> QED BY <1>1, <2>1, <2>2, <2>3
<1>3. \A i \in 1..(n + m) : s[i] = IF i <= n THEN d + i ELSE 0
  BY <1>1, <1>2, <1>7
<1>4. Listened([last |-> d, ok |-> TRUE], s, f)
  <2>1. f[0] = [last |-> d, ok |-> TRUE] BY <1>7 DEF Lasts
  <2>2. ASSUME NEW i \in 1..(n + m) PROVE f[i] = O!Listen(f[i - 1], s[i])
    <3>1. f[i] = [last |-> Lasts(d, n, i), ok |-> TRUE]
          /\ f[i - 1] = [last |-> Lasts(d, n, i - 1), ok |-> TRUE]
      OBVIOUS
    <3>2. f[i - 1] \in Heard
      BY <1>7, <3>1 DEF Heard, Lasts
    <3> HIDE DEF f
    <3>3. CASE i <= n
      <4>1. s[i] = d + i /\ s[i] \in Nat /\ s[i] # 0 /\ Lasts(d, n, i) = d + i
            /\ Lasts(d, n, i - 1) + 1 = s[i]
        BY <1>3, <1>7, <3>3 DEF Lasts
      <4>2. O!InTurn(f[i - 1].last, s[i])
        BY <3>1, <4>1 DEF O!InTurn
      <4>3. f[i - 1].ok
        BY <3>1
      <4>4. O!Listen(f[i - 1], s[i]) = [last |-> s[i], ok |-> TRUE]
        BY <3>2, <4>1, <4>2, <4>3, HeardInTurn
      <4> QED BY <3>1, <4>1, <4>4
    <3>4. CASE i > n
      <4>1. s[i] = 0 /\ Lasts(d, n, i) = d + n /\ Lasts(d, n, i - 1) = d + n
        BY <1>3, <1>7, <3>4 DEF Lasts
      <4>2. O!Listen(f[i - 1], s[i]) = f[i - 1]
        BY <3>2, <4>1, ListenTyped
      <4> QED BY <3>1, <4>1, <4>2
    <3> QED BY <3>3, <3>4
  <2> QED BY <1>2, <2>1, <2>2 DEF Listened
<1>5. O!ListenTo([last |-> d, ok |-> TRUE], s) = f[n + m]
  <2>1. [last |-> d, ok |-> TRUE] \in Heard BY <1>7 DEF Heard
  <2> HIDE DEF f
  <2> QED BY <1>2, <1>4, <2>1, ListenEnds
<1>6. f[n + m] = [last |-> d + n, ok |-> TRUE]
  <2>1. n + m \in 0..(n + m) /\ Lasts(d, n, n + m) = d + n BY <1>7 DEF Lasts
  <2> QED BY <2>1
<1> QED BY <1>2, <1>3, <1>5, <1>6 DEF s, d, Counts

\* The same resampled: each frame twice.
LEMMA ProcessedInTurn ==
  ASSUME NEW d \in Nat, NEW n \in Nat, NEW m \in Nat, NEW inp, Counts(inp, d, n, m), chain = "resampled"
  PROVE  /\ O!Process(inp) \in Seq(Nat) /\ Len(O!Process(inp)) = 2 * (n + m)
         /\ O!ListenTo([last |-> d, ok |-> TRUE], O!Process(inp)) = [last |-> d + n, ok |-> TRUE]
<1> DEFINE s == O!Process(inp)
           H(i) == (i + 1) \div 2
           f == [i \in 0..(2 * (n + m)) |-> [last |-> Lasts(d, n, H(i)), ok |-> TRUE]]
<1>0. inp \in Seq(Nat) /\ Len(inp) = n + m /\ \A i \in 1..(n + m) : inp[i] = IF i <= n THEN d + i ELSE 0
  BY DEF Counts
<1>1. \A i \in 1..(2 * (n + m)) : H(i) \in 1..(n + m) /\ (H(i) = H(i - 1) \/ H(i) = H(i - 1) + 1)
      /\ H(i - 1) \in Nat
  OBVIOUS
<1>2. s \in Seq(Nat) /\ Len(s) = 2 * (n + m) /\ \A i \in 1..(2 * (n + m)) : s[i] = inp[H(i)]
  <2>1. s = [i \in 1..(2 * (n + m)) |-> inp[H(i)]]
    BY <1>0 DEF O!Process
  <2>2. \A i \in 1..(2 * (n + m)) : inp[H(i)] \in Nat
    BY <1>0, <1>1
  <2>3. 2 * (n + m) \in Nat
    OBVIOUS
  <2> HIDE DEF s
  <2> QED BY <2>1, <2>2, <2>3
<1>3. H(0) = 0 /\ H(2 * (n + m)) = n + m
  OBVIOUS
<1> HIDE DEF s
<1>4. Listened([last |-> d, ok |-> TRUE], s, f)
  <2>1. f[0] = [last |-> d, ok |-> TRUE] BY <1>3 DEF Lasts
  <2>2. ASSUME NEW i \in 1..(2 * (n + m)) PROVE f[i] = O!Listen(f[i - 1], s[i])
    <3> DEFINE j == H(i)
               k == H(i - 1)
    <3>0. j \in 1..(n + m) /\ (j = k \/ j = k + 1) /\ k \in Nat
      BY <1>1
    <3>1. f[i] = [last |-> Lasts(d, n, j), ok |-> TRUE] /\ f[i - 1] = [last |-> Lasts(d, n, k), ok |-> TRUE]
      OBVIOUS
    <3>5. s[i] = IF j <= n THEN d + j ELSE 0
      BY <1>0, <1>2, <3>0
    <3> HIDE DEF f, j, k
    <3>2. f[i - 1] \in Heard
      BY <3>0, <3>1 DEF Heard, Lasts
    <3>3. CASE j <= n
      <4>1. /\ s[i] = d + j /\ s[i] \in Nat /\ s[i] # 0 /\ Lasts(d, n, j) = d + j
            /\ Lasts(d, n, k) + 1 = s[i] \/ Lasts(d, n, k) = s[i]
        BY <3>0, <3>3, <3>5 DEF Lasts
      <4>2. O!InTurn(f[i - 1].last, s[i])
        BY <3>1, <4>1 DEF O!InTurn
      <4>3. f[i - 1].ok
        BY <3>1
      <4>4. O!Listen(f[i - 1], s[i]) = [last |-> s[i], ok |-> TRUE]
        BY <3>2, <4>1, <4>2, <4>3, HeardInTurn
      <4> QED BY <3>1, <4>1, <4>4
    <3>4. CASE j > n
      <4>1. s[i] = 0 /\ Lasts(d, n, j) = d + n /\ Lasts(d, n, k) = d + n
        BY <3>0, <3>4, <3>5 DEF Lasts
      <4> QED BY <3>1, <3>2, <4>1, ListenTyped
    <3> QED BY <3>0, <3>3, <3>4
  <2> QED BY <1>2, <2>1, <2>2 DEF Listened
<1>5. O!ListenTo([last |-> d, ok |-> TRUE], s) = f[2 * (n + m)]
  <2>1. [last |-> d, ok |-> TRUE] \in Heard BY DEF Heard
  <2> HIDE DEF f
  <2> QED BY <1>2, <1>4, <2>1, ListenEnds
<1>6. f[2 * (n + m)] = [last |-> d + n, ok |-> TRUE]
  <2>1. 2 * (n + m) \in 0..(2 * (n + m)) /\ Lasts(d, n, n + m) = d + n BY DEF Lasts
  <2> QED BY <1>3, <2>1
<1> QED BY <1>2, <1>5, <1>6 DEF s

OutSources == [track : Nat, decoded : 0..Frames, inp : {<<>>}, out : Seq(Nat)]
Callbacks == [playing : BOOLEAN, source : OutSources, volume : Volumes \cup {1}]
OutMessages ==
  [to : {"callback", "stream"}, m : {"Pause", "Resume"}, v : {0}]
    \cup [to : {"callback", "stream"}, m : {"SetVolume"}, v : Volumes]
    \cup [to : {"callback", "stream"}, m : {"PlaySource"}, v : Nat]

\* The source number v is in the messages.
Plays(messages, v) == \E i \in DOMAIN messages : messages[i].m = "PlaySource" /\ messages[i].v = v

\* What is left of a source after its frame last was heard follows in its turn, and what
\* it decodes next follows that.
Ahead(last, source) ==
  LET at == O!ListenTo([last |-> last, ok |-> TRUE], source.out)
  IN at.ok /\ (source.track # 0 => at.last = source.decoded)
SourceGood(last, source) ==
  /\ source \in OutSources /\ last \in Nat
  /\ source.track = 0 => source.decoded = Frames
  /\ chain # "resampled" => source.out = <<>>
  /\ Ahead(last, source)

\* A source that is new, and none at all, are good.
LEMMA FreshGood ==
  ASSUME NEW last \in Nat, NEW v \in Nat
  PROVE  /\ SourceGood(last, O!Empty)
         /\ v # 0 => SourceGood(0, O!Source(v))
<1>1. Frames \in Nat
  BY MCPlayerAssumption DEF O!OutputAssumption
<1>2. \A l \in Nat : O!ListenTo([last |-> l, ok |-> TRUE], <<>>) = [last |-> l, ok |-> TRUE]
  <2> TAKE l \in Nat
  <2>1. [last |-> l, ok |-> TRUE] \in Heard BY DEF Heard
  <2>2. O!Silence(0) = <<>> BY DEF O!Silence
  <2> QED BY <2>1, <2>2, SilenceIsNothing
<1>3. O!Empty = [track |-> 0, decoded |-> Frames, inp |-> <<>>, out |-> <<>>]
  BY DEF O!Empty, O!Source
<1>4. O!Source(v) = [track |-> v, decoded |-> 0, inp |-> <<>>, out |-> <<>>]
  BY DEF O!Source
<1> QED BY <1>1, <1>2, <1>3, <1>4 DEF SourceGood, Ahead, OutSources

\* What the callback is after it has taken its messages.
Took(cb, messages, new) ==
  /\ new \in Callbacks
  /\ \/ new.source \in {cb.source, O!Empty}
     \/ \E v \in Nat \ {0} : Plays(messages, v) /\ new.source = O!Source(v)

\* What one message, then a sequence of them, does to the callback.
LEMMA TakeTyped ==
  ASSUME NEW cb \in Callbacks, NEW msg \in OutMessages
  PROVE  /\ O!Take(cb, msg) \in Callbacks
         /\ \/ O!Take(cb, msg).source \in {cb.source, O!Empty}
            \/ msg.m = "PlaySource" /\ msg.v \in Nat \ {0} /\ O!Take(cb, msg).source = O!Source(msg.v)
<1>1. Frames \in Nat
  BY MCPlayerAssumption DEF O!OutputAssumption
<1>2. O!Empty \in OutSources
  <2>1. O!Empty = [track |-> 0, decoded |-> Frames, inp |-> <<>>, out |-> <<>>]
    BY DEF O!Empty, O!Source
  <2> QED BY <1>1, <2>1 DEF OutSources
<1>3. \A v \in Nat : O!Source(v) \in OutSources
  BY <1>1 DEF O!Source, OutSources
<1>4. CASE msg.m = "PlaySource"
  <2>1. msg.v \in Nat BY <1>4 DEF OutMessages
  <2>2. O!Take(cb, msg) = [cb EXCEPT !.source = IF msg.v = 0 THEN O!Empty ELSE O!Source(msg.v)]
    BY <1>4 DEF O!Take
  <2> QED BY <1>2, <1>3, <1>4, <2>1, <2>2 DEF Callbacks
<1>5. CASE msg.m = "SetVolume"
  <2>1. msg.v \in Volumes BY <1>5 DEF OutMessages
  <2>2. O!Take(cb, msg) = [cb EXCEPT !.volume = msg.v]
    BY <1>5 DEF O!Take
  <2> QED BY <2>1, <2>2 DEF Callbacks
<1>6. CASE msg.m = "Pause"
  <2>2. O!Take(cb, msg) = [cb EXCEPT !.playing = FALSE]
    BY <1>6 DEF O!Take
  <2> QED BY <2>2 DEF Callbacks
<1>7. CASE msg.m = "Resume"
  <2>2. O!Take(cb, msg) = [cb EXCEPT !.playing = TRUE]
    BY <1>7 DEF O!Take
  <2> QED BY <2>2 DEF Callbacks
<1> QED BY <1>4, <1>5, <1>6, <1>7 DEF OutMessages

LEMMA TakenAll ==
  ASSUME NEW cb \in Callbacks, NEW messages \in Seq(OutMessages)
  PROVE  Took(cb, messages, O!TakeAll(cb, messages))
<1> DEFINE n == Len(messages)
           step == [p \in (1..n) \X Callbacks |-> O!Take(p[2], messages[p[1]])]
<1>1. n \in Nat /\ DOMAIN messages = 1..n /\ \A i \in 1..n : messages[i] \in OutMessages
  OBVIOUS
<1>2. \A i \in 1..n, v \in Callbacks : step[<<i, v>>] = O!Take(v, messages[i])
      /\ step[<<i, v>>] \in Callbacks
  <2> TAKE i \in 1..n, v \in Callbacks
  <2>1. step[<<i, v>>] = O!Take(v, messages[i])
    OBVIOUS
  <2> QED BY <1>1, <2>1, TakeTyped
<1> HIDE DEF step, n
<1>3. PICK f \in [0..n -> Callbacks] : Recurs(f, n, cb, step)
  BY <1>1, <1>2, Recursion
<1>4. f[0] = cb /\ \A i \in 1..n : i - 1 \in 0..n /\ f[i] = O!Take(f[i - 1], messages[i])
  <2>1. \A i \in 1..n : i - 1 \in 0..n
    BY <1>1
  <2> QED BY <1>2, <1>3, <2>1 DEF Recurs
<1> DEFINE Is(k) == k = [i \in 0..n |-> IF i = 0 THEN cb ELSE O!Take(k[i - 1], messages[i])]
<1>5. Is(f)
  <2> DEFINE g(i) == IF i = 0 THEN cb ELSE O!Take(f[i - 1], messages[i])
  <2>1. \A i \in 0..n : i = 0 \/ i \in 1..n
    BY <1>1
  <2>2. \A i \in 0..n : f[i] = g(i)
    BY <1>4, <2>1
  <2>3. f = [i \in 0..n |-> f[i]]
    BY <1>3
  <2> HIDE DEF g
  <2>4. f = [i \in 0..n |-> g(i)]
    BY <2>2, <2>3
  <2> QED BY <2>4, Zenon DEF g
<1> DEFINE k == CHOOSE k : Is(k)
<1>6. Is(k) BY <1>5
<1>7. O!TakeAll(cb, messages) = k[n]
  BY Zenon DEF O!TakeAll, O!Over, n
<1> HIDE DEF k
<1>8. k[0] = cb /\ \A i \in 1..n : k[i] = O!Take(k[i - 1], messages[i])
  <2>1. k = [i \in 0..n |-> IF i = 0 THEN cb ELSE O!Take(k[i - 1], messages[i])]
    BY <1>6, Zenon
  <2> HIDE DEF Is
  <2>2. \A i \in 0..n : k[i] = IF i = 0 THEN cb ELSE O!Take(k[i - 1], messages[i])
    BY <2>1, Zenon
  <2>4. 0 \in 0..n /\ \A i \in 1..n : i \in 0..n /\ i # 0
    BY <1>1
  <2> QED BY <2>2, <2>4, Zenon
<1> HIDE DEF Is
<1> DEFINE T == {m \in Nat : m <= n => Took(cb, messages, k[m])}
<1>9. Nat \subseteq T
  <2>1. 0 \in T BY <1>8 DEF Took
  <2>2. \A m \in Nat : m \in T => m + 1 \in T
    <3> SUFFICES ASSUME NEW m \in Nat, Took(cb, messages, k[m]), m + 1 <= n
        PROVE Took(cb, messages, k[m + 1])
      BY <1>1
    <3>1. m + 1 \in 1..n /\ (m + 1) - 1 = m BY <1>1
    <3>2. k[m + 1] = O!Take(k[m], messages[m + 1]) BY <1>8, <3>1
    <3>3. messages[m + 1] \in OutMessages /\ m + 1 \in DOMAIN messages BY <1>1, <3>1
    <3>4. k[m] \in Callbacks BY DEF Took
    <3> DEFINE new == O!Take(k[m], messages[m + 1])
    <3>5. /\ new \in Callbacks
          /\ \/ new.source \in {k[m].source, O!Empty}
             \/ messages[m + 1].m = "PlaySource" /\ messages[m + 1].v \in Nat \ {0}
                /\ new.source = O!Source(messages[m + 1].v)
      BY <3>3, <3>4, TakeTyped
    <3> HIDE DEF new
    <3>6. CASE new.source \in {k[m].source, O!Empty}
      <4>1. Took(cb, messages, new) BY <3>5, <3>6 DEF Took
      <4> QED BY <3>2, <4>1 DEF new
    <3>7. CASE messages[m + 1].m = "PlaySource" /\ messages[m + 1].v \in Nat \ {0}
              /\ new.source = O!Source(messages[m + 1].v)
      <4>1. Plays(messages, messages[m + 1].v) BY <3>3, <3>7 DEF Plays
      <4>2. Took(cb, messages, new) BY <3>5, <3>7, <4>1 DEF Took
      <4> QED BY <3>2, <4>2 DEF new
    <3> QED BY <3>5, <3>6, <3>7
  <2> HIDE DEF T
  <2> QED BY <2>1, <2>2, Induction
<1> QED BY <1>1, <1>7, <1>9

-----------------------------------------------------------------------------
\* What the device is given, and what is left of the source, when the source writes.
Given(w) == SubSeq(w.out, 1, w.count) \o O!Silence(Period - w.count)

\* What is heard is in its turn, and what is left goes on from there.
Continues(last, source, w) ==
  LET at == O!ListenTo([last |-> last, ok |-> TRUE], Given(w)) IN
  /\ Given(w) \in Seq(Nat) /\ Len(Given(w)) = Period
  /\ at \in Heard /\ at.ok /\ SourceGood(at.last, w.left) /\ w.left.track = source.track

LEMMA NothingListened ==
  ASSUME NEW at \in Heard
  PROVE  <<>> \in Seq(Nat) /\ O!ListenTo(at, <<>>) = at
<1>1. O!Silence(0) = <<>> BY DEF O!Silence
<1> QED BY <1>1, SilenceIsNothing

\* A source that writes what it decodes, and silence behind it.
LEMMA WritesDecoded ==
  ASSUME NEW last, NEW source, SourceGood(last, source), source.out = <<>>,
         NEW n \in 0..(Frames - source.decoded), n <= Period, NEW w,
         Given(w) = Padded(source, n, Period - n),
         w.left = [source EXCEPT !.decoded = @ + n]
  PROVE  Continues(last, source, w)
<1>1. /\ Frames \in Nat /\ Period \in Nat /\ source \in OutSources /\ last \in Nat
         /\ source.decoded \in 0..Frames
      /\ source.track = 0 => source.decoded = Frames
  BY MCPlayerAssumption DEF O!OutputAssumption, SourceGood, OutSources
<1>2. n \in Nat /\ Period - n \in Nat /\ n + (Period - n) = Period /\ source.decoded \in Nat
      /\ source.decoded + n \in 0..Frames /\ (source.track = 0 => n = 0)
  BY <1>1
<1>3. [last |-> last, ok |-> TRUE] \in Heard
  BY <1>1 DEF Heard
<1>4. source.track # 0 => last = source.decoded
  BY <1>3, NothingListened DEF SourceGood, Ahead
<1> DEFINE d == IF source.track = 0 THEN last ELSE source.decoded
           out == Padded(source, n, Period - n)
<1>5. out \in Seq(Nat) /\ Len(out) = Period
  <2> DEFINE m == Period - n
  <2>0. m \in Nat /\ n + m = Period /\ out = Padded(source, n, m) BY <1>2
  <2> HIDE DEF out, m
  <2>1. Counts(out, source.decoded, n, m)
    BY <1>2, <2>0, DecodedInTurn
  <2> QED BY <2>0, <2>1 DEF Counts
<1>6. O!ListenTo([last |-> last, ok |-> TRUE], out) = [last |-> last + n, ok |-> TRUE]
  <2>1. CASE source.track # 0
    <3>1. O!ListenTo([last |-> source.decoded, ok |-> TRUE], out) = [last |-> source.decoded + n, ok |-> TRUE]
      BY <1>2, DecodedInTurn
    <3> HIDE DEF out
    <3> QED BY <1>4, <2>1, <3>1
  <2>2. CASE source.track = 0
    <3>1. n = 0 BY <1>2, <2>2
    <3>2. O!Decoded(source, 0) = <<>> BY DEF O!Decoded
    <3>3. out = O!Silence(Period)
      <4>1. O!Silence(Period) \in Seq(Nat) BY <1>1, <1>3, SilenceIsNothing
      <4>2. Period - 0 = Period BY <1>1
      <4>3. out = <<>> \o O!Silence(Period) BY <3>1, <3>2, <4>2 DEF Padded
      <4> QED BY <4>1, <4>3
    <3>4. last + n = last BY <1>1, <3>1
    <3> HIDE DEF out
    <3> QED BY <1>1, <1>3, <3>3, <3>4, SilenceIsNothing
  <2> QED BY <2>1, <2>2
<1>7. w.left.track = source.track /\ w.left.decoded = source.decoded + n /\ w.left.out = <<>>
      /\ w.left \in OutSources
  BY <1>1, <1>2 DEF OutSources
<1>8. SourceGood(last + n, w.left)
  <2>1. [last |-> last + n, ok |-> TRUE] \in Heard /\ last + n \in Nat
    BY <1>1, <1>2 DEF Heard
  <2>2. O!ListenTo([last |-> last + n, ok |-> TRUE], w.left.out) = [last |-> last + n, ok |-> TRUE]
    BY <1>7, <2>1, NothingListened
  <2>3. Ahead(last + n, w.left)
    BY <1>4, <1>7, <2>2 DEF Ahead
  <2> QED BY <1>1, <1>2, <1>7, <2>1, <2>3 DEF SourceGood
<1>9. [last |-> last + n, ok |-> TRUE] \in Heard
  BY <1>1, <1>2 DEF Heard
<1> HIDE DEF out
<1> QED BY <1>5, <1>6, <1>7, <1>8, <1>9 DEF Continues, out

\* A source that writes what is resampled: what was left of it, and a block more when
\* that is too little.
LEMMA WritesResampled ==
  ASSUME NEW last, NEW source, SourceGood(last, source), chain = "resampled",
         NEW old \in Seq(Nat), Len(old) = Period,
         NEW n \in 0..Block, n <= Frames - source.decoded
  PROVE  Continues(last, source, O!Resampled(source, old, n))
<1> DEFINE w == O!Resampled(source, old, n)
           start == [last |-> last, ok |-> TRUE]
           at1 == O!ListenTo(start, source.out)
           m == Block - n
           inp == Padded(source, n, m)
           enough == Len(source.out) >= Period
           fresh == IF enough THEN source.out ELSE source.out \o O!Process(inp)
           left == IF enough THEN source ELSE [source EXCEPT !.decoded = @ + n]
           kept == SubSeq(fresh, Period + 1, Len(fresh))
           given == SubSeq(fresh, 1, Period)
<1>1. w = [out |-> given, count |-> Period, left |-> [left EXCEPT !.out = kept]]
  BY Zenon DEF O!Resampled, O!Keep, Padded
<1>2. /\ Frames \in Nat /\ Period \in Nat /\ Block \in Nat /\ Period <= 2 * Block
      /\ source \in OutSources /\ last \in Nat /\ source.decoded \in 0..Frames
      /\ source.track \in Nat /\ source.out \in Seq(Nat) /\ Len(source.out) \in Nat
      /\ source.track = 0 => source.decoded = Frames
  BY MCPlayerAssumption DEF O!OutputAssumption, SourceGood, OutSources
<1>3. n \in Nat /\ m \in Nat /\ n + m = Block /\ source.decoded \in Nat
      /\ source.decoded + n \in 0..Frames /\ (source.track = 0 => n = 0)
  BY <1>2
<1>4. start \in Heard /\ at1 \in Heard /\ at1.ok /\ (source.track # 0 => at1.last = source.decoded)
  <2>1. start \in Heard BY <1>2 DEF Heard
  <2>2. at1 \in Heard BY <1>2, <2>1, NothingListened, ListenOn
  <2> HIDE DEF start
  <2> QED BY <2>1, <2>2 DEF SourceGood, Ahead, start
<1> DEFINE d == at1.last
<1>5. at1 = [last |-> d, ok |-> TRUE] /\ d \in Nat
  BY <1>4 DEF Heard
<1> HIDE DEF at1, start
<1> HIDE DEF m
<1>6. Counts(inp, source.decoded, n, m)
  BY <1>3, DecodedInTurn
<1> HIDE DEF inp
<1>7. Counts(inp, d, n, m)
  BY <1>3, <1>4, <1>6 DEF Counts
<1>75. d + n \in Nat BY <1>3, <1>5
<1> HIDE DEF d
<1>8. O!Process(inp) \in Seq(Nat) /\ Len(O!Process(inp)) = 2 * (n + m)
      /\ O!ListenTo(at1, O!Process(inp)) = [last |-> d + n, ok |-> TRUE]
  BY <1>3, <1>5, <1>7, ProcessedInTurn
<1> DEFINE ends == IF enough THEN d ELSE d + n
<1>9. /\ fresh \in Seq(Nat) /\ Len(fresh) >= Period
         /\ O!ListenTo(start, fresh) = [last |-> ends, ok |-> TRUE]
      /\ left \in OutSources /\ left.track = source.track /\ (left.track = 0 => left.decoded = Frames)
      /\ (left.track # 0 => ends = left.decoded)
  <2>1. CASE enough
    <3>1. fresh = source.out /\ left = source /\ ends = d BY <2>1
    <3>2. at1 = O!ListenTo(start, source.out) BY DEF at1
    <3>3. source.track # 0 => d = source.decoded BY <1>4 DEF d
    <3> HIDE DEF fresh, left, ends
    <3> QED BY <1>2, <1>5, <2>1, <3>1, <3>2, <3>3
  <2>2. CASE ~enough
    <3>1. fresh = source.out \o O!Process(inp) /\ left = [source EXCEPT !.decoded = @ + n]
          /\ ends = d + n BY <2>2
    <3>2. at1 = O!ListenTo(start, source.out) BY DEF at1
    <3>3. source.track # 0 => d = source.decoded BY <1>4 DEF d
    <3> HIDE DEF fresh, left, ends
    <3>4. O!ListenTo(start, fresh) = O!ListenTo(at1, O!Process(inp))
      BY <1>2, <1>4, <1>8, <3>1, <3>2, ListenOn, Zenon
    <3> DEFINE more == O!Process(inp)
    <3>5. more \in Seq(Nat) /\ Len(more) = 2 * Block
      BY <1>3, <1>8
    <3>6. fresh \in Seq(Nat) /\ Len(fresh) >= Period
      <4>1. fresh = source.out \o more BY <3>1
      <4> HIDE DEF more
      <4>2. fresh \in Seq(Nat) /\ Len(fresh) = Len(source.out) + Len(more)
        BY <1>2, <3>5, <4>1, ConcatProperties
      <4>3. \A a, b, p \in Nat : p <= b => a + b >= p
        OBVIOUS
      <4>4. Len(more) \in Nat /\ Period <= Len(more)
        BY <1>2, <3>5
      <4>5. Len(source.out) + Len(more) >= Period
        BY <1>2, <4>3, <4>4
      <4> QED BY <4>2, <4>5
    <3>7. left \in OutSources /\ left.track = source.track /\ left.decoded = source.decoded + n
      BY <1>2, <1>3, <3>1 DEF OutSources
    <3>8. O!ListenTo(start, fresh) = [last |-> ends, ok |-> TRUE]
      BY <1>8, <3>1, <3>4, Zenon
    <3>9. left.track # 0 => ends = left.decoded
      BY <3>1, <3>3, <3>7
    <3>10. left.track = 0 => left.decoded = Frames
      BY <1>2, <1>3, <3>7
    <3> QED BY <3>6, <3>7, <3>8, <3>9, <3>10, Zenon
  <2> QED BY <2>1, <2>2
<1>10. ends \in Nat
  BY <1>3, <1>5 DEF d
<1> HIDE DEF fresh, left, ends
<1>11. /\ given \in Seq(Nat) /\ Len(given) = Period /\ kept \in Seq(Nat) /\ fresh = given \o kept
  <2>1. Len(fresh) \in Nat /\ Period \in 0..Len(fresh)
    BY <1>2, <1>9
  <2>2. given \in Seq(Nat) /\ Len(given) = Period
    BY <1>2, <1>9, <2>1, SubSeqProperties
  <2>3. kept \in Seq(Nat)
    BY <1>2, <1>9, <2>1, SubSeqProperties
  <2>4. given \o kept = SubSeq(fresh, 1, Len(fresh))
    <3>1. 1 \in 1..(Len(fresh) + 1) /\ Period \in (1 - 1)..Len(fresh) /\ Len(fresh) \in Period..Len(fresh)
      BY <2>1
    <3> QED BY <1>9, <3>1, ConcatAdjacentSubSeq
  <2>5. SubSeq(fresh, 1, Len(fresh)) = fresh
    BY <1>9, SubSeqFull
  <2> QED BY <2>2, <2>3, <2>4, <2>5
<1> HIDE DEF given, kept
<1>12. Given(w) = given
  <2>1. w.out = given /\ w.count = Period BY <1>1
  <2>2. SubSeq(given, 1, Period) = given BY <1>11, SubSeqFull
  <2>3. Period - Period = 0 /\ O!Silence(0) = <<>> BY <1>2 DEF O!Silence
  <2>4. given \o <<>> = given BY <1>11, ConcatEmptySeq
  <2> HIDE DEF w
  <2> QED BY <2>1, <2>2, <2>3, <2>4 DEF Given
<1> DEFINE at == O!ListenTo(start, given)
<1>13. at \in Heard /\ O!ListenTo(at, kept) = [last |-> ends, ok |-> TRUE]
  BY <1>4, <1>9, <1>11, ListenOn
<1>14. at.ok
  BY <1>11, <1>13, OnceLost
<1>15. at = [last |-> at.last, ok |-> TRUE] /\ at.last \in Nat
  BY <1>13, <1>14 DEF Heard
<1> HIDE DEF at
<1>16. w.left.track = source.track /\ w.left.decoded = left.decoded /\ w.left.out = kept
       /\ w.left \in OutSources
  <2>1. w.left = [left EXCEPT !.out = kept] BY <1>1
  <2> HIDE DEF w
  <2> QED BY <1>9, <1>11, <2>1 DEF OutSources
<1> HIDE DEF w
<1>17. Ahead(at.last, w.left)
  <2>1. O!ListenTo([last |-> at.last, ok |-> TRUE], w.left.out) = [last |-> ends, ok |-> TRUE]
    BY <1>13, <1>15, <1>16
  <2> QED BY <1>9, <1>16, <2>1 DEF Ahead
<1>18. SourceGood(at.last, w.left)
  BY <1>9, <1>15, <1>16, <1>17 DEF SourceGood
<1> QED BY <1>11, <1>12, <1>13, <1>14, <1>16, <1>18 DEF Continues, at, start, w

\* Every chain but the stereo adapter fills the device's buffer in turn.
LEMMA Fills ==
  ASSUME chain \in {"direct", "mono", "resampled"}, NEW last, NEW source, SourceGood(last, source),
         NEW old \in Seq(Nat), Len(old) = Period,
         NEW n \in 0..O!Smaller(O!Asks, Frames - source.decoded)
  PROVE  Continues(last, source, O!Write(source, old, n))
<1> DEFINE w == O!Write(source, old, n)
<1>1. /\ Frames \in Nat /\ Period \in Nat /\ Block \in Nat /\ source.decoded \in 0..Frames
  BY MCPlayerAssumption DEF O!OutputAssumption, SourceGood, OutSources
<1>2. n \in Nat /\ n <= O!Asks /\ n \in 0..(Frames - source.decoded)
  BY <1>1 DEF O!Smaller, O!Asks
<1>3. CASE chain = "resampled"
  <2>1. w = O!Resampled(source, old, n) BY <1>3 DEF O!Write
  <2>2. n \in 0..Block /\ n <= Frames - source.decoded BY <1>1, <1>2, <1>3 DEF O!Asks
  <2>3. Continues(last, source, O!Resampled(source, old, n)) BY <1>3, <2>2, WritesResampled
  <2> QED BY <2>1, <2>3
<1>4. CASE chain # "resampled"
  <2>1. n <= Period /\ source.out = <<>>
    BY <1>1, <1>2, <1>4 DEF O!Asks, SourceGood
  <2> DEFINE a == O!Decoded(source, n)
  <2>2. a \in Seq(Nat) /\ Len(a) = n
    BY <1>1, <1>2 DEF O!Decoded
  <2>3. w.left = [source EXCEPT !.decoded = @ + n]
    BY <1>4 DEF O!Write, O!Direct, O!MonoMapped
  <2>4. Given(w) = Padded(source, n, Period - n)
    <3>1. CASE chain = "direct"
      <4>1. w.out = a \o SubSeq(old, n + 1, Len(old)) /\ w.count = n
        BY <2>2, <3>1 DEF O!Write, O!Direct, O!After
      <4> DEFINE rest == SubSeq(old, n + 1, Len(old))
      <4>2. rest \in Seq(Nat)
        BY <1>1, <1>2, SubSeqProperties
      <4> HIDE DEF a, rest, w
      <4>3. SubSeq(a \o rest, 1, n) = a
        BY <1>2, <2>2, <4>2
      <4> QED BY <4>1, <4>3 DEF Given, Padded, a, rest
    <3>2. CASE chain = "mono"
      <4>1. w.out = a \o O!Silence(Period - n) /\ w.count = n
        BY <3>2 DEF O!Write, O!Direct, O!MonoMapped
      <4> DEFINE rest == O!Silence(Period - n)
      <4>2. rest \in Seq(Nat)
        BY <1>1, <1>2, <2>1 DEF O!Silence
      <4> HIDE DEF a, rest, w
      <4>3. SubSeq(a \o rest, 1, n) = a
        BY <1>2, <2>2, <4>2
      <4> QED BY <4>1, <4>3 DEF Given, Padded, a, rest
    <3> QED BY <1>4, <3>1, <3>2
  <2> HIDE DEF w
  <2> QED BY <1>2, <2>1, <2>3, <2>4, WritesDecoded DEF w
<1> QED BY <1>3, <1>4

-----------------------------------------------------------------------------
\* The same, of a source in the state of the next step too.
Follows(last, source) ==
  /\ source \in OutSources /\ last \in Nat
  /\ source.track = 0 => source.decoded = Frames
  /\ chain # "resampled" => source.out = <<>>
  /\ \E f \in [0..Len(source.out) -> Heard] :
       /\ Listened([last |-> last, ok |-> TRUE], source.out, f) /\ f[Len(source.out)].ok
       /\ source.track # 0 => f[Len(source.out)].last = source.decoded

\* FollowsStill carries it over to the next state.
LEMMA FollowsIs ==
  ASSUME NEW last, NEW source
  PROVE  Follows(last, source) <=> SourceGood(last, source)
<1> SUFFICES ASSUME source \in OutSources, last \in Nat
    PROVE Follows(last, source) <=> SourceGood(last, source)
  BY DEF Follows, SourceGood
<1> DEFINE at == [last |-> last, ok |-> TRUE]
           n == Len(source.out)
<1>1. at \in Heard /\ source.out \in Seq(Nat)
  BY DEF Heard, OutSources
<1> HIDE DEF at
<1>2. \E f \in [0..n -> Heard] : Listened(at, source.out, f) /\ O!ListenTo(at, source.out) = f[n]
  BY <1>1, ListenIs
<1>3. \A f : Listened(at, source.out, f) => O!ListenTo(at, source.out) = f[n]
  BY <1>1, ListenEnds
<1> QED BY <1>2, <1>3, Zenon DEF Follows, SourceGood, Ahead, at

LEMMA FollowsStill ==
  ASSUME chain' = chain, Follows(heard', callback'.source)
  PROVE  Follows(heard, callback.source)'
BY DEF Follows, Listened, O!Listen, O!InTurn

\* The sources are numbered in the order in which they are played: what is still to be
\* sent follows what the callback has still to take, and that what it plays.
Numbered ==
  /\ \A v \in Nat : Plays(callback_recv, v) \/ Plays(sending, v) => v <= calls
  /\ \A v \in Nat \ {0} : Plays(callback_recv, v) \/ Plays(sending, v) => callback.source.track < v
  /\ \A u \in Nat, v \in Nat \ {0} : Plays(callback_recv, u) /\ Plays(sending, v) => u < v
  /\ \A i \in DOMAIN sending : sending[i].m = "PlaySource" => i = 1
  /\ calls \in Nat /\ callback.source.track <= calls

Carried ==
  sending \in Seq(OutMessages) /\ callback_recv \in Seq(OutMessages) /\ stream_recv \in Seq(OutMessages)
Sounding ==
  /\ callback \in Callbacks /\ buffer \in Seq(Nat) /\ Len(buffer) = Period
  /\ Follows(heard, callback.source)
OutInv == chain \in Chains \ {"stereo"} /\ in_order = TRUE /\ Carried /\ Sounding /\ Numbered

\* What the player may send in a call.
Sendable(messages) ==
  /\ messages \in Seq(OutMessages)
  /\ \A i \in DOMAIN messages : messages[i].m = "PlaySource" => i = 1 /\ messages[i].v \in {0, calls + 1}

\* The player calls: it numbers what it plays higher than all before.
LEMMA CallKeepsInv ==
  ASSUME OutInv, NEW messages, Sendable(messages), NEW wanted, O!Call(messages, wanted)
  PROVE  OutInv'
<1>1. /\ sending = <<>> /\ calls' = calls + 1 /\ sending' = messages
      /\ UNCHANGED <<chain, callback_recv, stream_recv, callback, buffer, heard, in_order>>
  BY DEF O!Call, O!device
<1>2. calls \in Nat /\ callback.source.track \in Nat /\ callback.source.track <= calls
  BY DEF OutInv, Numbered, Sounding, Callbacks, OutSources
<1>3. \A v : Plays(sending', v) => v \in {0, calls + 1}
  BY <1>1 DEF Plays, Sendable
<1>4. \A v : Plays(callback_recv, v)' <=> Plays(callback_recv, v)
  BY <1>1 DEF Plays
<1>5. \A v \in Nat : Plays(callback_recv, v) => v <= calls
  BY DEF OutInv, Numbered
<1>6. \A v \in Nat \ {0} : Plays(callback_recv, v) => callback.source.track < v
  BY DEF OutInv, Numbered
<1>7. \A v : Plays(sending, v)' => v \in {0, calls + 1}
  BY <1>1, <1>3 DEF Plays
<1>8. Numbered'
  <2>1. \A v \in Nat : Plays(callback_recv, v)' \/ Plays(sending, v)' => v <= calls'
    BY <1>1, <1>2, <1>4, <1>5, <1>7
  <2>2. \A v \in Nat \ {0} : Plays(callback_recv, v)' \/ Plays(sending, v)' => callback'.source.track < v
    BY <1>1, <1>2, <1>4, <1>6, <1>7
  <2>3. \A u \in Nat, v \in Nat \ {0} : Plays(callback_recv, u)' /\ Plays(sending, v)' => u < v
    BY <1>1, <1>2, <1>4, <1>5, <1>7
  <2>4. \A i \in DOMAIN sending' : sending'[i].m = "PlaySource" => i = 1
    BY <1>1 DEF Sendable
  <2> QED BY <1>1, <1>2, <2>1, <2>2, <2>3, <2>4 DEF Numbered
<1>9. Sounding'
  BY <1>1, FollowsStill DEF OutInv, Sounding
<1> QED BY <1>1, <1>8, <1>9 DEF OutInv, Carried, Sendable

LEMMA CommandsAreSendable ==
  ASSUME calls \in Nat
  PROVE  /\ Sendable(O!Play(calls + 1) \o O!Resume) /\ Sendable(O!Pause) /\ Sendable(O!Resume)
            /\ Sendable(O!Stop)
         /\ \A v \in Volumes : Sendable(O!SetVolume(v))
<1>1. /\ O!Pause \in Seq(OutMessages) /\ \A i \in DOMAIN O!Pause : O!Pause[i].m # "PlaySource"
      /\ O!Resume \in Seq(OutMessages) /\ \A i \in DOMAIN O!Resume : O!Resume[i].m # "PlaySource"
  <2>1. ASSUME NEW a \in OutMessages, NEW b \in OutMessages, a.m # "PlaySource", b.m # "PlaySource"
        PROVE  <<a, b>> \in Seq(OutMessages) /\ \A i \in DOMAIN <<a, b>> : <<a, b>>[i].m # "PlaySource"
    <3> DEFINE s == <<a, b>>
    <3>1. s \in Seq(OutMessages) /\ DOMAIN s = 1..2 /\ s[1] = a /\ s[2] = b
      OBVIOUS
    <3> HIDE DEF s
    <3>2. \A i \in 1..2 : i = 1 \/ i = 2
      OBVIOUS
    <3>3. \A i \in DOMAIN s : s[i].m # "PlaySource"
      BY <2>1, <3>1, <3>2, Zenon
    <3> QED BY <3>1, <3>3 DEF s
  <2>2. ASSUME NEW m \in {"Pause", "Resume"}
        PROVE  O!ToStream(m, 0) \in OutMessages /\ O!ToCallback(m, 0) \in OutMessages
               /\ O!ToStream(m, 0).m # "PlaySource" /\ O!ToCallback(m, 0).m # "PlaySource"
    BY DEF O!ToStream, O!ToCallback, OutMessages
  <2> QED BY <2>1, <2>2 DEF O!Pause, O!Resume
<1>2. ASSUME NEW v \in {0, calls + 1}, NEW rest \in Seq(OutMessages),
             \A i \in DOMAIN rest : rest[i].m # "PlaySource"
      PROVE  Sendable(O!Play(v) \o rest)
  <2> DEFINE first == O!Play(v)
             all == first \o rest
  <2>1. first \in Seq(OutMessages) /\ Len(first) = 1 /\ first[1].v = v
    BY <1>2 DEF O!Play, O!ToCallback, OutMessages
  <2> HIDE DEF first
  <2>0. all = first \o rest OBVIOUS
  <2> HIDE DEF all
  <2>2. /\ all \in Seq(OutMessages) /\ Len(all) = 1 + Len(rest)
        /\ \A i \in 1..(1 + Len(rest)) : all[i] = IF i <= 1 THEN first[i] ELSE rest[i - 1]
    <3>1. /\ all \in Seq(OutMessages) /\ Len(all) = Len(first) + Len(rest)
          /\ \A i \in 1..(Len(first) + Len(rest)) : all[i] = IF i <= Len(first) THEN first[i]
                                                           ELSE rest[i - Len(first)]
      BY <1>2, <2>0, <2>1, ConcatProperties, Zenon
    <3> QED BY <2>1, <3>1, Zenon
  <2>3. Len(rest) \in Nat /\ DOMAIN all = 1..(1 + Len(rest)) /\ DOMAIN rest = 1..Len(rest)
    BY <1>2, <2>2
  <2>4. ASSUME NEW i \in DOMAIN all, all[i].m = "PlaySource" PROVE i = 1 /\ all[i].v \in {0, calls + 1}
    <3>1. CASE i = 1
      BY <1>2, <2>1, <2>2, <2>3, <3>1
    <3>2. CASE i # 1
      <4>1. i - 1 \in DOMAIN rest /\ i \in 1..(1 + Len(rest)) /\ ~(i <= 1) BY <2>3, <3>2
      <4> QED BY <1>2, <2>2, <2>4, <4>1
    <3> QED BY <3>1, <3>2
  <2> QED BY <2>2, <2>4 DEF Sendable, all, first
<1>3. Sendable(O!Pause) /\ Sendable(O!Resume)
  BY <1>1 DEF Sendable
<1>4. Sendable(O!Play(calls + 1) \o O!Resume) /\ Sendable(O!Play(0) \o O!Pause)
  BY <1>1, <1>2
<1>5. Sendable(O!Stop)
  <2>1. CASE output = "cpal"
    BY <1>4, <2>1 DEF O!Stop
  <2>2. CASE output # "cpal"
    <3>1. <<>> \o O!Pause = O!Pause BY <1>1, ConcatEmptySeq
    <3> QED BY <1>3, <2>2, <3>1 DEF O!Stop
  <2> QED BY <2>1, <2>2
<1>6. ASSUME NEW v \in Volumes PROVE Sendable(O!SetVolume(v))
  <2>1. O!ToStream("SetVolume", v) \in OutMessages /\ O!ToCallback("SetVolume", v) \in OutMessages
        /\ O!ToStream("SetVolume", v).m # "PlaySource" /\ O!ToCallback("SetVolume", v).m # "PlaySource"
    BY <1>6 DEF O!ToStream, O!ToCallback, OutMessages
  <2>2. ASSUME NEW a \in OutMessages, a.m # "PlaySource" PROVE Sendable(<<a>>)
    BY <2>2 DEF Sendable
  <2> QED BY <2>1, <2>2 DEF O!SetVolume
<1> QED BY <1>3, <1>4, <1>5, <1>6

\* A message is sent, to the callback or to the stream.
LEMMA SendKeepsInv ==
  ASSUME OutInv, O!SendToCallback \/ O!SendToStream
  PROVE  OutInv'
<1> DEFINE m == Head(sending)
<1>1. /\ sending # <<>> /\ sending' = Tail(sending)
      /\ UNCHANGED <<chain, callback, buffer, heard, in_order, calls>>
      /\ \/ callback_recv' = Append(callback_recv, m) /\ stream_recv' = stream_recv
         \/ stream_recv' = Append(stream_recv, m) /\ callback_recv' = callback_recv
  BY DEF O!SendToCallback, O!SendToStream, O!device
<1>2. /\ Carried /\ calls \in Nat /\ callback.source.track \in Nat /\ callback.source.track <= calls
      /\ \A i \in DOMAIN sending : sending[i].m = "PlaySource" => i = 1
  BY DEF OutInv, Numbered, Sounding, Callbacks, OutSources
<1>3. /\ sending \in Seq(OutMessages) /\ m \in OutMessages /\ m = sending[1]
         /\ 1 \in DOMAIN sending /\ sending' \in Seq(OutMessages)
      /\ \A i \in DOMAIN sending' : i \in Nat /\ i >= 1 /\ i + 1 \in DOMAIN sending
         /\ sending'[i] = sending[i + 1]
  BY <1>1, <1>2 DEF Carried
<1>4. \A i \in DOMAIN sending' : sending'[i].m # "PlaySource"
  <2> SUFFICES ASSUME NEW i \in DOMAIN sending', sending'[i].m = "PlaySource" PROVE FALSE
    OBVIOUS
  <2>1. i \in Nat /\ i >= 1 /\ i + 1 = 1
    BY <1>2, <1>3
  <2> QED BY <2>1
<1>5. \A v : ~Plays(sending, v)'
  BY <1>4 DEF Plays
<1>6. \A v : Plays(callback_recv, v)' => Plays(callback_recv, v) \/ Plays(sending, v)
  <2> SUFFICES ASSUME NEW v, NEW i \in DOMAIN callback_recv', callback_recv'[i].m = "PlaySource",
                      callback_recv'[i].v = v
               PROVE  Plays(callback_recv, v) \/ Plays(sending, v)
    BY DEF Plays
  <2>1. CASE callback_recv' = callback_recv
    BY <2>1 DEF Plays
  <2>2. CASE callback_recv' = Append(callback_recv, m)
    <3>1. callback_recv \in Seq(OutMessages) BY <1>2 DEF Carried
    <3> HIDE DEF m
    <3>2. \/ i \in DOMAIN callback_recv /\ callback_recv'[i] = callback_recv[i]
          \/ callback_recv'[i] = m
      BY <1>3, <2>2, <3>1
    <3>3. CASE i \in DOMAIN callback_recv /\ callback_recv'[i] = callback_recv[i]
      BY <3>3 DEF Plays
    <3>4. CASE callback_recv'[i] = m
      BY <1>3, <3>4 DEF Plays
    <3> QED BY <3>2, <3>3, <3>4
  <2> QED BY <1>1, <2>1, <2>2
<1>7. Carried'
  <2>1. callback_recv \in Seq(OutMessages) /\ stream_recv \in Seq(OutMessages)
    BY <1>2 DEF Carried
  <2>2. Append(callback_recv, m) \in Seq(OutMessages) /\ Append(stream_recv, m) \in Seq(OutMessages)
    <3> HIDE DEF m
    <3> QED BY <1>3, <2>1
  <2> QED BY <1>1, <1>3, <2>1, <2>2 DEF Carried
<1>8. Numbered'
  <2>1. \A v \in Nat : Plays(callback_recv, v)' => v <= calls'
    BY <1>1, <1>6 DEF OutInv, Numbered
  <2>2. \A v \in Nat \ {0} : Plays(callback_recv, v)' => callback'.source.track < v
    BY <1>1, <1>6 DEF OutInv, Numbered
  <2> QED BY <1>1, <1>2, <1>4, <1>5, <2>1, <2>2 DEF Numbered
<1>9. Sounding'
  BY <1>1, FollowsStill DEF OutInv, Sounding
<1> QED BY <1>1, <1>7, <1>8, <1>9 DEF OutInv

\* The actor handles a message.
LEMMA StreamKeepsInv ==
  ASSUME OutInv, O!Handle
  PROVE  OutInv'
<1>1. /\ stream_recv # <<>> /\ stream_recv' = Tail(stream_recv)
      /\ UNCHANGED <<chain, sending, callback_recv, buffer, heard, in_order, calls>>
      /\ \/ callback' = callback
         \/ Head(stream_recv).m = "SetVolume"
            /\ callback' = [callback EXCEPT !.volume = Head(stream_recv).v]
  BY DEF O!Handle
<1>2. Carried /\ callback \in Callbacks
  BY DEF OutInv, Sounding
<1>3. stream_recv' \in Seq(OutMessages) /\ Head(stream_recv) \in OutMessages
  BY <1>1, <1>2 DEF Carried
<1>4. callback' \in Callbacks /\ callback'.source = callback.source
  <2>1. Head(stream_recv).m = "SetVolume" => Head(stream_recv).v \in Volumes
    BY <1>3 DEF OutMessages
  <2> QED BY <1>1, <1>2, <2>1 DEF Callbacks
<1>5. Carried'
  BY <1>1, <1>2, <1>3 DEF Carried
<1>6. Numbered'
  <2>1. Numbered BY DEF OutInv
  <2> QED BY <1>1, <1>4, <2>1 DEF Numbered, Plays
<1>7. Follows(heard, callback.source)'
  BY <1>1, <1>4, FollowsStill DEF OutInv, Sounding
<1> QED BY <1>1, <1>4, <1>5, <1>6, <1>7 DEF OutInv, Sounding

\* The device calls back: what it is given goes on where the source stood, or begins
\* with a source that is new.
LEMMA WriteKeepsInv ==
  ASSUME OutInv, O!WriteSamples
  PROVE  OutInv'
<1>1. PICK cb \in {O!TakeAll(callback, callback_recv)} :
        LET last == IF cb.source.track = callback.source.track THEN heard ELSE 0 IN
        IF cb.playing
        THEN \E n \in 0..O!Smaller(O!Asks, Frames - cb.source.decoded) :
             \E w \in {O!Write(cb.source, buffer, n)} :
               LET out == SubSeq(w.out, 1, w.count) \o O!Silence(Period - w.count)
                   at == O!ListenTo([last |-> last, ok |-> in_order], out) IN
               /\ callback' = [cb EXCEPT !.source = w.left] /\ buffer' = out
               /\ heard' = at.last /\ in_order' = at.ok
        ELSE callback' = cb /\ buffer' = O!Silence(Period) /\ heard' = last /\ UNCHANGED in_order
  BY Zenon DEF O!WriteSamples
<1>2. callback_recv' = <<>> /\ UNCHANGED <<chain, sending, stream_recv, calls>>
  BY DEF O!WriteSamples
<1>3. /\ Carried /\ callback \in Callbacks /\ buffer \in Seq(Nat) /\ Len(buffer) = Period /\ in_order = TRUE
      /\ SourceGood(heard, callback.source) /\ heard \in Nat /\ chain \in {"direct", "mono", "resampled"}
  <2>1. chain \in {"direct", "mono", "resampled"}
    BY MCPlayerAssumption DEF O!OutputAssumption, OutInv
  <2>2. Follows(heard, callback.source)
    BY DEF OutInv, Sounding
  <2> QED BY <2>1, <2>2, FollowsIs DEF OutInv, Sounding, SourceGood
<1> DEFINE last == IF cb.source.track = callback.source.track THEN heard ELSE 0
<1>4. Took(callback, callback_recv, cb)
  BY <1>1, <1>3, TakenAll DEF Carried
<1>5. cb \in Callbacks /\ last \in Nat
  BY <1>3, <1>4 DEF Took
<1>6. SourceGood(last, cb.source)
  <2>1. CASE cb.source = callback.source
    BY <1>3, <2>1
  <2>2. CASE cb.source = O!Empty
    BY <1>5, <2>2, FreshGood
  <2>3. ASSUME NEW v \in Nat \ {0}, Plays(callback_recv, v), cb.source = O!Source(v)
        PROVE SourceGood(last, cb.source)
    <3>1. callback.source.track < v /\ callback.source.track \in Nat
      BY <1>3, <2>3 DEF OutInv, Numbered, Callbacks, OutSources
    <3>2. cb.source.track = v
      BY <2>3 DEF O!Source
    <3>3. last = 0
      BY <3>1, <3>2
    <3> QED BY <2>3, <3>3, FreshGood
  <2> QED BY <1>4, <2>1, <2>2, <2>3 DEF Took
<1>7. /\ \A v \in Nat \ {0} : Plays(sending, v) => cb.source.track < v
      /\ cb.source.track <= calls
  <2>1. Numbered BY DEF OutInv
  <2>2. CASE cb.source = callback.source
    BY <2>1, <2>2 DEF Numbered
  <2>3. CASE cb.source = O!Empty
    <3>1. cb.source.track = 0 BY <2>3 DEF O!Empty, O!Source
    <3> QED BY <2>1, <3>1 DEF Numbered
  <2>4. ASSUME NEW v \in Nat \ {0}, Plays(callback_recv, v), cb.source = O!Source(v) 
        PROVE  (\A u \in Nat \ {0} : Plays(sending, u) => cb.source.track < u) /\ cb.source.track <= calls
    <3>1. cb.source.track = v BY <2>4 DEF O!Source
    <3> QED BY <2>1, <2>4, <3>1 DEF Numbered
  <2> QED BY <1>4, <2>2, <2>3, <2>4 DEF Took
<1> HIDE DEF last
<1>8. /\ callback' \in Callbacks /\ callback'.source.track = cb.source.track
      /\ buffer' \in Seq(Nat) /\ Len(buffer') = Period
      /\ SourceGood(heard', callback'.source) /\ in_order' = TRUE
  <2>1. CASE ~cb.playing
    <3>1. callback' = cb /\ buffer' = O!Silence(Period) /\ heard' = last /\ in_order' = TRUE
      BY <1>1, <1>3, <2>1 DEF last
    <3>2. O!Silence(Period) \in Seq(Nat) /\ Len(O!Silence(Period)) = Period
      <4>1. [last |-> 0, ok |-> TRUE] \in Heard /\ Period \in Nat
        BY MCPlayerAssumption DEF Heard, O!OutputAssumption
      <4> QED BY <4>1, SilenceIsNothing
    <3> QED BY <1>5, <1>6, <3>1, <3>2
  <2>2. CASE cb.playing
    <3>0. PICK n \in 0..O!Smaller(O!Asks, Frames - cb.source.decoded) :
            \E w \in {O!Write(cb.source, buffer, n)} :
            LET at == O!ListenTo([last |-> last, ok |-> in_order], Given(w)) IN
            /\ callback' = [cb EXCEPT !.source = w.left] /\ buffer' = Given(w)
            /\ heard' = at.last /\ in_order' = at.ok
      BY <1>1, <2>2, Zenon DEF last, Given
    <3>1. PICK w \in {O!Write(cb.source, buffer, n)} :
            LET at == O!ListenTo([last |-> last, ok |-> in_order], Given(w)) IN
            /\ callback' = [cb EXCEPT !.source = w.left] /\ buffer' = Given(w)
            /\ heard' = at.last /\ in_order' = at.ok
      BY <3>0, Zenon
    <3>2. Continues(last, cb.source, w)
      BY <1>3, <1>6, <3>1, Fills
    <3>3. in_order = TRUE
      BY <1>3
    <3>4. /\ callback' = [cb EXCEPT !.source = w.left] /\ buffer' = Given(w)
          /\ heard' = O!ListenTo([last |-> last, ok |-> TRUE], Given(w)).last
          /\ in_order' = O!ListenTo([last |-> last, ok |-> TRUE], Given(w)).ok
      BY <3>1, <3>3, Zenon
    <3>5. /\ Given(w) \in Seq(Nat) /\ Len(Given(w)) = Period /\ in_order' = TRUE
          /\ SourceGood(heard', w.left) /\ w.left.track = cb.source.track /\ w.left \in OutSources
      BY <3>2, <3>4 DEF Continues, SourceGood, Heard
    <3>6. callback' \in Callbacks /\ callback'.source = w.left
      BY <1>5, <3>4, <3>5 DEF Callbacks
    <3> QED BY <3>4, <3>5, <3>6
  <2> QED BY <2>1, <2>2
<1>9. Follows(heard, callback.source)'
  BY <1>2, <1>8, FollowsIs, FollowsStill
<1>10. Numbered'
  <2>1. \A v : ~Plays(callback_recv, v)'
    BY <1>2 DEF Plays
  <2>2. \A v : Plays(sending, v)' <=> Plays(sending, v)
    BY <1>2 DEF Plays
  <2>3. Numbered BY DEF OutInv
  <2> QED BY <1>2, <1>7, <1>8, <2>1, <2>2, <2>3 DEF Numbered
<1>11. Carried'
  BY <1>2, <1>3 DEF Carried
<1> QED BY <1>2, <1>8, <1>9, <1>10, <1>11 DEF OutInv, Sounding

\* The stereo adapter says that it has written what it has not (the README lists it).
LEMMA OutInvariance == O!Spec /\ chain # "stereo" => []OutInv
<1>1. O!Init /\ chain # "stereo" => OutInv
  <2> SUFFICES ASSUME O!Init, chain # "stereo" PROVE OutInv
    OBVIOUS
  <2>1. Period \in Nat /\ Frames \in Nat
    BY MCPlayerAssumption DEF O!OutputAssumption
  <2>2. buffer \in Seq(Nat) /\ Len(buffer) = Period
    <3>1. [last |-> 0, ok |-> TRUE] \in Heard
      BY DEF Heard
    <3> QED BY <2>1, <3>1, SilenceIsNothing DEF O!Init
  <2>3. callback \in Callbacks /\ callback.source.track = 0
    <3>1. O!Empty = [track |-> 0, decoded |-> Frames, inp |-> <<>>, out |-> <<>>]
      BY DEF O!Empty, O!Source
    <3> QED BY <2>1, <3>1 DEF O!Init, Callbacks, OutSources
  <2>4. Follows(heard, callback.source)
    <3>1. SourceGood(0, O!Empty) BY FreshGood
    <3> QED BY <3>1, FollowsIs DEF O!Init
  <2>5. Numbered
    BY <2>3 DEF O!Init, Numbered, Plays
  <2> QED BY <2>2, <2>3, <2>4, <2>5 DEF O!Init, OutInv, Sounding, Carried
<1>2. OutInv /\ [O!Next]_(O!vars) => OutInv'
  <2> SUFFICES ASSUME OutInv, [O!Next]_(O!vars) PROVE OutInv'
    OBVIOUS
  <2>1. CASE UNCHANGED O!vars
    <3>1. UNCHANGED <<chain, sending, callback_recv, stream_recv, callback, buffer, heard, in_order, calls>>
      BY <2>1 DEF O!vars
    <3>2. Follows(heard, callback.source)'
      BY <3>1, FollowsStill DEF OutInv, Sounding
    <3> QED BY <3>1, <3>2 DEF OutInv, Sounding, Carried, Numbered, Plays
  <2>2. CASE O!PlayTrack \/ O!PauseTrack \/ O!ResumeTrack \/ O!StopTrack \/ O!ChangeVolume
    <3>1. calls \in Nat BY DEF OutInv, Numbered
    <3> QED BY <2>2, <3>1, CommandsAreSendable, CallKeepsInv
        DEF O!PlayTrack, O!PauseTrack, O!ResumeTrack, O!StopTrack, O!ChangeVolume
  <2>3. CASE O!SendToCallback \/ O!SendToStream
    BY <2>3, SendKeepsInv
  <2>4. CASE O!Handle
    BY <2>4, StreamKeepsInv
  <2>5. CASE O!WriteSamples
    BY <2>5, WriteKeepsInv
  <2> QED BY <2>1, <2>2, <2>3, <2>4, <2>5 DEF O!Next
<1> QED BY <1>1, <1>2, PTL DEF O!Spec

\* Every frame of a source is heard in its turn, whatever the sizes of the device's
\* period, of the resampler's block and of the channels, however messages and callbacks
\* interleave and wherever a source is replaced: none is left out at the boundary of
\* two buffers, none is heard twice (ResampledSource::write, the mono adapters, and
\* StreamCallback::write_samples of audio/output).
THEOREM FramesInTurn ==
  O!Spec /\ chain # "stereo" => []HeardInOrder
<1>1. OutInv => HeardInOrder
  BY DEF OutInv, HeardInOrder, O!HeardInOrder
<1> QED BY <1>1, OutInvariance, PTL
=============================================================================
