------------------------------ MODULE PlayQueue -----------------------------
(***************************************************************************)
(* The play queue as the native player's handlers drive it: every command  *)
(* that reaches the queue, and the end of a track.  A handler that finds   *)
(* no current item stops the player, and stop() clears the queue           *)
(* (spotix-core/src/player/mod.rs).  Crossfades are in module Player.      *)
(***************************************************************************)
EXTENDS QueueOps

CONSTANTS
  Lists,         \* the playlists a command may carry
  MaxTracks,     \* bound on the length of the playlist
  MaxUserItems   \* bound on the tracks the user queues between two loads

ASSUME ListsAssumption == Lists \subseteq Seq(Item)
ASSUME BoundsAssumption == MaxTracks \in Nat /\ MaxUserItems \in Nat

VARIABLES
  q,        \* Player::queue
  alive     \* FALSE once a queue operation has panicked on the player thread

vars == <<q, alive>>

TypeOK == q \in QueueType /\ alive \in BOOLEAN

Init == q = EmptyQueue /\ alive = TRUE

\* The player thread runs a queue operation with the given possible results.
Run(results) ==
  /\ alive
  /\ IF results = {} THEN alive' = FALSE /\ UNCHANGED q
     ELSE q' \in results /\ UNCHANGED alive

\* Mutant of OrStopped: stop() does not clear the queue.
OrStoppedUncleared(results) == results

\* What load_queue, next, previous and handle_end_of_track leave behind.
OrStopped(results) ==
  {IF Current(r) = NoItem THEN Clear(r) ELSE r : r \in results}

\* Room for a track that waits and for the one that is about to be moved.
HasRoom == Len(q.items) + Len(q.user_items) - q.user_items_position < MaxTracks

LoadQueue(items, position) == Run(OrStopped(Fill(q, items, position)))
ReplaceQueue(items) == Run(Replace(q, items))
AddToQueue(item) ==
  HasRoom /\ Len(q.user_items) < MaxUserItems /\ Run({Add(q, item)})
AddNextTrack(item) == HasRoom /\ Run({AddNext(q, item)})
SetQueueBehavior(behavior) == Run(SetBehaviour(q, behavior))
NextTrack == Run(OrStopped(SkipToNext(q)))
PreviousTrack == Run(OrStopped({SkipToPrevious(q)}))
EndOfTrack == Run(OrStopped(SkipToFollowing(q)))
Stop == Run({Clear(q)})

\* The user interface sends positions inside the list it sends.
Positions(items) == IF items = <<>> THEN {1} ELSE DOMAIN items

Next ==
  \/ \E items \in Lists :
       \/ ReplaceQueue(items)
       \/ \E position \in Positions(items) : LoadQueue(items, position)
  \/ \E item \in Item : AddToQueue(item) \/ AddNextTrack(item)
  \/ \E behavior \in Behavior : SetQueueBehavior(behavior)
  \/ NextTrack \/ PreviousTrack \/ EndOfTrack \/ Stop

Spec == Init /\ [][Next]_vars
-----------------------------------------------------------------------------
\* Every playlist entry is played exactly once per pass: the play order is a
\* permutation of the playlist, through shuffles, insertions and queued tracks.
PlayOrderIsPermutation == IsPlayOrder(q)

\* The current position is inside the play order unless the queue is empty,
\* so no operation leaves a queue the next index operation would panic on.
PositionInPlayOrder ==
  IF q.items = <<>> THEN q.position = 1 ELSE q.position \in DOMAIN q.positions

\* The only operation that panics is a skip with LoopAll on an empty queue.
OnlyEmptyLoopAllPanics ==
  [][~alive' => q.items = <<>> /\ q.behavior = "LoopAll"]_alive

\* Queueing a track, or leaving shuffle, never changes the current track.
Queues == \E i \in Item : q' \in {Add(q, i), AddNext(q, i)}
LeavesShuffle == q'.behavior # q.behavior /\ q'.behavior # "Random"

CurrentTrackKept ==
  [][Current(q) # NoItem /\ (Queues \/ LeavesShuffle)
       => Current(q') = Current(q)]_q

\* What is preloaded and crossfaded into is what the queue then moves to, as
\* long as the user queued no track.
FollowingIsNext ==
  (q.items # <<>> /\ q.user_items = <<>>) =>
     \A r \in SkipToFollowing(q) : Current(r) = Following(q)

\* The queue implements the promise of PlayOrder, and each command does what is
\* promised of it: no skip drops a track that is still to come or waits, and no
\* change of mode loses or repeats one.
PlayedOrder == [k \in DOMAIN q.positions |-> q.items[q.positions[k]]]

Promise == INSTANCE PlayOrder WITH
  played   <- SubSeq(PlayedOrder, 1, q.position - 1),
  upcoming <- SubSeq(PlayedOrder, q.position, Len(q.positions)),
  queued   <- SubSeq(q.user_items, q.user_items_position + 1, Len(q.user_items))

CommandsKeepPromise ==
  /\ \A item \in Item : /\ AddToQueue(item) => Promise!Enqueue(item)
                        /\ AddNextTrack(item) => Promise!PlayNext(item)
  /\ \A behavior \in Behavior : SetQueueBehavior(behavior) /\ alive' => Promise!Reorder
  /\ NextTrack /\ alive' => Promise!Onward
  /\ PreviousTrack => Promise!Backward
  /\ EndOfTrack /\ alive' => Promise!Onward \/ Promise!Repeat

ImplementsPlayOrder == Promise!Spec /\ [][CommandsKeepPromise]_vars
-----------------------------------------------------------------------------
\* Statements of the source that the code does not keep.

\* queue.rs:82-83 says a queued track "plays immediately on the next skip".
QueuedTrackAlwaysPlaysNext ==
  HasPendingUserItem(q) => \A r \in SkipToNext(q) : Current(r) = PendingUserItem(q)

\* queue.rs:109-111 says a shuffle swaps "the current position with the first
\* item": the track that plays stays current when the queue is shuffled.
ShuffleKeepsCurrent ==
  Current(q) # NoItem =>
    \A r \in SetBehaviour(q, "Random") : Current(r) = Current(q)
=============================================================================
