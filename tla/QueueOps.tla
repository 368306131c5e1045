------------------------------ MODULE QueueOps ------------------------------
(***************************************************************************)
(* The play queue of the player thread (spotix-core/src/player/queue.rs),  *)
(* as operators on one record.                                             *)
(*                                                                         *)
(* The queue keeps the playlist ("items", in the order they were given),   *)
(* the order in which to play it ("positions", indexes into items), the    *)
(* place of the current item in that order ("position"), and the tracks    *)
(* the user queued, of which the first "user_items_position" have already  *)
(* been moved into the playlist.                                           *)
(*                                                                         *)
(* Indexes are 1-based here: a model index i stands for i - 1 in the code. *)
(* An operation that the code may leave by a panic, or by a random         *)
(* shuffle, is the SET of its possible results; the empty set is a panic.  *)
(***************************************************************************)
EXTENDS Naturals, Sequences, SequencesExt

CONSTANTS
  Item,     \* the playback items
  NoItem    \* stands for Option::None where an item is expected

ASSUME NoItemAssumption == NoItem \notin Item

Behavior == {"Sequential", "Random", "LoopTrack", "LoopAll"}

EmptyQueue ==
  [items |-> <<>>, user_items |-> <<>>, position |-> 1,
   user_items_position |-> 0, positions |-> <<>>, behavior |-> "Sequential"]

Smaller(a, b) == IF a <= b THEN a ELSE b

\* clear(): everything but the behaviour goes.
Clear(q) == [EmptyQueue EXCEPT !.behavior = q.behavior]

\* get_current(): NoItem when the position is past the end.
Current(q) ==
  IF q.position \in DOMAIN q.positions
    THEN q.items[q.positions[q.position]]
    ELSE NoItem

\* The play orders of n items that start with item "first".
ShuffledFrom(first, n) ==
  {s \in [1..n -> 1..n] : s[1] = first /\ IsInjective(s)}

\* compute_positions(): an ordered play order, or under Random a shuffle whose
\* first entry is the OLD position (not the playlist position of the current
\* item).  An out-of-range index panics.
ComputePositions(q) ==
  LET n == Len(q.items)
      ordered == [i \in 1..n |-> i]
      indexed == Len(q.positions) > 1
      playlistPosition == IF indexed THEN q.positions[q.position] ELSE q.position
  IN IF \/ indexed /\ q.position > Len(q.positions)
        \/ q.behavior = "Random" /\ n > 1 /\ q.position > n
       THEN {}
     ELSE IF q.behavior # "Random"
       THEN {[q EXCEPT !.positions = ordered, !.position = playlistPosition]}
     ELSE {[q EXCEPT !.positions = s, !.position = 1] :
             s \in IF n > 1 THEN ShuffledFrom(q.position, n) ELSE {ordered}}

\* Mutant of Filled: the play order of the old list survives.
FilledKeepingOrder(q, items, position) ==
  [q EXCEPT !.items = items, !.position = position]

\* fill(items, position)
Filled(q, items, position) ==
  [Clear(q) EXCEPT !.items = items, !.position = position]

Fill(q, items, position) == ComputePositions(Filled(q, items, position))

\* replace(items): the first entry equal to the current item stays current,
\* else the first of the list becomes current.
Replace(q, items) ==
  LET kept == {i \in DOMAIN items : items[i] = Current(q)}
      position == IF kept = {} THEN 1
                  ELSE CHOOSE i \in kept : \A j \in kept : i <= j
  IN Fill(q, items, position)

\* add(item)
Add(q, item) == [q EXCEPT !.user_items = Append(@, item)]

\* Mutant of InsertAfterCurrent: the index of the last item before the push.
InsertStaleIndex(q, item) ==
  [q EXCEPT !.items = Append(@, item),
            !.positions = InsertAt(@, Smaller(q.position, Len(@)) + 1, Len(q.items))]

\* Mutant of InsertAfterCurrent: inserted at the current position.
InsertAtCurrent(q, item) ==
  [q EXCEPT !.items = Append(@, item),
            !.positions = InsertAt(@, IF @ = <<>> THEN 1 ELSE Smaller(q.position, Len(@)),
                                   Len(q.items) + 1)]

\* items.push(item) and its index inserted right after the current position.
InsertAfterCurrent(q, item) ==
  [q EXCEPT !.items = Append(@, item),
            !.positions = InsertAt(@, Smaller(q.position, Len(@)) + 1,
                                   Len(q.items) + 1)]

\* add_next(item)
AddNext(q, item) ==
  [InsertAfterCurrent(q, item) EXCEPT
     !.position = IF q.positions = <<>> THEN 1 ELSE @]

\* Is a track the user queued still to be moved into the playlist?
HasPendingUserItem(q) == Len(q.user_items) > q.user_items_position
PendingUserItem(q) == q.user_items[q.user_items_position + 1]

\* Mutant of HandleAddedQueue: the queued track is not counted as taken.
QueueAgain(q) ==
  IF HasPendingUserItem(q) THEN InsertAfterCurrent(q, PendingUserItem(q)) ELSE q

\* handle_added_queue()
HandleAddedQueue(q) ==
  IF HasPendingUserItem(q)
    THEN [InsertAfterCurrent(q, PendingUserItem(q)) EXCEPT
            !.user_items_position = @ + 1]
    ELSE q

\* set_behaviour(behavior)
SetBehaviour(q, behavior) == ComputePositions([q EXCEPT !.behavior = behavior])

\* previous_position(), next_position(), following_position().  The last two
\* are sets: with LoopAll they divide by items.len(), which panics at zero.
PreviousPosition(q) == IF q.position > 1 THEN q.position - 1 ELSE 1

WrappedPosition(q) ==
  IF q.items = <<>> THEN {} ELSE {(q.position % Len(q.items)) + 1}

NextPosition(q) ==
  IF q.behavior = "LoopAll" THEN WrappedPosition(q) ELSE {q.position + 1}

\* Mutant of FollowingPosition: every mode wraps around.
FollowingWraps(q) == WrappedPosition(q)

FollowingPosition(q) ==
  CASE q.behavior = "LoopAll"   -> WrappedPosition(q)
    [] q.behavior = "LoopTrack" -> {q.position}
    [] OTHER                    -> {q.position + 1}

MoveTo(q, targets) == {[q EXCEPT !.position = p] : p \in targets}

SkipToPrevious(q) == [q EXCEPT !.position = PreviousPosition(q)]

SkipToNext(q) ==
  LET added == HandleAddedQueue(q) IN MoveTo(added, NextPosition(added))

SkipToFollowing(q) ==
  LET added == HandleAddedQueue(q) IN MoveTo(added, FollowingPosition(added))

\* Mutants of Following: it ignores LoopTrack, or does not look ahead.
FollowingByNext(q) ==
  LET ahead == {p \in NextPosition(q) : p \in DOMAIN q.positions}
  IN IF q.items # <<>> /\ ahead # {}
       THEN LET p == CHOOSE x \in ahead : TRUE IN q.items[q.positions[p]]
     ELSE IF q.user_items # <<>> THEN q.user_items[1]
     ELSE NoItem

FollowingIsCurrent(q) == Current(q)

\* get_following(): what will be preloaded and crossfaded into.  It looks at
\* the play order first and then at the FIRST track the user ever queued.
Following(q) ==
  LET next == FollowingPosition(q)
      ahead == {p \in next : p \in DOMAIN q.positions}
  IN IF q.items # <<>> /\ ahead # {}
       THEN LET p == CHOOSE x \in ahead : TRUE IN q.items[q.positions[p]]
     ELSE IF q.user_items # <<>> THEN q.user_items[1]
     ELSE NoItem

\* Every playlist entry is in the play order exactly once.
IsPlayOrder(q) ==
  /\ Len(q.positions) = Len(q.items)
  /\ IsInjective(q.positions)
  /\ \A k \in DOMAIN q.positions : q.positions[k] \in DOMAIN q.items

QueueType ==
  [items : Seq(Item), user_items : Seq(Item), position : Nat \ {0},
   user_items_position : Nat, positions : Seq(Nat \ {0}), behavior : Behavior]
=============================================================================
