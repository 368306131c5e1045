----------------------------- MODULE QueueMirror -----------------------------
(***************************************************************************)
(* The lists of the user interface: the queue it believes the player has   *)
(* (Playback::queue), the tracks the user queued (AppState::added_queue),  *)
(* and the queue panel that shows both and offers to edit them.  Pure      *)
(* operators; indexes are 1-based, 0 stands for None.                      *)
(***************************************************************************)
EXTENDS Naturals, Sequences, SequencesExt

\* position(): the first place of an item.
IndexIn(list, item) == SelectInSeq(list, LAMBDA entry : entry = item)

Larger(m, n) == IF m >= n THEN m ELSE n

-----------------------------------------------------------------------------
(* What the panel shows (ui/playback.rs).                                  *)

\* The entries before the current one.
Before(queue, now) == IndexIn(queue, now) - IF now \in ToSet(queue) THEN 1 ELSE 0

\* queue_entries()
PanelEntries(queue, added, now) ==
  SubSeq(queue, Before(queue, now) + 1, Len(queue)) \o added

\* to_queue_rows(): the index a row carries in its commands.
AbsoluteIndex(queue, now, row) ==
  LET base == Before(queue, now)
      upcoming == Len(queue) - base
  IN IF row <= upcoming THEN base + row ELSE Len(queue) + (row - upcoming)

\* build_queue_panel_rows(): can the row be removed?  can_drag: or moved?
Removable(entries, now, row) ==
  IF now = entries[row] THEN row # IndexIn(entries, now)
  ELSE now \in ToSet(entries) \/ row > 1

Draggable(entries, now, row) == entries[row] # now

-----------------------------------------------------------------------------
(* The edits (controller/playback.rs), on the two lists joined.            *)

\* The number of entries in front of the place an entry is dropped at: not
\* before the track that plays.
ReorderSlot(now, from, to, after) ==
  LET slot == IF after THEN to ELSE to - 1
  IN IF from > now /\ to > now THEN slot ELSE Larger(slot, now)

\* reorder_queue()
Reordered(list, now, from, to, after) ==
  IF from > Len(list) \/ to > Len(list) \/ from = now THEN list
  ELSE LET rest == RemoveAt(list, from)
           slot == ReorderSlot(now, from, to, after)
           target == IF slot > from - 1 THEN slot - 1 ELSE slot
           place == IF target > Len(rest) THEN Len(rest) ELSE target
       IN InsertAt(rest, place + 1, list[from])

\* remove_from_queue(): is the entry there, and not played yet?
CanRemove(list, now, index) == index <= Len(list) /\ index > now

\* insert_next_entries()
InsertedNext(queue, now, entries) ==
  LET at == IF now \in ToSet(queue) THEN IndexIn(queue, now) ELSE Len(queue)
  IN SubSeq(queue, 1, at) \o entries \o SubSeq(queue, at + 1, Len(queue))
=============================================================================
