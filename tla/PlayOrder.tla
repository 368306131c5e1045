------------------------------ MODULE PlayOrder -----------------------------
(***************************************************************************)
(* What a play queue promises, without indexes: the tracks already played, *)
(* the tracks to come (the first of them is the current one) and the       *)
(* tracks the user queued that wait for their turn.  Between two loads no  *)
(* track is lost or duplicated, only a change of mode reorders tracks, and *)
(* queued tracks are taken in the order they were queued, each directly    *)
(* behind the current track.                                               *)
(***************************************************************************)
EXTENDS Naturals, Sequences, SequencesExt

CONSTANT Item

VARIABLES played, upcoming, queued

vars == <<played, upcoming, queued>>

Init == played = <<>> /\ upcoming = <<>> /\ queued = <<>>

\* "upcoming" once the first queued track, if any, is directly behind the
\* current one, and what is then left of "queued".
Pulled == IF queued = <<>> THEN upcoming
          ELSE <<Head(upcoming), Head(queued)>> \o Tail(upcoming)
Left == IF queued = <<>> THEN <<>> ELSE Tail(queued)

Enqueue(i) == queued' = Append(queued, i) /\ UNCHANGED <<played, upcoming>>

PlayNext(i) ==
  /\ upcoming' = IF upcoming = <<>> THEN <<i>>
                 ELSE <<Head(upcoming), i>> \o Tail(upcoming)
  /\ UNCHANGED <<played, queued>>

Advance ==
  /\ Len(upcoming) >= 1 /\ Len(Pulled) >= 2
  /\ played' = Append(played, Head(Pulled))
  /\ upcoming' = Tail(Pulled)
  /\ queued' = Left

Repeat ==
  /\ upcoming # <<>>
  /\ upcoming' = Pulled
  /\ queued' = Left
  /\ UNCHANGED played

\* The end of a track that is no longer in the queue (it was cleared).
StartQueued ==
  /\ upcoming = <<>> /\ queued # <<>>
  /\ upcoming' = <<Head(queued)>>
  /\ queued' = Tail(queued)
  /\ UNCHANGED played

StartOver ==
  /\ Len(upcoming) = 1 /\ queued = <<>>
  /\ played' = <<>>
  /\ upcoming' = played \o upcoming
  /\ UNCHANGED queued

Back ==
  /\ played # <<>>
  /\ played' = Front(played)
  /\ upcoming' = <<Last(played)>> \o upcoming
  /\ UNCHANGED queued

Reorder ==
  /\ ToBag(played' \o upcoming') = ToBag(played \o upcoming)
  /\ upcoming # <<>> => upcoming' # <<>>
  /\ UNCHANGED queued

\* A new playlist: whatever is current in it, nothing is queued any more.
Load == upcoming' # <<>> /\ queued' = <<>>

Empty == played' = <<>> /\ upcoming' = <<>> /\ queued' = <<>>

Next ==
  \/ \E i \in Item : Enqueue(i) \/ PlayNext(i)
  \/ Advance \/ Repeat \/ StartQueued \/ StartOver \/ Back \/ Reorder \/ Load \/ Empty

Spec == Init /\ [][Next]_vars

\* What a single command may do: a skip takes the next track whenever there is one,
\* and only ends or starts over behind the last; a skip back stays at the first.
HasNext == upcoming # <<>> /\ Len(upcoming) + Len(queued) >= 2
Onward == IF HasNext THEN Advance ELSE StartQueued \/ StartOver \/ Empty
Backward ==
  IF played # <<>> THEN Back ELSE UNCHANGED vars \/ (upcoming = <<>> /\ Empty)
=============================================================================
