--------------------------- MODULE PlayQueueProofs --------------------------
(***************************************************************************)
(* Proofs about PlayQueue, for all items, playlists and bounds: the play   *)
(* order stays a permutation of the playlist, the position stays inside    *)
(* it, the only panic is the one of an empty queue under LoopAll, and the  *)
(* queue implements PlayOrder: each of its steps is a step of the promise, *)
(* or a stutter.  Then, about PlaybackView: the lists of the user          *)
(* interface know what the player has, and the snapshot is of what is      *)
(* shown.                                                                  *)
(***************************************************************************)
EXTENDS MCPlayback, QueueLemmas, FiniteSetTheorems

\* The inductive invariant: the position inside the play order is what keeps
\* the index operations of compute_positions() from panicking, and a play
\* order as long as the playlist is what keeps the position valid in it.
Good(r) == WellFormed(r) /\ Placed(r)

Inv == alive \in BOOLEAN /\ Good(q)

\* A handler that finds no current item stops, and leaves an empty queue.
LEMMA OrStoppedGood ==
  ASSUME NEW S, \A r \in S : WellFormed(r)
  PROVE  \A r \in OrStopped(S) : Good(r)
<1> SUFFICES ASSUME NEW r \in S
             PROVE  Good(IF Current(r) = NoItem THEN Clear(r) ELSE r)
  BY DEF OrStopped
<1>1. WellFormed(r)  OBVIOUS
<1>2. CASE Current(r) = NoItem
  <2>1. r.behavior \in Behavior  BY <1>1, WellFormedFacts
  <2> QED  BY <1>2, <2>1, ClearWellFormed DEF Good
<1>3. CASE Current(r) # NoItem
  <2>1. r.position \in DOMAIN r.positions  BY <1>1, <1>3, CurrentItem
  <2>2. r.items # <<>>  BY <1>1, <2>1, WellFormedFacts
  <2> QED  BY <1>1, <1>3, <2>1, <2>2 DEF Good, Placed
<1> QED  BY <1>2, <1>3

\* A handler whose queue operation has only good results keeps the invariant.
LEMMA RunKeepsInv ==
  ASSUME Inv, NEW S, \A r \in S : Good(r), Run(S)
  PROVE  Inv'
BY DEF Inv, Run, Good, WellFormed, Placed

\* A skip panics only with LoopAll on an empty queue.
LEMMA SkipPanics ==
  ASSUME WellFormed(q), SkipToNext(q) = {} \/ SkipToFollowing(q) = {}
  PROVE  q.items = <<>> /\ q.behavior = "LoopAll"
<1> DEFINE added == HandleAddedQueue(q)
<1>1. /\ added.behavior = q.behavior
      /\ added.items = <<>> => q.items = <<>>
  <2>1. CASE HasPendingUserItem(q)
    <3> DEFINE r == InsertAfterCurrent(q, PendingUserItem(q))
    <3>1. PendingUserItem(q) \in Item
      BY <2>1, WellFormedFacts DEF HasPendingUserItem, PendingUserItem
    <3>2. r.items = Append(q.items, PendingUserItem(q)) /\ r.behavior = q.behavior
      BY DEF InsertAfterCurrent, WellFormed, QueueType
    <3>3. WellFormed(r)  BY <3>1, InsertAfterCurrentWellFormed
    <3>4. added = [r EXCEPT !.user_items_position = r.user_items_position + 1]
      BY <2>1 DEF HandleAddedQueue
    <3>5. Append(q.items, PendingUserItem(q)) # <<>>
      <4>1. q.items \in Seq(Item)  BY DEF WellFormed, QueueType
      <4> QED  BY <3>1, <4>1, AppendProperties
    <3> HIDE DEF r
    <3>6. added.items = r.items /\ added.behavior = r.behavior
      BY <3>3, <3>4 DEF WellFormed, QueueType
    <3> QED  BY <3>2, <3>5, <3>6
  <2>2. CASE ~HasPendingUserItem(q)  BY <2>2 DEF HandleAddedQueue
  <2> QED  BY <2>1, <2>2
<1>2. NextPosition(added) = {} \/ FollowingPosition(added) = {}
  BY DEF SkipToNext, SkipToFollowing, MoveTo
<1>3. added.behavior = "LoopAll" /\ WrappedPosition(added) = {}
  BY <1>2 DEF NextPosition, FollowingPosition
<1>4. added.items = <<>>  BY <1>3 DEF WrappedPosition
<1> QED  BY <1>1, <1>3, <1>4

\* A step keeps the invariant, and a panic is the one that is known.
LEMMA StepKeepsInv ==
  ASSUME Inv, Next
  PROVE  /\ Inv'
         /\ ~alive' => q.items = <<>> /\ q.behavior = "LoopAll"
<1>1. WellFormed(q) /\ Placed(q) /\ q.behavior \in Behavior
  BY WellFormedFacts DEF Inv, Good
<1> DEFINE Panics(S) == S = {}
           Keeps(S) == /\ \A r \in S : Good(r)
                       /\ Panics(S) => q.items = <<>> /\ q.behavior = "LoopAll"
<1>2. ASSUME NEW S, Keeps(S), Run(S)
      PROVE  /\ Inv'
             /\ ~alive' => q.items = <<>> /\ q.behavior = "LoopAll"
  BY <1>2, RunKeepsInv DEF Run
<1>3. ASSUME NEW S, \A r \in S : WellFormed(r),
             S = {} => q.items = <<>> /\ q.behavior = "LoopAll"
      PROVE  Keeps(OrStopped(S))
  <2>1. OrStopped(S) = {} => S = {}  BY DEF OrStopped
  <2> QED  BY <1>3, <2>1, OrStoppedGood
<1>4. ASSUME NEW items \in Lists, ReplaceQueue(items)
      PROVE  Keeps(Replace(q, items))
  <2>1. PICK position \in Nat \ {0} :
          /\ Replace(q, items) = Fill(q, items, position)
          /\ IF items = <<>> THEN position = 1 ELSE position \in DOMAIN items
    BY ListsAssumption, ReplaceIsFill
  <2>2. items \in Seq(Item)  BY ListsAssumption
  <2> QED  BY <1>1, <2>1, <2>2, FillWellFormed, FillPlaced DEF Good
<1>5. ASSUME NEW items \in Lists, NEW position \in Positions(items),
             LoadQueue(items, position)
      PROVE  Keeps(OrStopped(Fill(q, items, position)))
  <2>1. /\ items \in Seq(Item) /\ position \in Nat \ {0}
        /\ IF items = <<>> THEN position = 1 ELSE position \in DOMAIN items
    BY ListsAssumption DEF Positions
  <2>2. Fill(q, items, position) # {}  BY <1>1, <2>1, FillPlaced
  <2>3. \A r \in Fill(q, items, position) : WellFormed(r)
    BY <1>1, <2>1, FillWellFormed
  <2> QED  BY <1>3, <2>2, <2>3
<1>6. ASSUME NEW item \in Item
      PROVE  Keeps({Add(q, item)}) /\ Keeps({AddNext(q, item)})
  BY <1>1, AddWellFormed, AddNextWellFormed DEF Good
<1>7. ASSUME NEW behavior \in Behavior
      PROVE  Keeps(SetBehaviour(q, behavior))
  BY <1>1, SetBehaviourWellFormed DEF Good
<1>8. Keeps(OrStopped(SkipToNext(q)))
  BY <1>1, <1>3, SkipsWellFormed, SkipPanics
<1>9. Keeps(OrStopped(SkipToFollowing(q)))
  BY <1>1, <1>3, SkipsWellFormed, SkipPanics
<1>10. Keeps(OrStopped({SkipToPrevious(q)}))
  BY <1>1, <1>3, SkipsWellFormed
<1>11. Keeps({Clear(q)})
  BY <1>1, ClearWellFormed DEF Good
<1> HIDE DEF Keeps
<1> QED
  BY <1>2, <1>4, <1>5, <1>6, <1>7, <1>8, <1>9, <1>10, <1>11
  DEF Next, ReplaceQueue, LoadQueue, AddToQueue, AddNextTrack, SetQueueBehavior,
      NextTrack, PreviousTrack, EndOfTrack, Stop

LEMMA Invariance == Spec => []Inv
<1>1. Init => Inv
  <2>1. EmptyQueue.behavior \in Behavior /\ Clear(EmptyQueue) = EmptyQueue
    BY DEF EmptyQueue, Clear, Behavior
  <2> QED  BY <2>1, ClearWellFormed DEF Init, Inv, Good
<1>2. Inv /\ [Next]_vars => Inv'
  <2> SUFFICES ASSUME Inv, [Next]_vars PROVE Inv'  OBVIOUS
  <2>1. CASE Next  BY <2>1, StepKeepsInv
  <2>2. CASE UNCHANGED vars
    BY <2>2 DEF vars, Inv, Good, WellFormed, Placed
  <2> QED  BY <2>1, <2>2
<1> QED  BY <1>1, <1>2, PTL DEF Spec

\* The queue has its type in every reachable state.
THEOREM TypeCorrect == Spec => []TypeOK
<1>1. Inv => TypeOK  BY DEF Inv, Good, WellFormed, TypeOK
<1> QED  BY <1>1, Invariance, PTL

\* Whatever is loaded, shuffled, queued and skipped, every playlist entry is in
\* the play order exactly once (Queue::positions stays a permutation).
THEOREM PlayOrderStaysPermutation == Spec => []PlayOrderIsPermutation
<1>1. Inv => PlayOrderIsPermutation
  BY DEF Inv, Good, WellFormed, PlayOrderIsPermutation
<1> QED  BY <1>1, Invariance, PTL

\* The current position never leaves the play order of a queue that has tracks.
THEOREM PositionStaysInPlayOrder == Spec => []PositionInPlayOrder
<1>1. Inv => PositionInPlayOrder
  BY DEF Inv, Good, Placed, PositionInPlayOrder
<1> QED  BY <1>1, Invariance, PTL

\* The player thread panics in a queue operation only when a skip meets an empty
\* queue in the LoopAll mode.
THEOREM PanicsOnlyOnEmptyLoopAll == Spec => OnlyEmptyLoopAllPanics
<1>1. Inv /\ [Next]_vars
        => [~alive' => q.items = <<>> /\ q.behavior = "LoopAll"]_alive
  <2> SUFFICES ASSUME Inv, [Next]_vars, alive' # alive, ~alive'
               PROVE  q.items = <<>> /\ q.behavior = "LoopAll"
    OBVIOUS
  <2>1. Next  BY DEF vars
  <2> QED  BY <2>1, StepKeepsInv
<1> QED  BY <1>1, Invariance, PTL DEF Spec, OnlyEmptyLoopAllPanics
-----------------------------------------------------------------------------
(***************************************************************************)
(* The refinement of PlayOrder.                                            *)
(***************************************************************************)
\* The refinement mapping, for any queue.
Order(r) == [k \in DOMAIN r.positions |-> r.items[r.positions[k]]]
Played(r) == SubSeq(Order(r), 1, r.position - 1)
Upcoming(r) == SubSeq(Order(r), r.position, Len(r.positions))
Waiting(r) == SubSeq(r.user_items, r.user_items_position + 1, Len(r.user_items))

\* No more tracks were taken than the user queued.
Taken(r) == r.user_items_position <= Len(r.user_items)

-----------------------------------------------------------------------------
LEMMA OrderIsSeq ==
  ASSUME NEW r, WellFormed(r)
  PROVE  /\ Order(r) \in Seq(Item) /\ Len(Order(r)) = Len(r.items)
         /\ Len(r.positions) = Len(r.items) /\ Len(r.items) \in Nat
         /\ \A k \in 1..Len(r.items) : Order(r)[k] = r.items[r.positions[k]] /\ Order(r)[k] \in Item
<1> DEFINE n == Len(r.items)
<1>1. /\ n \in Nat /\ DOMAIN r.positions = 1..n /\ Len(r.positions) = n
      /\ \A k \in 1..n : r.items[r.positions[k]] \in Item
  BY WellFormedFacts
<1>2. Order(r) \in [1..n -> Item]
  BY <1>1 DEF Order
<1> QED  BY <1>1, <1>2 DEF Order

\* The mapping of a queue that has tracks.
LEMMA PartsOfOrder ==
  ASSUME NEW r, WellFormed(r), r.position \in 1..Len(r.items)
  PROVE  /\ Played(r) \in Seq(Item) /\ Len(Played(r)) = r.position - 1
         /\ \A k \in 1..(r.position - 1) : Played(r)[k] = Order(r)[k]
         /\ Upcoming(r) \in Seq(Item) /\ Len(Upcoming(r)) = Len(r.items) - r.position + 1
         /\ \A k \in 1..(Len(r.items) - r.position + 1) :
              Upcoming(r)[k] = Order(r)[r.position + k - 1]
<1>1. /\ \A k \in 1..(r.position - 1) : Order(r)[k] \in Item
      /\ \A k \in r.position..Len(r.positions) : Order(r)[k] \in Item
      /\ r.position \in Int /\ Len(r.positions) = Len(r.items) /\ Len(r.items) \in Nat
  BY OrderIsSeq
<1>2. /\ Played(r) \in Seq(Item) /\ Len(Played(r)) = r.position - 1
      /\ \A k \in 1..(r.position - 1) : Played(r)[k] = Order(r)[k]
  <2>1. /\ SubSeq(Order(r), 1, r.position - 1) \in Seq(Item)
        /\ Len(SubSeq(Order(r), 1, r.position - 1)) =
             IF 1 <= r.position - 1 THEN r.position - 1 - 1 + 1 ELSE 0
        /\ \A k \in 1..(r.position - 1 - 1 + 1) :
             SubSeq(Order(r), 1, r.position - 1)[k] = Order(r)[1 + k - 1]
    BY <1>1, SubSeqProperties
  <2> QED  BY <1>1, <2>1 DEF Played
<1>3. /\ Upcoming(r) \in Seq(Item)
      /\ Len(Upcoming(r)) = IF r.position <= Len(r.positions)
                              THEN Len(r.positions) - r.position + 1 ELSE 0
      /\ \A k \in 1..(Len(r.positions) - r.position + 1) :
           Upcoming(r)[k] = Order(r)[r.position + k - 1]
  BY <1>1, SubSeqProperties, SMTT(30) DEF Upcoming
<1> QED  BY <1>1, <1>2, <1>3

\* The mapping of an empty queue.
LEMMA PartsOfNothing ==
  ASSUME NEW r, WellFormed(r), r.items = <<>>, r.position = 1
  PROVE  Played(r) = <<>> /\ Upcoming(r) = <<>>
<1>1. Len(r.positions) = 0
  BY WellFormedFacts
<1> QED  BY <1>1, SubSeqEmpty DEF Played, Upcoming

LEMMA GoodPosition ==
  ASSUME NEW r, Good(r), r.items # <<>>
  PROVE  r.position \in 1..Len(r.items)
BY WellFormedFacts DEF Good, Placed

\* Both parts together are the play order.
LEMMA PartsMakeOrder ==
  ASSUME NEW r, Good(r)
  PROVE  Played(r) \o Upcoming(r) = Order(r)
<1>1. CASE r.items = <<>>
  <2>1. Played(r) = <<>> /\ Upcoming(r) = <<>>
    BY <1>1, PartsOfNothing DEF Good, Placed
  <2>2. Order(r) \in Seq(Item) /\ Len(Order(r)) = 0
    BY <1>1, OrderIsSeq DEF Good
  <2> QED  BY <2>1, <2>2
<1>2. CASE r.items # <<>>
  <2>1. r.position \in 1..Len(r.items)
    BY <1>2, GoodPosition
  <2>2. /\ Order(r) \in Seq(Item) /\ Len(Order(r)) = Len(r.items)
        /\ Len(r.positions) = Len(r.items) /\ Len(r.items) \in Nat
    BY OrderIsSeq DEF Good
  <2>3. SubSeq(Order(r), 1, r.position - 1) \o SubSeq(Order(r), (r.position - 1) + 1, Len(r.items))
          = SubSeq(Order(r), 1, Len(r.items))
    <3>1. /\ 1 \in 1..(Len(Order(r)) + 1) /\ r.position - 1 \in (1 - 1)..Len(Order(r))
          /\ Len(r.items) \in (r.position - 1)..Len(Order(r))
      BY <2>1, <2>2
    <3> QED  BY <2>2, <3>1, ConcatAdjacentSubSeq
  <2>4. (r.position - 1) + 1 = r.position
    BY <2>1
  <2> QED  BY <2>2, <2>3, <2>4, SubSeqFull DEF Played, Upcoming
<1> QED  BY <1>1, <1>2

\* w is o with a new element at place i.
Grown(S, o, w, n, i, item) ==
  /\ o \in Seq(S) /\ Len(o) = n /\ w \in Seq(S) /\ Len(w) = n + 1 /\ i \in 1..(n + 1)
  /\ \A k \in 1..(n + 1) : k < i => w[k] = o[k]
  /\ w[i] = item
  /\ \A k \in 1..(n + 1) : k > i => w[k] = o[k - 1]

\* Cut in two at p, the first halves agree and item is second in the other one of w.
CutGrown(S, o, w, n, p, item) ==
  /\ SubSeq(w, 1, p - 1) = SubSeq(o, 1, p - 1)
  /\ SubSeq(o, p, n) \in Seq(S) /\ SubSeq(o, p, n) # <<>>
  /\ SubSeq(w, p, n + 1) = <<Head(SubSeq(o, p, n)), item>> \o Tail(SubSeq(o, p, n))

LEMMA CutAtInsertion ==
  ASSUME NEW S, NEW n \in Nat, NEW p \in 1..n, NEW item \in S,
         NEW o, NEW w, Grown(S, o, w, n, p + 1, item)
  PROVE  CutGrown(S, o, w, n, p, item)
<1> DEFINE u == SubSeq(o, p, n)
           v == SubSeq(w, p, n + 1)
           h == o[p]
           t == SubSeq(o, p + 1, n)
           two == <<h, item>>
<1>0. /\ o \in Seq(S) /\ Len(o) = n /\ w \in Seq(S) /\ Len(w) = n + 1
      /\ \A k \in 1..(n + 1) : k < p + 1 => w[k] = o[k]
      /\ w[p + 1] = item
      /\ \A k \in 1..(n + 1) : k > p + 1 => w[k] = o[k - 1]
  BY DEF Grown
<1>1. \A k \in 1..n : o[k] \in S
  BY <1>0, ElementOfSeq
<1>2. \A k \in 1..(n + 1) : w[k] \in S
  BY <1>0, ElementOfSeq
<1>3. SubSeq(w, 1, p - 1) = SubSeq(o, 1, p - 1)
  <2>1. /\ SubSeq(o, 1, p - 1) \in Seq(S) /\ Len(SubSeq(o, 1, p - 1)) = p - 1
        /\ \A k \in 1..(p - 1) : SubSeq(o, 1, p - 1)[k] = o[k]
    <3>1. /\ SubSeq(o, 1, p - 1) \in Seq(S)
          /\ Len(SubSeq(o, 1, p - 1)) = IF 1 <= p - 1 THEN p - 1 - 1 + 1 ELSE 0
          /\ \A k \in 1..(p - 1 - 1 + 1) : SubSeq(o, 1, p - 1)[k] = o[1 + k - 1]
      BY <1>1, SubSeqProperties
    <3> QED  BY <3>1
  <2>2. /\ SubSeq(w, 1, p - 1) \in Seq(S) /\ Len(SubSeq(w, 1, p - 1)) = p - 1
        /\ \A k \in 1..(p - 1) : SubSeq(w, 1, p - 1)[k] = w[k]
    <3>1. /\ SubSeq(w, 1, p - 1) \in Seq(S)
          /\ Len(SubSeq(w, 1, p - 1)) = IF 1 <= p - 1 THEN p - 1 - 1 + 1 ELSE 0
          /\ \A k \in 1..(p - 1 - 1 + 1) : SubSeq(w, 1, p - 1)[k] = w[1 + k - 1]
      BY <1>2, SubSeqProperties
    <3> QED  BY <3>1
  <2>3. \A k \in 1..(p - 1) : SubSeq(w, 1, p - 1)[k] = SubSeq(o, 1, p - 1)[k]
    BY <1>0, <2>1, <2>2
  <2> QED  BY <2>1, <2>2, <2>3, SeqEqual
<1>4. /\ u \in Seq(S) /\ u # <<>> /\ Head(u) = h /\ Tail(u) = t
  <2>1. u \in Seq(S) /\ Len(u) = n - p + 1
    BY <1>1, SubSeqProperties
  <2>2. p \in 1..Len(o) /\ n \in p..Len(o)
    BY <1>0
  <2>3. Head(u) = h /\ Tail(u) = t
    BY <1>0, <2>2, HeadTailOfSubSeq
  <2>4. n - p + 1 # 0 /\ Len(<<>>) = 0
    OBVIOUS
  <2> HIDE DEF u, h, t
  <2> QED  BY <2>1, <2>3, <2>4
<1>5. /\ v \in Seq(S) /\ Len(v) = n + 2 - p
      /\ \A k \in 1..(n + 2 - p) : v[k] = w[p + k - 1]
  <2>1. /\ v \in Seq(S) /\ Len(v) = IF p <= n + 1 THEN n + 1 - p + 1 ELSE 0
        /\ \A k \in 1..(n + 1 - p + 1) : v[k] = w[p + k - 1]
    BY <1>2, SubSeqProperties
  <2>2. n + 1 - p + 1 = n + 2 - p /\ p <= n + 1
    OBVIOUS
  <2> HIDE DEF v
  <2> QED  BY <2>1, <2>2
<1>6. /\ t \in Seq(S) /\ Len(t) = n - p
      /\ \A k \in 1..(n - p) : t[k] = o[p + k]
  <2>1. /\ t \in Seq(S) /\ Len(t) = IF p + 1 <= n THEN n - (p + 1) + 1 ELSE 0
        /\ \A k \in 1..(n - (p + 1) + 1) : t[k] = o[(p + 1) + k - 1]
    BY <1>1, SubSeqProperties
  <2>2. n - (p + 1) + 1 = n - p /\ \A k \in 1..(n - p) : (p + 1) + k - 1 = p + k
    OBVIOUS
  <2> HIDE DEF t
  <2> QED  BY <2>1, <2>2
<1>7. two \in Seq(S) /\ Len(two) = 2 /\ two[1] = h /\ two[2] = item
  BY <1>0, <1>1
<1> HIDE DEF two, t, v
<1>8. /\ two \o t \in Seq(S) /\ Len(two \o t) = n + 2 - p
      /\ \A k \in 1..(n + 2 - p) : (two \o t)[k] = IF k <= 2 THEN two[k] ELSE t[k - 2]
  <2>1. /\ two \o t \in Seq(S) /\ Len(two \o t) = Len(two) + Len(t)
        /\ \A k \in 1..(Len(two) + Len(t)) :
             (two \o t)[k] = IF k <= Len(two) THEN two[k] ELSE t[k - Len(two)]
    BY <1>6, <1>7, ConcatProperties
  <2>2. Len(two) + Len(t) = n + 2 - p
    BY <1>6, <1>7
  <2> QED  BY <1>7, <2>1, <2>2
<1>9. ASSUME NEW k \in 1..(n + 2 - p) PROVE v[k] = (two \o t)[k]
  <2>1. v[k] = w[p + k - 1] /\ (two \o t)[k] = IF k <= 2 THEN two[k] ELSE t[k - 2]
    BY <1>5, <1>8
  <2>2. CASE k = 1
    <3>1. p + k - 1 = p /\ w[p] = o[p]
      BY <1>0, <2>2
    <3> QED  BY <1>7, <2>1, <2>2, <3>1
  <2>3. CASE k = 2
    <3>1. p + k - 1 = p + 1
      BY <2>3
    <3> QED  BY <1>0, <1>7, <2>1, <2>3, <3>1
  <2>4. CASE k > 2
    <3>1. p + k - 1 \in 1..(n + 1) /\ p + k - 1 > p + 1 /\ (p + k - 1) - 1 = p + (k - 2)
          /\ k - 2 \in 1..(n - p)
      BY <2>4
    <3>2. w[p + k - 1] = o[p + (k - 2)]
      BY <1>0, <3>1
    <3>3. t[k - 2] = o[p + (k - 2)]
      BY <1>6, <3>1
    <3> QED  BY <2>1, <2>4, <3>2, <3>3
  <2>5. k = 1 \/ k = 2 \/ k > 2
    OBVIOUS
  <2> QED  BY <2>2, <2>3, <2>4, <2>5
<1>10. v = two \o t
  BY <1>5, <1>8, <1>9, SeqEqual
<1> QED  BY <1>3, <1>4, <1>10 DEF two, v, CutGrown

\* The play order with one more track in it.
LEMMA InsertedOrder ==
  ASSUME NEW r, Good(r), NEW item \in Item, NEW s, s = InsertAfterCurrent(r, item),
         NEW n, n = Len(r.items), NEW i, i = IF n = 0 THEN 1 ELSE r.position + 1
  PROVE  /\ WellFormed(s) /\ s.position = r.position /\ Len(s.items) = n + 1
         /\ s.behavior = r.behavior /\ s.user_items = r.user_items
         /\ s.user_items_position = r.user_items_position
         /\ Grown(Item, Order(r), Order(s), n, i, item)
<1>1. /\ WellFormed(r) /\ n \in Nat /\ Len(r.positions) = n /\ r.position \in Nat \ {0}
      /\ r.positions \in Seq(Nat \ {0}) /\ r.items \in Seq(Item) /\ r \in QueueType
      /\ \A k \in 1..n : r.positions[k] \in 1..n
  BY WellFormedFacts DEF Good
<1>2. /\ i = Smaller(r.position, Len(r.positions)) + 1
      /\ i \in 1..(n + 1)
  <2>1. CASE r.items = <<>>
    BY <1>1, <2>1 DEF Smaller, Good, Placed
  <2>2. CASE r.items # <<>>
    <3>1. r.position \in 1..n /\ n # 0
      BY <1>1, <2>2, GoodPosition
    <3> QED  BY <1>1, <3>1 DEF Smaller
  <2> QED  BY <2>1, <2>2
<1>3. WellFormed(s) /\ s.position = r.position /\ Len(s.positions) = n + 1
  BY <1>1, InsertAfterCurrentWellFormed
<1>4. /\ s.items = Append(r.items, item) /\ s.positions = InsertAt(r.positions, i, n + 1)
      /\ s.behavior = r.behavior /\ s.user_items = r.user_items
      /\ s.user_items_position = r.user_items_position
  BY <1>1, <1>2 DEF InsertAfterCurrent, QueueType
<1>5. Inserted(Nat \ {0}, r.positions, i, n + 1)
  <2> DEFINE S == Nat \ {0}
             e == n + 1
  <2>1. e \in S /\ i \in 1..(Len(r.positions) + 1) /\ r.positions \in Seq(S)
    BY <1>1, <1>2
  <2> HIDE DEF S, e
  <2>2. Inserted(S, r.positions, i, e)
    BY <2>1, InsertAtProperties, Zenon
  <2> QED  BY <2>2 DEF S, e
<1>6. /\ Len(s.items) = n + 1 /\ s.items[n + 1] = item
      /\ \A k \in 1..n : s.items[k] = r.items[k]
  BY <1>1, <1>4, AppendProperties
<1>7. /\ \A k \in 1..(i - 1) : s.positions[k] = r.positions[k]
      /\ s.positions[i] = n + 1
      /\ \A k \in (i + 1)..(n + 1) : s.positions[k] = r.positions[k - 1]
  BY <1>1, <1>4, <1>5 DEF Inserted
<1>8. /\ Order(s) \in Seq(Item) /\ Len(Order(s)) = n + 1
      /\ \A k \in 1..(n + 1) : Order(s)[k] = s.items[s.positions[k]]
  BY <1>3, <1>6, OrderIsSeq
<1>9. /\ Order(r) \in Seq(Item) /\ Len(Order(r)) = n
      /\ \A k \in 1..n : Order(r)[k] = r.items[r.positions[k]]
  BY <1>1, OrderIsSeq
<1>10. ASSUME NEW k \in 1..(n + 1), k < i PROVE Order(s)[k] = Order(r)[k]
  <2>1. k \in 1..(i - 1) /\ k \in 1..n
    BY <1>1, <1>2, <1>10
  <2>2. s.positions[k] = r.positions[k] /\ r.positions[k] \in 1..n
    BY <1>1, <1>7, <2>1
  <2>3. s.items[r.positions[k]] = r.items[r.positions[k]]
    BY <1>6, <2>2
  <2>4. Order(s)[k] = s.items[s.positions[k]] /\ Order(r)[k] = r.items[r.positions[k]]
    BY <1>8, <1>9, <2>1
  <2> QED  BY <2>2, <2>3, <2>4
<1>11. Order(s)[i] = item
  BY <1>2, <1>6, <1>7, <1>8
<1>12. ASSUME NEW k \in 1..(n + 1), k > i PROVE Order(s)[k] = Order(r)[k - 1]
  <2>1. k \in (i + 1)..(n + 1) /\ k - 1 \in 1..n
    BY <1>1, <1>2, <1>12
  <2>2. s.positions[k] = r.positions[k - 1] /\ r.positions[k - 1] \in 1..n
    BY <1>1, <1>7, <2>1
  <2>3. s.items[r.positions[k - 1]] = r.items[r.positions[k - 1]]
    BY <1>6, <2>2
  <2>4. Order(s)[k] = s.items[s.positions[k]] /\ Order(r)[k - 1] = r.items[r.positions[k - 1]]
    BY <1>8, <1>9, <2>1
  <2> QED  BY <2>2, <2>3, <2>4
<1>13. Grown(Item, Order(r), Order(s), n, i, item)
  BY <1>2, <1>8, <1>9, <1>10, <1>11, <1>12 DEF Grown
<1> QED  BY <1>3, <1>4, <1>6, <1>13

\* A track inserted after the current one is the second of those to come.
LEMMA InsertedParts ==
  ASSUME NEW r, Good(r), NEW item \in Item, NEW s, s = InsertAfterCurrent(r, item)
  PROVE  /\ r.items # <<>> =>
              /\ s.position \in 1..Len(s.items)
              /\ Played(s) = Played(r)
              /\ Upcoming(r) \in Seq(Item) /\ Upcoming(r) # <<>>
              /\ Upcoming(s) = <<Head(Upcoming(r)), item>> \o Tail(Upcoming(r))
         /\ r.items = <<>> =>
              /\ s.position = 1 /\ Len(s.items) = 1
              /\ Played(s) = <<>> /\ Upcoming(s) = <<item>>
<1>1. PICK n : n = Len(r.items)
  OBVIOUS
<1>2. PICK i : i = IF n = 0 THEN 1 ELSE r.position + 1
  OBVIOUS
<1>3. /\ WellFormed(s) /\ s.position = r.position /\ Len(s.items) = n + 1
      /\ Grown(Item, Order(r), Order(s), n, i, item)
  BY <1>1, <1>2, InsertedOrder
<1>4. /\ n \in Nat /\ (n = 0 <=> r.items = <<>>) /\ Len(r.positions) = n
      /\ Len(s.positions) = n + 1 /\ Order(r) \in Seq(Item) /\ Len(Order(r)) = n
  BY <1>1, <1>3, OrderIsSeq, WellFormedFacts DEF Good
<1>5. CASE r.items # <<>>
  <2>1. r.position \in 1..n /\ i = r.position + 1
    BY <1>1, <1>2, <1>4, <1>5, GoodPosition
  <2>2. /\ SubSeq(Order(s), 1, r.position - 1) = SubSeq(Order(r), 1, r.position - 1)
        /\ SubSeq(Order(r), r.position, n) \in Seq(Item) /\ SubSeq(Order(r), r.position, n) # <<>>
        /\ SubSeq(Order(s), r.position, n + 1) =
             <<Head(SubSeq(Order(r), r.position, n)), item>> \o Tail(SubSeq(Order(r), r.position, n))
    <3>1. Grown(Item, Order(r), Order(s), n, r.position + 1, item)
      BY <1>3, <2>1
    <3>2. n \in Nat /\ r.position \in 1..n
      BY <1>4, <2>1
    <3>3. CutGrown(Item, Order(r), Order(s), n, r.position, item)
      BY <3>1, <3>2, CutAtInsertion
    <3> QED  BY <3>3 DEF CutGrown
  <2>3. s.position \in 1..Len(s.items)
    BY <1>3, <1>4, <2>1
  <2> QED  BY <1>3, <1>4, <1>5, <2>2, <2>3 DEF Played, Upcoming
<1>6. CASE r.items = <<>>
  <2>1. s.position = 1 /\ n = 0 /\ i = 1 /\ Len(s.items) = 1
    BY <1>2, <1>3, <1>4, <1>6 DEF Good, Placed
  <2>2. /\ Played(s) \in Seq(Item) /\ Len(Played(s)) = 0
        /\ Upcoming(s) \in Seq(Item) /\ Len(Upcoming(s)) = 1
        /\ Upcoming(s)[1] = Order(s)[1]
    <3>1. s.position \in 1..Len(s.items)
      BY <2>1
    <3>2. /\ Played(s) \in Seq(Item) /\ Len(Played(s)) = s.position - 1
          /\ Upcoming(s) \in Seq(Item) /\ Len(Upcoming(s)) = Len(s.items) - s.position + 1
          /\ \A k \in 1..(Len(s.items) - s.position + 1) :
               Upcoming(s)[k] = Order(s)[s.position + k - 1]
      BY <1>3, <3>1, PartsOfOrder
    <3>3. s.position - 1 = 0 /\ Len(s.items) - s.position + 1 = 1 /\ s.position + 1 - 1 = 1
      BY <2>1
    <3> QED  BY <3>2, <3>3
  <2>3. Upcoming(s)[1] = item
    BY <1>3, <2>1, <2>2 DEF Grown
  <2> QED  BY <1>6, <2>1, <2>2, <2>3
<1> QED  BY <1>5, <1>6

\* The tracks that wait, and the first of them.
LEMMA WaitingTracks ==
  ASSUME NEW r, WellFormed(r), Taken(r)
  PROVE  /\ Waiting(r) \in Seq(Item)
         /\ HasPendingUserItem(r) <=> Waiting(r) # <<>>
         /\ HasPendingUserItem(r) =>
              /\ PendingUserItem(r) = Head(Waiting(r)) /\ PendingUserItem(r) \in Item
              /\ SubSeq(r.user_items, r.user_items_position + 2, Len(r.user_items)) = Tail(Waiting(r))
<1> DEFINE u == r.user_items
           k == r.user_items_position
           n == Len(r.user_items)
<1>1. u \in Seq(Item) /\ k \in Nat /\ n \in Nat /\ n = Len(u) /\ k <= n
  BY WellFormedFacts DEF Taken
<1>2. HasPendingUserItem(r) <=> n > k
  BY DEF HasPendingUserItem
<1>3. PendingUserItem(r) = u[k + 1]
  BY DEF PendingUserItem
<1>4. Waiting(r) = SubSeq(u, k + 1, n)
  BY DEF Waiting
<1> HIDE DEF u, k, n
<1>5. CASE n > k
  <2>1. k + 1 \in 1..Len(u) /\ n \in (k + 1)..Len(u)
    BY <1>1, <1>5
  <2>2. Head(SubSeq(u, k + 1, n)) = u[k + 1] /\ Tail(SubSeq(u, k + 1, n)) = SubSeq(u, (k + 1) + 1, n)
    BY <1>1, <2>1, HeadTailOfSubSeq
  <2>3. u[k + 1] \in Item
    BY <1>1, <2>1, ElementOfSeq
  <2>4. SubSeq(u, k + 1, n) \in Seq(Item) /\ Len(SubSeq(u, k + 1, n)) = n - (k + 1) + 1
    <3>1. \A i \in (k + 1)..n : u[i] \in Item
      BY <1>1, ElementOfSeq
    <3> QED  BY <1>1, <2>1, <3>1, SubSeqProperties
  <2>5. n - (k + 1) + 1 # 0 /\ Len(<<>>) = 0 /\ (k + 1) + 1 = k + 2
    BY <1>1, <1>5
  <2> QED  BY <1>2, <1>3, <1>4, <1>5, <2>2, <2>3, <2>4, <2>5 DEF k, n, u
<1>6. CASE ~(n > k)
  <2>1. SubSeq(u, k + 1, n) = <<>>
    BY <1>1, <1>6, SubSeqEmpty
  <2>2. <<>> \in Seq(Item)
    OBVIOUS
  <2> QED  BY <1>2, <1>4, <1>6, <2>1, <2>2
<1> QED  BY <1>5, <1>6

PulledOf(r) == IF Waiting(r) = <<>> THEN Upcoming(r)
               ELSE <<Head(Upcoming(r)), Head(Waiting(r))>> \o Tail(Upcoming(r))
LeftOf(r) == IF Waiting(r) = <<>> THEN <<>> ELSE Tail(Waiting(r))

\* What handle_added_queue() does, in terms of the promise.
LEMMA AddedParts ==
  ASSUME NEW r, Good(r), Taken(r), NEW a, a = HandleAddedQueue(r)
  PROVE  /\ WellFormed(a) /\ a.position = r.position /\ a.behavior = r.behavior /\ Taken(a)
         /\ Waiting(a) = LeftOf(r)
         /\ r.items # <<>> =>
              /\ a.items # <<>> /\ a.position \in 1..Len(a.items)
              /\ Upcoming(r) # <<>> /\ Upcoming(r) \in Seq(Item)
              /\ Played(a) = Played(r) /\ Upcoming(a) = PulledOf(r)
              /\ Waiting(r) # <<>> => a.position < Len(a.items)
         /\ r.items = <<>> /\ Waiting(r) # <<>> =>
              /\ a.position = 1 /\ Len(a.items) = 1
              /\ Played(a) = <<>> /\ Upcoming(a) = <<Head(Waiting(r))>>
         /\ Waiting(r) = <<>> => a = r
<1>1. WellFormed(r) /\ r \in QueueType /\ r.user_items_position \in Nat /\ r.user_items \in Seq(Item)
  BY WellFormedFacts DEF Good
<1>2. CASE Waiting(r) = <<>>
  <2>1. a = r /\ LeftOf(r) = <<>> /\ PulledOf(r) = Upcoming(r)
    BY <1>1, <1>2, WaitingTracks DEF HandleAddedQueue, LeftOf, PulledOf
  <2>2. r.items # <<>> => r.position \in 1..Len(r.items)
    BY GoodPosition
  <2>3. r.items # <<>> => Upcoming(r) # <<>> /\ Upcoming(r) \in Seq(Item)
    <3>1. CASE r.items # <<>>
      <4>1. /\ Upcoming(r) \in Seq(Item) /\ Len(Upcoming(r)) = Len(r.items) - r.position + 1
            /\ Len(r.items) \in Nat
        BY <1>1, <2>2, <3>1, PartsOfOrder, WellFormedFacts
      <4>2. Len(r.items) - r.position + 1 # 0 /\ Len(<<>>) = 0
        BY <2>2, <3>1, <4>1
      <4> QED  BY <4>1, <4>2
    <3> QED  BY <3>1
  <2> QED  BY <1>1, <1>2, <2>1, <2>2, <2>3
<1>3. CASE Waiting(r) # <<>>
  <2>1. HasPendingUserItem(r) /\ PendingUserItem(r) = Head(Waiting(r)) /\ PendingUserItem(r) \in Item
        /\ SubSeq(r.user_items, r.user_items_position + 2, Len(r.user_items)) = Tail(Waiting(r))
    BY <1>1, <1>3, WaitingTracks
  <2>0. PICK s, n, i : /\ s = InsertAfterCurrent(r, PendingUserItem(r))
                       /\ n = Len(r.items) /\ i = IF n = 0 THEN 1 ELSE r.position + 1
    OBVIOUS
  <2>2. /\ WellFormed(s) /\ s.position = r.position /\ Len(s.items) = Len(r.items) + 1
        /\ s.behavior = r.behavior /\ s.user_items = r.user_items
        /\ s.user_items_position = r.user_items_position
    BY <2>0, <2>1, InsertedOrder
  <2>3. /\ r.items # <<>> =>
              /\ s.position \in 1..Len(s.items)
              /\ Played(s) = Played(r)
              /\ Upcoming(r) \in Seq(Item) /\ Upcoming(r) # <<>>
              /\ Upcoming(s) = <<Head(Upcoming(r)), PendingUserItem(r)>> \o Tail(Upcoming(r))
        /\ r.items = <<>> =>
              /\ s.position = 1 /\ Len(s.items) = 1
              /\ Played(s) = <<>> /\ Upcoming(s) = <<PendingUserItem(r)>>
    BY <2>0, <2>1, InsertedParts
  <2>4. a = [s EXCEPT !.user_items_position = r.user_items_position + 1]
    BY <2>0, <2>1, <2>2 DEF HandleAddedQueue
  <2>5. /\ s \in QueueType
        /\ a.items = s.items /\ a.positions = s.positions /\ a.position = s.position
        /\ a.behavior = s.behavior /\ a.user_items = s.user_items
        /\ a.user_items_position = r.user_items_position + 1
    BY <2>2, <2>4 DEF WellFormed, QueueType
  <2>6. Played(a) = Played(s) /\ Upcoming(a) = Upcoming(s)
    BY <2>5 DEF Played, Upcoming, Order
  <2>7. WellFormed(a)
    BY HandleAddedQueueWellFormed, <1>1
  <2>8. Waiting(a) = Tail(Waiting(r)) /\ LeftOf(r) = Tail(Waiting(r))
    <3>1. a.user_items_position + 1 = r.user_items_position + 2
      BY <1>1, <2>5
    <3> QED  BY <1>3, <2>1, <2>2, <2>5, <3>1 DEF Waiting, LeftOf
  <2>9. Taken(a)
    <3>1. Len(r.user_items) \in Nat /\ Len(r.user_items) > r.user_items_position
      BY <1>1, <2>1 DEF HasPendingUserItem
    <3> QED  BY <1>1, <2>2, <2>5, <3>1 DEF Taken
  <2>10. PulledOf(r) = <<Head(Upcoming(r)), PendingUserItem(r)>> \o Tail(Upcoming(r))
    BY <1>3, <2>1 DEF PulledOf
  <2>11. r.items # <<>> => a.position < Len(a.items) /\ a.items # <<>>
    <3>1. Len(r.items) \in Nat /\ (r.items # <<>> => r.position \in 1..Len(r.items))
      BY <1>1, WellFormedFacts, GoodPosition
    <3>2. Len(a.items) = Len(r.items) + 1 /\ a.position = r.position
      BY <2>2, <2>5
    <3>3. Len(<<>>) = 0
      OBVIOUS
    <3> QED  BY <3>1, <3>2, <3>3
  <2> QED  BY <1>3, <2>1, <2>2, <2>3, <2>5, <2>6, <2>7, <2>8, <2>9, <2>10, <2>11
<1> QED  BY <1>2, <1>3

\* One place further in the play order.
LEMMA OneFurther ==
  ASSUME NEW a, WellFormed(a), a.position \in 1..Len(a.items), a.position < Len(a.items),
         NEW b, b = [a EXCEPT !.position = a.position + 1]
  PROVE  /\ Played(b) = Append(Played(a), Head(Upcoming(a)))
         /\ Upcoming(b) = Tail(Upcoming(a))
         /\ Len(Upcoming(a)) >= 2 /\ Upcoming(a) \in Seq(Item) /\ Played(a) \in Seq(Item)
<1>1. PICK n, p, o : n = Len(a.items) /\ p = a.position /\ o = Order(a)
  OBVIOUS
<1>2. /\ n \in Nat /\ p \in 1..n /\ p + 1 \in 1..n /\ o \in Seq(Item) /\ Len(o) = n
      /\ Len(a.positions) = n
  BY <1>1, OrderIsSeq
<1>3. /\ b.positions = a.positions /\ b.items = a.items /\ b.position = p + 1
  BY <1>1 DEF WellFormed, QueueType
<1>4. /\ Played(a) = SubSeq(o, 1, p - 1) /\ Upcoming(a) = SubSeq(o, p, n)
  BY <1>1, <1>2 DEF Played, Upcoming
<1>5. /\ Played(b) = SubSeq(o, 1, p) /\ Upcoming(b) = SubSeq(o, p + 1, n)
  <2>1. b.position - 1 = p /\ b.position = p + 1 /\ Order(b) = o /\ Len(b.positions) = n
    BY <1>1, <1>2, <1>3 DEF Order
  <2> QED  BY <2>1, Zenon DEF Played, Upcoming
<1>6. Head(SubSeq(o, p, n)) = o[p] /\ Tail(SubSeq(o, p, n)) = SubSeq(o, p + 1, n)
  <2>1. p \in 1..Len(o) /\ n \in p..Len(o)
    BY <1>2
  <2> QED  BY <1>2, <2>1, HeadTailOfSubSeq
<1>7. SubSeq(o, 1, p) = SubSeq(o, 1, p - 1) \o <<o[p]>>
  <2>1. 1 \in 1..Len(o) /\ p \in 1..Len(o)
    BY <1>2
  <2> QED  BY <1>2, <2>1, SubSeqRecursiveSecond
<1>8. /\ Played(a) \in Seq(Item) /\ Upcoming(a) \in Seq(Item) /\ Len(Upcoming(a)) = n - p + 1
  BY <1>1, <1>2, PartsOfOrder
<1>9. o[p] \in Item
  BY <1>2, ElementOfSeq
<1>10. Append(Played(a), o[p]) = Played(a) \o <<o[p]>>
  BY <1>8, <1>9, AppendIsConcat
<1>11. n - p + 1 >= 2
  BY <1>2
<1> QED  BY <1>4, <1>5, <1>6, <1>7, <1>8, <1>10, <1>11

\* One place back: the step before, undone.
LEMMA OneBack ==
  ASSUME NEW a, WellFormed(a), a.position \in 2..Len(a.items),
         NEW b, b = [a EXCEPT !.position = a.position - 1]
  PROVE  /\ Played(b) = Front(Played(a)) /\ Played(a) # <<>>
         /\ Upcoming(b) = <<Last(Played(a))>> \o Upcoming(a)
<1>1. /\ Len(a.items) \in Nat /\ a.position - 1 \in Nat \ {0}
  BY WellFormedFacts
<1>2. WellFormed(b)
  BY <1>1, MoveToWellFormed
<1>3. /\ b.items = a.items /\ b.position = a.position - 1
      /\ a = [b EXCEPT !.position = a.position]
  BY DEF WellFormed, QueueType
<1>4. a = [b EXCEPT !.position = b.position + 1] /\ b.position \in 1..Len(b.items)
      /\ b.position < Len(b.items)
  <2>1. b.position + 1 = a.position
    BY <1>1, <1>3
  <2>2. b.position \in 1..Len(b.items) /\ b.position < Len(b.items)
    BY <1>1, <1>3
  <2> QED  BY <1>3, <2>1, <2>2
<1>5. /\ Played(a) = Append(Played(b), Head(Upcoming(b))) /\ Upcoming(a) = Tail(Upcoming(b))
      /\ Len(Upcoming(b)) >= 2 /\ Upcoming(b) \in Seq(Item) /\ Played(b) \in Seq(Item)
  BY <1>2, <1>4, OneFurther
<1>6. PICK s, u, h : s = Played(b) /\ u = Upcoming(b) /\ h = Head(u)
  OBVIOUS
<1>7. s \in Seq(Item) /\ u \in Seq(Item) /\ u # <<>> /\ h \in Item
  BY <1>5, <1>6
<1>8. Append(s, h) # <<>> /\ Len(Append(s, h)) = Len(s) + 1 /\ Append(s, h)[Len(s) + 1] = h
      /\ \A i \in 1..Len(s) : Append(s, h)[i] = s[i]
  BY <1>7, AppendProperties
<1>9. Last(Append(s, h)) = h
  BY <1>8 DEF Last
<1>10. Front(Append(s, h)) = s
  BY <1>7, <1>8 DEF Front
<1>11. <<h>> \o Tail(u) = u
  <2>1. u = SubSeq(u, 1, Len(u)) /\ Tail(u) = SubSeq(u, 2, Len(u)) /\ h = u[1]
    BY <1>6, <1>7, SubSeqFull, TailIsSubSeq
  <2>2. 1 \in 1..Len(u) /\ Len(u) \in 1..Len(u) /\ 1 + 1 = 2
    BY <1>7
  <2>3. SubSeq(u, 1, Len(u)) = <<u[1]>> \o SubSeq(u, 1 + 1, Len(u))
    BY <1>7, <2>2, SubSeqRecursiveFirst
  <2> QED  BY <2>1, <2>2, <2>3
<1> QED  BY <1>5, <1>6, <1>8, <1>9, <1>10, <1>11

\* From the last place to the first.
LEMMA Wrapped ==
  ASSUME NEW a, WellFormed(a), a.items # <<>>, a.position = Len(a.items),
         NEW b, b = [a EXCEPT !.position = 1]
  PROVE  /\ Played(b) = <<>> /\ Upcoming(b) = Played(a) \o Upcoming(a)
         /\ Len(Upcoming(a)) = 1
<1>1. /\ Len(a.items) \in Nat \ {0} /\ Len(a.positions) = Len(a.items) /\ a \in QueueType
      /\ Order(a) \in Seq(Item) /\ Len(Order(a)) = Len(a.items)
  BY OrderIsSeq, WellFormedFacts
<1>2. Good(a)
  BY <1>1 DEF Good, Placed
<1>3. b.items = a.items /\ b.position = 1 /\ b.positions = a.positions /\ Order(b) = Order(a)
  BY <1>1 DEF QueueType, Order
<1>4. Played(b) = <<>>
  BY <1>3, SubSeqEmpty DEF Played
<1>5. Upcoming(b) = Order(a)
  BY <1>1, <1>3, SubSeqFull DEF Upcoming
<1>6. Len(Upcoming(a)) = Len(a.items) - a.position + 1
  <2>1. a.position \in 1..Len(a.items)
    BY <1>1
  <2> QED  BY <2>1, PartsOfOrder
<1>7. Len(Upcoming(a)) = 1
  BY <1>1, <1>6
<1> QED  BY <1>2, <1>4, <1>5, <1>7, PartsMakeOrder

-----------------------------------------------------------------------------
(***************************************************************************)
(* The steps of the promise, as relations between two queues.              *)
(***************************************************************************)
HasNextOf(r) == Upcoming(r) # <<>> /\ Len(Upcoming(r)) + Len(Waiting(r)) >= 2

Enqueues(r, b, item) ==
  Waiting(b) = Append(Waiting(r), item) /\ Played(b) = Played(r) /\ Upcoming(b) = Upcoming(r)

PlaysNext(r, b, item) ==
  /\ Upcoming(b) = IF Upcoming(r) = <<>> THEN <<item>>
                   ELSE <<Head(Upcoming(r)), item>> \o Tail(Upcoming(r))
  /\ Played(b) = Played(r) /\ Waiting(b) = Waiting(r)

Advances(r, b) ==
  /\ Len(Upcoming(r)) >= 1 /\ Len(PulledOf(r)) >= 2
  /\ Played(b) = Append(Played(r), Head(PulledOf(r)))
  /\ Upcoming(b) = Tail(PulledOf(r)) /\ Waiting(b) = LeftOf(r)

Repeats(r, b) ==
  /\ Upcoming(r) # <<>> /\ Upcoming(b) = PulledOf(r)
  /\ Waiting(b) = LeftOf(r) /\ Played(b) = Played(r)

StartsQueued(r, b) ==
  /\ Upcoming(r) = <<>> /\ Waiting(r) # <<>>
  /\ Upcoming(b) = <<Head(Waiting(r))>> /\ Waiting(b) = Tail(Waiting(r))
  /\ Played(b) = Played(r)

StartsOver(r, b) ==
  /\ Len(Upcoming(r)) = 1 /\ Waiting(r) = <<>>
  /\ Played(b) = <<>> /\ Upcoming(b) = Played(r) \o Upcoming(r) /\ Waiting(b) = Waiting(r)

GoesBack(r, b) ==
  /\ Played(r) # <<>> /\ Played(b) = Front(Played(r))
  /\ Upcoming(b) = <<Last(Played(r))>> \o Upcoming(r) /\ Waiting(b) = Waiting(r)

Reorders(r, b) ==
  /\ ToBag(Played(b) \o Upcoming(b)) = ToBag(Played(r) \o Upcoming(r))
  /\ Upcoming(r) # <<>> => Upcoming(b) # <<>>
  /\ Waiting(b) = Waiting(r)

Loads(b) == Upcoming(b) # <<>> /\ Waiting(b) = <<>>
Empties(b) == Played(b) = <<>> /\ Upcoming(b) = <<>> /\ Waiting(b) = <<>>
Same(r, b) == Played(b) = Played(r) /\ Upcoming(b) = Upcoming(r) /\ Waiting(b) = Waiting(r)

GoesOn(r, b) ==
  IF HasNextOf(r) THEN Advances(r, b)
  ELSE StartsQueued(r, b) \/ StartsOver(r, b) \/ Empties(b)

\* A relation that holds between the queue and the next one is the step of PlayOrder.
LEMMA RelationsAreSteps ==
  /\ \A item : Enqueues(q, q', item) => Promise!Enqueue(item)
  /\ \A item : PlaysNext(q, q', item) => Promise!PlayNext(item)
  /\ Advances(q, q') => Promise!Advance
  /\ Repeats(q, q') => Promise!Repeat
  /\ StartsQueued(q, q') => Promise!StartQueued
  /\ StartsOver(q, q') => Promise!StartOver
  /\ GoesBack(q, q') => Promise!Back
  /\ Reorders(q, q') => Promise!Reorder
  /\ Loads(q') => Promise!Load
  /\ Empties(q') => Promise!Empty
  /\ Same(q, q') => UNCHANGED Promise!vars
  /\ Promise!HasNext <=> HasNextOf(q)
  /\ Upcoming(q) = SubSeq(PlayedOrder, q.position, Len(q.positions))
  /\ Played(q) = SubSeq(PlayedOrder, 1, q.position - 1)
<1> USE DEF PlayedOrder, Order, Played, Upcoming, Waiting
<1>1. \A item : Enqueues(q, q', item) => Promise!Enqueue(item)
  BY DEF Enqueues, Promise!Enqueue
<1>2. \A item : PlaysNext(q, q', item) => Promise!PlayNext(item)
  BY DEF PlaysNext, Promise!PlayNext
<1>3. Advances(q, q') => Promise!Advance
  BY DEF Advances, PulledOf, LeftOf, Promise!Advance, Promise!Pulled, Promise!Left
<1>4. Repeats(q, q') => Promise!Repeat
  BY DEF Repeats, PulledOf, LeftOf, Promise!Repeat, Promise!Pulled, Promise!Left
<1>5. StartsQueued(q, q') => Promise!StartQueued
  BY DEF StartsQueued, Promise!StartQueued
<1>6. StartsOver(q, q') => Promise!StartOver
  BY DEF StartsOver, Promise!StartOver
<1>7. GoesBack(q, q') => Promise!Back
  BY DEF GoesBack, Promise!Back, Front, Last, Promise!Front, Promise!Last
<1>8. Reorders(q, q') => Promise!Reorder
  <2>1. \A S : Promise!Cardinality(S) = Cardinality(S)
    BY DEF Cardinality, Promise!Cardinality
  <2>2. \A t : Promise!ToBag(t) = ToBag(t)
    BY <2>1 DEF ToBag, Promise!ToBag, Range, Promise!Range
  <2> QED  BY <2>2 DEF Reorders, Promise!Reorder
<1>9. Loads(q') => Promise!Load
  BY DEF Loads, Promise!Load
<1>10. Empties(q') => Promise!Empty
  BY DEF Empties, Promise!Empty
<1>11. Same(q, q') => UNCHANGED Promise!vars
  BY DEF Same, Promise!vars
<1>12. Promise!HasNext <=> HasNextOf(q)
  BY DEF HasNextOf, Promise!HasNext
<1> QED
  BY <1>1, <1>2, <1>3, <1>4, <1>5, <1>6, <1>7, <1>8, <1>9, <1>10, <1>11, <1>12

-----------------------------------------------------------------------------
(***************************************************************************)
(* Every operation is one of these relations.                              *)
(***************************************************************************)
LEMMA UpcomingHasCurrent ==
  ASSUME NEW r, Good(r)
  PROVE  /\ Upcoming(r) \in Seq(Item) /\ Played(r) \in Seq(Item)
         /\ Upcoming(r) = <<>> <=> r.items = <<>>
         /\ r.items = <<>> => Played(r) = <<>>
<1>1. CASE r.items = <<>>
  <2>1. Upcoming(r) = <<>> /\ Played(r) = <<>>
    BY <1>1, PartsOfNothing DEF Good, Placed
  <2> QED  BY <1>1, <2>1, EmptySeq
<1>2. CASE r.items # <<>>
  <2>1. r.position \in 1..Len(r.items) /\ WellFormed(r) /\ Len(r.items) \in Nat
    BY <1>2, GoodPosition, WellFormedFacts DEF Good
  <2>2. /\ Played(r) \in Seq(Item) /\ Upcoming(r) \in Seq(Item)
        /\ Len(Upcoming(r)) = Len(r.items) - r.position + 1
    BY <2>1, PartsOfOrder
  <2>3. Len(Upcoming(r)) # 0 /\ Len(<<>>) = 0
    BY <2>1, <2>2
  <2> QED  BY <1>2, <2>2, <2>3
<1> QED  BY <1>1, <1>2

LEMMA ClearEmpties ==
  ASSUME NEW r, r.behavior \in Behavior
  PROVE  Empties(Clear(r)) /\ Taken(Clear(r))
<1> DEFINE c == Clear(r)
<1>1. /\ c.items = <<>> /\ c.positions = <<>> /\ c.position = 1
      /\ c.user_items = <<>> /\ c.user_items_position = 0 /\ WellFormed(c)
  BY ClearWellFormed DEF Clear, EmptyQueue
<1> HIDE DEF c
<1>2. Played(c) = <<>> /\ Upcoming(c) = <<>>
  BY <1>1, PartsOfNothing
<1>3. SubSeq(<<>>, 1, 0) = <<>> /\ Len(<<>>) = 0
  OBVIOUS
<1>4. Waiting(c) = <<>>
  BY <1>1, <1>3 DEF Waiting
<1>5. Taken(c)
  BY <1>1, <1>3 DEF Taken
<1> QED  BY <1>2, <1>4, <1>5 DEF c, Empties

\* compute_positions() does not touch the tracks that wait.
LEMMA ComputePositionsKeepsWaiting ==
  ASSUME NEW r \in QueueType, NEW b \in ComputePositions(r)
  PROVE  /\ b.user_items = r.user_items /\ b.user_items_position = r.user_items_position
         /\ Waiting(b) = Waiting(r) /\ (Taken(r) => Taken(b))
<1>1. b.user_items = r.user_items /\ b.user_items_position = r.user_items_position
  <2>1. \E s, p : b = [r EXCEPT !.positions = s, !.position = p]
    BY DEF ComputePositions
  <2> QED  BY <2>1 DEF QueueType
<1> QED  BY <1>1 DEF Waiting, Taken

LEMMA FillLoads ==
  ASSUME NEW r, r.behavior \in Behavior, NEW items \in Seq(Item), NEW position \in Nat \ {0},
         IF items = <<>> THEN position = 1 ELSE position \in DOMAIN items,
         NEW b \in Fill(r, items, position)
  PROVE  Taken(b) /\ Good(b) /\ (Loads(b) \/ Empties(b))
<1> DEFINE f == Filled(r, items, position)
<1>1. f \in QueueType /\ f.items = items
  BY FilledQueue
<1>2. f.user_items = <<>> /\ f.user_items_position = 0
  BY DEF Filled, Clear, EmptyQueue
<1>3. Good(b)
  BY FillWellFormed, FillPlaced DEF Good
<1> HIDE DEF f
<1>4. b \in ComputePositions(f)
  BY DEF Fill, f
<1>5. /\ b.user_items = <<>> /\ b.user_items_position = 0
  BY <1>1, <1>2, <1>4, ComputePositionsKeepsWaiting
<1>6. SubSeq(<<>>, 1, 0) = <<>> /\ Len(<<>>) = 0
  OBVIOUS
<1>7. Waiting(b) = <<>> /\ Taken(b)
  BY <1>5, <1>6 DEF Waiting, Taken
<1> QED  BY <1>3, <1>7, UpcomingHasCurrent DEF Loads, Empties

LEMMA AddEnqueues ==
  ASSUME NEW r, Good(r), Taken(r), NEW item \in Item
  PROVE  Enqueues(r, Add(r, item), item) /\ Taken(Add(r, item))
<1> DEFINE b == Add(r, item)
           v == Append(r.user_items, item)
<1>1. PICK u, k, n : u = r.user_items /\ k = r.user_items_position /\ n = Len(u)
  OBVIOUS
<1>2. u \in Seq(Item) /\ k \in Nat /\ n \in Nat /\ k <= n /\ r \in QueueType
  BY <1>1, WellFormedFacts DEF Taken, Good
<1>3. /\ b.user_items = v /\ b.user_items_position = k
      /\ b.items = r.items /\ b.positions = r.positions /\ b.position = r.position
  BY <1>1, <1>2 DEF Add, QueueType
<1> HIDE DEF b
<1>4. /\ v \in Seq(Item) /\ Len(v) = n + 1 /\ v[n + 1] = item
      /\ \A i \in 1..n : v[i] = u[i]
  BY <1>1, <1>2, AppendProperties
<1> HIDE DEF v
<1>5. SubSeq(v, k + 1, n + 1) = SubSeq(v, k + 1, n) \o <<item>>
  <2>1. k + 1 \in 1..Len(v) /\ n + 1 \in (k + 1)..Len(v) /\ n + 1 - 1 = n
    BY <1>2, <1>4
  <2>2. SubSeq(v, k + 1, n + 1) = SubSeq(v, k + 1, (n + 1) - 1) \o <<v[n + 1]>>
    BY <1>4, <2>1, SubSeqRecursiveSecond
  <2>3. v[n + 1] = item /\ (n + 1) - 1 = n
    BY <1>2, <1>4
  <2> QED  BY <2>2, <2>3, Zenon
<1>6. SubSeq(v, k + 1, n) = SubSeq(u, k + 1, n) /\ SubSeq(u, k + 1, n) \in Seq(Item)
  <2>1. \A i \in (k + 1)..n : u[i] \in Item /\ v[i] \in Item
    BY <1>1, <1>2, <1>4, ElementOfSeq
  <2>2. k + 1 \in Int /\ n \in Int
    BY <1>2
  <2>3. /\ SubSeq(u, k + 1, n) \in Seq(Item)
        /\ Len(SubSeq(u, k + 1, n)) = IF k + 1 <= n THEN n - (k + 1) + 1 ELSE 0
        /\ \A i \in 1..(n - (k + 1) + 1) : SubSeq(u, k + 1, n)[i] = u[(k + 1) + i - 1]
    BY <2>1, <2>2, SubSeqProperties
  <2>4. /\ SubSeq(v, k + 1, n) \in Seq(Item)
        /\ Len(SubSeq(v, k + 1, n)) = IF k + 1 <= n THEN n - (k + 1) + 1 ELSE 0
        /\ \A i \in 1..(n - (k + 1) + 1) : SubSeq(v, k + 1, n)[i] = v[(k + 1) + i - 1]
    BY <2>1, <2>2, SubSeqProperties
  <2>5. ASSUME NEW i \in 1..Len(SubSeq(u, k + 1, n))
        PROVE  SubSeq(v, k + 1, n)[i] = SubSeq(u, k + 1, n)[i]
    <3>1. i \in 1..(n - (k + 1) + 1) /\ (k + 1) + i - 1 \in 1..n
      BY <1>2, <2>3
    <3> QED  BY <1>4, <2>3, <2>4, <3>1
  <2> QED  BY <2>3, <2>4, <2>5, SeqEqual
<1>7. Waiting(b) = Append(Waiting(r), item)
  <2>1. Append(SubSeq(u, k + 1, n), item) = SubSeq(u, k + 1, n) \o <<item>>
    BY <1>6, AppendIsConcat
  <2> QED  BY <1>1, <1>3, <1>4, <1>5, <1>6, <2>1 DEF Waiting
<1>8. Played(b) = Played(r) /\ Upcoming(b) = Upcoming(r)
  BY <1>3 DEF Played, Upcoming, Order
<1>9. Taken(b)
  BY <1>1, <1>2, <1>3, <1>4 DEF Taken
<1> QED  BY <1>7, <1>8, <1>9 DEF Enqueues, b

LEMMA AddNextPlaysNext ==
  ASSUME NEW r, Good(r), Taken(r), NEW item \in Item
  PROVE  PlaysNext(r, AddNext(r, item), item) /\ Taken(AddNext(r, item))
<1>1. PICK s, n, i : /\ s = InsertAfterCurrent(r, item)
                     /\ n = Len(r.items) /\ i = IF n = 0 THEN 1 ELSE r.position + 1
  OBVIOUS
<1>2. /\ WellFormed(s) /\ s.position = r.position
      /\ s.user_items = r.user_items /\ s.user_items_position = r.user_items_position
  BY <1>1, InsertedOrder
<1>3. AddNext(r, item) = s
  <2>1. r.positions = <<>> => r.position = 1
    <3>1. Len(r.positions) = Len(r.items) /\ r.items \in Seq(Item)
      BY WellFormedFacts DEF Good
    <3> QED  BY <3>1 DEF Good, Placed
  <2>2. AddNext(r, item) = [s EXCEPT !.position = IF r.positions = <<>> THEN 1 ELSE @]
    BY <1>1 DEF AddNext
  <2>3. s \in QueueType
    BY <1>2 DEF WellFormed
  <2>4. [s EXCEPT !.position = s.position] = s
    BY <2>3 DEF QueueType
  <2> QED  BY <1>2, <2>1, <2>2, <2>4
<1>4. /\ r.items # <<>> =>
           /\ Played(s) = Played(r)
           /\ Upcoming(s) = <<Head(Upcoming(r)), item>> \o Tail(Upcoming(r))
      /\ r.items = <<>> => Played(s) = <<>> /\ Upcoming(s) = <<item>>
  BY <1>1, InsertedParts
<1>5. Waiting(s) = Waiting(r) /\ Taken(s)
  BY <1>2 DEF Waiting, Taken
<1> QED  BY <1>3, <1>4, <1>5, UpcomingHasCurrent DEF PlaysNext

Renumbering(w, n) == w \in [1..n -> 1..n] /\ IsInjective(w)
BagOf(items, w, n) == ToBag([k \in 1..n |-> items[w[k]]])

\* Numbering the same list differently does not change what is in it.
LEMMA SameBag ==
  ASSUME NEW n \in Nat, NEW items, NEW s, Renumbering(s, n), NEW t, Renumbering(t, n)
  PROVE  BagOf(items, s, n) = BagOf(items, t, n)
<1> DEFINE Renamed(w) == [k \in 1..n |-> items[w[k]]]
           Places(x) == {k \in 1..n : items[k] = x}
           Values == {items[k] : k \in 1..n}
           Count == [x \in Values |-> Cardinality(Places(x))]
<1>1. ASSUME NEW w \in [1..n -> 1..n], IsInjective(w)
      PROVE  ToBag(Renamed(w)) = Count
  <2>1. \A k \in 1..n : \E j \in 1..n : w[j] = k
    <3>1. w \in Injection(1..n, 1..n)
      BY <1>1 DEF Injection
    <3>2. IsFiniteSet(1..n)
      BY FS_Interval
    <3>3. w \in Surjection(1..n, 1..n)
      BY <3>1, <3>2, FS_Injection
    <3> QED  BY <3>3 DEF Surjection
  <2>2. DOMAIN Renamed(w) = 1..n /\ \A k \in 1..n : Renamed(w)[k] = items[w[k]]
    OBVIOUS
  <2>3. Range(Renamed(w)) = Values
    BY <1>1, <2>1, <2>2 DEF Range
  <2>4. ASSUME NEW x \in Values
        PROVE  Cardinality({i \in DOMAIN Renamed(w) : Renamed(w)[i] = x}) = Cardinality(Places(x))
    <3> DEFINE A == {i \in DOMAIN Renamed(w) : Renamed(w)[i] = x}
               f == [i \in A |-> w[i]]
    <3>1. A = {i \in 1..n : items[w[i]] = x}
      BY <2>2
    <3>2. IsFiniteSet(A)
      <4>1. A \in SUBSET (1..n) /\ IsFiniteSet(1..n)
        BY <3>1, FS_Interval
      <4> QED  BY <4>1, FS_Subset
    <3> HIDE DEF A
    <3>3. f \in [A -> Places(x)]
      BY <1>1, <3>1
    <3>4. f \in Injection(A, Places(x))
      BY <1>1, <3>1, <3>3 DEF Injection, IsInjective
    <3>5. f \in Surjection(A, Places(x))
      <4>1. ASSUME NEW k \in Places(x) PROVE \E i \in A : f[i] = k
        <5>1. PICK j \in 1..n : w[j] = k
          BY <2>1
        <5>2. j \in A
          BY <3>1, <5>1
        <5> QED  BY <5>1, <5>2
      <4> HIDE DEF f, Places
      <4> QED  BY <3>3, <4>1 DEF Surjection
    <3>6. ExistsBijection(A, Places(x))
      BY <3>4, <3>5 DEF ExistsBijection, Bijection
    <3> QED  BY <3>2, <3>6, FS_Bijection DEF A
  <2> HIDE DEF Renamed, Values, Places
  <2> QED  BY <2>3, <2>4 DEF ToBag, Count
<1>2. BagOf(items, s, n) = Count /\ BagOf(items, t, n) = Count
  BY <1>1 DEF BagOf, Renumbering
<1> QED  BY <1>2

LEMMA SetBehaviourReorders ==
  ASSUME NEW r, Good(r), Taken(r), NEW behavior \in Behavior,
         NEW b \in SetBehaviour(r, behavior)
  PROVE  Reorders(r, b) /\ Taken(b)
<1> DEFINE c == [r EXCEPT !.behavior = behavior]
<1>1. /\ WellFormed(r) /\ r \in QueueType /\ c \in QueueType
      /\ c.items = r.items /\ c.user_items = r.user_items
      /\ c.user_items_position = r.user_items_position
  <2>1. WellFormed(r) /\ r \in QueueType
    BY DEF Good, WellFormed
  <2> QED  BY <2>1 DEF QueueType
<1>2. b \in ComputePositions(c)
  BY DEF SetBehaviour
<1> HIDE DEF c
<1>3. WellFormed(b) /\ b.items = r.items /\ Good(b)
  BY <1>1, <1>2, ComputePositionsWellFormed, SetBehaviourWellFormed DEF Good
<1>4. Waiting(b) = Waiting(r) /\ Taken(b)
  BY <1>1, <1>2, ComputePositionsKeepsWaiting DEF Waiting, Taken
<1>5. Played(b) \o Upcoming(b) = Order(b) /\ Played(r) \o Upcoming(r) = Order(r)
  BY <1>3, PartsMakeOrder
<1>6. ToBag(Order(b)) = ToBag(Order(r))
  <2>1. ASSUME NEW w, WellFormed(w), w.items = r.items
        PROVE  /\ w.positions \in [1..Len(r.items) -> 1..Len(r.items)] /\ IsInjective(w.positions)
               /\ Order(w) = [k \in 1..Len(r.items) |-> r.items[w.positions[k]]]
    <3>1. /\ w.positions \in Seq(Nat \ {0}) /\ Len(w.positions) = Len(r.items)
          /\ \A k \in 1..Len(r.items) : w.positions[k] \in 1..Len(r.items)
      BY <2>1, WellFormedFacts
    <3>2. DOMAIN w.positions = 1..Len(r.items) /\ w.positions \in [1..Len(r.items) -> Nat \ {0}]
      BY <3>1
    <3> QED  BY <2>1, <3>1, <3>2 DEF Order, WellFormed, IsPlayOrder
  <2>2. Len(r.items) \in Nat
    BY <1>1, WellFormedFacts
  <2>3. PICK n, items, v, w : /\ n = Len(r.items) /\ items = r.items
                              /\ v = b.positions /\ w = r.positions
    OBVIOUS
  <2>4. /\ n \in Nat /\ v \in [1..n -> 1..n] /\ IsInjective(v)
        /\ w \in [1..n -> 1..n] /\ IsInjective(w)
        /\ Order(b) = [k \in 1..n |-> items[v[k]]] /\ Order(r) = [k \in 1..n |-> items[w[k]]]
    BY <1>1, <1>3, <2>1, <2>2, <2>3
  <2>5. Renumbering(v, n) /\ Renumbering(w, n)
    BY <2>4 DEF Renumbering
  <2>6. BagOf(items, v, n) = BagOf(items, w, n)
    BY <2>4, <2>5, SameBag
  <2>7. ToBag([k \in 1..n |-> items[v[k]]]) = ToBag([k \in 1..n |-> items[w[k]]])
    BY <2>6 DEF BagOf
  <2> QED  BY <2>4, <2>7, Zenon
<1>7. Upcoming(r) # <<>> => Upcoming(b) # <<>>
  BY <1>3, UpcomingHasCurrent
<1> QED  BY <1>4, <1>5, <1>6, <1>7 DEF Reorders

\* A handler that found no current item cleared the queue.
OrCleared(b) == IF Current(b) = NoItem THEN Clear(b) ELSE b

LEMMA HasNextMeansPlace ==
  ASSUME NEW r, Good(r), Taken(r), NEW a, a = HandleAddedQueue(r)
  PROVE  HasNextOf(r) <=> r.items # <<>> /\ a.position < Len(a.items)
<1>1. WellFormed(r) /\ Len(r.items) \in Nat /\ WellFormed(a) /\ Len(a.items) \in Nat
  BY AddedParts, WellFormedFacts DEF Good
<1>2. Upcoming(r) = <<>> <=> r.items = <<>>
  BY UpcomingHasCurrent
<1>3. Waiting(r) \in Seq(Item)
  BY <1>1, WaitingTracks
<1>4. CASE r.items = <<>>
  BY <1>2, <1>4 DEF HasNextOf
<1>5. CASE r.items # <<>>
  <2>1. r.position \in 1..Len(r.items)
    BY <1>5, GoodPosition
  <2>2. Len(Upcoming(r)) = Len(r.items) - r.position + 1
    BY <1>1, <2>1, PartsOfOrder
  <2>3. a.position = r.position
    BY AddedParts
  <2>4. CASE Waiting(r) = <<>>
    <3>1. a = r /\ Len(Waiting(r)) = 0
      BY <2>4, AddedParts
    <3> QED  BY <1>1, <1>2, <1>5, <2>1, <2>2, <3>1 DEF HasNextOf
  <2>5. CASE Waiting(r) # <<>>
    <3>1. a.position < Len(a.items)
      BY <1>5, <2>5, AddedParts
    <3>2. Len(Waiting(r)) \in Nat \ {0}
      BY <1>3, <2>5, EmptySeq
    <3> QED  BY <1>1, <1>2, <1>5, <2>1, <2>2, <3>1, <3>2 DEF HasNextOf
  <2> QED  BY <2>4, <2>5
<1> QED  BY <1>4, <1>5

LEMMA Remainders ==
  ASSUME NEW n \in Nat \ {0}
  PROVE  n % n = 0 /\ \A k \in 0..(n - 1) : k % n = k
<1>1. n % n = 0
  OBVIOUS
<1>2. ASSUME NEW k \in 0..(n - 1) PROVE k % n = k
  OBVIOUS
<1> QED  BY <1>1, <1>2

\* The place behind the current one, the first behind the last, or the end.
LEMMA MovesOn ==
  ASSUME NEW r, Good(r), Taken(r), NEW a, a = HandleAddedQueue(r),
         NEW t \in NextPosition(a), NEW b, b = OrCleared([a EXCEPT !.position = t])
  PROVE  GoesOn(r, b) /\ Taken(b)
<1> DEFINE m == [a EXCEPT !.position = t]
<1>1. /\ WellFormed(a) /\ a.position = r.position /\ Taken(a) /\ Waiting(a) = LeftOf(r)
      /\ a \in QueueType /\ Len(a.items) \in Nat /\ Len(a.positions) = Len(a.items)
      /\ a.position \in Nat \ {0} /\ a.behavior \in Behavior
  BY AddedParts, WellFormedFacts
<1>2. t \in Nat \ {0}
  BY <1>1, TargetPositions
<1>3. /\ WellFormed(m) /\ m.items = a.items /\ m.position = t /\ m.behavior \in Behavior
      /\ Waiting(m) = Waiting(a) /\ Taken(m) /\ Len(m.positions) = Len(a.items)
  <2>1. m.user_items = a.user_items /\ m.user_items_position = a.user_items_position
        /\ m.items = a.items /\ m.position = t /\ m.positions = a.positions
    BY <1>1 DEF QueueType
  <2>2. WellFormed(m)
    BY <1>1, <1>2, MoveToWellFormed
  <2> QED  BY <1>1, <2>1, <2>2, WellFormedFacts DEF Waiting, Taken
<1>4. Current(m) # NoItem <=> t \in 1..Len(a.items)
  <2>1. DOMAIN m.positions = 1..Len(a.items)
    BY <1>3, WellFormedFacts
  <2> QED  BY <1>3, <2>1, CurrentItem
<1>5. t = a.position + 1 \/ (a.position = Len(a.items) /\ t = 1)
        \/ (a.position > Len(a.items) /\ t \in 1..Len(a.items))
  <2>1. CASE a.behavior # "LoopAll"
    BY <2>1 DEF NextPosition
  <2>2. CASE a.behavior = "LoopAll"
    <3>1. a.items # <<>> /\ t = (a.position % Len(a.items)) + 1
      BY <2>2 DEF NextPosition, WrappedPosition
    <3>2. Len(a.items) \in Nat \ {0}
      BY <1>1, <3>1, WellFormedFacts
    <3>3. CASE a.position < Len(a.items)
      BY <1>1, <3>1, <3>2, <3>3, Remainders
    <3>4. CASE a.position = Len(a.items)
      <4>1. a.position % Len(a.items) = 0
        BY <3>2, <3>4, Remainders
      <4>2. t = 0 + 1
        BY <3>1, <4>1, Zenon
      <4> QED  BY <3>4, <4>2
    <3>5. CASE a.position > Len(a.items)
      BY <1>1, <3>1, <3>2, <3>5
    <3> QED  BY <1>1, <3>3, <3>4, <3>5
  <2> QED  BY <2>1, <2>2
<1> HIDE DEF m
<1>6. CASE HasNextOf(r)
  <2>1. r.items # <<>> /\ a.position < Len(a.items)
    BY <1>6, HasNextMeansPlace
  <2>2. /\ a.position \in 1..Len(a.items) /\ Played(a) = Played(r) /\ Upcoming(a) = PulledOf(r)
        /\ Upcoming(r) # <<>> /\ Upcoming(r) \in Seq(Item)
    BY <2>1, AddedParts
  <2>3. t = a.position + 1 /\ t \in 1..Len(a.items)
    BY <1>1, <1>5, <2>1
  <2>4. m = [a EXCEPT !.position = a.position + 1]
    BY <2>3 DEF m
  <2>5. /\ Played(m) = Append(Played(a), Head(Upcoming(a)))
        /\ Upcoming(m) = Tail(Upcoming(a)) /\ Len(Upcoming(a)) >= 2
    BY <1>1, <2>1, <2>2, <2>4, OneFurther
  <2>6. b = m
    BY <1>4, <2>3 DEF OrCleared, m
  <2>7. Len(Upcoming(r)) >= 1
    BY <2>2, EmptySeq
  <2> QED  BY <1>1, <1>3, <1>6, <2>2, <2>5, <2>6, <2>7 DEF GoesOn, Advances
<1>7. CASE ~HasNextOf(r)
  <2>1. CASE Current(m) = NoItem
    <3>1. b = Clear(m)
      BY <2>1 DEF OrCleared, m
    <3> QED  BY <1>3, <1>7, <3>1, ClearEmpties DEF GoesOn
  <2>2. CASE Current(m) # NoItem /\ r.items # <<>>
    <3>1. ~(a.position < Len(a.items)) /\ a.position \in 1..Len(a.items) /\ a.items # <<>>
      BY <1>7, <2>2, HasNextMeansPlace, AddedParts
    <3>2. a.position = Len(a.items) /\ t = 1
      BY <1>1, <1>4, <1>5, <2>2, <3>1
    <3>3. Waiting(r) = <<>>
      BY <2>2, <3>1, AddedParts
    <3>4. a = r
      BY <3>3, AddedParts
    <3>5. Played(m) = <<>> /\ Upcoming(m) = Played(a) \o Upcoming(a) /\ Len(Upcoming(a)) = 1
      BY <1>1, <3>1, <3>2, Wrapped DEF m
    <3>6. b = m
      BY <2>2 DEF OrCleared, m
    <3> QED  BY <1>3, <1>7, <3>3, <3>4, <3>5, <3>6 DEF GoesOn, StartsOver
  <2>3. CASE Current(m) # NoItem /\ r.items = <<>>
    <3>1. a.items # <<>> /\ t \in 1..Len(a.items)
      BY <1>1, <1>4, <2>3, WellFormedFacts
    <3>2. Waiting(r) # <<>>
      BY <2>3, <3>1, AddedParts
    <3>3. a.position = 1 /\ Len(a.items) = 1 /\ Played(a) = <<>>
          /\ Upcoming(a) = <<Head(Waiting(r))>>
      BY <2>3, <3>2, AddedParts
    <3>4. t = 1
      BY <3>1, <3>3
    <3>5. m = a
      BY <1>1, <3>3, <3>4 DEF m, QueueType
    <3>6. b = m
      BY <2>3 DEF OrCleared, m
    <3>7. Upcoming(r) = <<>> /\ Played(r) = <<>>
      BY <2>3, UpcomingHasCurrent
    <3> QED  BY <1>1, <1>7, <3>2, <3>3, <3>5, <3>6, <3>7 DEF GoesOn, StartsQueued, LeftOf
  <2> QED  BY <2>1, <2>2, <2>3
<1> QED  BY <1>6, <1>7

\* The end of a track: as a skip, or the same track once more.
LEMMA FollowsOn ==
  ASSUME NEW r, Good(r), Taken(r), NEW a, a = HandleAddedQueue(r),
         NEW t \in FollowingPosition(a), NEW b, b = OrCleared([a EXCEPT !.position = t])
  PROVE  (GoesOn(r, b) \/ Repeats(r, b)) /\ Taken(b)
<1>1. CASE a.behavior # "LoopTrack"
  <2>1. t \in NextPosition(a)
    BY <1>1 DEF FollowingPosition, NextPosition
  <2> QED  BY <2>1, MovesOn
<1>2. CASE a.behavior = "LoopTrack"
  <2>1. /\ WellFormed(a) /\ a \in QueueType /\ Waiting(a) = LeftOf(r) /\ Taken(a)
        /\ a.behavior \in Behavior
    BY AddedParts, WellFormedFacts
  <2>2. t = a.position
    BY <1>2 DEF FollowingPosition
  <2>3. [a EXCEPT !.position = t] = a
    BY <2>1, <2>2 DEF QueueType
  <2>4. b = IF Current(a) = NoItem THEN Clear(a) ELSE a
    BY <2>3 DEF OrCleared
  <2>5. Current(a) # NoItem <=> a.position \in 1..Len(a.items)
    <3>1. DOMAIN a.positions = 1..Len(a.items)
      BY <2>1, WellFormedFacts
    <3> QED  BY <2>1, <3>1, CurrentItem
  <2>6. CASE r.items # <<>>
    <3>1. b = a /\ Upcoming(r) # <<>> /\ Played(a) = Played(r) /\ Upcoming(a) = PulledOf(r)
      BY <2>4, <2>5, <2>6, AddedParts
    <3> QED  BY <2>1, <3>1 DEF Repeats
  <2>7. CASE r.items = <<>>
    <3>1. Upcoming(r) = <<>> /\ Played(r) = <<>> /\ ~HasNextOf(r)
      BY <2>7, UpcomingHasCurrent DEF HasNextOf
    <3>2. CASE Current(a) = NoItem
      <4>1. Empties(b) /\ Taken(b)
        BY <2>1, <2>4, <3>2, ClearEmpties
      <4> QED  BY <3>1, <4>1 DEF GoesOn
    <3>3. CASE Current(a) # NoItem
      <4>1. b = a /\ a.position \in 1..Len(a.items)
        BY <2>4, <2>5, <3>3
      <4>2. Waiting(r) # <<>>
        <5>1. ASSUME a = r PROVE FALSE
          BY <2>7, <4>1, <5>1
        <5> QED  BY <5>1, AddedParts
      <4>3. Played(a) = <<>> /\ Upcoming(a) = <<Head(Waiting(r))>>
        BY <2>7, <4>2, AddedParts
      <4> QED  BY <2>1, <3>1, <4>1, <4>2, <4>3 DEF GoesOn, StartsQueued, LeftOf
    <3> QED  BY <3>2, <3>3
  <2> QED  BY <2>6, <2>7
<1> QED  BY <1>1, <1>2

\* A skip back.
LEMMA StepsBack ==
  ASSUME NEW r, Good(r), Taken(r), NEW b, b = OrCleared(SkipToPrevious(r))
  PROVE  /\ IF Played(r) # <<>> THEN GoesBack(r, b)
            ELSE Same(r, b) \/ (Upcoming(r) = <<>> /\ Empties(b))
         /\ Taken(b)
<1>1. /\ WellFormed(r) /\ r \in QueueType /\ Len(r.items) \in Nat /\ r.position \in Nat \ {0}
      /\ DOMAIN r.positions = 1..Len(r.items) /\ r.behavior \in Behavior
  BY WellFormedFacts DEF Good
<1>2. CASE r.items = <<>>
  <2>1. r.position = 1
    BY <1>2 DEF Good, Placed
  <2>2. SkipToPrevious(r) = r
    BY <1>1, <2>1 DEF SkipToPrevious, PreviousPosition, QueueType
  <2>3. Current(r) = NoItem
    BY <1>1, <1>2, CurrentItem
  <2>4. b = Clear(r)
    BY <2>2, <2>3 DEF OrCleared
  <2> QED  BY <1>1, <1>2, <2>4, ClearEmpties, UpcomingHasCurrent
<1>3. CASE r.items # <<>>
  <2>1. r.position \in 1..Len(r.items)
    BY <1>3, GoodPosition
  <2> DEFINE m == SkipToPrevious(r)
  <2>2. /\ m.positions = r.positions /\ m.position = PreviousPosition(r) /\ WellFormed(m)
        /\ m.user_items = r.user_items /\ m.user_items_position = r.user_items_position
    BY <1>1, SkipsWellFormed DEF SkipToPrevious, QueueType
  <2>3. b = m
    <3>1. m.position \in DOMAIN m.positions
      BY <1>1, <2>1, <2>2 DEF PreviousPosition
    <3> QED  BY <2>2, <3>1, CurrentItem DEF OrCleared
  <2>4. Waiting(b) = Waiting(r) /\ Taken(b)
    BY <2>2, <2>3 DEF Waiting, Taken
  <2>5. CASE r.position = 1
    <3>1. b = r
      BY <1>1, <2>3, <2>5 DEF SkipToPrevious, PreviousPosition, QueueType
    <3>2. Played(r) = <<>>
      BY <2>5, SubSeqEmpty DEF Played
    <3> QED  BY <2>4, <3>1, <3>2 DEF Same
  <2>6. CASE r.position # 1
    <3>1. r.position \in 2..Len(r.items) /\ r.position > 1
      BY <1>1, <2>1, <2>6
    <3>2. b = [r EXCEPT !.position = r.position - 1]
      BY <2>3, <3>1 DEF SkipToPrevious, PreviousPosition
    <3>3. Played(b) = Front(Played(r)) /\ Played(r) # <<>>
          /\ Upcoming(b) = <<Last(Played(r))>> \o Upcoming(r)
      BY <1>1, <3>1, <3>2, OneBack
    <3> QED  BY <2>4, <3>3 DEF GoesBack
  <2> QED  BY <2>5, <2>6
<1> QED  BY <1>2, <1>3

-----------------------------------------------------------------------------
(***************************************************************************)
(* Every step of PlayQueue.                                                *)
(***************************************************************************)
Sound == Inv /\ Taken(q)

LEMMA CommandsAreRelations ==
  ASSUME Sound
  PROVE  /\ \A items \in Lists : ReplaceQueue(items) /\ alive' =>
              Taken(q') /\ (Loads(q') \/ Empties(q'))
         /\ \A items \in Lists : \A position \in Positions(items) :
              LoadQueue(items, position) /\ alive' => Taken(q') /\ (Loads(q') \/ Empties(q'))
         /\ \A item \in Item : AddToQueue(item) => Taken(q') /\ Enqueues(q, q', item)
         /\ \A item \in Item : AddNextTrack(item) => Taken(q') /\ PlaysNext(q, q', item)
         /\ \A behavior \in Behavior :
              SetQueueBehavior(behavior) /\ alive' => Taken(q') /\ Reorders(q, q')
         /\ NextTrack /\ alive' => Taken(q') /\ GoesOn(q, q')
         /\ EndOfTrack /\ alive' => Taken(q') /\ (GoesOn(q, q') \/ Repeats(q, q'))
         /\ PreviousTrack => /\ Taken(q')
                             /\ IF Played(q) # <<>> THEN GoesBack(q, q')
                                ELSE Same(q, q') \/ (Upcoming(q) = <<>> /\ Empties(q'))
         /\ Stop => Taken(q') /\ Empties(q')
<1>1. Good(q) /\ Taken(q) /\ q.behavior \in Behavior /\ alive \in BOOLEAN
  BY WellFormedFacts DEF Sound, Inv, Good
<1>2. ASSUME NEW S, Run(S), alive' PROVE q' \in S
  BY <1>2 DEF Run
<1>3. ASSUME NEW x, Run({x}) PROVE q' = x
  BY <1>3 DEF Run
<1>4. ASSUME NEW items \in Lists, ReplaceQueue(items), alive'
      PROVE  Taken(q') /\ (Loads(q') \/ Empties(q'))
  <2>1. items \in Seq(Item) /\ q' \in Replace(q, items)
    BY <1>2, <1>4, ListsAssumption DEF ReplaceQueue
  <2>2. PICK position \in Nat \ {0} :
          /\ Replace(q, items) = Fill(q, items, position)
          /\ IF items = <<>> THEN position = 1 ELSE position \in DOMAIN items
    BY <2>1, ReplaceIsFill
  <2> QED  BY <1>1, <2>1, <2>2, FillLoads
<1>5. ASSUME NEW items \in Lists, NEW position \in Positions(items),
             LoadQueue(items, position), alive'
      PROVE  Taken(q') /\ (Loads(q') \/ Empties(q'))
  <2>1. /\ items \in Seq(Item) /\ position \in Nat \ {0}
        /\ IF items = <<>> THEN position = 1 ELSE position \in DOMAIN items
    BY ListsAssumption DEF Positions
  <2>2. PICK x \in Fill(q, items, position) :
          q' = IF Current(x) = NoItem THEN Clear(x) ELSE x
    BY <1>2, <1>5 DEF LoadQueue, OrStopped
  <2>3. Taken(x) /\ Good(x) /\ (Loads(x) \/ Empties(x))
    BY <1>1, <2>1, FillLoads
  <2>4. x.behavior \in Behavior
    BY <2>3, WellFormedFacts DEF Good
  <2> QED  BY <2>2, <2>3, <2>4, ClearEmpties
<1>6. ASSUME NEW item \in Item, AddToQueue(item)
      PROVE  Taken(q') /\ Enqueues(q, q', item)
  BY <1>1, <1>3, <1>6, AddEnqueues DEF AddToQueue
<1>7. ASSUME NEW item \in Item, AddNextTrack(item)
      PROVE  Taken(q') /\ PlaysNext(q, q', item)
  BY <1>1, <1>3, <1>7, AddNextPlaysNext DEF AddNextTrack
<1>8. ASSUME NEW behavior \in Behavior, SetQueueBehavior(behavior), alive'
      PROVE  Taken(q') /\ Reorders(q, q')
  BY <1>1, <1>2, <1>8, SetBehaviourReorders DEF SetQueueBehavior
<1>9. ASSUME NextTrack, alive' PROVE Taken(q') /\ GoesOn(q, q')
  <2>1. PICK a : a = HandleAddedQueue(q)
    OBVIOUS
  <2>2. PICK t \in NextPosition(a) : q' = OrCleared([a EXCEPT !.position = t])
    BY <1>2, <1>9, <2>1 DEF NextTrack, OrStopped, SkipToNext, MoveTo, OrCleared
  <2> QED  BY <1>1, <2>1, <2>2, MovesOn
<1>10. ASSUME EndOfTrack, alive' PROVE Taken(q') /\ (GoesOn(q, q') \/ Repeats(q, q'))
  <2>1. PICK a : a = HandleAddedQueue(q)
    OBVIOUS
  <2>2. PICK t \in FollowingPosition(a) : q' = OrCleared([a EXCEPT !.position = t])
    BY <1>2, <1>10, <2>1 DEF EndOfTrack, OrStopped, SkipToFollowing, MoveTo, OrCleared
  <2> QED  BY <1>1, <2>1, <2>2, FollowsOn
<1>11. ASSUME PreviousTrack
       PROVE  /\ Taken(q')
              /\ IF Played(q) # <<>> THEN GoesBack(q, q')
                 ELSE Same(q, q') \/ (Upcoming(q) = <<>> /\ Empties(q'))
  <2>1. OrStopped({SkipToPrevious(q)}) = {OrCleared(SkipToPrevious(q))}
    BY DEF OrStopped, OrCleared
  <2>2. q' = OrCleared(SkipToPrevious(q))
    BY <1>3, <1>11, <2>1 DEF PreviousTrack
  <2> QED  BY <1>1, <2>2, StepsBack
<1>12. ASSUME Stop PROVE Taken(q') /\ Empties(q')
  BY <1>1, <1>3, <1>12, ClearEmpties DEF Stop
<1> QED
  BY <1>4, <1>5, <1>6, <1>7, <1>8, <1>9, <1>10, <1>11, <1>12

LEMMA StepKeepsPromise ==
  ASSUME Sound, [Next]_vars
  PROVE  Sound' /\ CommandsKeepPromise /\ (Promise!Next \/ UNCHANGED Promise!vars)
<1>1. Inv'
  BY StepKeepsInv DEF Sound, Inv, vars, Good, WellFormed, Placed
<1>2. CommandsKeepPromise
  <2>1. ASSUME GoesOn(q, q') PROVE Promise!Onward
    BY <2>1, RelationsAreSteps DEF GoesOn, Promise!Onward
  <2>2. ASSUME PreviousTrack PROVE Promise!Backward
    <3>1. Played(q) # <<>> => GoesBack(q, q')
      BY <2>2, CommandsAreRelations
    <3>2. Played(q) = <<>> => Same(q, q') \/ (Upcoming(q) = <<>> /\ Empties(q'))
      BY <2>2, CommandsAreRelations
    <3> QED  BY <3>1, <3>2, RelationsAreSteps DEF Promise!Backward
  <2> QED  BY <2>1, <2>2, CommandsAreRelations, RelationsAreSteps DEF CommandsKeepPromise
<1>3. CASE UNCHANGED vars
  <2>1. q' = q /\ Same(q, q')
    BY <1>3 DEF vars, Same
  <2>2. Taken(q)'
    BY <2>1 DEF Sound, Taken
  <2> QED  BY <1>1, <1>2, <2>1, <2>2, RelationsAreSteps DEF Sound
<1>4. CASE Next /\ ~alive'
  <2>1. q' = q
    BY <1>4 DEF Next, ReplaceQueue, LoadQueue, AddToQueue, AddNextTrack, SetQueueBehavior,
                NextTrack, PreviousTrack, EndOfTrack, Stop, Run, Sound
  <2>2. Same(q, q') /\ Taken(q)'
    BY <2>1 DEF Sound, Same, Taken
  <2> QED  BY <1>1, <1>2, <2>2, RelationsAreSteps DEF Sound
<1>5. CASE Next /\ alive'
  <2>1. Taken(q')
    BY <1>5, CommandsAreRelations DEF Next
  <2>2. Taken(q)'
    BY <2>1 DEF Taken
  <2>3. Promise!Next \/ UNCHANGED Promise!vars
    <3>1. \/ \E item \in Item : Enqueues(q, q', item) \/ PlaysNext(q, q', item)
          \/ Loads(q') \/ Empties(q') \/ Reorders(q, q') \/ GoesOn(q, q') \/ Repeats(q, q')
          \/ GoesBack(q, q') \/ Same(q, q')
      BY <1>5, CommandsAreRelations DEF Next
    <3> QED  BY <3>1, RelationsAreSteps DEF Promise!Next, GoesOn
  <2> QED  BY <1>1, <1>2, <2>2, <2>3 DEF Sound
<1> QED  BY <1>3, <1>4, <1>5

LEMMA InitSound == Init => Sound /\ Promise!Init
<1> SUFFICES ASSUME Init PROVE Sound /\ Promise!Init
  OBVIOUS
<1>1. EmptyQueue.behavior \in Behavior /\ Clear(EmptyQueue) = EmptyQueue
  BY DEF EmptyQueue, Clear, Behavior
<1>2. Inv /\ Taken(q) /\ Empties(q)
  BY <1>1, ClearWellFormed, ClearEmpties DEF Init, Inv, Good
<1> QED
  BY <1>2 DEF Sound, Empties, Promise!Init, Played, Upcoming, Waiting, Order, PlayedOrder

\* The queue implements PlayOrder: through shuffles, insertions, skips and repeats
\* no track is lost or played twice in a pass, and tracks the user queued come in
\* the order they were queued.  Each command does what is promised of it.
THEOREM QueueImplementsPlayOrder == Spec => ImplementsPlayOrder
<1>1. Sound /\ [Next]_vars => Sound'
  BY StepKeepsPromise
<1>2. Sound /\ [Next]_vars => [Promise!Next]_(Promise!vars)
  BY StepKeepsPromise
<1>3. Sound /\ [Next]_vars => [CommandsKeepPromise]_vars
  BY StepKeepsPromise
<1> QED
  BY <1>1, <1>2, <1>3, InitSound, PTL DEF Spec, ImplementsPlayOrder, Promise!Spec

-----------------------------------------------------------------------------
(***************************************************************************)
(* MirrorKnowsPlayer and SnapshotIsShown, of PlaybackView: for any lists,  *)
(* commands, ends of tracks and launches.  Of the orders under way, those  *)
(* after the last that starts the queue anew, and the queue itself if none *)
(* does, bring nothing that the lists of the user interface have not got.  *)
(***************************************************************************)
\* Of whatever: the lists are told apart by what is in them.
Sequence(x) == x \in Seq(V!ToSet(x))

Listed == V!ToSet(queue) \cup V!ToSet(added_queue) \cup forgotten

Fresh(o) == o.kind \in {"LoadQueue", "ReplaceQueue"}
Adds(o) == o.kind \in {"AddToQueue", "AddNext"}
GoodOrder(o) == Sequence(o.items) /\ (Adds(o) => 1 \in DOMAIN o.items)
Brings(o) == V!ToSet(o.items)

Held(x) == V!ToSet(x.items) \cup V!ToSet(x.user_items)
QueueShaped(x) ==
  /\ x = [items |-> x.items, user_items |-> x.user_items, position |-> x.position,
          user_items_position |-> x.user_items_position, positions |-> x.positions,
          behavior |-> x.behavior]
  /\ Sequence(x.items) /\ Sequence(x.user_items) /\ x.user_items_position \in Nat

\* None of the orders after the first n starts the queue anew.
NoneFreshAfter(n) == \A k \in DOMAIN orders : k > n => ~Fresh(orders[k])

ListsShaped == Sequence(queue) /\ Sequence(added_queue) /\ drag \in Nat
OrdersGood == Sequence(orders) /\ \A k \in DOMAIN orders : GoodOrder(orders[k])
QueueListed == NoneFreshAfter(0) => Held(pq) \subseteq Listed
OrdersListed ==
  \A k \in DOMAIN orders : NoneFreshAfter(k) => Brings(orders[k]) \subseteq Listed

OrdersSound == OrdersGood /\ QueueListed /\ OrdersListed

Mirrored == ListsShaped /\ QueueShaped(pq) /\ OrdersSound

\* Sequences of whatever.
LEMMA SequenceEmpty == Sequence(<<>>) /\ V!ToSet(<<>>) = {}
  BY DEF Sequence, V!ToSet

LEMMA SequenceOf ==
  ASSUME NEW T, NEW x \in Seq(T)
  PROVE  Sequence(x) /\ DOMAIN x = 1..Len(x) /\ Len(x) \in Nat
  <1>1. Len(x) \in Nat /\ x \in [1..Len(x) -> T] /\ DOMAIN x = 1..Len(x)
    OBVIOUS
  <1>2. x \in [1..Len(x) -> V!ToSet(x)]
    BY <1>1 DEF V!ToSet
  <1> QED
    BY <1>1, <1>2 DEF Sequence

LEMMA SequenceDomain ==
  ASSUME NEW x, Sequence(x)
  PROVE  Len(x) \in Nat /\ DOMAIN x = 1..Len(x)
  BY DEF Sequence

LEMMA SequenceOne ==
  ASSUME NEW y
  PROVE  /\ Sequence(<<y>>) /\ V!ToSet(<<y>>) = {y} /\ Len(<<y>>) = 1 /\ <<y>>[1] = y
         /\ DOMAIN <<y>> = {1}
  <1>1. <<y>> \in Seq({y}) /\ Len(<<y>>) = 1 /\ <<y>>[1] = y
    OBVIOUS
  <1>2. DOMAIN <<y>> = 1..1 /\ 1..1 = {1}
    BY <1>1
  <1>3. V!ToSet(<<y>>) = {y}
    BY <1>1, <1>2 DEF V!ToSet
  <1> QED
    BY <1>1, <1>2, <1>3 DEF Sequence

LEMMA SequenceJoin ==
  ASSUME NEW x, NEW y, Sequence(x), Sequence(y)
  PROVE  /\ Sequence(x \o y) /\ Len(x \o y) = Len(x) + Len(y)
         /\ DOMAIN (x \o y) = 1..(Len(x) + Len(y))
         /\ \A k \in 1..Len(x) : (x \o y)[k] = x[k]
         /\ \A k \in 1..Len(y) : (x \o y)[Len(x) + k] = y[k]
         /\ V!ToSet(x \o y) = V!ToSet(x) \cup V!ToSet(y)
  <1> DEFINE T == V!ToSet(x) \cup V!ToSet(y)
             z == x \o y
  <1>1. x \in Seq(T) /\ y \in Seq(T) /\ Len(x) \in Nat /\ Len(y) \in Nat
        /\ DOMAIN x = 1..Len(x) /\ DOMAIN y = 1..Len(y)
    BY DEF Sequence
  <1> HIDE DEF T
  <1>2. /\ z \in Seq(T) /\ Len(z) = Len(x) + Len(y)
        /\ \A k \in 1..(Len(x) + Len(y)) :
             z[k] = IF k <= Len(x) THEN x[k] ELSE y[k - Len(x)]
    BY <1>1, ConcatProperties, Zenon
  <1> HIDE DEF z
  <1>3. DOMAIN z = 1..(Len(x) + Len(y))
    BY <1>1, <1>2
  <1>4. /\ \A k \in 1..Len(x) : z[k] = x[k]
        /\ \A k \in 1..Len(y) : z[Len(x) + k] = y[k]
    BY <1>1, <1>2, SMTT(30)
  <1>5. V!ToSet(z) \subseteq V!ToSet(x) \cup V!ToSet(y)
    <2> SUFFICES ASSUME NEW k \in 1..(Len(x) + Len(y))
                 PROVE  z[k] \in V!ToSet(x) \cup V!ToSet(y)
      BY <1>3 DEF V!ToSet
    <2>1. CASE k <= Len(x)
      <3>1. k \in DOMAIN x /\ z[k] = x[k]
        BY <1>1, <1>2, <2>1
      <3> QED
        BY <3>1 DEF V!ToSet
    <2>2. CASE ~(k <= Len(x))
      <3>1. k - Len(x) \in DOMAIN y /\ z[k] = y[k - Len(x)]
        BY <1>1, <1>2, <2>2
      <3> QED
        BY <3>1 DEF V!ToSet
    <2> QED
      BY <2>1, <2>2
  <1>6. V!ToSet(x) \subseteq V!ToSet(z)
    BY <1>1, <1>3, <1>4 DEF V!ToSet
  <1>7. V!ToSet(y) \subseteq V!ToSet(z)
    <2> SUFFICES ASSUME NEW k \in 1..Len(y) PROVE y[k] \in V!ToSet(z)
      BY <1>1 DEF V!ToSet
    <2>1. Len(x) + k \in DOMAIN z /\ z[Len(x) + k] = y[k]
      BY <1>1, <1>3, <1>4
    <2> QED
      BY <2>1 DEF V!ToSet
  <1>8. Sequence(z)
    BY <1>2, SequenceOf
  <1> QED
    BY <1>2, <1>3, <1>4, <1>5, <1>6, <1>7, <1>8 DEF z

LEMMA SequenceEnd ==
  ASSUME NEW x, NEW y, Sequence(x)
  PROVE  /\ Sequence(x \o <<y>>) /\ Len(x) \in Nat /\ DOMAIN x = 1..Len(x)
         /\ DOMAIN (x \o <<y>>) = 1..(Len(x) + 1)
         /\ \A k \in 1..Len(x) : (x \o <<y>>)[k] = x[k]
         /\ (x \o <<y>>)[Len(x) + 1] = y
  <1>1. ASSUME NEW one, Sequence(one), Len(one) = 1, one[1] = y
        PROVE  /\ Sequence(x \o one) /\ Len(x) \in Nat /\ DOMAIN x = 1..Len(x)
               /\ DOMAIN (x \o one) = 1..(Len(x) + 1)
               /\ \A k \in 1..Len(x) : (x \o one)[k] = x[k]
               /\ (x \o one)[Len(x) + 1] = y
    <2>1. Len(x) \in Nat /\ DOMAIN x = 1..Len(x)
      BY SequenceDomain
    <2>2. Sequence(x \o one)
      BY <1>1, SequenceJoin
    <2>3. DOMAIN (x \o one) = 1..(Len(x) + Len(one))
      BY <1>1, SequenceJoin
    <2>4. \A k \in 1..Len(x) : (x \o one)[k] = x[k]
      BY <1>1, SequenceJoin
    <2>5. \A k \in 1..Len(one) : (x \o one)[Len(x) + k] = one[k]
      BY <1>1, SequenceJoin
    <2>6. (x \o one)[Len(x) + 1] = y
      BY <1>1, <2>5
    <2> QED
      BY <1>1, <2>1, <2>2, <2>3, <2>4, <2>6
  <1> QED
    BY <1>1, SequenceOne, Zenon

LEMMA SequenceAppend ==
  ASSUME NEW x, NEW y, Sequence(x)
  PROVE  Sequence(Append(x, y)) /\ V!ToSet(Append(x, y)) = V!ToSet(x) \cup {y}
  <1> DEFINE T == V!ToSet(x) \cup {y}
  <1>1. x \in Seq(T) /\ y \in T
    BY DEF Sequence
  <1> HIDE DEF T
  <1>2. /\ Append(x, y) \in Seq(T) /\ Len(Append(x, y)) = Len(x) + 1 /\ Len(x) \in Nat
        /\ DOMAIN x = 1..Len(x) /\ DOMAIN Append(x, y) = 1..(Len(x) + 1)
        /\ \A k \in 1..Len(x) : Append(x, y)[k] = x[k]
        /\ Append(x, y)[Len(x) + 1] = y
    BY <1>1
  <1>3. V!ToSet(Append(x, y)) = V!ToSet(x) \cup {y}
    BY <1>2 DEF V!ToSet
  <1> QED
    BY <1>2, <1>3, SequenceOf

LEMMA SequenceTail ==
  ASSUME NEW x, Sequence(x), x # <<>>
  PROVE  /\ Sequence(Tail(x)) /\ Len(x) \in Nat /\ Len(x) >= 1 /\ Len(Tail(x)) = Len(x) - 1
         /\ DOMAIN Tail(x) = 1..(Len(x) - 1) /\ DOMAIN x = 1..Len(x)
         /\ \A k \in 1..(Len(x) - 1) : Tail(x)[k] = x[k + 1]
         /\ Head(x) = x[1]
  <1>1. x \in Seq(V!ToSet(x))
    BY DEF Sequence
  <1> DEFINE T == V!ToSet(x)
  <1> HIDE DEF T
  <1>2. x \in Seq(T)
    BY <1>1 DEF T
  <1>3. Tail(x) \in Seq(T) /\ Len(Tail(x)) = Len(x) - 1 /\ Len(x) \in Nat /\ Len(x) >= 1
        /\ \A k \in 1..(Len(x) - 1) : Tail(x)[k] = x[k + 1]
    BY <1>2
  <1>4. DOMAIN x = 1..Len(x) /\ Head(x) = x[1]
    BY <1>2
  <1>5. Sequence(Tail(x)) /\ DOMAIN Tail(x) = 1..(Len(x) - 1)
    BY <1>3, SequenceOf
  <1> QED
    BY <1>3, <1>4, <1>5

LEMMA SequencePart ==
  ASSUME NEW x, Sequence(x), NEW m, m \in Nat, m >= 1, NEW n, n \in Int, n <= Len(x)
  PROVE  /\ Sequence(SubSeq(x, m, n)) /\ V!ToSet(SubSeq(x, m, n)) \subseteq V!ToSet(x)
         /\ m <= n + 1 => Len(SubSeq(x, m, n)) = n + 1 - m
  <1> DEFINE T == V!ToSet(x)
  <1>1. x \in Seq(T) /\ \A k \in 1..Len(x) : x[k] \in T
    BY DEF Sequence
  <1> HIDE DEF T
  <1>2. Len(x) \in Nat
    BY <1>1
  <1>3. SubSeq(x, m, n) \in Seq(T) /\ (m <= n + 1 => Len(SubSeq(x, m, n)) = n + 1 - m)
    <2>1. \A k \in m..n : x[k] \in T
      BY <1>1, <1>2
    <2> QED
      BY <1>1, <1>2, <2>1, SubSeqProperties
  <1>4. V!ToSet(SubSeq(x, m, n)) \subseteq T
    BY <1>3 DEF V!ToSet
  <1> QED
    BY <1>3, <1>4, SequenceOf DEF T

\* Cut in two anywhere, a sequence keeps what is in it.
LEMMA SequenceCut ==
  ASSUME NEW x, Sequence(x), NEW n \in 0..Len(x)
  PROVE  V!ToSet(x) \subseteq V!ToSet(SubSeq(x, 1, n)) \cup V!ToSet(SubSeq(x, n + 1, Len(x)))
  <1> DEFINE T == V!ToSet(x)
             left == SubSeq(x, 1, n)
             right == SubSeq(x, n + 1, Len(x))
  <1>1. x \in Seq(T) /\ \A k \in 1..Len(x) : x[k] \in T
    BY DEF Sequence
  <1>2. Len(x) \in Nat /\ DOMAIN x = 1..Len(x) /\ n \in Nat /\ n <= Len(x)
    BY SequenceDomain
  <1> HIDE DEF T
  <1>3. left \in Seq(T) /\ Len(left) = n /\ \A k \in 1..n : left[k] = x[k]
    <2>1. \A k \in 1..n : x[k] \in T
      BY <1>1, <1>2
    <2> QED
      BY <1>1, <1>2, <2>1, SubSeqProperties
  <1>4. /\ right \in Seq(T) /\ Len(right) = Len(x) - n
        /\ \A k \in 1..(Len(x) - n) : right[k] = x[n + k]
    <2>1. \A k \in (n + 1)..Len(x) : x[k] \in T
      BY <1>1, <1>2
    <2> DEFINE m == n + 1
    <2>2. m \in Nat /\ m = n + 1 /\ m \in 1..(Len(x) + 1)
      BY <1>2
    <2> HIDE DEF m
    <2>3. /\ SubSeq(x, m, Len(x)) \in Seq(T)
          /\ Len(SubSeq(x, m, Len(x))) = Len(x) + 1 - m
          /\ \A k \in 1..(Len(x) - m + 1) : SubSeq(x, m, Len(x))[k] = x[m + k - 1]
      BY <1>1, <1>2, <2>1, <2>2, SubSeqProperties
    <2>4. SubSeq(x, m, Len(x)) = right
      BY <2>2
    <2>5. \A k \in 1..(Len(x) - n) : k \in 1..(Len(x) - m + 1) /\ m + k - 1 = n + k
      BY <1>2, <2>2
    <2>6. Len(x) + 1 - m = Len(x) - n
      <3>1. \A l, i, j \in Nat : j = i + 1 => l + 1 - j = l - i
        OBVIOUS
      <3> QED
        BY <1>2, <2>2, <3>1
    <2> HIDE DEF right
    <2> QED
      BY <2>3, <2>4, <2>5, <2>6
  <1> HIDE DEF left, right
  <1>5. DOMAIN left = 1..n /\ DOMAIN right = 1..(Len(x) - n)
    BY <1>2, <1>3, <1>4
  <1> SUFFICES ASSUME NEW k \in 1..Len(x)
               PROVE  x[k] \in V!ToSet(left) \cup V!ToSet(right)
    BY <1>2 DEF V!ToSet, left, right, T
  <1>6. CASE k <= n
    <2>1. k \in DOMAIN left /\ left[k] = x[k]
      BY <1>2, <1>3, <1>5, <1>6
    <2> QED
      BY <2>1 DEF V!ToSet
  <1>7. CASE ~(k <= n)
    <2>1. k - n \in DOMAIN right /\ right[k - n] = x[k]
      BY <1>2, <1>4, <1>5, <1>7
    <2> QED
      BY <2>1 DEF V!ToSet
  <1> QED
    BY <1>6, <1>7

LEMMA SequenceReversed ==
  ASSUME NEW x, Sequence(x)
  PROVE  /\ Sequence(V!Reverse(x)) /\ DOMAIN V!Reverse(x) = DOMAIN x
         /\ \A k \in DOMAIN x : V!Reverse(x)[k] \in V!ToSet(x)
  <1>1. Len(x) \in Nat /\ DOMAIN x = 1..Len(x)
    BY SequenceDomain
  <1>2. \A k \in 1..Len(x) : x[(Len(x) - k) + 1] \in V!ToSet(x)
    BY <1>1 DEF V!ToSet
  <1>3. V!Reverse(x) \in Seq(V!ToSet(x))
    BY <1>1, <1>2 DEF V!Reverse
  <1> QED
    BY <1>1, <1>2, <1>3, SequenceOf DEF V!Reverse

LEMMA SequenceRemoved ==
  ASSUME NEW x, Sequence(x), NEW n \in 1..Len(x)
  PROVE  Sequence(V!RemoveAt(x, n)) /\ Len(V!RemoveAt(x, n)) = Len(x) - 1
  <1>1. Len(x) \in Nat
    BY SequenceDomain
  <1>2. 1 \in Nat /\ 1 >= 1 /\ n - 1 \in Int /\ n - 1 <= Len(x) /\ 1 <= (n - 1) + 1
        /\ n + 1 \in Nat /\ n + 1 >= 1 /\ Len(x) \in Int /\ Len(x) <= Len(x)
        /\ n + 1 <= Len(x) + 1
    BY <1>1
  <1>3. Sequence(SubSeq(x, 1, n - 1)) /\ Len(SubSeq(x, 1, n - 1)) = (n - 1) + 1 - 1
    BY <1>2, SequencePart, Zenon
  <1>4. /\ Sequence(SubSeq(x, n + 1, Len(x)))
        /\ Len(SubSeq(x, n + 1, Len(x))) = Len(x) + 1 - (n + 1)
    BY <1>2, SequencePart, Zenon
  <1>5. /\ Sequence(V!RemoveAt(x, n))
        /\ Len(V!RemoveAt(x, n))
             = Len(SubSeq(x, 1, n - 1)) + Len(SubSeq(x, n + 1, Len(x)))
    BY <1>3, <1>4, SequenceJoin, Zenon DEF V!RemoveAt
  <1>6. ((n - 1) + 1 - 1) + (Len(x) + 1 - (n + 1)) = Len(x) - 1
    BY <1>1
  <1> QED
    BY <1>3, <1>4, <1>5, <1>6

LEMMA SequenceInserted ==
  ASSUME NEW x, Sequence(x), NEW n \in 1..(Len(x) + 1), NEW y
  PROVE  Sequence(V!InsertAt(x, n, y))
  <1>1. Len(x) \in Nat
    BY SequenceDomain
  <1>2. 1 \in Nat /\ 1 >= 1 /\ n - 1 \in Int /\ n - 1 <= Len(x)
        /\ n \in Nat /\ n >= 1 /\ Len(x) \in Int /\ Len(x) <= Len(x)
    BY <1>1
  <1>3. Sequence(SubSeq(x, 1, n - 1)) /\ Sequence(SubSeq(x, n, Len(x))) /\ Sequence(<<y>>)
    BY <1>2, SequencePart, SequenceOne, Zenon
  <1> QED
    BY <1>3, SequenceJoin, Zenon DEF V!InsertAt

LEMMA PlaceInList ==
  ASSUME NEW x, Sequence(x), NEW y
  PROVE  /\ V!IndexIn(x, y) \in 0..Len(x)
         /\ y \in V!ToSet(x) => V!IndexIn(x, y) \in 1..Len(x)
  <1> DEFINE I == {k \in 1..Len(x) : x[k] = y}
  <1>1. Len(x) \in Nat /\ DOMAIN x = 1..Len(x)
    BY SequenceDomain
  <1>2. V!IndexIn(x, y) = IF I # {} THEN V!Min(I) ELSE 0
    BY DEF V!IndexIn, V!SelectInSeq
  <1>3. I # {} => V!Min(I) \in I
    <2>1. I \in SUBSET Nat
      BY <1>1
    <2> HIDE DEF I
    <2> QED
      BY <2>1, LeastNat DEF V!Min
  <1>4. y \in V!ToSet(x) => I # {}
    BY <1>1 DEF V!ToSet
  <1>5. I \subseteq 1..Len(x)
    OBVIOUS
  <1>6. 0 \in 0..Len(x) /\ 1..Len(x) \subseteq 0..Len(x)
    BY <1>1
  <1> HIDE DEF I
  <1>7. CASE I = {}
    BY <1>2, <1>4, <1>6, <1>7
  <1>8. CASE I # {}
    <2>1. V!IndexIn(x, y) \in 1..Len(x)
      BY <1>2, <1>3, <1>5, <1>8
    <2> QED
      BY <1>6, <2>1
  <1> QED
    BY <1>7, <1>8

-----------------------------------------------------------------------------
(* What the operations of the player's queue can put into it.              *)

\* A result of an operation: a queue, with nothing that is not in "most".
Bounded(x, most) == QueueShaped(x) /\ Held(x) \subseteq most

LEMMA EmptyHolds == Bounded(V!EmptyQueue, {})
  BY SequenceEmpty DEF Bounded, QueueShaped, Held, V!EmptyQueue

\* The order and the place in it do not matter.
LEMMA MovedHolds ==
  ASSUME NEW x, QueueShaped(x), NEW p, NEW o, NEW b
  PROVE  /\ Bounded([x EXCEPT !.position = p], Held(x))
         /\ Bounded([x EXCEPT !.positions = o, !.position = p], Held(x))
         /\ Bounded([x EXCEPT !.behavior = b], Held(x))
  <1>1. ASSUME NEW r, r.items = x.items, r.user_items = x.user_items,
               r.user_items_position = x.user_items_position,
               r = [items |-> r.items, user_items |-> r.user_items, position |-> r.position,
                    user_items_position |-> r.user_items_position,
                    positions |-> r.positions, behavior |-> r.behavior]
        PROVE  Bounded(r, Held(x))
    BY <1>1 DEF Bounded, QueueShaped, Held
  <1>2. Bounded([x EXCEPT !.position = p], Held(x))
    <2> DEFINE r == [x EXCEPT !.position = p]
    <2>1. /\ r.items = x.items /\ r.user_items = x.user_items
          /\ r.user_items_position = x.user_items_position
          /\ r = [items |-> r.items, user_items |-> r.user_items, position |-> r.position,
                  user_items_position |-> r.user_items_position,
                  positions |-> r.positions, behavior |-> r.behavior]
      BY DEF QueueShaped
    <2> HIDE DEF r
    <2> QED
      BY <2>1, <1>1 DEF r
  <1>3. Bounded([x EXCEPT !.positions = o, !.position = p], Held(x))
    <2> DEFINE y == [x EXCEPT !.positions = o]
               r == [x EXCEPT !.positions = o, !.position = p]
    <2>0. y = [items |-> x.items, user_items |-> x.user_items, position |-> x.position,
               user_items_position |-> x.user_items_position, positions |-> o,
               behavior |-> x.behavior]
      BY DEF QueueShaped
    <2>2. r = [y EXCEPT !.position = p]
      OBVIOUS
    <2> HIDE DEF y, r
    <2>1. /\ r.items = x.items /\ r.user_items = x.user_items
          /\ r.user_items_position = x.user_items_position
          /\ r = [items |-> r.items, user_items |-> r.user_items, position |-> r.position,
                  user_items_position |-> r.user_items_position,
                  positions |-> r.positions, behavior |-> r.behavior]
      BY <2>0, <2>2
    <2> HIDE DEF r
    <2> QED
      BY <2>1, <1>1 DEF r
  <1>4. Bounded([x EXCEPT !.behavior = b], Held(x))
    <2> DEFINE r == [x EXCEPT !.behavior = b]
    <2>1. /\ r.items = x.items /\ r.user_items = x.user_items
          /\ r.user_items_position = x.user_items_position
          /\ r = [items |-> r.items, user_items |-> r.user_items, position |-> r.position,
                  user_items_position |-> r.user_items_position,
                  positions |-> r.positions, behavior |-> r.behavior]
      BY DEF QueueShaped
    <2> HIDE DEF r
    <2> QED
      BY <2>1, <1>1 DEF r
  <1> QED
    BY <1>2, <1>3, <1>4

LEMMA ClearHolds ==
  ASSUME NEW x
  PROVE  Bounded(V!Clear(x), {})
  BY EmptyHolds, MovedHolds DEF V!Clear, Bounded

LEMMA ComputePositionsHolds ==
  ASSUME NEW x, QueueShaped(x), NEW r \in V!ComputePositions(x)
  PROVE  Bounded(r, Held(x))
  <1>1. \E o, p : r = [x EXCEPT !.positions = o, !.position = p]
    BY DEF V!ComputePositions
  <1> QED
    BY <1>1, MovedHolds, ZenonT(40)

LEMMA FillHolds ==
  ASSUME NEW x, NEW items, Sequence(items), NEW p, NEW r \in V!Fill(x, items, p)
  PROVE  Bounded(r, V!ToSet(items))
  <1> DEFINE f == V!Filled(x, items, p)
  <1>1. QueueShaped(f) /\ Held(f) = V!ToSet(items)
    <2> DEFINE c == V!Clear(x)
    <2>1. /\ c = [items |-> <<>>, user_items |-> <<>>, position |-> 1,
                  user_items_position |-> 0, positions |-> <<>>, behavior |-> x.behavior]
      BY DEF V!Clear, V!EmptyQueue
    <2>2. f = [c EXCEPT !.items = items, !.position = p]
      BY DEF V!Filled
    <2> HIDE DEF c, f
    <2>3. /\ f.items = items /\ f.user_items = <<>> /\ f.user_items_position = 0
          /\ f = [items |-> f.items, user_items |-> f.user_items, position |-> f.position,
                  user_items_position |-> f.user_items_position,
                  positions |-> f.positions, behavior |-> f.behavior]
      BY <2>1, <2>2
    <2> QED
      BY <2>3, SequenceEmpty DEF QueueShaped, Held
  <1>2. r \in V!ComputePositions(f)
    BY DEF V!Fill
  <1> HIDE DEF f
  <1> QED
    BY <1>1, <1>2, ComputePositionsHolds

LEMMA ReplaceHolds ==
  ASSUME NEW x, NEW items, Sequence(items), NEW r \in V!Replace(x, items)
  PROVE  Bounded(r, V!ToSet(items))
  <1>1. \E p : r \in V!Fill(x, items, p)
    BY DEF V!Replace
  <1> QED
    BY <1>1, FillHolds

LEMMA AddHolds ==
  ASSUME NEW x, QueueShaped(x), NEW y
  PROVE  Bounded(V!Add(x, y), Held(x) \cup {y})
  <1> DEFINE r == V!Add(x, y)
  <1>1. r = [x EXCEPT !.user_items = Append(x.user_items, y)]
    BY DEF V!Add
  <1>2. /\ r.items = x.items /\ r.user_items = Append(x.user_items, y)
        /\ r.user_items_position = x.user_items_position
        /\ r = [items |-> r.items, user_items |-> r.user_items, position |-> r.position,
                user_items_position |-> r.user_items_position, positions |-> r.positions,
                behavior |-> r.behavior]
    BY <1>1 DEF QueueShaped
  <1>3. /\ Sequence(Append(x.user_items, y))
        /\ V!ToSet(Append(x.user_items, y)) = V!ToSet(x.user_items) \cup {y}
    BY SequenceAppend DEF QueueShaped
  <1> HIDE DEF r
  <1>4. QueueShaped(r)
    BY <1>2, <1>3 DEF QueueShaped
  <1>5. Held(r) \subseteq Held(x) \cup {y}
    BY <1>2, <1>3 DEF Held
  <1> QED
    BY <1>4, <1>5 DEF Bounded, r

LEMMA InsertAfterCurrentHolds ==
  ASSUME NEW x, QueueShaped(x), NEW y
  PROVE  /\ Bounded(V!InsertAfterCurrent(x, y), Held(x) \cup {y})
         /\ V!InsertAfterCurrent(x, y).user_items_position = x.user_items_position
  <1> DEFINE r == V!InsertAfterCurrent(x, y)
  <1>1. \E o : r = [x EXCEPT !.items = Append(x.items, y), !.positions = o]
    BY DEF V!InsertAfterCurrent
  <1>2. /\ r.user_items = x.user_items /\ r.items = Append(x.items, y)
        /\ r.user_items_position = x.user_items_position
        /\ r = [items |-> r.items, user_items |-> r.user_items, position |-> r.position,
                user_items_position |-> r.user_items_position, positions |-> r.positions,
                behavior |-> r.behavior]
    BY <1>1 DEF QueueShaped
  <1>3. /\ Sequence(Append(x.items, y))
        /\ V!ToSet(Append(x.items, y)) = V!ToSet(x.items) \cup {y}
    BY SequenceAppend DEF QueueShaped
  <1> HIDE DEF r
  <1>4. QueueShaped(r)
    BY <1>2, <1>3 DEF QueueShaped
  <1>5. Held(r) \subseteq Held(x) \cup {y}
    BY <1>2, <1>3 DEF Held
  <1> QED
    BY <1>2, <1>4, <1>5 DEF Bounded, r

LEMMA AddNextHolds ==
  ASSUME NEW x, QueueShaped(x), NEW y
  PROVE  Bounded(V!AddNext(x, y), Held(x) \cup {y})
  <1> DEFINE r == V!InsertAfterCurrent(x, y)
  <1>1. \E p : V!AddNext(x, y) = [r EXCEPT !.position = p]
    BY DEF V!AddNext
  <1>2. Bounded(r, Held(x) \cup {y})
    BY InsertAfterCurrentHolds
  <1> HIDE DEF r
  <1>3. QueueShaped(r) /\ Held(r) \subseteq Held(x) \cup {y}
    BY <1>2 DEF Bounded
  <1>4. Bounded(V!AddNext(x, y), Held(r))
    BY <1>1, <1>3, MovedHolds
  <1> QED
    BY <1>3, <1>4 DEF Bounded

LEMMA HandleAddedQueueHolds ==
  ASSUME NEW x, QueueShaped(x)
  PROVE  Bounded(V!HandleAddedQueue(x), Held(x))
  <1>1. CASE V!HasPendingUserItem(x)
    <2> DEFINE y == V!PendingUserItem(x)
               r == V!InsertAfterCurrent(x, y)
               n == r.user_items_position + 1
    <2>1. y \in Held(x)
      <3>1. x.user_items_position + 1 \in DOMAIN x.user_items
        BY <1>1, SequenceDomain DEF V!HasPendingUserItem, QueueShaped
      <3> QED
        BY <3>1 DEF V!PendingUserItem, Held, V!ToSet
    <2>2. Bounded(r, Held(x) \cup {y}) /\ r.user_items_position = x.user_items_position
      BY InsertAfterCurrentHolds
    <2>3. V!HandleAddedQueue(x) = [r EXCEPT !.user_items_position = n]
      BY <1>1 DEF V!HandleAddedQueue
    <2>4. n \in Nat
      BY <2>2 DEF QueueShaped
    <2> HIDE DEF r, n, y
    <2> QED
      BY <2>1, <2>2, <2>3, <2>4 DEF Bounded, QueueShaped, Held
  <1>2. CASE ~V!HasPendingUserItem(x)
    BY <1>2 DEF V!HandleAddedQueue, Bounded
  <1> QED
    BY <1>1, <1>2

LEMMA SkipsHold ==
  ASSUME NEW x, QueueShaped(x)
  PROVE  /\ \A r \in V!SkipToNext(x) : Bounded(r, Held(x))
         /\ \A r \in V!SkipToFollowing(x) : Bounded(r, Held(x))
         /\ Bounded(V!SkipToPrevious(x), Held(x))
  <1> DEFINE added == V!HandleAddedQueue(x)
  <1>1. Bounded(added, Held(x))
    BY HandleAddedQueueHolds
  <1>2. \A r \in V!SkipToNext(x) : \E p : r = [added EXCEPT !.position = p]
    BY DEF V!SkipToNext, V!MoveTo
  <1>3. \A r \in V!SkipToFollowing(x) : \E p : r = [added EXCEPT !.position = p]
    BY DEF V!SkipToFollowing, V!MoveTo
  <1> HIDE DEF added
  <1>4. \A p : Bounded([added EXCEPT !.position = p], Held(x))
    BY <1>1, MovedHolds DEF Bounded
  <1> QED
    BY <1>2, <1>3, <1>4, MovedHolds DEF V!SkipToPrevious

LEMMA SetBehaviourHolds ==
  ASSUME NEW x, QueueShaped(x), NEW b, NEW r \in V!SetBehaviour(x, b)
  PROVE  Bounded(r, Held(x))
  <1> DEFINE f == [x EXCEPT !.behavior = b]
  <1>1. Bounded(f, Held(x))
    BY MovedHolds
  <1>2. r \in V!ComputePositions(f)
    BY DEF V!SetBehaviour
  <1> HIDE DEF f
  <1> QED
    BY <1>1, <1>2, ComputePositionsHolds DEF Bounded

-----------------------------------------------------------------------------
(* What the lists and the orders do to the invariant.                      *)

\* An order that starts the queue anew: whatever was before does not matter.
LEMMA FreshOrderSound ==
  ASSUME OrdersGood, NEW o, Fresh(o), GoodOrder(o), orders' = orders \o <<o>>,
         Brings(o) \subseteq Listed'
  PROVE  OrdersSound'
  <1> DEFINE n == Len(orders) + 1
  <1>1. /\ Sequence(orders') /\ Len(orders) \in Nat /\ DOMAIN orders = 1..Len(orders)
        /\ DOMAIN orders' = 1..n
        /\ \A k \in 1..Len(orders) : orders'[k] = orders[k]
        /\ orders'[n] = o
    BY SequenceEnd DEF OrdersGood
  <1>2. n \in Nat /\ n > 0 /\ n \in 1..n /\ \A k \in 1..n : k = n \/ (k \in 1..Len(orders) /\ n > k)
    BY <1>1
  <1> HIDE DEF n
  <1>3. OrdersGood'
    BY <1>1, <1>2 DEF OrdersGood
  <1>4. ASSUME NEW k, n > k, NoneFreshAfter(k)'
        PROVE  FALSE
    BY <1>1, <1>2, <1>4 DEF NoneFreshAfter
  <1>5. QueueListed'
    BY <1>2, <1>4 DEF QueueListed
  <1>6. OrdersListed'
    <2> SUFFICES ASSUME NEW k \in 1..n, NoneFreshAfter(k)'
                 PROVE  Brings(orders'[k]) \subseteq Listed'
      BY <1>1 DEF OrdersListed
    <2>1. k = n
      BY <1>2, <1>4
    <2> QED
      BY <1>1, <2>1
  <1> QED
    BY <1>3, <1>5, <1>6 DEF OrdersSound

\* Orders that add to the queue, or do not touch it: the lists have what they
\* had, and what the orders bring.
LEMMA MoreOrdersSound ==
  ASSUME OrdersSound, NEW s, Sequence(s),
         \A k \in DOMAIN s : GoodOrder(s[k]) /\ ~Fresh(s[k]) /\ Brings(s[k]) \subseteq Listed',
         orders' = orders \o s, pq' = pq, Listed \subseteq Listed'
  PROVE  OrdersSound'
  <1> DEFINE n == Len(orders)
  <1>1. /\ Sequence(orders') /\ n \in Nat /\ DOMAIN orders = 1..n /\ Len(s) \in Nat
        /\ DOMAIN s = 1..Len(s) /\ DOMAIN orders' = 1..(n + Len(s))
        /\ \A k \in 1..n : orders'[k] = orders[k]
        /\ \A k \in 1..Len(s) : orders'[n + k] = s[k]
    BY SequenceJoin, SequenceDomain DEF OrdersSound, OrdersGood
  <1>2. \A k \in 1..(n + Len(s)) : k \in 1..n \/ (k - n \in 1..Len(s) /\ k = n + (k - n))
    BY <1>1
  <1>3. 1..n \subseteq 1..(n + Len(s))
    BY <1>1
  <1> HIDE DEF n
  <1>4. \A k \in DOMAIN orders' :
          \/ k \in DOMAIN orders /\ orders'[k] = orders[k]
          \/ GoodOrder(orders'[k]) /\ ~Fresh(orders'[k]) /\ Brings(orders'[k]) \subseteq Listed'
    BY <1>1, <1>2
  <1>5. OrdersGood'
    BY <1>1, <1>4 DEF OrdersSound, OrdersGood
  <1>6. ASSUME NEW k, NoneFreshAfter(k)' PROVE NoneFreshAfter(k)
    BY <1>1, <1>3, <1>6 DEF NoneFreshAfter
  <1>7. QueueListed'
    BY <1>6 DEF QueueListed, OrdersSound
  <1>8. OrdersListed'
    BY <1>4, <1>6 DEF OrdersListed, OrdersSound
  <1> QED
    BY <1>5, <1>7, <1>8 DEF OrdersSound

\* No order is sent or taken.
LEMMA SameOrdersSound ==
  ASSUME OrdersSound, orders' = orders, Held(pq') \subseteq Held(pq), Listed \subseteq Listed'
  PROVE  OrdersSound'
  <1>1. \A k : NoneFreshAfter(k)' <=> NoneFreshAfter(k)
    BY DEF NoneFreshAfter
  <1>2. OrdersGood' /\ QueueListed'
    BY <1>1 DEF OrdersSound, OrdersGood, QueueListed
  <1>3. OrdersListed'
    BY <1>1 DEF OrdersSound, OrdersListed
  <1> QED
    BY <1>2, <1>3 DEF OrdersSound

\* The player takes an order: its queue then has what the order brings and,
\* unless it starts anew, what it had.
LEMMA TakenOrderSound ==
  ASSUME OrdersSound, orders # <<>>, orders' = Tail(orders), Listed' = Listed,
         \/ Held(pq') \subseteq Brings(Head(orders))
         \/ /\ ~Fresh(Head(orders))
            /\ Held(pq') \subseteq Held(pq) \cup Brings(Head(orders))
  PROVE  OrdersSound'
  <1> DEFINE n == Len(orders) - 1
  <1>1. /\ Sequence(orders') /\ n \in Nat /\ DOMAIN orders = 1..(n + 1) /\ DOMAIN orders' = 1..n
        /\ \A k \in 1..n : orders'[k] = orders[k + 1]
        /\ Head(orders) = orders[1]
    BY SequenceTail DEF OrdersSound, OrdersGood
  <1> HIDE DEF n
  <1>2. \A k \in 1..n : k + 1 \in 1..(n + 1)
    BY <1>1
  <1>3. \A k \in 1..(n + 1) : k = 1 \/ (k - 1 \in 1..n /\ k = (k - 1) + 1)
    BY <1>1
  <1>4. OrdersGood'
    BY <1>1, <1>2 DEF OrdersSound, OrdersGood
  <1>5. ASSUME NEW k, k \in Nat, NoneFreshAfter(k)' PROVE NoneFreshAfter(k + 1)
    <2> SUFFICES ASSUME NEW j \in 1..(n + 1), j > k + 1 PROVE ~Fresh(orders[j])
      BY <1>1 DEF NoneFreshAfter
    <2>1. j - 1 \in 1..n /\ j = (j - 1) + 1 /\ j - 1 > k
      BY <1>1, <1>5
    <2> QED
      BY <1>1, <1>5, <2>1 DEF NoneFreshAfter
  <1>6. NoneFreshAfter(0)' => NoneFreshAfter(1) /\ (~Fresh(orders[1]) => NoneFreshAfter(0))
    <2> SUFFICES ASSUME NoneFreshAfter(0)'
                 PROVE  NoneFreshAfter(1) /\ (~Fresh(orders[1]) => NoneFreshAfter(0))
      OBVIOUS
    <2>1. NoneFreshAfter(0 + 1)
      BY <1>5
    <2>2. \A j \in 1..(n + 1) : j = 1 \/ j > 1
      BY <1>1
    <2> QED
      BY <1>1, <2>1, <2>2 DEF NoneFreshAfter
  <1>7. NoneFreshAfter(1) => Brings(orders[1]) \subseteq Listed
    BY <1>1 DEF OrdersSound, OrdersListed
  <1>8. QueueListed'
    BY <1>1, <1>6, <1>7 DEF OrdersSound, QueueListed
  <1>9. OrdersListed'
    <2> SUFFICES ASSUME NEW k \in 1..n, NoneFreshAfter(k)'
                 PROVE  Brings(orders'[k]) \subseteq Listed'
      BY <1>1 DEF OrdersListed
    <2>1. NoneFreshAfter(k + 1) /\ orders'[k] = orders[k + 1] /\ k + 1 \in DOMAIN orders
      BY <1>1, <1>2, <1>5
    <2> QED
      BY <2>1 DEF OrdersSound, OrdersListed
  <1> QED
    BY <1>4, <1>8, <1>9 DEF OrdersSound

-----------------------------------------------------------------------------
(* What is shown, and the snapshot of it.                                  *)

Shapes ==
  /\ playback = [st |-> playback.st, behavior |-> playback.behavior]
  /\ playback.behavior \in V!Behavior
  /\ now_playing = [item |-> now_playing.item, late |-> now_playing.late,
                    playing |-> now_playing.playing]

ShownInv == Shapes /\ SnapshotIsShown

LEMMA NothingIsNotLocal ==
  ASSUME ViewAssumption, NoViewItemAssumption
  PROVE  V!Nothing.item \notin Locals
  BY DEF ViewAssumption, NoViewItemAssumption, V!PlaybackViewAssumption, V!Nothing

LEMMA SaveKeepsShown ==
  ASSUME ShownInv, V!SaveSnapshot, NEW st, st \in {"Paused", "Playing"},
         NEW item, NEW late,
         playback' = [playback EXCEPT !.st = st],
         now_playing' = [item |-> item, late |-> late, playing |-> (st = "Playing")]
  PROVE  ShownInv'
  <1>1. /\ playback'.st = st /\ playback' = [st |-> st, behavior |-> playback.behavior]
        /\ playback.behavior \in V!Behavior
    BY DEF ShownInv, Shapes
  <1>2. now_playing'.item = item /\ now_playing'.playing = (st = "Playing")
    OBVIOUS
  <1>3. snapshot.item \notin Locals
    BY DEF ShownInv, SnapshotIsShown, V!SnapshotIsShown
  <1>4. CASE item \in Locals
    BY <1>1, <1>2, <1>3, <1>4
    DEF ShownInv, Shapes, SnapshotIsShown, V!SnapshotIsShown, V!Shown, V!SaveSnapshot
  <1>5. CASE item \notin Locals
    <2>1. snapshot' = now_playing'
      BY <1>2, <1>5 DEF V!SaveSnapshot
    <2> QED
      BY <1>1, <1>2, <1>5, <2>1 DEF ShownInv, Shapes, SnapshotIsShown, V!SnapshotIsShown, V!Shown
  <1> QED
    BY <1>4, <1>5

LEMMA ReportKeepsShown ==
  ASSUME ShownInv, V!OnReport
  PROVE  ShownInv'
  <1> USE DEF ShownInv, Shapes, SnapshotIsShown, V!SnapshotIsShown, V!Shown, V!Nothing
  <1>1. CASE V!OnLoading
    <2>1. CASE V!Known(V!Reported)
      BY <1>1, <2>1 DEF V!OnLoading
    <2>2. CASE ~V!Known(V!Reported)
      BY <1>1, <2>2 DEF V!OnLoading, V!view
    <2> QED
      BY <2>1, <2>2
  <1>2. CASE V!OnPlaying
    <2>1. CASE V!Known(V!Reported)
      <3>1. /\ playback' = [playback EXCEPT !.st = "Playing"]
            /\ now_playing' = [item |-> V!Reported, late |-> FALSE,
                               playing |-> ("Playing" = "Playing")]
        BY <1>2, <2>1 DEF V!OnPlaying
      <3> QED
        BY <1>2, <2>1, <3>1, SaveKeepsShown DEF V!OnPlaying
    <2>2. CASE ~V!Known(V!Reported)
      BY <1>2, <2>2 DEF V!OnPlaying, V!view
    <2> QED
      BY <2>1, <2>2
  <1>3. CASE V!OnProgress
    BY <1>3 DEF V!OnProgress
  <1>4. ASSUME NEW kind, NEW st, st \in {"Paused", "Playing"}, V!Switched(kind, st)
        PROVE  ShownInv'
    <2>1. CASE now_playing.item = NoItem
      BY <1>4, <2>1 DEF V!Switched
    <2>2. CASE now_playing.item # NoItem
      <3>1. now_playing' = [item |-> now_playing.item, late |-> now_playing.late,
                            playing |-> (st = "Playing")]
        BY <1>4, <2>2 DEF V!Switched
      <3> QED
        BY <1>4, <2>2, <3>1, SaveKeepsShown DEF V!Switched
    <2> QED
      BY <2>1, <2>2
  <1>5. CASE V!OnStopped
    BY <1>5 DEF V!OnStopped
  <1> QED
    BY <1>1, <1>2, <1>3, <1>4, <1>5 DEF V!OnReport, V!OnPausing, V!OnResuming

LEMMA StepKeepsShown ==
  ASSUME ViewAssumption, ShownInv, [V!Next]_V!vars
  PROVE  ShownInv'
  <1>1. UNCHANGED <<playback, now_playing, snapshot>> => ShownInv'
    BY DEF ShownInv, Shapes, SnapshotIsShown, V!SnapshotIsShown, V!Shown
  <1>2. CASE V!OnReport
    BY <1>2, ReportKeepsShown
  <1>3. CASE V!Answer
    BY <1>1, <1>3 DEF V!Answer, V!AutoplayReady, V!RestoreResolved, V!Alone, V!view
  <1>4. CASE V!RestoreFails
    BY <1>4, NothingIsNotLocal, NoViewItemAssumption
    DEF V!RestoreFails, V!Alone, V!view, ShownInv, Shapes, SnapshotIsShown,
        V!SnapshotIsShown, V!Shown
  <1>5. CASE V!EqTimerFires
    BY <1>1, <1>5 DEF V!EqTimerFires, V!Alone, V!view
  <1>6. CASE V!Chooses
    <2> USE DEF V!Acts, V!Keeps, V!Plays, V!Edits, V!view
    <2>1. ASSUME NEW list, NEW at, V!PlayTracks(list, at) PROVE ShownInv'
      BY <1>1, <2>1 DEF V!PlayTracks
    <2>2. ASSUME NEW row, V!PlayQueueEntries(row) PROVE ShownInv'
      BY <1>1, <2>2 DEF V!PlayQueueEntries
    <2>3. ASSUME NEW row, V!RemoveFromQueue(row) PROVE ShownInv'
      BY <1>1, <2>3 DEF V!RemoveFromQueue
    <2>4. ASSUME NEW row, V!DragBegin(row) PROVE ShownInv'
      BY <1>1, <2>4 DEF V!DragBegin, V!Drags
    <2>5. ASSUME NEW row, NEW after, V!DragEnd(row, after) PROVE ShownInv'
      BY <1>1, <2>5 DEF V!DragEnd
    <2>6. ASSUME NEW list, V!InsertAtEnd(list) \/ V!InsertNext(list) PROVE ShownInv'
      BY <1>1, <2>6 DEF V!InsertAtEnd, V!InsertNext
    <2>7. CASE V!ClearQueue
      BY <1>1, <2>7 DEF V!ClearQueue
    <2>8. CASE V!DragLeaves
      BY <1>1, <2>8 DEF V!DragLeaves, V!Drags
    <2>9. CASE V!PlayStop
      BY <1>1, <2>9 DEF V!PlayStop
    <2>10. CASE V!ConfigChanges
      BY <1>1, <2>10 DEF V!ConfigChanges
    <2>11. ASSUME NEW behavior \in ViewBehaviors, V!SetQueueBehavior(behavior) PROVE ShownInv'
      <3>1. behavior \in V!Behavior
        BY DEF ViewAssumption, V!PlaybackViewAssumption
      <3> QED
        BY <2>11, <3>1 DEF V!SetQueueBehavior, ShownInv, Shapes, SnapshotIsShown,
                           V!SnapshotIsShown, V!Shown
    <2>12. ASSUME NEW late, V!PlaySeek(late) PROVE ShownInv'
      BY <2>12 DEF V!PlaySeek, ShownInv, Shapes, SnapshotIsShown, V!SnapshotIsShown, V!Shown
    <2>13. ASSUME NEW kind, V!Button(kind) PROVE ShownInv'
      BY <1>1, <2>13 DEF V!Button
    <2> QED
      BY <1>6, <2>1, <2>2, <2>3, <2>4, <2>5, <2>6, <2>7, <2>8, <2>9, <2>10, <2>11, <2>12,
         <2>13 DEF V!Chooses
  <1>7. CASE V!TakeOrder \/ V!EngineLoaded \/ V!EngineFailsToLoad \/ V!EngineReports \/ V!EngineEnds
    BY <1>1, <1>7 DEF V!TakeOrder, V!EngineLoaded, V!EngineFailsToLoad, V!EngineReports,
                      V!EngineEnds, V!PlayerOnly, V!Plain, V!view
  <1>8. CASE V!Relaunch
    BY <1>8 DEF V!Relaunch, ShownInv, Shapes, SnapshotIsShown, V!SnapshotIsShown, V!Shown, V!Nothing
  <1>9. CASE UNCHANGED V!vars
    BY <1>1, <1>9 DEF V!vars
  <1> QED
    BY <1>2, <1>3, <1>4, <1>5, <1>6, <1>7, <1>8, <1>9 DEF V!Next

-----------------------------------------------------------------------------
(* The steps of the user interface and of the player.                      *)

LEMMA OrderFacts ==
  ASSUME NEW kind, kind \notin {"AddToQueue", "AddNext"}, NEW items, Sequence(items), NEW at
  PROVE  /\ GoodOrder(V!Order(kind, items, at))
         /\ Brings(V!Order(kind, items, at)) = V!ToSet(items)
         /\ Fresh(V!Order(kind, items, at)) <=> kind \in {"LoadQueue", "ReplaceQueue"}
  BY DEF V!Order, GoodOrder, Adds, Brings, Fresh

LEMMA LoadOrderFacts ==
  ASSUME NEW items, Sequence(items), NEW at
  PROVE  LET o == V!LoadOrder(items, at)
         IN GoodOrder(o) /\ Fresh(o) /\ Brings(o) = V!ToSet(items)
  <1>1. \E place : V!LoadOrder(items, at) = V!Order("LoadQueue", items, place)
    BY DEF V!LoadOrder
  <1> QED
    BY <1>1, OrderFacts

\* The queue is loaded anew, and the lists have what it is loaded with.
LEMMA LoadIsSound ==
  ASSUME OrdersGood, NEW items, Sequence(items), NEW at,
         V!Send(<<V!LoadOrder(items, at)>>), V!ToSet(items) \subseteq Listed'
  PROVE  OrdersSound'
  BY LoadOrderFacts, FreshOrderSound DEF V!Send

\* The queue is replaced.
LEMMA ReplaceIsSound ==
  ASSUME OrdersGood, NEW list, Sequence(list), V!Replaced(list), pq' = pq
  PROVE  OrdersSound' /\ Sequence(queue') /\ Sequence(added_queue')
  <1> DEFINE o == V!Order("ReplaceQueue", list, 0)
  <1>1. GoodOrder(o) /\ Fresh(o) /\ Brings(o) = V!ToSet(list)
    BY OrderFacts
  <1>2. orders' = orders \o <<o>> /\ queue' = list /\ added_queue' = <<>>
    BY DEF V!Replaced, V!Send
  <1> HIDE DEF o
  <1>3. Brings(o) \subseteq Listed'
    BY <1>1, <1>2 DEF Listed
  <1>4. OrdersSound'
    BY <1>1, <1>2, <1>3, FreshOrderSound
  <1> QED
    BY <1>2, <1>4, SequenceEmpty

\* An order that has no tracks.
LEMMA PlainOrderIsSound ==
  ASSUME OrdersSound, NEW kind,
         kind \notin {"AddToQueue", "AddNext", "LoadQueue", "ReplaceQueue"}, NEW at,
         V!Send(<<V!Order(kind, <<>>, at)>>), pq' = pq, Listed \subseteq Listed'
  PROVE  OrdersSound'
  <1> DEFINE o == V!Order(kind, <<>>, at)
             sent == <<o>>
  <1>1. GoodOrder(o) /\ ~Fresh(o) /\ Brings(o) = {}
    BY OrderFacts, SequenceEmpty
  <1>2. orders' = orders \o sent
    BY DEF V!Send
  <1> HIDE DEF o
  <1>3. Sequence(sent) /\ \A k \in DOMAIN sent : sent[k] = o
    BY SequenceOne
  <1> HIDE DEF sent
  <1> QED
    BY <1>1, <1>2, <1>3, MoreOrdersSound

\* Each track of a list is added, or put next, by an order of its own.
LEMMA AddingIsSound ==
  ASSUME OrdersSound, NEW kind \in {"AddToQueue", "AddNext"}, NEW list, Sequence(list), NEW turned,
         \A k \in DOMAIN list : turned[k] \in V!ToSet(list),
         V!Send([k \in DOMAIN list |-> V!Order(kind, <<turned[k]>>, 0)]),
         pq' = pq, Listed \cup V!ToSet(list) \subseteq Listed'
  PROVE  OrdersSound'
  <1> DEFINE sent == [k \in DOMAIN list |-> V!Order(kind, <<turned[k]>>, 0)]
  <1>1. orders' = orders \o sent
    BY DEF V!Send
  <1>2. Len(list) \in Nat /\ DOMAIN list = 1..Len(list)
    BY SequenceDomain
  <1>3. Sequence(sent)
    <2> DEFINE T == {V!Order(kind, <<turned[k]>>, 0) : k \in 1..Len(list)}
    <2>1. sent \in [1..Len(list) -> T]
      BY <1>2
    <2> HIDE DEF T, sent
    <2>2. sent \in Seq(T)
      BY <1>2, <2>1
    <2> QED
      BY <2>2, SequenceOf
  <1>4. ASSUME NEW y, y \in V!ToSet(list)
        PROVE  LET o == V!Order(kind, <<y>>, 0)
               IN GoodOrder(o) /\ ~Fresh(o) /\ Brings(o) \subseteq Listed'
    <2>1. Sequence(<<y>>) /\ V!ToSet(<<y>>) = {y} /\ DOMAIN <<y>> = {1}
      BY SequenceOne
    <2> QED
      BY <1>4, <2>1 DEF V!Order, GoodOrder, Adds, Brings, Fresh
  <1>5. \A k \in DOMAIN sent :
          GoodOrder(sent[k]) /\ ~Fresh(sent[k]) /\ Brings(sent[k]) \subseteq Listed'
    BY <1>4
  <1> HIDE DEF sent
  <1> QED
    BY <1>1, <1>3, <1>5, MoreOrdersSound

\* The rows of the panel, and the indexes they carry.
LEMMA RowsShaped ==
  ASSUME ListsShaped
  PROVE  /\ Sequence(V!Rows) /\ Sequence(V!Combined)
         /\ \A row \in DOMAIN V!Rows : V!AbsoluteIndex(queue, V!Shown, row) \in Nat \ {0}
  <1> DEFINE now == V!Shown
             base == V!Before(queue, now)
  <1>1. Sequence(queue) /\ Sequence(added_queue) /\ Len(queue) \in Nat
    BY SequenceDomain DEF ListsShaped
  <1>2. base \in Nat /\ base <= Len(queue)
    <2>1. /\ V!IndexIn(queue, now) \in 0..Len(queue)
          /\ now \in V!ToSet(queue) => V!IndexIn(queue, now) \in 1..Len(queue)
      BY <1>1, PlaceInList
    <2> HIDE DEF now
    <2> QED
      BY <1>1, <2>1 DEF V!Before
  <1>3. Sequence(SubSeq(queue, base + 1, Len(queue)))
    <2> HIDE DEF base
    <2>1. base + 1 \in Nat /\ base + 1 >= 1 /\ Len(queue) \in Int /\ Len(queue) <= Len(queue)
      BY <1>1, <1>2
    <2> QED
      BY <1>1, <2>1, SequencePart, Zenon
  <1>4. Sequence(V!Rows)
    BY <1>1, <1>3, SequenceJoin DEF V!Rows, V!PanelEntries
  <1>5. Sequence(V!Combined)
    BY <1>1, SequenceJoin DEF V!Combined
  <1>6. ASSUME NEW row, row \in DOMAIN V!Rows
        PROVE  V!AbsoluteIndex(queue, V!Shown, row) \in Nat \ {0}
    <2>1. row \in Nat /\ row >= 1
      BY <1>4, <1>6, SequenceDomain
    <2>2. V!AbsoluteIndex(queue, now, row)
            = IF row <= Len(queue) - base THEN base + row
              ELSE Len(queue) + (row - (Len(queue) - base))
      BY DEF V!AbsoluteIndex
    <2> HIDE DEF base, now
    <2>3. V!AbsoluteIndex(queue, now, row) \in Nat \ {0}
      <3>1. CASE row <= Len(queue) - base
        BY <1>1, <1>2, <2>1, <2>2, <3>1
      <3>2. CASE ~(row <= Len(queue) - base)
        BY <1>1, <1>2, <2>1, <2>2, <3>2
      <3> QED
        BY <3>1, <3>2
    <2> QED
      BY <2>3 DEF now
  <1> QED
    BY <1>4, <1>5, <1>6

LEMMA ReorderedShaped ==
  ASSUME NEW x, Sequence(x), NEW now \in Nat, NEW from \in Nat \ {0}, NEW to \in Nat \ {0},
         NEW after
  PROVE  Sequence(V!Reordered(x, now, from, to, after))
  <1>1. CASE from > Len(x) \/ to > Len(x) \/ from = now
    BY <1>1 DEF V!Reordered
  <1>2. CASE ~(from > Len(x) \/ to > Len(x) \/ from = now)
    <2> DEFINE rest == V!RemoveAt(x, from)
               slot == V!ReorderSlot(now, from, to, after)
               target == IF slot > from - 1 THEN slot - 1 ELSE slot
               place == IF target > Len(rest) THEN Len(rest) ELSE target
    <2>1. Len(x) \in Nat /\ from \in 1..Len(x)
      BY <1>2, SequenceDomain
    <2>2. Sequence(rest) /\ Len(rest) \in Nat
      BY <2>1, SequenceRemoved, SequenceDomain
    <2>3. V!Reordered(x, now, from, to, after) = V!InsertAt(rest, place + 1, x[from])
      BY <1>2 DEF V!Reordered
    <2>4. slot \in Nat
      BY DEF V!ReorderSlot, V!Larger
    <2> HIDE DEF slot, rest
    <2>5. target \in Nat
      BY <2>4
    <2> HIDE DEF target
    <2>6. place + 1 \in 1..(Len(rest) + 1)
      BY <2>2, <2>5
    <2> HIDE DEF place
    <2> QED
      BY <2>2, <2>3, <2>6, SequenceInserted
  <1> QED
    BY <1>1, <1>2

LEMMA InsertedNextShaped ==
  ASSUME NEW x, Sequence(x), NEW now, NEW entries, Sequence(entries)
  PROVE  /\ Sequence(V!InsertedNext(x, now, entries))
         /\ V!ToSet(x) \cup V!ToSet(entries) \subseteq V!ToSet(V!InsertedNext(x, now, entries))
  <1> DEFINE at == IF now \in V!ToSet(x) THEN V!IndexIn(x, now) ELSE Len(x)
             left == SubSeq(x, 1, at)
             right == SubSeq(x, at + 1, Len(x))
  <1>1. Len(x) \in Nat /\ at \in 0..Len(x)
    BY SequenceDomain, PlaceInList
  <1>2. V!InsertedNext(x, now, entries) = (left \o entries) \o right
    BY DEF V!InsertedNext
  <1> HIDE DEF at
  <1>3. Sequence(left) /\ Sequence(right)
    <2>1. 1 \in Nat /\ 1 >= 1 /\ at \in Int /\ at <= Len(x) /\ at + 1 \in Nat /\ at + 1 >= 1
          /\ Len(x) \in Int /\ Len(x) <= Len(x)
      BY <1>1
    <2> QED
      BY <2>1, SequencePart, Zenon
  <1>4. V!ToSet(x) \subseteq V!ToSet(left) \cup V!ToSet(right)
    BY <1>1, SequenceCut
  <1> HIDE DEF left, right
  <1> DEFINE z == left \o entries
  <1>5. Sequence(z) /\ V!ToSet(z) = V!ToSet(left) \cup V!ToSet(entries)
    BY <1>3, SequenceJoin
  <1> HIDE DEF z
  <1>6. Sequence(z \o right) /\ V!ToSet(z \o right) = V!ToSet(z) \cup V!ToSet(right)
    BY <1>3, <1>5, SequenceJoin
  <1> QED
    BY <1>2, <1>4, <1>5, <1>6 DEF z

LEMMA DequeuedShaped ==
  ASSUME NEW x, Sequence(x), NEW y
  PROVE  Sequence(V!Dequeued(x, y))
  <1> DEFINE kept == {k \in DOMAIN x : x[k] # y}
             n == V!Cardinality(kept)
             r == V!Dequeued(x, y)
             T == {r[k] : k \in 1..n}
  <1>1. n \in Nat
    <2>1. Len(x) \in Nat /\ DOMAIN x = 1..Len(x)
      BY SequenceDomain
    <2>2. IsFiniteSet(1..Len(x))
      BY <2>1, FS_Interval
    <2>3. IsFiniteSet(kept)
      BY <2>1, <2>2, FS_Subset
    <2> HIDE DEF kept
    <2> QED
      BY <2>3, FS_CardinalityType DEF V!Cardinality, Cardinality
  <1>2. DOMAIN r = 1..n /\ r = [k \in DOMAIN r |-> r[k]]
    BY DEF V!Dequeued
  <1> HIDE DEF n, r
  <1>3. r \in [1..n -> T]
    BY <1>2
  <1> HIDE DEF T
  <1>4. r \in Seq(T)
    BY <1>1, <1>3
  <1> QED
    BY <1>4, SequenceOf DEF r

\* A report changes no order but those that restore; what was queued and plays
\* is remembered.
LEMMA ReportKeepsMirror ==
  ASSUME Mirrored, V!OnReport
  PROVE  Mirrored'
  <1>1. ASSUME NEW kind, V!Take(kind)
        PROVE  /\ QueueShaped(pq)' /\ Held(pq') \subseteq Held(pq)
               /\ queue' = queue /\ drag' = drag /\ (kind # "Stopped" => pq' = pq)
    <2>1. pq' = IF kind = "Stopped" THEN V!Clear(pq) ELSE pq
      BY <1>1 DEF V!Take
    <2>2. QueueShaped(pq') /\ Held(pq') \subseteq Held(pq)
      BY <2>1, ClearHolds DEF Bounded, Mirrored
    <2> QED
      BY <1>1, <2>1, <2>2 DEF V!Take
  <1>2. ASSUME NEW kind, V!Take(kind), UNCHANGED <<added_queue, forgotten, orders>>
        PROVE  Mirrored'
    <2>1. Listed' = Listed /\ ListsShaped'
      BY <1>1, <1>2 DEF Listed, ListsShaped, Mirrored
    <2>2. OrdersSound'
      BY <1>1, <1>2, <2>1, SameOrdersSound DEF Mirrored
    <2> QED
      BY <1>1, <1>2, <2>1, <2>2 DEF Mirrored
  <1>3. CASE V!OnLoading \/ V!OnProgress \/ V!OnPausing \/ V!OnResuming \/ V!OnStopped
    BY <1>2, <1>3 DEF V!OnLoading, V!OnProgress, V!OnPausing, V!OnResuming, V!OnStopped,
                      V!Switched, V!ghosts
  <1>4. CASE V!OnPlaying
    <2>1. V!Take("Playing")
      BY <1>4 DEF V!OnPlaying
    <2>2. CASE V!Known(V!Reported)
      <3> DEFINE sent == V!Restoring(pending_restore)
      <3>1. /\ added_queue' = V!Dequeued(added_queue, V!Reported)
            /\ forgotten' = forgotten \cup (V!ToSet(added_queue) \ V!ToSet(added_queue'))
            /\ orders' = orders \o sent
        BY <1>4, <2>2 DEF V!OnPlaying, V!Send
      <3>2. ListsShaped'
        BY <1>1, <2>1, <3>1, DequeuedShaped DEF ListsShaped, Mirrored
      <3>3. Listed \subseteq Listed'
        BY <1>1, <2>1, <3>1 DEF Listed
      <3>4. /\ Sequence(sent)
            /\ \A k \in DOMAIN sent : sent[k].kind \in {"Seek", "Pause"} /\ sent[k].items = <<>>
        <4> DEFINE seek == V!Order("Seek", <<>>, IF pending_restore.late THEN 1 ELSE 0)
                   pause == V!Order("Pause", <<>>, 0)
        <4>1. seek.kind = "Seek" /\ seek.items = <<>> /\ pause.kind = "Pause" /\ pause.items = <<>>
          BY DEF V!Order
        <4>2. sent = <<>> \/ sent = <<seek>> \o <<>> \/ sent = <<seek>> \o <<pause>>
          BY DEF V!Restoring
        <4> HIDE DEF seek, pause, sent
        <4>3. CASE sent = <<>>
          BY <4>3, SequenceEmpty
        <4>4. CASE sent = <<seek>> \o <<>>
          <5>1. sent \in Seq({seek})
            BY <4>4
          <5>2. \A k \in DOMAIN sent : sent[k] = seek
            BY <5>1
          <5> QED
            BY <4>1, <5>1, <5>2, SequenceOf
        <4>5. CASE sent = <<seek>> \o <<pause>>
          <5>1. sent \in Seq({seek, pause})
            BY <4>5
          <5>2. \A k \in DOMAIN sent : sent[k] \in {seek, pause}
            BY <5>1
          <5> QED
            BY <4>1, <5>1, <5>2, SequenceOf
        <4> QED
          BY <4>2, <4>3, <4>4, <4>5
      <3> HIDE DEF sent
      <3>5. ASSUME NEW k \in DOMAIN sent
            PROVE  GoodOrder(sent[k]) /\ ~Fresh(sent[k]) /\ Brings(sent[k]) \subseteq Listed'
        <4>1. sent[k].kind \in {"Seek", "Pause"} /\ sent[k].items = <<>>
          BY <3>4
        <4> QED
          BY <4>1, SequenceEmpty DEF GoodOrder, Adds, Fresh, Brings
      <3>6. OrdersSound'
        BY <1>1, <2>1, <3>1, <3>3, <3>4, <3>5, MoreOrdersSound DEF Mirrored
      <3> QED
        BY <1>1, <2>1, <3>2, <3>6 DEF Mirrored
    <2>3. CASE ~V!Known(V!Reported)
      BY <1>2, <1>4, <2>1, <2>3 DEF V!OnPlaying
    <2> QED
      BY <2>2, <2>3
  <1> QED
    BY <1>3, <1>4 DEF V!OnReport

\* Nothing happens to the lists, the orders and the queue of the player.
LEMMA SameListsMirror ==
  ASSUME Mirrored, UNCHANGED <<queue, added_queue, forgotten, orders, pq>>, drag' \in Nat
  PROVE  Mirrored'
  <1>1. Listed' = Listed /\ Held(pq') \subseteq Held(pq)
    BY DEF Listed
  <1>2. OrdersSound'
    BY <1>1, SameOrdersSound DEF Mirrored
  <1> QED
    BY <1>2 DEF Mirrored, ListsShaped

\* The queue shown is loaded again.
LEMMA RestartKeepsMirror ==
  ASSUME Mirrored, V!RestartPlaybackWithConfig, pq' = pq, drag' \in Nat
  PROVE  Mirrored'
  <1>1. CASE V!Shown \in V!ToSet(queue)
    <2>1. /\ V!Send(<<V!LoadOrder(queue, V!IndexIn(queue, V!Shown))>>)
          /\ queue' = queue /\ added_queue' = added_queue
      BY <1>1 DEF V!RestartPlaybackWithConfig, V!mirror
    <2>2. V!ToSet(queue) \subseteq Listed'
      BY <2>1 DEF Listed
    <2>3. OrdersSound'
      BY <2>1, <2>2, LoadIsSound DEF Mirrored, ListsShaped, OrdersSound
    <2> QED
      BY <2>1, <2>3 DEF Mirrored, ListsShaped
  <1>2. CASE V!Shown \notin V!ToSet(queue)
    BY <1>2, SameListsMirror DEF V!RestartPlaybackWithConfig, V!lists
  <1> QED
    BY <1>1, <1>2

LEMMA ListsOfItems ==
  ASSUME ViewAssumption
  PROVE  /\ \A list \in ViewLists \cup QueuedLists : Sequence(list)
         /\ \A seed \in ViewItems : Sequence(Suggested[seed])
  <1>1. \A list \in ViewLists \cup QueuedLists : list \in Seq(ViewItems)
    BY DEF ViewAssumption, V!PlaybackViewAssumption
  <1>2. \A seed \in ViewItems : Suggested[seed] \in Seq(ViewItems)
    BY DEF ViewAssumption, V!PlaybackViewAssumption
  <1> QED
    BY <1>1, <1>2, SequenceOf

LEMMA AnswerKeepsMirror ==
  ASSUME ViewAssumption, Mirrored, V!Answer \/ V!RestoreFails \/ V!EqTimerFires
  PROVE  Mirrored'
  <1>1. ASSUME NEW seed \in ViewItems, V!AutoplayReady(seed)
        PROVE  Mirrored'
    <2> DEFINE tracks == IF reachable THEN Suggested[seed] ELSE <<>>
    <2>1. Sequence(tracks)
      BY ListsOfItems, SequenceEmpty
    <2>2. pq' = pq /\ drag' = drag
      BY <1>1 DEF V!AutoplayReady, V!engine
    <2>3. CASE ~V!Expected(seed) \/ tracks = <<>>
      BY <1>1, <2>2, <2>3, SameListsMirror DEF V!AutoplayReady, V!lists, Mirrored, ListsShaped
    <2>4. CASE /\ queue' = tracks /\ added_queue' = <<>>
               /\ V!Send(<<V!LoadOrder(tracks, 1)>>)
      <3> HIDE DEF tracks
      <3>1. V!ToSet(tracks) \subseteq Listed'
        BY <2>4 DEF Listed
      <3>2. OrdersSound'
        BY <2>1, <2>4, <3>1, LoadIsSound DEF Mirrored, OrdersSound
      <3> QED
        BY <2>1, <2>2, <2>4, <3>2, SequenceEmpty DEF Mirrored, ListsShaped
    <2>5. CASE /\ added_queue' = added_queue \o tracks
               /\ V!Send([k \in DOMAIN tracks |-> V!Order("AddToQueue", <<tracks[k]>>, 0)])
               /\ UNCHANGED <<queue, forgotten>>
      <3> HIDE DEF tracks
      <3>1. /\ Sequence(added_queue')
            /\ V!ToSet(added_queue') = V!ToSet(added_queue) \cup V!ToSet(tracks)
        BY <2>1, <2>5, SequenceJoin DEF Mirrored, ListsShaped
      <3>2. Listed \cup V!ToSet(tracks) \subseteq Listed'
        BY <2>5, <3>1 DEF Listed
      <3>3. \A k \in DOMAIN tracks : tracks[k] \in V!ToSet(tracks)
        BY DEF V!ToSet
      <3>4. OrdersSound'
        BY <2>1, <2>2, <2>5, <3>2, <3>3, AddingIsSound DEF Mirrored
      <3> QED
        BY <2>2, <2>5, <3>1, <3>4 DEF Mirrored, ListsShaped
    <2>6. \/ ~V!Expected(seed) \/ tracks = <<>>
          \/ /\ queue' = tracks /\ added_queue' = <<>>
             /\ V!Send(<<V!LoadOrder(tracks, 1)>>)
          \/ /\ added_queue' = added_queue \o tracks
             /\ V!Send([k \in DOMAIN tracks |-> V!Order("AddToQueue", <<tracks[k]>>, 0)])
             /\ UNCHANGED <<queue, forgotten>>
      BY <1>1 DEF V!AutoplayReady
    <2> QED
      BY <2>3, <2>4, <2>5, <2>6
  <1>2. CASE V!RestoreResolved
    <2> DEFINE one == <<restoring.item>>
    <2>1. Sequence(one)
      BY SequenceOne
    <2>2. /\ queue' = one /\ V!Send(<<V!LoadOrder(queue', 1)>>)
          /\ added_queue' = added_queue /\ drag' = drag /\ pq' = pq
      BY <1>2 DEF V!RestoreResolved, V!Alone, V!engine
    <2> HIDE DEF one
    <2>3. V!ToSet(one) \subseteq Listed'
      BY <2>2 DEF Listed
    <2>4. OrdersSound'
      BY <2>1, <2>2, <2>3, LoadIsSound DEF Mirrored, OrdersSound
    <2> QED
      BY <2>1, <2>2, <2>4 DEF Mirrored, ListsShaped
  <1>3. CASE V!RestoreFails
    BY <1>3, SameListsMirror DEF V!RestoreFails, V!Alone, V!lists, V!engine, Mirrored, ListsShaped
  <1>4. CASE V!EqTimerFires
    BY <1>4, RestartKeepsMirror DEF V!EqTimerFires, V!Alone, V!engine, Mirrored, ListsShaped
  <1> QED
    BY <1>1, <1>2, <1>3, <1>4 DEF V!Answer

LEMMA CommandKeepsMirror ==
  ASSUME ViewAssumption, Shapes, Mirrored, V!Chooses
  PROVE  Mirrored'
  <1> USE DEF V!engine
  <1> USE ListsOfItems
  <1>1. ASSUME NEW list, Sequence(list), NEW at, V!PlayTracks(list, at) PROVE Mirrored'
    <2>1. /\ queue' = list /\ added_queue' = added_queue /\ drag' = drag /\ pq' = pq
          /\ V!Send(<<V!LoadOrder(list, at)>>)
      BY <1>1 DEF V!PlayTracks, V!Plays, V!Acts, V!Keeps
    <2>2. OrdersSound'
      BY <1>1, <2>1, LoadIsSound DEF Mirrored, OrdersSound, Listed
    <2> QED
      BY <1>1, <2>1, <2>2 DEF Mirrored, ListsShaped
  <1>2. ASSUME NEW row, V!PlayQueueEntries(row) PROVE Mirrored'
    <2>1. /\ queue' = V!Rows /\ added_queue' = <<>> /\ drag' = drag /\ pq' = pq
          /\ V!Send(<<V!LoadOrder(V!Rows, row)>>)
      BY <1>2 DEF V!PlayQueueEntries, V!Plays, V!Acts, V!Keeps
    <2>2. Sequence(V!Rows)
      BY RowsShaped DEF Mirrored
    <2>3. V!ToSet(V!Rows) \subseteq Listed'
      BY <2>1 DEF Listed
    <2>4. OrdersSound'
      BY <2>1, <2>2, <2>3, LoadIsSound DEF Mirrored, OrdersSound
    <2> QED
      BY <2>1, <2>2, <2>4, SequenceEmpty DEF Mirrored, ListsShaped
  <1>3. ASSUME NEW list, Sequence(list), V!Replaced(list), pq' = pq, drag' \in Nat
        PROVE  Mirrored'
    BY <1>3, ReplaceIsSound DEF Mirrored, ListsShaped, OrdersSound
  <1>4. ASSUME NEW row, V!RemoveFromQueue(row) PROVE Mirrored'
    <2> DEFINE index == V!AbsoluteIndex(queue, V!Shown, row)
               now == V!IndexIn(V!Combined, V!Shown)
    <2>1. /\ row \in DOMAIN V!Rows /\ drag' = drag /\ pq' = pq
          /\ \/ /\ V!CanRemove(V!Combined, now, index)
                /\ V!Replaced(V!RemoveAt(V!Combined, index))
             \/ UNCHANGED <<V!lists, orders>>
      BY <1>4 DEF V!RemoveFromQueue, V!Edits, V!Acts, V!Keeps
    <2>2. /\ Sequence(V!Combined) /\ Len(V!Combined) \in Nat /\ index \in Nat \ {0}
          /\ drag' \in Nat
      BY <2>1, RowsShaped, SequenceDomain DEF Mirrored, ListsShaped
    <2> HIDE DEF index, now
    <2>3. CASE /\ V!CanRemove(V!Combined, now, index)
               /\ V!Replaced(V!RemoveAt(V!Combined, index))
      <3>1. index \in 1..Len(V!Combined)
        BY <2>2, <2>3 DEF V!CanRemove
      <3>2. Sequence(V!RemoveAt(V!Combined, index))
        BY <2>2, <3>1, SequenceRemoved
      <3> QED
        BY <1>3, <2>1, <2>2, <2>3, <3>2
    <2>4. CASE UNCHANGED <<V!lists, orders>>
      BY <2>1, <2>2, <2>4, SameListsMirror DEF V!lists
    <2> QED
      BY <2>1, <2>3, <2>4
  <1>5. CASE V!ClearQueue
    <2>1. /\ drag' = drag /\ pq' = pq
          /\ V!Replaced(IF V!Shown = NoItem THEN <<>> ELSE <<V!Shown>>)
      BY <1>5 DEF V!ClearQueue, V!Edits, V!Acts, V!Keeps
    <2>2. Sequence(IF V!Shown = NoItem THEN <<>> ELSE <<V!Shown>>)
      BY SequenceEmpty, SequenceOne
    <2> QED
      BY <1>3, <2>1, <2>2 DEF Mirrored, ListsShaped
  <1>6. ASSUME NEW row, V!DragBegin(row) PROVE Mirrored'
    <2>1. drag' \in Nat
      BY <1>6, RowsShaped DEF V!DragBegin, Mirrored
    <2> QED
      BY <1>6, <2>1, SameListsMirror DEF V!DragBegin, V!Drags, V!lists
  <1>7. CASE V!DragLeaves
    BY <1>7, SameListsMirror DEF V!DragLeaves, V!Drags, V!lists
  <1>8. ASSUME NEW row, NEW after, V!DragEnd(row, after) PROVE Mirrored'
    <2> DEFINE now == V!IndexIn(V!Combined, V!Shown)
               over == V!AbsoluteIndex(queue, V!Shown, row)
    <2>1. /\ row \in DOMAIN V!Rows /\ drag # 0 /\ drag' = 0 /\ pq' = pq
          /\ \/ V!Replaced(V!Reordered(V!Combined, now, drag, over, after))
             \/ UNCHANGED <<V!lists, orders>>
      BY <1>8 DEF V!DragEnd, V!Edits, V!Acts
    <2>2. Sequence(V!Combined) /\ over \in Nat \ {0} /\ drag \in Nat \ {0}
      BY <2>1, RowsShaped DEF Mirrored, ListsShaped
    <2>3. now \in Nat
      <3>1. Len(V!Combined) \in Nat /\ now \in 0..Len(V!Combined)
        BY <2>2, PlaceInList, SequenceDomain
      <3> QED
        BY <3>1
    <2> HIDE DEF now, over
    <2>4. Sequence(V!Reordered(V!Combined, now, drag, over, after))
      BY <2>2, <2>3, ReorderedShaped
    <2> QED
      BY <1>3, <2>1, <2>4, SameListsMirror DEF V!lists
  <1>9. ASSUME NEW list, Sequence(list), V!InsertAtEnd(list) PROVE Mirrored'
    <2>1. /\ added_queue' = added_queue \o list /\ drag' = drag /\ pq' = pq
          /\ V!Send([k \in DOMAIN list |-> V!Order("AddToQueue", <<list[k]>>, 0)])
          /\ UNCHANGED <<queue, forgotten>>
      BY <1>9 DEF V!InsertAtEnd, V!Edits, V!Acts, V!Keeps
    <2>2. /\ Sequence(added_queue')
          /\ V!ToSet(added_queue') = V!ToSet(added_queue) \cup V!ToSet(list)
      BY <1>9, <2>1, SequenceJoin DEF Mirrored, ListsShaped
    <2>3. Listed \cup V!ToSet(list) \subseteq Listed'
      BY <2>1, <2>2 DEF Listed
    <2>4. \A k \in DOMAIN list : list[k] \in V!ToSet(list)
      BY DEF V!ToSet
    <2>5. OrdersSound'
      BY <1>9, <2>1, <2>3, <2>4, AddingIsSound DEF Mirrored
    <2> QED
      BY <2>1, <2>2, <2>5 DEF Mirrored, ListsShaped
  <1>10. ASSUME NEW list, Sequence(list), V!InsertNext(list) PROVE Mirrored'
    <2> DEFINE turned == V!Reverse(list)
    <2>1. /\ queue' = V!InsertedNext(queue, V!Shown, list) /\ drag' = drag /\ pq' = pq
          /\ V!Send([k \in DOMAIN list |-> V!Order("AddNext", <<turned[k]>>, 0)])
          /\ UNCHANGED <<added_queue, forgotten>>
      BY <1>10 DEF V!InsertNext, V!SentNext, V!Edits, V!Acts, V!Keeps
    <2>2. \A k \in DOMAIN list : turned[k] \in V!ToSet(list)
      BY <1>10, SequenceReversed
    <2> HIDE DEF turned
    <2>3. Sequence(queue') /\ V!ToSet(queue) \cup V!ToSet(list) \subseteq V!ToSet(queue')
      BY <1>10, <2>1, InsertedNextShaped DEF Mirrored, ListsShaped
    <2>4. Listed \cup V!ToSet(list) \subseteq Listed'
      BY <2>1, <2>3 DEF Listed
    <2>5. OrdersSound'
      BY <1>10, <2>1, <2>2, <2>4, AddingIsSound DEF Mirrored
    <2> QED
      BY <2>1, <2>3, <2>5 DEF Mirrored, ListsShaped
  <1>11. ASSUME NEW kind, NEW at,
                kind \notin {"AddToQueue", "AddNext", "LoadQueue", "ReplaceQueue"},
                V!Send(<<V!Order(kind, <<>>, at)>>),
                UNCHANGED <<queue, added_queue, forgotten, pq, drag>>
         PROVE  Mirrored'
    <2>1. Listed' = Listed
      BY <1>11 DEF Listed
    <2>2. OrdersSound'
      BY <1>11, <2>1, PlainOrderIsSound DEF Mirrored
    <2> QED
      BY <1>11, <2>2 DEF Mirrored, ListsShaped
  <1>12. ASSUME NEW behavior \in ViewBehaviors, V!SetQueueBehavior(behavior) PROVE Mirrored'
    <2>1. behavior \notin {"AddToQueue", "AddNext", "LoadQueue", "ReplaceQueue"}
      BY DEF ViewAssumption, V!PlaybackViewAssumption, V!Behavior
    <2>2. /\ V!Send(<<V!Order(behavior, <<>>, 0)>>)
          /\ UNCHANGED <<queue, added_queue, forgotten, pq, drag>>
      BY <1>12 DEF V!SetQueueBehavior, V!Edits, V!Acts, V!mirror
    <2> QED
      BY <1>11, <2>1, <2>2
  <1>13. ASSUME NEW late, V!PlaySeek(late) PROVE Mirrored'
    <2>1. /\ V!Send(<<V!Order("Seek", <<>>, IF late THEN 1 ELSE 0)>>)
          /\ UNCHANGED <<queue, added_queue, forgotten, pq, drag>>
      BY <1>13 DEF V!PlaySeek, V!Acts, V!Lone, V!lists, V!Keeps
    <2> QED
      BY <1>11, <2>1
  <1>14. ASSUME NEW kind \in {"Previous", "Next", "Pause", "Resume", "PauseOrResume"},
                V!Button(kind)
         PROVE  Mirrored'
    <2>1. /\ V!Send(<<V!Order(kind, <<>>, 0)>>)
          /\ UNCHANGED <<queue, added_queue, forgotten, pq, drag>>
      BY <1>14 DEF V!Button, V!Plays, V!Acts, V!Lone, V!lists, V!Keeps
    <2> QED
      BY <1>11, <2>1
  <1>15. CASE V!PlayStop
    <2>1. /\ V!Send(<<V!Order("Stop", <<>>, 0)>>)
          /\ UNCHANGED <<queue, added_queue, forgotten, pq, drag>>
      BY <1>15 DEF V!PlayStop, V!Acts, V!Lone, V!lists
    <2> QED
      BY <1>11, <2>1
  <1>16. CASE V!ConfigChanges
    <2>1. drag' \in Nat /\ pq' = pq
      BY <1>16 DEF V!ConfigChanges, V!Acts, Mirrored, ListsShaped
    <2>2. V!RestartPlaybackWithConfig \/ UNCHANGED <<orders, V!lists>>
      BY <1>16 DEF V!ConfigChanges
    <2> QED
      BY <2>1, <2>2, RestartKeepsMirror, SameListsMirror DEF V!lists
  <1>17. \A list \in ViewLists \cup QueuedLists : Sequence(list)
    OBVIOUS
  <1> QED
    BY <1>1, <1>2, <1>4, <1>5, <1>6, <1>7, <1>8, <1>9, <1>10, <1>12, <1>13, <1>14, <1>15, <1>16,
       <1>17 DEF V!Chooses

LEMMA PlayCurrentBounded ==
  ASSUME NEW x, NEW most, Bounded(x, most), V!PlayCurrent(x)
  PROVE  QueueShaped(pq)' /\ Held(pq') \subseteq most
  <1>1. pq' = V!Clear(x) \/ pq' = x
    BY DEF V!PlayCurrent
  <1> QED
    BY <1>1, ClearHolds DEF Bounded

LEMMA OrderIsTaken ==
  ASSUME Mirrored, V!TakeOrder
  PROVE  Mirrored'
  <1> DEFINE o == Head(orders)
             kind == V!Toggled(o.kind)
  <1>1. /\ orders # <<>> /\ orders' = Tail(orders) /\ Listed' = Listed
        /\ UNCHANGED <<queue, added_queue, drag>>
    BY DEF V!TakeOrder, V!Plain, V!mirror, Listed
  <1>2. GoodOrder(o)
    <2>1. Head(orders) = orders[1] /\ Len(orders) >= 1 /\ DOMAIN orders = 1..Len(orders)
          /\ Len(orders) \in Nat
      BY <1>1, SequenceTail DEF Mirrored, OrdersSound, OrdersGood
    <2>2. 1 \in DOMAIN orders
      BY <2>1
    <2> QED
      BY <2>1, <2>2 DEF Mirrored, OrdersSound, OrdersGood
  <1>3. QueueShaped(pq)
    BY DEF Mirrored
  <1>4. \/ /\ kind \in {"LoadQueue", "ReplaceQueue"}
           /\ QueueShaped(pq)' /\ Held(pq') \subseteq Brings(o)
        \/ /\ kind \notin {"LoadQueue", "ReplaceQueue"}
           /\ QueueShaped(pq)' /\ Held(pq') \subseteq Held(pq) \cup Brings(o)
    <2>1. ASSUME kind \in {"AddToQueue", "AddNext"}
          PROVE  o.items[1] \in Brings(o)
      <3>1. o.kind = kind
        BY <2>1 DEF V!Toggled
      <3> QED
        BY <1>2, <2>1, <3>1 DEF GoodOrder, Adds, Brings, V!ToSet
    <2>2. CASE kind = "LoadQueue" /\ \E x \in V!Fill(pq, o.items, o.at) : V!PlayCurrent(x)
      <3>1. PICK x \in V!Fill(pq, o.items, o.at) : V!PlayCurrent(x)
        BY <2>2
      <3>2. Bounded(x, Brings(o))
        BY <1>2, FillHolds DEF GoodOrder, Brings
      <3> QED
        BY <2>2, <3>1, <3>2, PlayCurrentBounded
    <2>3. CASE kind = "ReplaceQueue" /\ V!EditQueue(V!Replace(pq, o.items))
      <3>1. pq' \in V!Replace(pq, o.items)
        BY <2>3 DEF V!EditQueue
      <3>2. Bounded(pq', Brings(o))
        BY <1>2, <3>1, ReplaceHolds DEF GoodOrder, Brings
      <3> QED
        BY <2>3, <3>2 DEF Bounded
    <2>4. CASE kind = "AddToQueue" /\ V!EditQueue({V!Add(pq, o.items[1])})
      <3>1. Bounded(pq', Held(pq) \cup {o.items[1]})
        BY <1>3, <2>4, AddHolds DEF V!EditQueue
      <3> QED
        BY <2>1, <2>4, <3>1 DEF Bounded
    <2>5. CASE kind = "AddNext" /\ V!EditQueue({V!AddNext(pq, o.items[1])})
      <3>1. Bounded(pq', Held(pq) \cup {o.items[1]})
        BY <1>3, <2>5, AddNextHolds DEF V!EditQueue
      <3> QED
        BY <2>1, <2>5, <3>1 DEF Bounded
    <2>6. CASE kind \in V!Behavior /\ V!EditQueue(V!SetBehaviour(pq, kind))
      <3>1. pq' \in V!SetBehaviour(pq, kind)
        BY <2>6 DEF V!EditQueue
      <3>2. Bounded(pq', Held(pq))
        BY <1>3, <3>1, SetBehaviourHolds
      <3> QED
        BY <2>6, <3>2 DEF Bounded, V!Behavior
    <2>7. CASE kind = "Next" /\ \E x \in V!SkipToNext(pq) : V!PlayCurrent(x)
      BY <1>3, <2>7, SkipsHold, PlayCurrentBounded
    <2>8. CASE kind = "Previous" /\ V!PlayCurrent(V!SkipToPrevious(pq))
      <3>1. Bounded(V!SkipToPrevious(pq), Held(pq))
        BY <1>3, SkipsHold
      <3> QED
        BY <2>8, <3>1, PlayCurrentBounded
    <2>9. CASE kind = "Stop" /\ V!PlayCurrent(V!Clear(pq))
      <3>1. Bounded(V!Clear(pq), {})
        BY ClearHolds
      <3> QED
        BY <2>9, <3>1, PlayCurrentBounded
    <2>10. CASE kind \in {"Pause", "Resume", "Nothing", "Seek"} /\ pq' = pq
      BY <1>3, <2>10
    <2>11. \/ kind = "LoadQueue" /\ \E x \in V!Fill(pq, o.items, o.at) : V!PlayCurrent(x)
           \/ kind = "ReplaceQueue" /\ V!EditQueue(V!Replace(pq, o.items))
           \/ kind = "AddToQueue" /\ V!EditQueue({V!Add(pq, o.items[1])})
           \/ kind = "AddNext" /\ V!EditQueue({V!AddNext(pq, o.items[1])})
           \/ kind \in V!Behavior /\ V!EditQueue(V!SetBehaviour(pq, kind))
           \/ kind = "Next" /\ \E x \in V!SkipToNext(pq) : V!PlayCurrent(x)
           \/ kind = "Previous" /\ V!PlayCurrent(V!SkipToPrevious(pq))
           \/ kind = "Stop" /\ V!PlayCurrent(V!Clear(pq))
           \/ kind \in {"Pause", "Resume", "Nothing", "Seek"} /\ pq' = pq
      BY DEF V!TakeOrder, V!SwitchOff, V!SwitchOn, V!engine
    <2> HIDE DEF o, kind
    <2> QED
      BY <2>2, <2>3, <2>4, <2>5, <2>6, <2>7, <2>8, <2>9, <2>10, <2>11
  <1>5. Fresh(o) => kind \in {"LoadQueue", "ReplaceQueue"}
    BY DEF Fresh, V!Toggled
  <1>6. OrdersSound'
    BY <1>1, <1>4, <1>5, TakenOrderSound DEF Mirrored
  <1> QED
    BY <1>1, <1>4, <1>6 DEF Mirrored, ListsShaped

LEMMA PlayerKeepsMirror ==
  ASSUME Mirrored,
         \/ V!TakeOrder \/ V!EngineLoaded \/ V!EngineFailsToLoad \/ V!EngineReports
         \/ V!EngineEnds
  PROVE  Mirrored'
  <1>1. CASE V!EngineLoaded \/ V!EngineFailsToLoad \/ V!EngineReports
    BY <1>1, SameListsMirror
       DEF V!EngineLoaded, V!EngineFailsToLoad, V!EngineReports, V!PlayerOnly, V!Plain, V!mirror,
           Mirrored, ListsShaped
  <1>2. CASE V!EngineEnds
    <2>1. PICK x \in V!SkipToFollowing(pq) : V!PlayCurrent(x)
      BY <1>2 DEF V!EngineEnds
    <2>2. QueueShaped(pq)' /\ Held(pq') \subseteq Held(pq)
      BY <2>1, SkipsHold, PlayCurrentBounded DEF Mirrored
    <2>3. UNCHANGED <<queue, added_queue, forgotten, orders, drag>>
      BY <1>2 DEF V!EngineEnds, V!Plain, V!mirror
    <2>4. Listed' = Listed
      BY <2>3 DEF Listed
    <2>5. OrdersSound'
      BY <2>2, <2>3, <2>4, SameOrdersSound DEF Mirrored
    <2> QED
      BY <2>2, <2>3, <2>5 DEF Mirrored, ListsShaped
  <1> QED
    BY <1>1, <1>2, OrderIsTaken

LEMMA LaunchMirrors ==
  ASSUME Shapes, V!Relaunch
  PROVE  Mirrored'
  <1> DEFINE o == V!Order(playback.behavior, <<>>, 0)
             one == <<o>>
  <1>1. /\ queue' = <<>> /\ added_queue' = <<>> /\ drag' = 0 /\ pq' = V!EmptyQueue
        /\ orders' = one
    BY DEF V!Relaunch
  <1>2. GoodOrder(o) /\ Brings(o) = {}
    BY OrderFacts, SequenceEmpty DEF Shapes, V!Behavior
  <1> HIDE DEF o
  <1>3. Sequence(one) /\ \A k \in DOMAIN one : one[k] = o
    BY SequenceOne
  <1> HIDE DEF one
  <1>4. OrdersSound'
    BY <1>1, <1>2, <1>3, EmptyHolds
       DEF OrdersSound, OrdersGood, QueueListed, OrdersListed, Bounded
  <1> QED
    BY <1>1, <1>4, EmptyHolds, SequenceEmpty DEF Mirrored, ListsShaped, Bounded

-----------------------------------------------------------------------------
ViewInv == ShownInv /\ Mirrored

LEMMA ViewInvariance ==
  ASSUME ViewAssumption
  PROVE  V!Spec => []ViewInv
  <1>1. V!Init => ViewInv
    <2> SUFFICES ASSUME V!Init PROVE ViewInv
      OBVIOUS
    <2>1. ShownInv
      BY ViewAssumption, NoViewItemAssumption, NothingIsNotLocal
      DEF V!Init, V!Launched, V!Nothing, V!Behavior, ShownInv, Shapes, SnapshotIsShown,
          V!SnapshotIsShown
    <2>2. queue = <<>> /\ added_queue = <<>> /\ drag = 0 /\ pq = V!EmptyQueue /\ orders = <<>>
      BY DEF V!Init, V!Launched
    <2>3. OrdersSound
      BY <2>2, EmptyHolds, SequenceEmpty
         DEF OrdersSound, OrdersGood, QueueListed, OrdersListed, Bounded
    <2> QED
      BY <2>1, <2>2, <2>3, EmptyHolds, SequenceEmpty DEF ViewInv, Mirrored, ListsShaped, Bounded
  <1>2. ViewInv /\ [V!Next]_V!vars => ViewInv'
    <2> SUFFICES ASSUME ViewInv, [V!Next]_V!vars PROVE ViewInv'
      OBVIOUS
    <2>1. ShownInv'
      BY StepKeepsShown DEF ViewInv
    <2>2. CASE UNCHANGED V!vars
      <3>1. UNCHANGED <<queue, added_queue, forgotten, orders, pq>> /\ drag' \in Nat
        BY <2>2 DEF V!vars, ViewInv, Mirrored, ListsShaped
      <3> QED
        BY <2>1, <3>1, SameListsMirror DEF ViewInv
    <2>3. CASE V!OnReport
      BY <2>1, <2>3, ReportKeepsMirror DEF ViewInv
    <2>4. CASE V!Answer \/ V!RestoreFails \/ V!EqTimerFires
      BY <2>1, <2>4, AnswerKeepsMirror DEF ViewInv
    <2>5. CASE V!Chooses
      BY <2>1, <2>5, CommandKeepsMirror DEF ViewInv, ShownInv
    <2>6. CASE \/ V!TakeOrder \/ V!EngineLoaded \/ V!EngineFailsToLoad \/ V!EngineReports
               \/ V!EngineEnds
      BY <2>1, <2>6, PlayerKeepsMirror DEF ViewInv
    <2>7. CASE V!Relaunch
      BY <2>1, <2>7, LaunchMirrors DEF ViewInv, ShownInv
    <2> QED
      BY <2>2, <2>3, <2>4, <2>5, <2>6, <2>7 DEF V!Next
  <1> QED
    BY <1>1, <1>2, PTL DEF V!Spec

\* Every track in the player's queue is listed by the user interface, unless the
\* user queued it and it has played: for any lists, and however the commands of
\* the user, the answers of the threads, the ends of tracks and the launches
\* fall between the orders and the reports.
THEOREM MirrorIsKnown == V!Spec => []MirrorKnowsPlayer
  <1>1. ViewInv => MirrorKnowsPlayer
    <2> SUFFICES ASSUME ViewInv, orders = <<>>
                 PROVE  Held(pq) \subseteq V!ToSet(V!Combined) \cup forgotten
      BY DEF MirrorKnowsPlayer, V!MirrorKnowsPlayer, Held
    <2>1. NoneFreshAfter(0)
      BY DEF NoneFreshAfter
    <2>2. Held(pq) \subseteq Listed
      BY <2>1 DEF ViewInv, Mirrored, OrdersSound, QueueListed
    <2>3. Sequence(queue) /\ Sequence(added_queue) /\ V!Combined = queue \o added_queue
      BY DEF ViewInv, Mirrored, ListsShaped, V!Combined
    <2>4. V!ToSet(V!Combined) = V!ToSet(queue) \cup V!ToSet(added_queue)
      BY <2>3, SequenceJoin
    <2> QED
      BY <2>2, <2>4 DEF Listed
  <1> QED
    BY <1>1, ViewInvariance, ViewAssumption, PTL

\* After a crash the last track comes back: while a track is shown that plays or
\* is paused, the snapshot, if there is one, is of this track and says so, unless
\* the track is a file of the user's own, of which there is never a snapshot.
THEOREM SnapshotOfShown == V!Spec => []SnapshotIsShown
  <1>1. ViewInv => SnapshotIsShown
    BY DEF ViewInv, ShownInv
  <1> QED
    BY <1>1, ViewInvariance, ViewAssumption, PTL
=============================================================================
