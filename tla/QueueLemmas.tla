---------------------------- MODULE QueueLemmas ----------------------------
(***************************************************************************)
(* Facts about the queue operations of QueueOps, for every Item: each of   *)
(* them keeps the play order a permutation of the playlist.  The proofs    *)
(* about PlayQueue and Player rest on them.  Before them, induction over   *)
(* the naturals and functions defined by recursion, which the proofs about *)
(* the output, the library and the responses need, too.                    *)
(***************************************************************************)
EXTENDS QueueOps, SequenceTheorems, WellFoundedInduction, TLAPS

\* A set of numbers has a least element; from it follows induction, and that a
\* function defined by recursion over 0..n exists.
LEMMA LeastOf ==
  ASSUME NEW T, T \subseteq Nat, T # {}
  PROVE  \E x \in T : \A y \in T : x <= y
<1> DEFINE R == {ss \in Nat \X Nat : ss[1] < ss[2]}
<1>1. IsWellFoundedOn(R, Nat)
  BY NatLessThanWellFounded, Zenon DEF OpToRel
<1>2. PICK x \in T : \A y \in T : ~ (<<y, x>> \in R)
  BY <1>1, WFMin, Zenon
<1>3. \A y \in T : <<y, x>> \in Nat \X Nat
  OBVIOUS
<1>4. \A y \in T : ~ (y < x)
  BY <1>2, <1>3
<1> QED
  BY <1>4

LEMMA Induction ==
  ASSUME NEW T, 0 \in T, \A n \in Nat : n \in T => n + 1 \in T
  PROVE  Nat \subseteq T
<1> DEFINE U == Nat \ T
<1> SUFFICES ASSUME U # {} PROVE FALSE
  OBVIOUS
<1>1. PICK x \in U : \A y \in U : x <= y
  <2>1. U \subseteq Nat OBVIOUS
  <2> QED BY <2>1, LeastOf
<1>2. x # 0 /\ x - 1 \in Nat /\ ~(x <= x - 1) /\ (x - 1) + 1 = x
  BY <1>1
<1> QED BY <1>1, <1>2

\* f is the recursive function over 0..n that begins with a and goes on by step.
Recurs(f, n, a, step) == f[0] = a /\ \A i \in 1..n : f[i] = step[<<i, f[i - 1]>>]
LEMMA Recursion ==
  ASSUME NEW S, NEW n \in Nat, NEW a \in S, NEW step, \A i \in 1..n, v \in S : step[<<i, v>>] \in S
  PROVE  \E f \in [0..n -> S] : Recurs(f, n, a, step)
<1> DEFINE Upto(m, f) == f[0] = a /\ \A i \in 1..m : f[i] = step[<<i, f[i - 1]>>]
           T == {m \in Nat : m <= n => \E f \in [0..m -> S] : Upto(m, f)}
<1>1. 0 \in T
  <2>1. [i \in 0..0 |-> a] \in [0..0 -> S] /\ Upto(0, [i \in 0..0 |-> a])
    OBVIOUS
  <2> QED BY <2>1
<1>2. ASSUME NEW m \in Nat, m \in T PROVE m + 1 \in T
  <2> SUFFICES ASSUME m + 1 <= n PROVE \E f \in [0..(m + 1) -> S] : Upto(m + 1, f)
    OBVIOUS
  <2>1. PICK f \in [0..m -> S] : Upto(m, f)
    BY <1>2
  <2> DEFINE g == [i \in 0..(m + 1) |-> IF i = m + 1 THEN step[<<m + 1, f[m]>>] ELSE f[i]]
  <2>2. f[m] \in S /\ m + 1 \in 1..n
    BY <2>1
  <2>3. g \in [0..(m + 1) -> S]
    BY <2>1, <2>2
  <2>4. g[0] = a BY <2>1
  <2>5. \A i \in 1..m : g[i] = f[i] /\ g[i - 1] = f[i - 1]
    OBVIOUS
  <2>6. g[m + 1] = step[<<m + 1, g[m]>>]
    OBVIOUS
  <2> HIDE DEF g
  <2>7. \A i \in 1..(m + 1) : g[i] = step[<<i, g[i - 1]>>]
    <3> TAKE i \in 1..(m + 1)
    <3>1. CASE i = m + 1
      BY <2>6, <3>1
    <3>2. CASE i # m + 1
      <4>1. i \in 1..m BY <3>2
      <4> QED BY <2>1, <2>5, <4>1
    <3> QED BY <3>1, <3>2
  <2>8. Upto(m + 1, g)
    BY <2>4, <2>7
  <2> QED BY <2>3, <2>8
<1>3. n \in T
  <2> HIDE DEF T
  <2> QED BY <1>1, <1>2, Induction
<1>4. PICK f \in [0..n -> S] : Upto(n, f)
  BY <1>3
<1> QED BY <1>4 DEF Recurs

-----------------------------------------------------------------------------
WellFormed(q) == q \in QueueType /\ IsPlayOrder(q)

\* InsertAt(s, i, e) is s with e at i and what was from i on behind it.
Inserted(S, s, i, e) ==
  /\ InsertAt(s, i, e) \in Seq(S)
  /\ Len(InsertAt(s, i, e)) = Len(s) + 1
  /\ \A k \in 1..(i - 1) : InsertAt(s, i, e)[k] = s[k]
  /\ InsertAt(s, i, e)[i] = e
  /\ \A k \in (i + 1)..(Len(s) + 1) : InsertAt(s, i, e)[k] = s[k - 1]

\* InsertAt of the community modules does what its name says.
LEMMA InsertAtProperties ==
  ASSUME NEW S, NEW s \in Seq(S), NEW e \in S, NEW i \in 1..(Len(s) + 1)
  PROVE  Inserted(S, s, i, e)
<1> DEFINE left == SubSeq(s, 1, i - 1)
           right == SubSeq(s, i, Len(s))
<1>1. /\ left \in Seq(S) /\ Len(left) = i - 1
      /\ \A k \in 1..(i - 1) : left[k] = s[k]
  <2>1. \A k \in 1..(i - 1) : s[k] \in S  OBVIOUS
  <2> QED  BY <2>1, SubSeqProperties
<1>2. /\ right \in Seq(S) /\ Len(right) = Len(s) - i + 1
      /\ \A k \in 1..(Len(s) - i + 1) : right[k] = s[i + k - 1]
  <2>1. \A k \in i..Len(s) : s[k] \in S  OBVIOUS
  <2> QED  BY <2>1, SubSeqProperties
<1> DEFINE mid == <<e>>
<1>3. mid \in Seq(S) /\ Len(mid) = 1 /\ mid[1] = e  OBVIOUS
<1> HIDE DEF left, right, mid
<1>4. /\ left \o mid \in Seq(S) /\ Len(left \o mid) = i
      /\ \A k \in 1..i : (left \o mid)[k] = IF k < i THEN s[k] ELSE e
  <2>1. /\ left \o mid \in Seq(S)
        /\ Len(left \o mid) = Len(left) + Len(mid)
        /\ \A k \in 1..(Len(left) + Len(mid)) :
             (left \o mid)[k] = IF k <= Len(left) THEN left[k] ELSE mid[k - Len(left)]
    BY <1>1, <1>3, ConcatProperties, Zenon
  <2>2. Len(left) + Len(mid) = i  BY <1>1, <1>3
  <2>3. ASSUME NEW k \in 1..i
        PROVE  (left \o mid)[k] = IF k < i THEN s[k] ELSE e
    BY <2>1, <2>2, <1>1, <1>3
  <2> QED  BY <2>1, <2>2, <2>3
<1>5. /\ (left \o mid) \o right \in Seq(S)
      /\ Len((left \o mid) \o right) = Len(s) + 1
      /\ \A k \in 1..(Len(s) + 1) : ((left \o mid) \o right)[k] =
           IF k <= i THEN (left \o mid)[k] ELSE right[k - i]
  <2> DEFINE lm == left \o mid
  <2> HIDE DEF lm
  <2>0. lm \in Seq(S) /\ Len(lm) = i  BY <1>4 DEF lm
  <2>1. /\ lm \o right \in Seq(S)
        /\ Len(lm \o right) = Len(lm) + Len(right)
        /\ \A k \in 1..(Len(lm) + Len(right)) :
             (lm \o right)[k] = IF k <= Len(lm) THEN lm[k] ELSE right[k - Len(lm)]
    BY <1>2, <2>0, ConcatProperties, Zenon
  <2>2. Len(lm) + Len(right) = Len(s) + 1  BY <1>2, <2>0
  <2> QED  BY <2>0, <2>1, <2>2 DEF lm
<1>6. InsertAt(s, i, e) = (left \o mid) \o right
  BY DEF InsertAt, left, mid, right
<1> QED  BY <1>2, <1>4, <1>5, <1>6, SMTT(30) DEF Inserted

\* A permutation of 1..n with n + 1 put in anywhere is one of 1..(n + 1).
LEMMA InsertAtPermutation ==
  ASSUME NEW n \in Nat, NEW s \in Seq(Nat \ {0}), Len(s) = n,
         \A k \in 1..n : s[k] \in 1..n,
         IsInjective(s),
         NEW i \in 1..(n + 1)
  PROVE  LET t == InsertAt(s, i, n + 1)
         IN /\ t \in Seq(Nat \ {0}) /\ Len(t) = n + 1
            /\ \A k \in 1..(n + 1) : t[k] \in 1..(n + 1)
            /\ IsInjective(t)
<1> DEFINE t == InsertAt(s, i, n + 1)
           old(x) == IF x < i THEN x ELSE x - 1
<1>2. /\ t \in Seq(Nat \ {0}) /\ Len(t) = Len(s) + 1
      /\ \A k \in 1..(i - 1) : t[k] = s[k]
      /\ t[i] = n + 1
      /\ \A k \in (i + 1)..(Len(s) + 1) : t[k] = s[k - 1]
  <2> DEFINE S == Nat \ {0}
             e == n + 1
  <2>1. e \in S /\ i \in 1..(Len(s) + 1) /\ s \in Seq(S)  OBVIOUS
  <2> HIDE DEF S, e
  <2>2. Inserted(S, s, i, e)  BY <2>1, InsertAtProperties, Zenon
  <2> QED  BY <2>2 DEF e, S, Inserted
<1> HIDE DEF t
<1>3. t[i] = n + 1  BY <1>2
<1>4. ASSUME NEW x \in 1..(n + 1), x # i
      PROVE  old(x) \in 1..n /\ t[x] = s[old(x)] /\ t[x] \in 1..n
  <2>1. CASE x < i  BY <1>2, <1>4, <2>1, SMTT(30)
  <2>2. CASE x > i
    <3>1. x - 1 \in 1..n /\ t[x] = s[x - 1]  BY <1>2, <2>2
    <3> QED  BY <2>2, <3>1
  <2> QED  BY <1>4, <2>1, <2>2
<1>5. \A k \in 1..(n + 1) : t[k] \in 1..(n + 1)  BY <1>3, <1>4
<1>6. ASSUME NEW j \in 1..(n + 1), NEW k \in 1..(n + 1), t[j] = t[k]
      PROVE  j = k
  <2>1. CASE j = i \/ k = i
    <3>1. n + 1 \notin 1..n  OBVIOUS
    <3> QED  BY <1>3, <1>4, <1>6, <2>1, <3>1, Zenon
  <2>2. CASE j # i /\ k # i
    <3>1. s[old(j)] = s[old(k)] /\ old(j) \in DOMAIN s /\ old(k) \in DOMAIN s
      BY <1>4, <1>6, <2>2, SMTT(30)
    <3>2. old(j) = old(k)  BY <3>1 DEF IsInjective
    <3> QED  BY <2>2, <3>2
  <2> QED  BY <2>1, <2>2
<1>7. IsInjective(t)  BY <1>2, <1>6 DEF IsInjective
<1> QED  BY <1>2, <1>5, <1>7 DEF t

\* A new item directly behind the current one: nothing else moves.
LEMMA InsertAfterCurrentWellFormed ==
  ASSUME NEW q, WellFormed(q), NEW item \in Item
  PROVE  LET r == InsertAfterCurrent(q, item)
         IN /\ WellFormed(r)
            /\ Len(r.positions) = Len(q.positions) + 1
            /\ r.position = q.position
<1> DEFINE n == Len(q.items)
           i == Smaller(q.position, Len(q.positions)) + 1
           new == InsertAt(q.positions, i, n + 1)
           r == InsertAfterCurrent(q, item)
<1>1. /\ q \in QueueType /\ IsPlayOrder(q)
      /\ q.items \in Seq(Item) /\ q.positions \in Seq(Nat \ {0})
      /\ q.position \in Nat \ {0} /\ Len(q.positions) = n /\ n \in Nat
      /\ \A k \in 1..n : q.positions[k] \in 1..n
      /\ IsInjective(q.positions)
  BY SMTT(30) DEF WellFormed, QueueType, IsPlayOrder
<1>2. i \in 1..(n + 1)  BY <1>1 DEF Smaller
<1>3. /\ new \in Seq(Nat \ {0}) /\ Len(new) = n + 1
      /\ \A k \in 1..(n + 1) : new[k] \in 1..(n + 1)
      /\ IsInjective(new)
  <2> HIDE DEF n, i
  <2> QED  BY <1>1, <1>2, InsertAtPermutation, Zenon
<1>4. r = [q EXCEPT !.items = Append(q.items, item), !.positions = new]
  BY DEF InsertAfterCurrent
<1> HIDE DEF new, i, r
<1>5. Append(q.items, item) \in Seq(Item) /\ Len(Append(q.items, item)) = n + 1
  BY <1>1
<1>6. r \in QueueType  BY <1>1, <1>3, <1>4, <1>5 DEF QueueType
<1>7. r.items = Append(q.items, item) /\ r.positions = new /\ r.position = q.position
  BY <1>1, <1>4 DEF QueueType
<1>8. IsPlayOrder(r)  BY <1>1, <1>3, <1>5, <1>7 DEF IsPlayOrder
<1> QED  BY <1>1, <1>3, <1>6, <1>7, <1>8 DEF WellFormed, r

\* The position is inside the play order, or at its start if there is none.
Placed(q) == IF q.items = <<>> THEN q.position = 1
             ELSE q.position \in DOMAIN q.positions

\* The facts about a queue that the lemmas below start from.
LEMMA WellFormedFacts ==
  ASSUME NEW q, WellFormed(q)
  PROVE  /\ q \in QueueType
         /\ q.items \in Seq(Item) /\ q.user_items \in Seq(Item)
         /\ q.positions \in Seq(Nat \ {0}) /\ q.position \in Nat \ {0}
         /\ q.user_items_position \in Nat /\ q.behavior \in Behavior
         /\ Len(q.items) \in Nat /\ Len(q.positions) = Len(q.items)
         /\ \A k \in 1..Len(q.items) : q.positions[k] \in 1..Len(q.items)
BY SMTT(30) DEF WellFormed, QueueType, IsPlayOrder

\* There is a current item exactly when the position is inside the play order.
LEMMA CurrentItem ==
  ASSUME NEW q, WellFormed(q)
  PROVE  /\ Current(q) \in Item \cup {NoItem}
         /\ Current(q) # NoItem <=> q.position \in DOMAIN q.positions
<1>1. CASE q.position \in DOMAIN q.positions
  <2>1. q.positions[q.position] \in 1..Len(q.items)
    BY <1>1, WellFormedFacts
  <2>2. Current(q) \in Item  BY <1>1, <2>1, WellFormedFacts DEF Current
  <2> QED  BY <1>1, <2>2, NoItemAssumption
<1>2. CASE q.position \notin DOMAIN q.positions  BY <1>2 DEF Current
<1> QED  BY <1>1, <1>2

\* A cleared queue is well formed and in place.
LEMMA ClearWellFormed ==
  ASSUME NEW q, q.behavior \in Behavior
  PROVE  /\ WellFormed(Clear(q)) /\ Placed(Clear(q))
         /\ Clear(q).items = <<>> /\ Clear(q).positions = <<>>
         /\ Current(Clear(q)) = NoItem
<1> DEFINE c == Clear(q)
<1>1. c = [items |-> <<>>, user_items |-> <<>>, position |-> 1,
           user_items_position |-> 0, positions |-> <<>>, behavior |-> q.behavior]
  BY DEF Clear, EmptyQueue
<1> HIDE DEF c
<1>2. /\ c.items = <<>> /\ c.positions = <<>> /\ c.position = 1
      /\ c \in QueueType
  BY <1>1 DEF QueueType
<1>3. IsPlayOrder(c)  BY <1>2 DEF IsPlayOrder, IsInjective
<1>4. Current(c) = NoItem  BY <1>2 DEF Current
<1> QED  BY <1>2, <1>3, <1>4 DEF WellFormed, Placed, c

\* Any order compute_positions() computes is a permutation of the playlist.
LEMMA ComputePositionsWellFormed ==
  ASSUME NEW q \in QueueType, NEW r \in ComputePositions(q)
  PROVE  /\ WellFormed(r)
         /\ r.items = q.items /\ r.user_items = q.user_items
         /\ r.behavior = q.behavior
<1> DEFINE n == Len(q.items)
           playlistPosition ==
             IF Len(q.positions) > 1 THEN q.positions[q.position] ELSE q.position
<1>1. /\ n \in Nat /\ q.items \in Seq(Item) /\ q.positions \in Seq(Nat \ {0})
      /\ q.position \in Nat \ {0} /\ DOMAIN q.items = 1..n
  BY DEF QueueType
<1>2. ~(Len(q.positions) > 1 /\ q.position > Len(q.positions))
  BY DEF ComputePositions
<1>3. PICK s, p : /\ r = [q EXCEPT !.positions = s, !.position = p]
                  /\ s \in [1..n -> 1..n] /\ IsInjective(s)
                  /\ p \in Nat \ {0}
  <2>1. CASE q.behavior # "Random"
    <3>1. r = [q EXCEPT !.positions = [i \in 1..n |-> i],
                        !.position = playlistPosition]
      BY <2>1 DEF ComputePositions
    <3>2. playlistPosition \in Nat \ {0}  BY <1>1, <1>2
    <3>3. [i \in 1..n |-> i] \in [1..n -> 1..n] /\ IsInjective([i \in 1..n |-> i])
      BY DEF IsInjective
    <3> QED  BY <3>1, <3>2, <3>3
  <2>2. CASE q.behavior = "Random"
    <3>1. PICK s \in IF n > 1 THEN ShuffledFrom(q.position, n) ELSE {[i \in 1..n |-> i]} :
            r = [q EXCEPT !.positions = s, !.position = 1]
      BY <2>2 DEF ComputePositions
    <3>2. s \in [1..n -> 1..n] /\ IsInjective(s)
      BY <3>1 DEF ShuffledFrom, IsInjective
    <3>3. 1 \in Nat \ {0}  OBVIOUS
    <3> QED  BY <3>1, <3>2, <3>3, Zenon
  <2> QED  BY <2>1, <2>2
<1>4. s \in Seq(Nat \ {0}) /\ Len(s) = n /\ DOMAIN s = 1..n
  <2>1. s \in [1..n -> Nat \ {0}]  BY <1>1, <1>3
  <2> QED  BY <1>1, <2>1
<1>5. r \in QueueType  BY <1>3, <1>4 DEF QueueType
<1>6. /\ r.items = q.items /\ r.user_items = q.user_items
      /\ r.behavior = q.behavior /\ r.positions = s
  BY <1>3 DEF QueueType
<1>7. IsPlayOrder(r)  BY <1>1, <1>3, <1>4, <1>6 DEF IsPlayOrder
<1> QED  BY <1>5, <1>6, <1>7 DEF WellFormed

\* A shuffle or an ordered play order starts at a valid position, and there is
\* one to choose, if the position was valid before.
LEMMA ComputePositionsPlaced ==
  ASSUME NEW q \in QueueType,
         IF q.items = <<>> THEN q.position = 1 ELSE q.position \in DOMAIN q.items,
         q.positions = <<>> \/ IsPlayOrder(q)
  PROVE  /\ ComputePositions(q) # {}
         /\ \A r \in ComputePositions(q) : Placed(r)
<1> DEFINE n == Len(q.items)
           ordered == [i \in 1..n |-> i]
           playlistPosition ==
             IF Len(q.positions) > 1 THEN q.positions[q.position] ELSE q.position
<1>1. /\ n \in Nat /\ q.items \in Seq(Item) /\ q.positions \in Seq(Nat \ {0})
      /\ q.position \in Nat \ {0} /\ DOMAIN q.items = 1..n
      /\ n = 0 <=> q.items = <<>>
  BY DEF QueueType
<1>2. /\ n = 0 => q.position = 1
      /\ n > 0 => q.position \in 1..n
  BY <1>1
<1>3. /\ ~(Len(q.positions) > 1 /\ q.position > Len(q.positions))
      /\ ~(n > 1 /\ q.position > n)
      /\ n = 0 => playlistPosition = 1
      /\ n > 0 => playlistPosition \in 1..n
  BY <1>1, <1>2 DEF IsPlayOrder
<1>4. CASE q.behavior # "Random"
  <2>1. ComputePositions(q) =
          {[q EXCEPT !.positions = ordered, !.position = playlistPosition]}
    BY <1>3, <1>4 DEF ComputePositions
  <2>2. ASSUME NEW r, r = [q EXCEPT !.positions = ordered, !.position = playlistPosition]
        PROVE  Placed(r)
    <3>1. /\ r.items = q.items /\ r.position = playlistPosition
          /\ r.positions = ordered
      BY <2>2 DEF QueueType
    <3> HIDE DEF playlistPosition
    <3>2. DOMAIN r.positions = 1..n  BY <3>1
    <3> QED  BY <1>1, <1>3, <3>1, <3>2 DEF Placed
  <2> QED  BY <2>1, <2>2
<1>5. CASE q.behavior = "Random"
  <2> DEFINE orders == IF n > 1 THEN ShuffledFrom(q.position, n) ELSE {ordered}
  <2>1. ComputePositions(q) = {[q EXCEPT !.positions = s, !.position = 1] : s \in orders}
    BY <1>3, <1>5 DEF ComputePositions
  <2>2. orders # {}
    <3>1. CASE n > 1
      <4> DEFINE swap == [k \in 1..n |-> IF k = 1 THEN q.position
                                         ELSE IF k = q.position THEN 1 ELSE k]
      <4>1. q.position \in 1..n  BY <1>2, <3>1
      <4>2. swap \in [1..n -> 1..n]  BY <1>1, <3>1, <4>1
      <4>3. IsInjective(swap)  BY <1>1, <4>1 DEF IsInjective
      <4>4. swap[1] = q.position  BY <1>1, <3>1
      <4> HIDE DEF swap
      <4>5. swap \in ShuffledFrom(q.position, n)
        BY <4>2, <4>3, <4>4 DEF ShuffledFrom
      <4> QED  BY <3>1, <4>5
    <3>2. CASE ~(n > 1)  BY <3>2
    <3> QED  BY <3>1, <3>2
  <2>3. ASSUME NEW s \in orders
        PROVE  Placed([q EXCEPT !.positions = s, !.position = 1])
    <3> DEFINE r == [q EXCEPT !.positions = s, !.position = 1]
    <3>1. DOMAIN s = 1..n
      BY <2>3 DEF ShuffledFrom
    <3>2. r.items = q.items /\ r.position = 1 /\ r.positions = s
      BY DEF QueueType
    <3>3. q.items # <<>> => 1 \in 1..n  BY <1>1
    <3> HIDE DEF r
    <3> QED  BY <3>1, <3>2, <3>3 DEF Placed, r
  <2> HIDE DEF orders
  <2> QED  BY <2>1, <2>2, <2>3
<1> QED  BY <1>4, <1>5

\* fill() and replace() compute the positions of a queue of this form.
LEMMA FilledQueue ==
  ASSUME NEW q, q.behavior \in Behavior, NEW items \in Seq(Item),
         NEW position \in Nat \ {0}
  PROVE  /\ Filled(q, items, position) \in QueueType
         /\ Filled(q, items, position).items = items
         /\ Filled(q, items, position).position = position
         /\ Filled(q, items, position).positions = <<>>
<1>1. Clear(q) \in QueueType /\ Clear(q).positions = <<>>
  BY ClearWellFormed DEF WellFormed
<1> QED  BY <1>1 DEF Filled, QueueType

\* What fill() leaves behind.
LEMMA FillWellFormed ==
  ASSUME NEW q, q.behavior \in Behavior, NEW items \in Seq(Item),
         NEW position \in Nat \ {0},
         NEW r \in Fill(q, items, position)
  PROVE  WellFormed(r)
BY FilledQueue, ComputePositionsWellFormed DEF Fill

\* A fill at a position inside the list does not panic and stays inside it.
LEMMA FillPlaced ==
  ASSUME NEW q, q.behavior \in Behavior, NEW items \in Seq(Item),
         NEW position \in Nat \ {0},
         IF items = <<>> THEN position = 1 ELSE position \in DOMAIN items
  PROVE  Fill(q, items, position) # {} /\ \A r \in Fill(q, items, position) : Placed(r)
BY FilledQueue, ComputePositionsPlaced DEF Fill

\* A set of numbers that is not empty has a least one.
LEMMA LeastNat ==
  ASSUME NEW S \in SUBSET Nat, S # {}
  PROVE  \E i \in S : \A j \in S : i <= j
<1> DEFINE less == OpToRel(<, Nat)
<1>1. IsWellFoundedOn(less, Nat)  BY NatLessThanWellFounded
<1>2. \A j, k \in Nat : <<j, k>> \in less <=> j < k
  BY SMT DEF OpToRel
<1> HIDE DEF less
<1>3. PICK i \in S : \A j \in S : ~(<<j, i>> \in less)
  BY <1>1, WFMin
<1>4. ASSUME NEW j \in S PROVE i <= j
  <2>1. ~(j < i)  BY <1>2, <1>3
  <2> QED  BY <2>1
<1> QED  BY <1>4

\* replace() is a fill() at a position inside the new list.
LEMMA ReplaceIsFill ==
  ASSUME NEW q, NEW items \in Seq(Item)
  PROVE  \E position \in Nat \ {0} :
           /\ Replace(q, items) = Fill(q, items, position)
           /\ IF items = <<>> THEN position = 1 ELSE position \in DOMAIN items
<1> DEFINE kept == {i \in DOMAIN items : items[i] = Current(q)}
           position == IF kept = {} THEN 1
                       ELSE CHOOSE i \in kept : \A j \in kept : i <= j
<1>1. Replace(q, items) = Fill(q, items, position)  BY DEF Replace
<1>2. /\ position \in Nat \ {0}
      /\ IF items = <<>> THEN position = 1 ELSE position \in DOMAIN items
  <2>1. CASE kept = {}
    <3>1. position = 1  BY <2>1
    <3>2. items # <<>> => 1 \in DOMAIN items  OBVIOUS
    <3> HIDE DEF position
    <3> QED  BY <3>1, <3>2
  <2>2. CASE kept # {}
    <3>1. kept \subseteq Nat  OBVIOUS
    <3>2. \E i \in kept : \A j \in kept : i <= j  BY <2>2, <3>1, LeastNat
    <3>3. position \in kept
      <4> HIDE DEF kept
      <4> QED  BY <2>2, <3>2
    <3>4. kept \subseteq 1..Len(items)  OBVIOUS
    <3> HIDE DEF kept, position
    <3>5. position \in 1..Len(items)  BY <3>3, <3>4
    <3> QED  BY <3>5
  <2> QED  BY <2>1, <2>2
<1> HIDE DEF position
<1> QED  BY <1>1, <1>2

\* Queueing a track does not touch the play order.
LEMMA AddWellFormed ==
  ASSUME NEW q, WellFormed(q), NEW item \in Item
  PROVE  /\ WellFormed(Add(q, item))
         /\ Placed(q) => Placed(Add(q, item))
<1>1. Append(q.user_items, item) \in Seq(Item)  BY WellFormedFacts
<1>2. /\ Add(q, item) \in QueueType
      /\ Add(q, item).items = q.items /\ Add(q, item).positions = q.positions
      /\ Add(q, item).position = q.position
  BY <1>1 DEF Add, WellFormed, QueueType
<1>3. IsPlayOrder(Add(q, item))  BY <1>2 DEF WellFormed, IsPlayOrder
<1> QED  BY <1>2, <1>3 DEF WellFormed, Placed

\* A track put behind the current one.
LEMMA AddNextWellFormed ==
  ASSUME NEW q, WellFormed(q), NEW item \in Item
  PROVE  /\ WellFormed(AddNext(q, item))
         /\ Placed(q) => Placed(AddNext(q, item))
<1> DEFINE r == InsertAfterCurrent(q, item)
           p == IF q.positions = <<>> THEN 1 ELSE r.position
<1>1. /\ WellFormed(r) /\ Len(r.positions) = Len(q.positions) + 1
      /\ r.position = q.position
  BY InsertAfterCurrentWellFormed
<1>2. AddNext(q, item) = [r EXCEPT !.position = p]  BY DEF AddNext
<1> HIDE DEF r
<1>3. p \in Nat \ {0}  BY <1>1, WellFormedFacts
<1>4. /\ AddNext(q, item) \in QueueType
      /\ AddNext(q, item).items = r.items
      /\ AddNext(q, item).positions = r.positions
      /\ AddNext(q, item).position = p
  BY <1>1, <1>2, <1>3 DEF WellFormed, QueueType
<1>5. IsPlayOrder(AddNext(q, item))  BY <1>1, <1>4 DEF WellFormed, IsPlayOrder
<1>6. ASSUME Placed(q) PROVE Placed(AddNext(q, item))
  <2>1. /\ q.positions \in Seq(Nat \ {0}) /\ r.positions \in Seq(Nat \ {0})
        /\ Len(q.positions) = Len(q.items) /\ q.items \in Seq(Item)
    BY <1>1, WellFormedFacts
  <2>2. p \in DOMAIN r.positions
    BY <1>1, <1>6, <2>1 DEF Placed
  <2>3. r.items # <<>>
    BY <1>1, <2>1, WellFormedFacts
  <2> QED  BY <1>4, <2>2, <2>3 DEF Placed
<1> QED  BY <1>4, <1>5, <1>6 DEF WellFormed

\* Moving a track the user queued into the playlist.
LEMMA HandleAddedQueueWellFormed ==
  ASSUME NEW q, WellFormed(q)
  PROVE  WellFormed(HandleAddedQueue(q)) /\ HandleAddedQueue(q).position = q.position
<1>1. CASE HasPendingUserItem(q)
  <2> DEFINE r == InsertAfterCurrent(q, PendingUserItem(q))
  <2>1. PendingUserItem(q) \in Item
    BY <1>1, WellFormedFacts DEF HasPendingUserItem, PendingUserItem
  <2>2. WellFormed(r) /\ r.position = q.position
    BY <2>1, InsertAfterCurrentWellFormed
  <2>3. HandleAddedQueue(q) = [r EXCEPT !.user_items_position = r.user_items_position + 1]
    BY <1>1 DEF HandleAddedQueue
  <2> HIDE DEF r
  <2>4. r \in QueueType /\ r.user_items_position + 1 \in Nat
    BY <2>2 DEF WellFormed, QueueType
  <2>5. /\ HandleAddedQueue(q) \in QueueType
        /\ HandleAddedQueue(q).items = r.items
        /\ HandleAddedQueue(q).positions = r.positions
        /\ HandleAddedQueue(q).position = r.position
    BY <2>3, <2>4 DEF QueueType
  <2>6. IsPlayOrder(HandleAddedQueue(q))
    BY <2>2, <2>5 DEF WellFormed, IsPlayOrder
  <2> QED  BY <2>2, <2>5, <2>6 DEF WellFormed
<1>2. CASE ~HasPendingUserItem(q)  BY <1>2 DEF HandleAddedQueue
<1> QED  BY <1>1, <1>2

\* Any other position leaves the play order alone.
LEMMA MoveToWellFormed ==
  ASSUME NEW q, WellFormed(q), NEW p \in Nat \ {0}
  PROVE  WellFormed([q EXCEPT !.position = p])
<1> DEFINE r == [q EXCEPT !.position = p]
<1>1. r \in QueueType /\ r.items = q.items /\ r.positions = q.positions
  BY DEF WellFormed, QueueType
<1>2. IsPlayOrder(r)  BY <1>1 DEF WellFormed, IsPlayOrder
<1> QED  BY <1>1, <1>2 DEF WellFormed

LEMMA TargetPositions ==
  ASSUME NEW q, WellFormed(q)
  PROVE  /\ PreviousPosition(q) \in Nat \ {0}
         /\ NextPosition(q) \subseteq Nat \ {0}
         /\ FollowingPosition(q) \subseteq Nat \ {0}
<1>1. WrappedPosition(q) \subseteq Nat \ {0}
  <2>1. CASE q.items = <<>>  BY <2>1 DEF WrappedPosition
  <2>2. CASE q.items # <<>>
    <3>1. Len(q.items) \in Nat \ {0} /\ q.position \in Nat  BY <2>2, WellFormedFacts
    <3>2. q.position % Len(q.items) \in Nat  BY <3>1
    <3> QED  BY <2>2, <3>2 DEF WrappedPosition
  <2> QED  BY <2>1, <2>2
<1>2. q.position \in Nat \ {0}  BY WellFormedFacts
<1>3. q.position + 1 \in Nat \ {0}  BY <1>2
<1> QED  BY <1>1, <1>2, <1>3 DEF PreviousPosition, NextPosition, FollowingPosition

\* The skips.
LEMMA SkipsWellFormed ==
  ASSUME NEW q, WellFormed(q)
  PROVE  /\ WellFormed(SkipToPrevious(q))
         /\ \A r \in SkipToNext(q) : WellFormed(r)
         /\ \A r \in SkipToFollowing(q) : WellFormed(r)
<1>1. WellFormed(SkipToPrevious(q))
  BY MoveToWellFormed, TargetPositions DEF SkipToPrevious
<1>2. WellFormed(HandleAddedQueue(q))  BY HandleAddedQueueWellFormed
<1>3. \A r \in SkipToNext(q) : WellFormed(r)
  BY <1>2, MoveToWellFormed, TargetPositions DEF SkipToNext, MoveTo
<1>4. \A r \in SkipToFollowing(q) : WellFormed(r)
  BY <1>2, MoveToWellFormed, TargetPositions DEF SkipToFollowing, MoveTo
<1> QED  BY <1>1, <1>3, <1>4

\* A change of mode.
LEMMA SetBehaviourWellFormed ==
  ASSUME NEW q, WellFormed(q), NEW behavior \in Behavior
  PROVE  /\ \A r \in SetBehaviour(q, behavior) : WellFormed(r)
         /\ Placed(q) => /\ SetBehaviour(q, behavior) # {}
                         /\ \A r \in SetBehaviour(q, behavior) : Placed(r)
<1> DEFINE c == [q EXCEPT !.behavior = behavior]
<1>1. /\ c \in QueueType /\ c.items = q.items /\ c.positions = q.positions
      /\ c.position = q.position
  <2>1. q \in QueueType  BY DEF WellFormed
  <2> QED  BY <2>1 DEF QueueType
<1>2. IsPlayOrder(c)  BY <1>1 DEF WellFormed, IsPlayOrder
<1>3. SetBehaviour(q, behavior) = ComputePositions(c)  BY DEF SetBehaviour
<1> HIDE DEF c
<1>4. ASSUME Placed(q)
      PROVE  IF c.items = <<>> THEN c.position = 1 ELSE c.position \in DOMAIN c.items
  <2>1. DOMAIN q.positions = DOMAIN q.items  BY WellFormedFacts
  <2> QED  BY <1>1, <1>4, <2>1 DEF Placed
<1> QED  BY <1>1, <1>2, <1>3, <1>4, ComputePositionsWellFormed, ComputePositionsPlaced
=============================================================================
