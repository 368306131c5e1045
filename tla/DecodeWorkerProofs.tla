------------------------- MODULE DecodeWorkerProofs -------------------------
(***************************************************************************)
(* Proofs about DecodeWorker, for every size of track, packet and buffer:  *)
(* the worker never blocks on its own mailbox as long as the mailbox has   *)
(* two places more than there are seeks, and a track nobody seeks in is    *)
(* played whole, in order, before its end is announced.                    *)
(* At the end, that a loaded track is decrypted with its own key: of the   *)
(* instance L of ItemLoad in MCAudio.                                      *)
(***************************************************************************)
EXTENDS MCAudio, SequenceTheorems, TLAPS

\* What the worker is about to send itself.
InHand == IF at \in {"send", "kick"} THEN 1 ELSE 0
Dropped == IF dropped THEN 1 ELSE 0

Messages == [kind : {"Read", "Stop", "Seek"}, to : 0..Samples]

\* The inductive invariant: every message in the mailbox, and the one in hand, is
\* the kick-start or its successor, a seek or its kick-start, or the stop.
Inv ==
  /\ mailbox \in Seq(Messages)
  /\ at \in Places /\ dropped \in BOOLEAN
  /\ seeks \in 0..MaxSeeks
  /\ Len(mailbox) + InHand <= 1 + seeks + Dropped

LEMMA MessageTypes == Read \in Messages /\ Stop \in Messages
<1>1. 0 \in 0..Samples  BY SizesAssumption
<1> QED  BY <1>1 DEF Read, Stop, Messages

LEMMA Invariance == Spec => []Inv
<1> USE SizesAssumption
<1>1. Init => Inv
  <2> SUFFICES ASSUME Init PROVE Inv  OBVIOUS
  <2>1. /\ mailbox = <<Read>> /\ at = "recv" /\ dropped = FALSE /\ seeks = 0
        /\ InHand = 0 /\ Dropped = 0
    BY DEF Init, InHand, Dropped
  <2>2. mailbox \in Seq(Messages) /\ Len(mailbox) = 1
    BY <2>1, MessageTypes
  <2>3. at \in Places /\ dropped \in BOOLEAN  BY <2>1 DEF Places
  <2>4. seeks \in 0..MaxSeeks  BY <2>1, SizesAssumption
  <2>5. Len(mailbox) + InHand <= 1 + seeks + Dropped  BY <2>1, <2>2
  <2> QED  BY <2>2, <2>3, <2>4, <2>5 DEF Inv
<1>2. Inv /\ [Next]_vars => Inv'
  <2> SUFFICES ASSUME Inv, [Next]_vars PROVE Inv'  OBVIOUS
  <2> USE DEF Inv
  <2>1. ASSUME OnRead
        PROVE  at' \in {"send", "wait", "recv"}
    BY <2>1 DEF OnRead, Flush, Decode
  <2>2. CASE Receive
    <3>1. /\ mailbox' = Tail(mailbox) /\ mailbox # <<>>
          /\ at \in {"recv", "wait"} /\ at' \in Places
          /\ UNCHANGED <<dropped, seeks>>
      BY <2>1, <2>2 DEF Receive, OnSeek, OnStop, source, Places
    <3>2. /\ mailbox' \in Seq(Messages)
          /\ Len(mailbox') = Len(mailbox) - 1
      BY <3>1
    <3> QED  BY <3>1, <3>2 DEF InHand, Dropped
  <2>3. CASE Timeout
    <3>1. /\ mailbox' = <<>> /\ at' \in Places /\ UNCHANGED <<mailbox, dropped, seeks>>
      BY <2>1, <2>3 DEF Timeout, source, Places
    <3> QED  BY <3>1 DEF InHand, Dropped
  <2>4. CASE SendToItself
    <3>1. /\ mailbox' = Append(mailbox, Read) /\ at \in {"send", "kick"}
          /\ at' \in {"recv", "store"} /\ UNCHANGED <<dropped, seeks>>
      BY <2>4 DEF SendToItself, source
    <3>3. /\ mailbox' \in Seq(Messages)
          /\ Len(mailbox') = Len(mailbox) + 1
      BY <3>1, MessageTypes
    <3> QED  BY <3>1, <3>3 DEF InHand, Dropped, Places
  <2>5. CASE StorePosition \/ ClearRing
    BY <2>5 DEF StorePosition, ClearRing, source, InHand, Dropped, Places
  <2>6. CASE Callback
    BY <2>6 DEF Callback, ReadSamples, CountSamples, worker, InHand, Dropped
  <2>7. CASE Drop
    <3>1. /\ mailbox' = mailbox \/ mailbox' = Append(mailbox, Stop)
          /\ ~dropped /\ dropped' = TRUE /\ UNCHANGED <<at, seeks>>
      BY <2>7 DEF Drop, worker
    <3>3. /\ mailbox' \in Seq(Messages)
          /\ Len(mailbox') <= Len(mailbox) + 1
      BY <3>1, MessageTypes
    <3> QED  BY <3>1, <3>3 DEF InHand, Dropped
  <2>8. ASSUME NEW s \in Targets, Seek(s) PROVE Inv'
    <3>1. /\ mailbox' = mailbox \/ mailbox' = Append(mailbox, SeekTo(s))
          /\ seeks < MaxSeeks /\ seeks' = seeks + 1 /\ UNCHANGED <<at, dropped>>
      BY <2>8 DEF Seek, worker, source
    <3>2. SeekTo(s) \in Messages
      BY DEF SeekTo, Targets, Messages
    <3>3. /\ mailbox' \in Seq(Messages)
          /\ Len(mailbox') <= Len(mailbox) + 1
      BY <3>1, <3>2
    <3> QED  BY <3>1, <3>3 DEF InHand, Dropped
  <2>9. CASE UNCHANGED vars
    BY <2>9 DEF vars, worker, source, InHand, Dropped
  <2> QED
    BY <2>2, <2>3, <2>4, <2>5, <2>6, <2>7, <2>8, <2>9 DEF Next, Worker
<1> QED  BY <1>1, <1>2, PTL DEF Spec

\* The worker's sends to its own bounded mailbox, which only it drains, always
\* find room while fewer seeks than MailboxSize - 1 reach the track.
THEOREM WorkerNeverBlocksOnItself ==
  ASSUME MaxSeeks + 2 <= MailboxSize
  PROVE  Spec => []SelfSendsNeverBlock
<1>1. Inv => SelfSendsNeverBlock
  BY SizesAssumption DEF Inv, SelfSendsNeverBlock, InHand, Dropped
<1> QED  BY <1>1, Invariance, PTL
-----------------------------------------------------------------------------
(***************************************************************************)
(* Multiples of the size of a packet.                                      *)
(***************************************************************************)
LEMMA Multiple ==
  ASSUME NEW d \in Nat \ {0}, NEW q \in Nat
  PROVE  (d * q) % d = 0
OBVIOUS

LEMMA Quotient ==
  ASSUME NEW d \in Nat \ {0}, NEW a \in Nat, a % d = 0
  PROVE  \E q \in Nat : a = d * q
<1>1. a = d * (a \div d)  OBVIOUS
<1>2. a \div d \in Nat  OBVIOUS
<1> QED  BY <1>1, <1>2, Zenon

LEMMA NextMultiple ==
  ASSUME NEW d \in Nat \ {0}, NEW a \in Nat, a % d = 0
  PROVE  (a + d) % d = 0
<1>1. PICK k \in Nat : a = d * k  BY Quotient
<1>2. d * (k + 1) = d * k + d  OBVIOUS
<1>3. k + 1 \in Nat /\ a + d = d * (k + 1)  BY <1>1, <1>2
<1> QED  BY <1>3, Multiple

LEMMA LaterMultiple ==
  ASSUME NEW d \in Nat \ {0}, NEW a \in Nat, NEW b \in Nat, a <= b,
         a % d = 0, (b - a) % d = 0
  PROVE  b % d = 0
<1>1. PICK k \in Nat : a = d * k  BY Quotient
<1>2. b - a \in Nat  OBVIOUS
<1>3. PICK j \in Nat : b - a = d * j  BY <1>2, Quotient
<1>4. d * (k + j) = d * k + d * j  OBVIOUS
<1>5. k + j \in Nat /\ b = d * (k + j)  BY <1>1, <1>3, <1>4
<1> QED  BY <1>5, Multiple
-----------------------------------------------------------------------------
(***************************************************************************)
(* Sequences of whole packets.                                             *)
(***************************************************************************)
Track == 0..(Samples - 1)

\* s holds whole packets, all of them decoded before sample n.
Queued(s, n) ==
  /\ s \in Seq(Track) /\ WholePackets(s)
  /\ s # <<>> => s[Len(s)] < n

LEMMA Dequeue ==
  ASSUME NEW s, NEW n \in Nat, Queued(s, n), NEW k \in 0..Len(s)
  PROVE  Queued(SubSeq(s, k + 1, Len(s)), n)
<1>1. PICK t : t = SubSeq(s, k + 1, Len(s))  OBVIOUS
<1>2. s \in Seq(Track) /\ Len(s) \in Nat  BY DEF Queued
<1>3. /\ t \in Seq(Track) /\ Len(t) = Len(s) - k
      /\ \A i \in 1..Len(t) : t[i] = s[i + k]
      /\ DOMAIN t = 1..Len(t) /\ DOMAIN s = 1..Len(s)
  BY <1>1, <1>2
<1>4. WholePackets(t)
  <2> SUFFICES ASSUME NEW i \in 1..Len(t)
               PROVE  IF i = Len(t) THEN EndsPacket(t[i])
                      ELSE \/ t[i + 1] = t[i] + 1
                           \/ /\ EndsPacket(t[i])
                              /\ t[i + 1] > t[i] /\ t[i + 1] % PacketSize = 0
    BY <1>3 DEF WholePackets
  <2>1. i + k \in 1..Len(s) /\ (i = Len(t) <=> i + k = Len(s)) /\ t[i] = s[i + k]
    BY <1>2, <1>3
  <2>2. CASE i = Len(t)
    BY <1>3, <2>1, <2>2 DEF Queued, WholePackets
  <2>3. CASE i # Len(t)
    <3>0. Len(t) \in Nat /\ k \in Nat /\ i \in Nat  BY <1>3
    <3>1. i + 1 \in 1..Len(t) /\ (i + 1) + k = (i + k) + 1  BY <2>3, <3>0
    <3>2. t[i + 1] = s[(i + 1) + k]  BY <1>3, <3>1
    <3> QED  BY <1>3, <2>1, <2>3, <3>1, <3>2 DEF Queued, WholePackets
  <2> QED  BY <2>2, <2>3
<1>5. t # <<>> => t[Len(t)] < n
  <2> SUFFICES ASSUME t # <<>> PROVE t[Len(t)] < n  OBVIOUS
  <2>1. Len(t) \in 1..Len(t) /\ s # <<>>  BY <1>2, <1>3
  <2>2. t[Len(t)] = s[Len(s)]  BY <1>2, <1>3, <2>1
  <2> QED  BY <2>1, <2>2 DEF Queued
<1> QED  BY <1>1, <1>3, <1>4, <1>5 DEF Queued

\* What Decode makes of a packet that begins at sample `from`.
LEMMA NumberedPacket ==
  ASSUME NEW from \in 0..(Samples - 1), from % PacketSize = 0,
         NEW n, n = Smaller(PacketSize, Samples - from)
  PROVE  /\ n \in Nat \ {0} /\ from + n \in 0..Samples
         /\ Numbered(from, n) \in Seq(Track) /\ Len(Numbered(from, n)) = n
         /\ \A k \in 1..n : Numbered(from, n)[k] = from + k - 1
         /\ EndsPacket(from + n - 1)
         /\ (from + n) % PacketSize = 0 \/ from + n = Samples
<1> USE SizesAssumption
<1>1. n \in Nat \ {0} /\ from + n \in 0..Samples /\ (n = PacketSize \/ from + n = Samples)
  BY DEF Smaller
<1>2. PICK p : p = Numbered(from, n)  OBVIOUS
<1>3. p = [k \in 1..n |-> from + k - 1]  BY <1>2 DEF Numbered
<1>4. \A k \in 1..n : from + k - 1 \in Track  BY <1>1 DEF Track
<1>5. p \in Seq(Track) /\ Len(p) = n  BY <1>1, <1>3, <1>4
<1>6. (from + n) % PacketSize = 0 \/ from + n = Samples  BY <1>1, NextMultiple
<1>7. (from + n - 1) + 1 = from + n  BY <1>1
<1> QED  BY <1>1, <1>2, <1>3, <1>5, <1>6, <1>7 DEF EndsPacket

LEMMA Enqueue ==
  ASSUME NEW s, NEW n \in Nat, Queued(s, n),
         NEW from \in n..(Samples - 1), from % PacketSize = 0,
         NEW m, m = Smaller(PacketSize, Samples - from)
  PROVE  Queued(s \o Numbered(from, m), from + m)
<1> USE SizesAssumption
<1>1. PICK p : p = Numbered(from, m)  OBVIOUS
<1>2. PICK t : t = s \o p  OBVIOUS
<1>3. from \in 0..(Samples - 1)  OBVIOUS
<1>4. /\ m \in Nat \ {0} /\ p \in Seq(Track) /\ Len(p) = m
      /\ \A k \in 1..m : p[k] = from + k - 1
      /\ EndsPacket(from + m - 1)
  BY <1>1, <1>3, NumberedPacket
<1>5. s \in Seq(Track) /\ Len(s) \in Nat  BY DEF Queued
<1>6. /\ t \in Seq(Track) /\ Len(t) = Len(s) + m
      /\ \A k \in 1..Len(s) : t[k] = s[k]
      /\ \A k \in 1..m : t[Len(s) + k] = p[k]
  BY <1>2, <1>4, <1>5
<1>7. t[Len(t)] = from + m - 1
  <2>1. m \in 1..m  BY <1>4
  <2> QED  BY <1>4, <1>6, <2>1
<1>8. WholePackets(t)
  <2> SUFFICES ASSUME NEW i \in 1..Len(t)
               PROVE  IF i = Len(t) THEN EndsPacket(t[i])
                      ELSE \/ t[i + 1] = t[i] + 1
                           \/ /\ EndsPacket(t[i])
                              /\ t[i + 1] > t[i] /\ t[i + 1] % PacketSize = 0
    BY <1>6 DEF WholePackets
  <2>1. CASE i = Len(t)  BY <1>4, <1>7, <2>1
  <2>2. CASE i # Len(t) /\ i > Len(s)
    <3>1. PICK k \in 1..m : i = Len(s) + k /\ k + 1 \in 1..m
      <4>1. i - Len(s) \in 1..m /\ (i - Len(s)) + 1 \in 1..m /\ i = Len(s) + (i - Len(s))
        BY <1>4, <1>5, <1>6, <2>2
      <4> QED  BY <4>1
    <3>2. t[i] = from + k - 1  BY <1>4, <1>6, <3>1
    <3>3. i + 1 = Len(s) + (k + 1)  BY <1>5, <3>1
    <3>4. t[i + 1] = from + (k + 1) - 1  BY <1>4, <1>6, <3>1, <3>3, SMTT(30)
    <3> QED  BY <2>2, <3>2, <3>4
  <2>3. CASE i = Len(s)
    <3>1. s # <<>> /\ t[i] = s[Len(s)] /\ s[Len(s)] < n /\ EndsPacket(s[Len(s)])
      BY <1>5, <1>6, <2>3 DEF Queued, WholePackets
    <3>2. 1 \in 1..m /\ i + 1 = Len(s) + 1  BY <1>4, <2>3
    <3>3. t[i + 1] = from  BY <1>4, <1>6, <3>2
    <3>4. s[Len(s)] \in Nat  BY <1>5, <2>3 DEF Track
    <3>5. t[i + 1] > t[i]  BY <3>1, <3>3, <3>4
    <3>6. i # Len(t)  BY <1>4, <1>5, <1>6, <2>3
    <3> QED  BY <3>1, <3>3, <3>5, <3>6
  <2>4. CASE i < Len(s)
    <3>1. i \in 1..Len(s) /\ i + 1 \in 1..Len(s) /\ i # Len(s) /\ i # Len(t)
      BY <1>4, <1>5, <1>6, <2>4
    <3>2. t[i] = s[i] /\ t[i + 1] = s[i + 1]  BY <1>6, <3>1
    <3> QED  BY <3>1, <3>2 DEF Queued, WholePackets
  <2> QED  BY <1>5, <1>6, <2>1, <2>2, <2>3, <2>4
<1>9. t[Len(t)] < from + m  BY <1>4, <1>7
<1> QED  BY <1>1, <1>2, <1>6, <1>8, <1>9 DEF Queued
-----------------------------------------------------------------------------
(***************************************************************************)
(* The way of the samples, in a track nobody has sought in.                *)
(***************************************************************************)
Counted == IF counting = <<>> THEN 0 ELSE counting[1]

Unsought ==
  /\ \A k \in DOMAIN mailbox : mailbox[k].kind # "Seek"
  /\ at \notin {"kick", "store", "clear"}

\* Every sample written is played, being played or in the ring buffer.
Accounted == position + Counted + Len(ring) = samples_written

AtBoundary == input % PacketSize = 0 \/ input = Samples

AllDecoded == packet = <<>> /\ input = Samples

Numbers ==
  /\ input \in 0..Samples /\ samples_written \in Nat /\ position \in Nat
  /\ ring \in Seq(Track) /\ packet \in Seq(Track) /\ Len(ring) <= RingSize
  /\ total_samples \in Nat \cup {Unknown} /\ end_of_track \in BOOLEAN
  /\ counting \in Seq(Nat) /\ Len(counting) <= 1

\* The invariant of a track without seeks.
Flows ==
  /\ Numbers /\ Unsought /\ Accounted /\ AtBoundary
  /\ Queued(ring \o packet, input)
  /\ total_samples # Unknown => AllDecoded /\ total_samples = samples_written
  /\ end_of_track => AllDecoded /\ ring = <<>> /\ counting = <<>>

\* Moving the front of b behind a leaves the two together as they were.
Moved(T, a, b, n) ==
  /\ (a \o SubSeq(b, 1, n)) \o SubSeq(b, n + 1, Len(b)) = a \o b
  /\ a \o SubSeq(b, 1, n) \in Seq(T) /\ Len(a \o SubSeq(b, 1, n)) = Len(a) + n
  /\ SubSeq(b, n + 1, Len(b)) \in Seq(T)

LEMMA Reassociate ==
  ASSUME NEW T, NEW a \in Seq(T), NEW b \in Seq(T), NEW n \in 0..Len(b)
  PROVE  Moved(T, a, b, n)
<1>1. PICK f : f = SubSeq(b, 1, n)  OBVIOUS
<1>2. PICK r : r = SubSeq(b, n + 1, Len(b))  OBVIOUS
<1>3. f \in Seq(T) /\ Len(f) = n /\ r \in Seq(T)  BY <1>1, <1>2
<1>4. f \o r = b
  <2>1. 1 \in 1..(Len(b) + 1) /\ n \in (1 - 1)..Len(b) /\ Len(b) \in n..Len(b)  OBVIOUS
  <2>2. SubSeq(b, 1, n) \o SubSeq(b, n + 1, Len(b)) = SubSeq(b, 1, Len(b))
    BY <2>1, ConcatAdjacentSubSeq, Zenon
  <2>3. SubSeq(b, 1, Len(b)) = b  BY SubSeqFull, Zenon
  <2> QED  BY <1>1, <1>2, <2>2, <2>3
<1>5. (a \o f) \o r = a \o b
  <2>0. f \in Seq(T) /\ r \in Seq(T)  BY <1>3
  <2>1. (a \o f) \o r = a \o (f \o r)  BY <2>0, ConcatAssociative
  <2> QED  BY <1>4, <2>1, Zenon
<1>6. a \o f \in Seq(T) /\ Len(a \o f) = Len(a) + n
  <2>1. a \o f \in Seq(T) /\ Len(a \o f) = Len(a) + Len(f)
    BY <1>3, ConcatProperties, Zenon
  <2> QED  BY <1>3, <2>1
<1> QED  BY <1>1, <1>2, <1>3, <1>5, <1>6 DEF Moved

\* Taking the front of a takes it of the two together.
LEMMA TakeFront ==
  ASSUME NEW T, NEW a \in Seq(T), NEW b \in Seq(T), NEW n \in 0..Len(a)
  PROVE  /\ SubSeq(a, n + 1, Len(a)) \o b = SubSeq(a \o b, n + 1, Len(a \o b))
         /\ SubSeq(a, n + 1, Len(a)) \in Seq(T)
         /\ Len(SubSeq(a, n + 1, Len(a))) = Len(a) - n
<1>1. PICK r : r = SubSeq(a, n + 1, Len(a))  OBVIOUS
<1>2. PICK c : c = a \o b  OBVIOUS
<1>3. PICK t : t = SubSeq(c, n + 1, Len(c))  OBVIOUS
<1>4. /\ r \in Seq(T) /\ Len(r) = Len(a) - n
      /\ \A k \in 1..Len(r) : r[k] = a[n + k]
  BY <1>1
<1>5. /\ c \in Seq(T) /\ Len(c) = Len(a) + Len(b)
      /\ \A k \in 1..Len(c) : c[k] = IF k <= Len(a) THEN a[k] ELSE b[k - Len(a)]
  BY <1>2
<1>6. /\ t \in Seq(T) /\ Len(t) = Len(c) - n
      /\ \A k \in 1..Len(t) : t[k] = c[n + k]
  BY <1>3, <1>5
<1>7. PICK u : u = r \o b  OBVIOUS
<1>8. /\ u \in Seq(T) /\ Len(u) = Len(r) + Len(b)
      /\ \A k \in 1..Len(u) : u[k] = IF k <= Len(r) THEN r[k] ELSE b[k - Len(r)]
  <2>1. /\ r \o b \in Seq(T) /\ Len(r \o b) = Len(r) + Len(b)
        /\ \A k \in 1..(Len(r) + Len(b)) :
             (r \o b)[k] = IF k <= Len(r) THEN r[k] ELSE b[k - Len(r)]
    BY <1>4, ConcatProperties, Zenon
  <2> QED  BY <1>7, <2>1
<1>9. Len(u) = Len(t)  BY <1>4, <1>5, <1>6, <1>8
<1>10. ASSUME NEW k \in 1..Len(u)  PROVE u[k] = t[k]
  <2>1. n + k \in 1..Len(c) /\ k \in 1..Len(t)  BY <1>5, <1>6, <1>9
  <2>2. t[k] = IF n + k <= Len(a) THEN a[n + k] ELSE b[(n + k) - Len(a)]
    BY <1>5, <1>6, <2>1
  <2>3. CASE k <= Len(r)
    <3>1. k \in 1..Len(r) /\ n + k <= Len(a)  BY <1>4, <2>3
    <3> QED  BY <1>4, <1>8, <2>2, <2>3, <3>1
  <2>4. CASE ~(k <= Len(r))
    <3>1. ~(n + k <= Len(a)) /\ (n + k) - Len(a) = k - Len(r)  BY <1>4, <2>4
    <3> QED  BY <1>8, <2>2, <2>4, <3>1
  <2> QED  BY <2>3, <2>4
<1>11. u = t  BY <1>6, <1>8, <1>9, <1>10, SeqEqual
<1> QED  BY <1>1, <1>2, <1>3, <1>4, <1>7, <1>11

\* A partial write moves samples from the packet to the ring buffer.
LEMMA FlushFlows ==
  ASSUME Flows, Flush, Unsought', UNCHANGED <<position, source>>
  PROVE  Flows'
<1>1. UNCHANGED <<input, total_samples, position, counting, end_of_track>> /\ packet # <<>>
  BY DEF Flush, source
<1>2. total_samples = Unknown /\ ~end_of_track
  BY <1>1 DEF Flows, AllDecoded, Numbers
<1>3. PICK n : n = Smaller(Len(packet), RingSize - Len(ring))  OBVIOUS
<1>4. n \in 0..Len(packet) /\ n <= RingSize - Len(ring)
  BY <1>3, SizesAssumption DEF Flows, Numbers, Smaller
<1>5. CASE UNCHANGED <<ring, packet, samples_written>>
  BY <1>1, <1>5 DEF Flows, Numbers, Accounted, Counted, AtBoundary, AllDecoded
<1>6. CASE /\ ring' = ring \o SubSeq(packet, 1, n)
           /\ packet' = SubSeq(packet, n + 1, Len(packet))
           /\ samples_written' = samples_written + n
  <2>1. ring \in Seq(Track) /\ packet \in Seq(Track)  BY DEF Flows, Numbers
  <2>2. /\ (ring \o SubSeq(packet, 1, n)) \o SubSeq(packet, n + 1, Len(packet)) = ring \o packet
        /\ ring \o SubSeq(packet, 1, n) \in Seq(Track)
        /\ Len(ring \o SubSeq(packet, 1, n)) = Len(ring) + n
        /\ SubSeq(packet, n + 1, Len(packet)) \in Seq(Track)
    <3>1. n \in 0..Len(packet)  BY <1>4
    <3>2. Moved(Track, ring, packet, n)  BY <2>1, <3>1, Reassociate
    <3> QED  BY <3>2, Zenon DEF Moved
  <2>3. /\ ring' \o packet' = ring \o packet
        /\ ring' \in Seq(Track) /\ packet' \in Seq(Track) /\ Len(ring') = Len(ring) + n
    BY <1>6, <2>2
  <2>4. Numbers'  BY <1>1, <1>4, <1>6, <2>1, <2>3, SizesAssumption DEF Flows, Numbers
  <2>5. Accounted'
    <3>1. Counted' = Counted /\ Counted \in Nat
      BY <1>1 DEF Counted, Flows, Numbers
    <3>2. position' = position /\ position \in Nat /\ samples_written \in Nat
      BY <1>1 DEF Flows, Numbers
    <3>3. position + Counted + Len(ring) = samples_written  BY DEF Flows, Accounted
    <3>4. Len(ring) \in Nat /\ n \in Nat  BY <1>4, <2>1
    <3>5. Len(ring') = Len(ring) + n /\ samples_written' = samples_written + n
      BY <1>6, <2>3
    <3>6. position' + Counted' + Len(ring') = samples_written'
      BY <3>1, <3>2, <3>3, <3>4, <3>5
    <3> QED  BY <3>6 DEF Accounted
  <2>6. Queued(ring' \o packet', input')  BY <1>1, <2>3 DEF Flows
  <2> QED  BY <1>1, <1>2, <2>4, <2>5, <2>6 DEF Flows, AtBoundary
<1> QED  BY <1>3, <1>5, <1>6 DEF Flush

\* The next packet starts where the last one ended, or behind packets skipped.
LEMMA StartsAtPacket ==
  ASSUME input \in 0..Samples, AtBoundary, NEW from \in PacketStarts
  PROVE  /\ from \in input..Samples
         /\ from < Samples => from % PacketSize = 0
<1> USE SizesAssumption
<1>1. from \in input..Samples  BY DEF PacketStarts
<1>2. ASSUME from < Samples  PROVE from % PacketSize = 0
  <2>1. input % PacketSize = 0 /\ input \in Nat /\ from \in Nat /\ input <= from
    BY <1>1, <1>2 DEF AtBoundary
  <2>2. CASE from = input  BY <2>1, <2>2
  <2>3. CASE (from - input) % PacketSize = 0  BY <2>1, <2>3, LaterMultiple
  <2> QED  BY <1>2, <2>2, <2>3 DEF PacketStarts
<1> QED  BY <1>1, <1>2

\* A packet goes behind what is queued; the end is met when everything is decoded.
LEMMA DecodeFlows ==
  ASSUME Flows, Decode, Unsought', UNCHANGED <<position, source>>
  PROVE  Flows'
<1> USE SizesAssumption
<1>1. /\ packet = <<>> /\ UNCHANGED <<ring, samples_written, position, counting, end_of_track>>
  BY DEF Decode, source
<1>2. /\ input \in 0..Samples /\ ring \in Seq(Track) /\ Queued(ring, input)
  <2>1. ring \o packet = ring  BY <1>1 DEF Flows, Numbers
  <2> QED  BY <2>1 DEF Flows, Numbers
<1>3. Accounted'  BY <1>1 DEF Flows, Accounted, Counted
<1>4. PICK from \in PacketStarts :
        \/ /\ from < Samples
           /\ packet' = Numbered(from, Smaller(PacketSize, Samples - from))
           /\ input' = from + Len(packet')
           /\ UNCHANGED total_samples
        \/ /\ from = Samples /\ input' = Samples
           /\ total_samples' = samples_written /\ UNCHANGED packet
  BY DEF Decode
<1>5. from \in input..Samples /\ (from < Samples => from % PacketSize = 0)
  BY <1>2, <1>4, StartsAtPacket DEF Flows
<1>6. CASE /\ from < Samples
           /\ packet' = Numbered(from, Smaller(PacketSize, Samples - from))
           /\ input' = from + Len(packet')
           /\ UNCHANGED total_samples
  <2>1. PICK m : m = Smaller(PacketSize, Samples - from)  OBVIOUS
  <2>2. from \in 0..(Samples - 1) /\ from \in input..(Samples - 1) /\ from % PacketSize = 0
    BY <1>2, <1>5, <1>6
  <2>3. /\ m \in Nat \ {0} /\ from + m \in 0..Samples
        /\ packet' \in Seq(Track) /\ Len(packet') = m
        /\ (from + m) % PacketSize = 0 \/ from + m = Samples
    BY <1>6, <2>1, <2>2, NumberedPacket
  <2>4. input' = from + m  BY <1>6, <2>3
  <2>5. total_samples = Unknown /\ ~end_of_track
    BY <1>2, <2>2 DEF Flows, AllDecoded
  <2>6. Queued(ring' \o packet', input')
    <3>1. input \in Nat  BY <1>2
    <3>2. Queued(ring \o Numbered(from, m), from + m)  BY <1>2, <2>1, <2>2, <3>1, Enqueue
    <3> QED  BY <1>1, <1>6, <2>1, <2>4, <3>2
  <2>7. Numbers'  BY <1>1, <1>6, <2>3, <2>4 DEF Flows, Numbers
  <2>8. AtBoundary'  BY <2>3, <2>4 DEF AtBoundary
  <2> QED  BY <1>1, <1>3, <1>6, <2>5, <2>6, <2>7, <2>8 DEF Flows
<1>7. CASE /\ from = Samples /\ input' = Samples
           /\ total_samples' = samples_written /\ UNCHANGED packet
  <2>1. AllDecoded' /\ AtBoundary'  BY <1>1, <1>7 DEF AllDecoded, AtBoundary
  <2>2. Numbers'  BY <1>1, <1>7 DEF Flows, Numbers
  <2>3. ring' \o packet' = ring  BY <1>1, <1>2, <1>7
  <2>4. Queued(ring' \o packet', input')
    <3>1. ring # <<>> => ring[Len(ring)] \in Track  BY <1>2
    <3>2. ring # <<>> => ring[Len(ring)] < Samples  BY <3>1 DEF Track
    <3> QED  BY <1>2, <1>7, <2>3, <3>2 DEF Queued
  <2> QED  BY <1>1, <1>3, <1>7, <2>1, <2>2, <2>4 DEF Flows
<1> QED  BY <1>4, <1>6, <1>7

\* The callback takes samples from the ring buffer, and counts them.
LEMMA CallbackFlows ==
  ASSUME Flows, Callback, Unsought'
  PROVE  Flows'
<1> USE SizesAssumption
<1>1. /\ ring \in Seq(Track) /\ packet \in Seq(Track) /\ position \in Nat
      /\ samples_written \in Nat /\ counting \in Seq(Nat) /\ input \in Nat
  BY DEF Flows, Numbers
<1>2. CASE ReadSamples
  <2>1. PICK n : n = Smaller(Chunk, Len(ring))  OBVIOUS
  <2>2. n \in 0..Len(ring) /\ n \in Nat  BY <1>1, <2>1 DEF Smaller
  <2>3. /\ counting = <<>> /\ counting' = <<n>> /\ ~end_of_track /\ end_of_track' = end_of_track
        /\ ring' = SubSeq(ring, n + 1, Len(ring))
        /\ UNCHANGED <<input, packet, samples_written, position, total_samples>>
    BY <1>2, <2>1 DEF ReadSamples, worker
  <2>4. /\ ring' \o packet = SubSeq(ring \o packet, n + 1, Len(ring \o packet))
        /\ ring' \in Seq(Track) /\ Len(ring') = Len(ring) - n
    <3>1. n \in 0..Len(ring)  BY <2>2
    <3>2. /\ SubSeq(ring, n + 1, Len(ring)) \o packet
               = SubSeq(ring \o packet, n + 1, Len(ring \o packet))
          /\ SubSeq(ring, n + 1, Len(ring)) \in Seq(Track)
          /\ Len(SubSeq(ring, n + 1, Len(ring))) = Len(ring) - n
      BY <1>1, <3>1, TakeFront, Zenon
    <3> QED  BY <2>3, <3>2
  <2>5. Queued(ring' \o packet, input)
    <3>1. n \in 0..Len(ring \o packet)  BY <1>1, <2>2
    <3>2. Queued(ring \o packet, input)  BY DEF Flows
    <3> QED  BY <1>1, <2>4, <3>1, <3>2, Dequeue
  <2>6. counting' \in Seq(Nat) /\ Len(counting') = 1 /\ counting' # <<>> /\ counting'[1] = n
    BY <2>2, <2>3
  <2>7. Numbers'
    <3>1. Numbers /\ Len(ring) \in Nat /\ RingSize \in Nat  BY <1>1 DEF Flows
    <3>2. Len(ring') <= RingSize  BY <2>2, <2>4, <3>1 DEF Numbers
    <3> QED  BY <2>3, <2>4, <2>6, <3>1, <3>2 DEF Numbers
  <2>8. Accounted'
    <3>1. Counted = 0 /\ Counted' = n  BY <2>3, <2>6 DEF Counted
    <3>2. position + Counted + Len(ring) = samples_written  BY DEF Flows, Accounted
    <3>3. Len(ring) \in Nat  BY <1>1
    <3>4. position' + Counted' + Len(ring') = samples_written'
      <4>1. position' = position /\ samples_written' = samples_written  BY <2>3
      <4>2. Len(ring') = Len(ring) - n  BY <2>4
      <4> QED  BY <1>1, <2>2, <3>1, <3>2, <3>3, <4>1, <4>2
    <3> QED  BY <3>4 DEF Accounted
  <2> QED  BY <2>3, <2>5, <2>7, <2>8 DEF Flows, AtBoundary, AllDecoded
<1>3. CASE CountSamples
  <2>1. /\ counting # <<>> /\ counting' = <<>> /\ position' = position + counting[1]
        /\ end_of_track' = (total_samples # Unknown /\ position' >= total_samples)
        /\ UNCHANGED <<input, packet, samples_written, ring, total_samples>>
    BY <1>3 DEF CountSamples, worker
  <2>2. counting[1] \in Nat /\ position' \in Nat  BY <1>1, <2>1
  <2>3. Numbers'  BY <2>1, <2>2 DEF Flows, Numbers
  <2>4. Accounted'
    <3>1. Counted = counting[1] /\ Counted' = 0  BY <2>1 DEF Counted
    <3> QED  BY <1>1, <2>1, <2>2, <3>1 DEF Flows, Accounted
  <2>5. end_of_track' => AllDecoded' /\ ring' = <<>>
    <3> SUFFICES ASSUME end_of_track' PROVE AllDecoded' /\ ring' = <<>>  OBVIOUS
    <3>1. AllDecoded' /\ position' >= samples_written
      BY <2>1 DEF Flows, AllDecoded
    <3>2. position' + Len(ring) = samples_written  BY <1>1, <2>1, <2>2, <2>4 DEF Accounted, Counted
    <3>3. Len(ring) = 0  BY <1>1, <2>2, <3>1, <3>2
    <3> QED  BY <1>1, <2>1, <3>1, <3>3
  <2> QED  BY <2>1, <2>3, <2>4, <2>5 DEF Flows, AtBoundary, AllDecoded
<1> QED  BY <1>2, <1>3 DEF Callback

\* Nothing the samples pass through changes.
Still == UNCHANGED <<input, packet, samples_written, ring, position, total_samples,
                     counting, end_of_track>>

LEMMA StillFlows == ASSUME Flows, Unsought', Still  PROVE Flows'
BY DEF Flows, Numbers, Accounted, Counted, AtBoundary, AllDecoded, Still

LEMMA FlowStep ==
  ASSUME Inv, seeks = 0 => Flows, [Next]_vars, seeks' = 0
  PROVE  Flows'
<1> USE SizesAssumption
<1>1. CASE seeks # 0
  <2>1. seeks' = seeks \/ seeks' = seeks + 1
    BY DEF Next, Worker, Receive, Timeout, SendToItself, StorePosition, ClearRing, Callback,
           ReadSamples, CountSamples, Drop, Seek, vars
  <2> QED  BY <1>1, <2>1 DEF Inv
<1> SUFFICES ASSUME seeks = 0 PROVE Flows'  BY <1>1
<1>2. Flows /\ Unsought /\ mailbox \in Seq(Messages)  BY DEF Flows, Inv
<1>3. CASE Receive
  <2>1. /\ mailbox # <<>> /\ mailbox' = Tail(mailbox) /\ at \in {"recv", "wait"}
        /\ UNCHANGED source
    BY <1>3 DEF Receive
  <2>2. Head(mailbox) = mailbox[1] /\ 1 \in DOMAIN mailbox  BY <1>2, <2>1
  <2>3. Head(mailbox).kind # "Seek"  BY <1>2, <2>2 DEF Unsought
  <2>4. \A k \in DOMAIN mailbox' : mailbox'[k].kind # "Seek"
    <3> SUFFICES ASSUME NEW k \in DOMAIN mailbox' PROVE mailbox'[k].kind # "Seek"
      OBVIOUS
    <3>1. k + 1 \in DOMAIN mailbox /\ mailbox'[k] = mailbox[k + 1]  BY <1>2, <2>1
    <3> QED  BY <1>2, <3>1 DEF Unsought
  <2>5. OnRead \/ OnStop  BY <1>3, <2>3 DEF Receive
  <2>6. CASE OnRead
    <3>1. (Flush \/ Decode) /\ UNCHANGED <<position, source>>  BY <2>1, <2>6 DEF OnRead
    <3>2. at' \in {"send", "wait", "recv"}  BY <3>1 DEF Flush, Decode
    <3>3. Unsought'  BY <2>4, <3>2 DEF Unsought
    <3> QED  BY <1>2, <3>1, <3>3, FlushFlows, DecodeFlows
  <2>7. CASE OnStop
    <3>1. Unsought'  BY <2>4, <2>7 DEF Unsought, OnStop
    <3>2. Still  BY <2>1, <2>7 DEF OnStop, Still, source
    <3> QED  BY <1>2, <3>1, <3>2, StillFlows
  <2> QED  BY <2>5, <2>6, <2>7
<1>4. CASE Timeout
  <2>1. (Flush \/ Decode) /\ UNCHANGED <<position, source, mailbox>>
    BY <1>4 DEF Timeout, OnRead
  <2>2. at' \in {"send", "wait", "recv"}  BY <2>1 DEF Flush, Decode
  <2>3. Unsought'  BY <1>2, <2>1, <2>2 DEF Unsought
  <2> QED  BY <1>2, <2>1, <2>3, FlushFlows, DecodeFlows
<1>5. CASE SendToItself
  <2>1. Still /\ mailbox' = Append(mailbox, Read) /\ at = "send" /\ at' = "recv"
    BY <1>2, <1>5 DEF SendToItself, Still, source, Unsought
  <2>2. \A k \in DOMAIN mailbox' : mailbox'[k] = Read \/ (k \in DOMAIN mailbox /\ mailbox'[k] = mailbox[k])
    BY <1>2, <2>1
  <2>3. Read.kind # "Seek"  BY DEF Read
  <2>4. Unsought'  BY <1>2, <2>1, <2>2, <2>3 DEF Unsought
  <2> QED  BY <1>2, <2>1, <2>4, StillFlows
<1>6. CASE StorePosition \/ ClearRing
  BY <1>2, <1>6 DEF StorePosition, ClearRing, Unsought
<1>7. CASE Callback
  <2>1. Unsought'  BY <1>2, <1>7 DEF Callback, ReadSamples, CountSamples, worker, Unsought
  <2> QED  BY <1>2, <1>7, <2>1, CallbackFlows
<1>8. CASE Drop
  <2>1. Still /\ at' = at /\ mailbox' \in {mailbox, Append(mailbox, Stop)}
    BY <1>8 DEF Drop, Still, worker
  <2>2. \A k \in DOMAIN mailbox' : mailbox'[k] = Stop \/ (k \in DOMAIN mailbox /\ mailbox'[k] = mailbox[k])
    BY <1>2, <2>1
  <2>3. Stop.kind # "Seek"  BY DEF Stop
  <2>4. Unsought'  BY <1>2, <2>1, <2>2, <2>3 DEF Unsought
  <2> QED  BY <1>2, <2>1, <2>4, StillFlows
<1>9. ASSUME NEW s \in Targets, Seek(s)  PROVE FALSE
  BY <1>9 DEF Seek
<1>10. CASE UNCHANGED vars
  <2>1. Still /\ Unsought'  BY <1>2, <1>10 DEF vars, worker, source, Still, Unsought
  <2> QED  BY <1>2, <2>1, StillFlows
<1> QED  BY <1>3, <1>4, <1>5, <1>6, <1>7, <1>8, <1>9, <1>10 DEF Next, Worker

LEMMA FlowStart == Init => Flows
<1> USE SizesAssumption
<1> SUFFICES ASSUME Init PROVE Flows  OBVIOUS
<1>1. /\ mailbox = <<Read>> /\ at = "recv" /\ input = 0 /\ packet = <<>>
      /\ samples_written = 0 /\ ring = <<>> /\ position = 0 /\ total_samples = Unknown
      /\ counting = <<>> /\ end_of_track = FALSE
  BY DEF Init
<1>2. Unsought
  <2>1. Read.kind # "Seek"  BY DEF Read
  <2> QED  BY <1>1, <2>1 DEF Unsought
<1>3. Numbers
  <2>1. ring \in Seq(Track) /\ packet \in Seq(Track) /\ Len(ring) = 0  BY <1>1
  <2>2. counting \in Seq(Nat) /\ Len(counting) = 0  BY <1>1
  <2>3. input \in 0..Samples /\ samples_written \in Nat /\ position \in Nat
    BY <1>1
  <2>4. total_samples \in Nat \cup {Unknown}  BY <1>1, Zenon
  <2>5. end_of_track \in BOOLEAN  BY <1>1, Zenon
  <2>6. Len(ring) <= RingSize /\ Len(counting) <= 1  BY <2>1, <2>2
  <2> QED  BY <2>1, <2>2, <2>3, <2>4, <2>5, <2>6 DEF Numbers
<1>4. Accounted  BY <1>1 DEF Accounted, Counted
<1>5. AtBoundary  BY <1>1 DEF AtBoundary
<1>6. ring \o packet = <<>>  BY <1>1
<1>7. Queued(ring \o packet, input)  BY <1>6 DEF Queued, WholePackets
<1> QED  BY <1>1, <1>2, <1>3, <1>4, <1>5, <1>7 DEF Flows

\* Without seeks every sample the decoder gave is played, once and in order, in
\* spite of the ring buffer it does not fit into, of packets that do not decode and
\* of the callback's own pace, and the end of the track is announced when the last
\* of them has been played (on_read, flush of worker.rs, DecoderSource::write).
THEOREM NothingIsLost == Spec => []NothingLost
<1>1. Inv /\ (seeks = 0 => Flows) /\ [Next]_vars => (seeks = 0 => Flows)'
  BY FlowStep
<1>2. (seeks = 0 => Flows) => NothingLost
  <2> SUFFICES ASSUME Flows, seeks = 0 PROVE NothingLost  BY DEF NothingLost
  <2>1. CASE end_of_track  BY <2>1 DEF Flows, AllDecoded, NothingLost
  <2>2. CASE ~end_of_track
    <3> SUFFICES ASSUME IsIdle
                 PROVE  position + Len(ring) = samples_written /\ WholePackets(ring \o packet)
      BY <2>2 DEF NothingLost
    <3>1. Counted = 0  BY DEF IsIdle, Counted
    <3>2. position + Counted + Len(ring) = samples_written /\ position \in Nat
          /\ ring \in Seq(Track)
      BY DEF Flows, Numbers, Accounted
    <3> QED  BY <3>1, <3>2 DEF Flows, Queued
  <2> QED  BY <2>1, <2>2
<1>3. Init => (seeks = 0 => Flows)  BY FlowStart
<1> QED  BY <1>1, <1>2, <1>3, Invariance, PTL DEF Spec
-----------------------------------------------------------------------------
(***************************************************************************)
(* KeyOpensFile, of ItemLoad: for any loads, tracks with any files, rules  *)
(* and alternatives, and any number of restarts.  Each key on the disk is  *)
(* torn or that of the file in its name, and a load that has a key has the *)
(* key of its file.                                                        *)
(***************************************************************************)
Searching == {"track", "save track", "write track", "country", "save country",
              "write country", "path"}
Keyed == {"save key", "write key", "open", "resolve", "fetch", "loaded"}

LoadShape(me) ==
  me = [at |-> me.at, rate |-> me.rate, asked |-> me.asked, item |-> me.item,
        country |-> me.country, file |-> me.file, key |-> me.key, attempts |-> me.attempts,
        resolved |-> me.resolved, expires |-> me.expires]

GoodLoad(me) ==
  /\ LoadShape(me)
  /\ me.at \in Searching \cup {"key"} \cup Keyed => me.asked \in Items /\ me.item \in Items
  /\ me.at \in {"key"} \cup Keyed => me.file \in L!Files
  /\ me.at \in Keyed => me.key = L!KeyOf(me.file)

DiskShape ==
  disk = [track |-> disk.track, country |-> disk.country, key |-> disk.key,
          audio |-> disk.audio]
KeysOnDisk ==
  /\ DOMAIN disk.key = Items \X L!Files
  /\ \A item \in Items, file \in L!Files :
       disk.key[<<item, file>>] \in {L!NoKey, L!KeyOf(file)}

KeysMatchFiles ==
  /\ DOMAIN loader = Loaders /\ \A l \in Loaders : GoodLoad(loader[l])
  /\ DiskShape /\ KeysOnDisk

LEMMA EndedLoad ==
  ASSUME NEW place, place \notin Searching \cup {"key"} \cup Keyed
  PROVE  GoodLoad([L!Idle EXCEPT !.at = place])
  BY DEF GoodLoad, LoadShape, L!Idle

LEMMA IdleLoad == GoodLoad(L!Idle)
  BY DEF GoodLoad, LoadShape, L!Idle, Searching, Keyed

\* A load that goes on to a place where no more is asked of it.
LEMMA GoneLoad ==
  ASSUME NEW me, GoodLoad(me), NEW place,
         me.at \in Searching \cup {"key"} \cup Keyed,
         \/ place \in Searching
         \/ place \in Keyed /\ me.at \in Keyed
  PROVE  GoodLoad([me EXCEPT !.at = place])
  <1> DEFINE you == [me EXCEPT !.at = place]
  <1>1. /\ LoadShape(you) /\ you.at = place /\ you.asked = me.asked /\ you.item = me.item
        /\ you.file = me.file /\ you.key = me.key
    BY DEF GoodLoad, LoadShape
  <1>2. me.asked \in Items /\ me.item \in Items
    BY DEF GoodLoad
  <1>3. place \in Keyed => me.file \in L!Files /\ me.key = L!KeyOf(me.file)
    BY DEF GoodLoad, Searching, Keyed
  <1>4. place \in Searching \cup Keyed /\ place # "key"
    BY DEF Searching, Keyed
  <1> HIDE DEF you
  <1>5. you.asked \in Items /\ you.item \in Items
    BY <1>1, <1>2
  <1>6. you.at \in {"key"} \cup Keyed =>
          place \in Keyed /\ you.file \in L!Files /\ you.key = L!KeyOf(you.file)
    BY <1>1, <1>3, <1>4
  <1>7. you.at \in Keyed => you.at \in {"key"} \cup Keyed
    OBVIOUS
  <1>8. GoodLoad(you)
    BY <1>1, <1>5, <1>6, <1>7 DEF GoodLoad
  <1> QED
    BY <1>8 DEF you

\* One load goes on, and the keys on the disk stay.
LEMMA OneLoad ==
  ASSUME KeysMatchFiles, NEW l \in Loaders, NEW me, GoodLoad(me),
         loader' = [loader EXCEPT ![l] = me], DiskShape', KeysOnDisk'
  PROVE  KeysMatchFiles'
  BY DEF KeysMatchFiles

LEMMA EndsMatch ==
  ASSUME KeysMatchFiles, NEW l \in Loaders, NEW place,
         place \in {"failed", "panicked"}, L!Ends(l, place), DiskShape', KeysOnDisk'
  PROVE  KeysMatchFiles'
  <1>1. GoodLoad([L!Idle EXCEPT !.at = place])
    BY EndedLoad DEF Searching, Keyed
  <1> QED
    BY <1>1, OneLoad DEF L!Ends

LEMMA GoesMatch ==
  ASSUME KeysMatchFiles, NEW l \in Loaders, NEW place, L!Goes(l, place),
         loader[l].at \in Searching \cup {"key"} \cup Keyed,
         \/ place \in Searching
         \/ place \in Keyed /\ loader[l].at \in Keyed,
         DiskShape', KeysOnDisk'
  PROVE  KeysMatchFiles'
  <1>1. GoodLoad(loader[l])
    BY DEF KeysMatchFiles
  <1>2. GoodLoad([loader[l] EXCEPT !.at = place])
    BY <1>1, GoneLoad
  <1>3. loader' = [loader EXCEPT ![l] = [loader[l] EXCEPT !.at = place]]
    BY DEF L!Goes
  <1> QED
    BY <1>2, <1>3, OneLoad

LEMMA DiskStays ==
  ASSUME KeysMatchFiles, UNCHANGED disk
  PROVE  DiskShape' /\ KeysOnDisk'
  BY DEF KeysMatchFiles, DiskShape, KeysOnDisk

LEMMA TrackMatches ==
  ASSUME KeysMatchFiles, NEW l \in Loaders,
         L!GetTrack(l) \/ L!SaveTrack(l) \/ L!SaveCountry(l)
  PROVE  KeysMatchFiles'
  <1>1. DiskShape' /\ KeysOnDisk'
    <2>1. CASE UNCHANGED disk
      BY <2>1, DiskStays
    <2>2. CASE \E item, v : disk' = [disk EXCEPT !.track[item] = v]
      BY <2>2 DEF KeysMatchFiles, DiskShape, KeysOnDisk
    <2>3. CASE \E v : disk' = [disk EXCEPT !.country = v]
      BY <2>3 DEF KeysMatchFiles, DiskShape, KeysOnDisk
    <2> QED
      BY <2>1, <2>2, <2>3 DEF L!GetTrack, L!SaveTrack, L!SaveCountry
  <1>2. /\ loader[l].at \in Searching
        /\ \/ L!Ends(l, "failed")
           \/ \E place \in Searching : L!Goes(l, place)
    BY DEF L!GetTrack, L!SaveTrack, L!SaveCountry, Searching
  <1> QED
    BY <1>1, <1>2, EndsMatch, GoesMatch

LEMMA CountryMatches ==
  ASSUME KeysMatchFiles, NEW l \in Loaders, L!GetCountry(l)
  PROVE  KeysMatchFiles'
  <1>1. DiskShape' /\ KeysOnDisk'
    BY DiskStays DEF L!GetCountry
  <1>2. GoodLoad(loader[l]) /\ loader[l].at = "country"
    BY DEF KeysMatchFiles, L!GetCountry
  <1>3. ASSUME NEW place, place \in Searching, NEW country,
               loader' = [loader EXCEPT ![l].at = place, ![l].country = country]
        PROVE  KeysMatchFiles'
    <2> DEFINE me == [loader[l] EXCEPT !.at = place]
               you == [me EXCEPT !.country = country]
    <2>1. GoodLoad(me)
      BY <1>2, <1>3, GoneLoad DEF Searching
    <2>2. loader' = [loader EXCEPT ![l] = you]
      BY <1>3 DEF KeysMatchFiles
    <2> HIDE DEF me
    <2>3. GoodLoad(you)
      BY <2>1 DEF GoodLoad, LoadShape
    <2> HIDE DEF you
    <2> QED
      BY <1>1, <2>2, <2>3, OneLoad
  <1>4. CASE L!Goes(l, "path")
    BY <1>1, <1>2, <1>4, GoesMatch DEF Searching
  <1> QED
    BY <1>3, <1>4 DEF L!GetCountry, Searching

\* What is found for an item is a file of it; another version is an item.
LEMMA FoundThere ==
  ASSUME NEW item \in Items, NEW rate, NEW country
  PROVE  L!MediaPath(item, rate) \subseteq L!Files /\ L!Allowed(item, country) \subseteq Items
  <1>1. L!FirstOf(L!Preferred(rate), Metadata[item].files) \subseteq Metadata[item].files
    BY DEF L!FirstOf
  <1>2. L!MediaPath(item, rate) \subseteq L!Files
    BY <1>1 DEF L!MediaPath, L!Files
  <1>3. L!Allowed(item, country) \subseteq Items
    BY DEF L!Allowed, L!FirstOf
  <1> QED
    BY <1>2, <1>3

LEMMA PathMatches ==
  ASSUME KeysMatchFiles, NEW l \in Loaders, L!FindPath(l)
  PROVE  KeysMatchFiles'
  <1>1. DiskShape' /\ KeysOnDisk'
    BY DiskStays DEF L!FindPath
  <1>2. /\ GoodLoad(loader[l]) /\ loader[l].at = "path"
        /\ loader[l].item \in Items /\ loader[l].asked \in Items
    BY DEF KeysMatchFiles, GoodLoad, L!FindPath, Searching
  <1>3. ASSUME NEW file \in L!Files,
               loader' = [loader EXCEPT ![l].at = "key", ![l].file = file]
        PROVE  KeysMatchFiles'
    <2> DEFINE me == [loader[l] EXCEPT !.at = "key"]
               you == [me EXCEPT !.file = file]
    <2>1. /\ LoadShape(me) /\ me.at = "key"
          /\ me.asked = loader[l].asked /\ me.item = loader[l].item
      BY <1>2 DEF GoodLoad, LoadShape
    <2>2. loader' = [loader EXCEPT ![l] = you]
      BY <1>3 DEF KeysMatchFiles
    <2> HIDE DEF me
    <2>3. /\ LoadShape(you) /\ you.at = "key" /\ you.file = file
          /\ you.asked = loader[l].asked /\ you.item = loader[l].item
      BY <2>1 DEF LoadShape
    <2> HIDE DEF you
    <2>4. GoodLoad(you)
      BY <1>2, <2>3 DEF GoodLoad, Keyed
    <2> QED
      BY <1>1, <2>2, <2>4, OneLoad
  <1>4. ASSUME NEW other \in Items,
               loader' = [loader EXCEPT ![l].at = "track", ![l].item = other]
        PROVE  KeysMatchFiles'
    <2> DEFINE me == [loader[l] EXCEPT !.at = "track"]
               you == [me EXCEPT !.item = other]
    <2>1. LoadShape(me) /\ me.at = "track" /\ me.asked = loader[l].asked
      BY <1>2 DEF GoodLoad, LoadShape
    <2>2. loader' = [loader EXCEPT ![l] = you]
      BY <1>4 DEF KeysMatchFiles
    <2> HIDE DEF me
    <2>3. /\ LoadShape(you) /\ you.at = "track"
          /\ you.asked = loader[l].asked /\ you.item = other
      BY <2>1 DEF LoadShape
    <2> HIDE DEF you
    <2>4. GoodLoad(you)
      BY <1>2, <2>3 DEF GoodLoad, Keyed
    <2> QED
      BY <1>1, <2>2, <2>4, OneLoad
  <1>5. CASE L!Ends(l, "failed")
    BY <1>1, <1>5, EndsMatch
  <1>6. /\ L!MediaPath(loader[l].item, loader[l].rate) \subseteq L!Files
        /\ L!Allowed(loader[l].item, loader[l].country) \subseteq Items
    BY <1>2, FoundThere
  <1> QED
    BY <1>3, <1>4, <1>5, <1>6 DEF L!FindPath

\* A key that is found on the disk whole is that of the file in its name.
LEMMA KeyMatches ==
  ASSUME KeysMatchFiles, NEW l \in Loaders, L!GetKey(l)
  PROVE  KeysMatchFiles'
  <1>1. DiskShape' /\ KeysOnDisk'
    BY DiskStays DEF L!GetKey
  <1>2. /\ GoodLoad(loader[l]) /\ loader[l].at = "key" /\ loader[l].file \in L!Files
        /\ loader[l].item \in Items /\ loader[l].asked \in Items
    BY DEF KeysMatchFiles, GoodLoad, L!GetKey
  <1>3. ASSUME NEW place, place \in Keyed,
               loader' = [loader EXCEPT ![l].at = place, ![l].key = L!KeyOf(loader[l].file)]
        PROVE  KeysMatchFiles'
    <2> DEFINE me == [loader[l] EXCEPT !.at = place]
               you == [me EXCEPT !.key = L!KeyOf(loader[l].file)]
    <2>1. /\ LoadShape(me) /\ me.at = place /\ me.file = loader[l].file
          /\ me.asked = loader[l].asked /\ me.item = loader[l].item
      BY <1>2 DEF GoodLoad, LoadShape
    <2>2. loader' = [loader EXCEPT ![l] = you]
      BY <1>3 DEF KeysMatchFiles
    <2> HIDE DEF me
    <2>3. GoodLoad(you)
      BY <1>2, <1>3, <2>1 DEF GoodLoad, LoadShape
    <2> HIDE DEF you
    <2> QED
      BY <1>1, <2>2, <2>3, OneLoad
  <1>4. CASE L!Ends(l, "failed")
    BY <1>1, <1>4, EndsMatch
  <1>5. LET copy == disk.key[L!KeyPath(loader[l].asked, loader[l].file)]
        IN copy.whole => copy = L!KeyOf(loader[l].file)
    BY <1>2 DEF KeysMatchFiles, KeysOnDisk, L!KeyPath, L!NoKey
  <1> QED
    BY <1>3, <1>4, <1>5 DEF L!GetKey, Keyed

LEMMA SaveKeyMatches ==
  ASSUME KeysMatchFiles, NEW l \in Loaders, L!SaveKey(l)
  PROVE  KeysMatchFiles'
  <1>1. /\ GoodLoad(loader[l]) /\ loader[l].at \in Keyed /\ loader[l].file \in L!Files
        /\ loader[l].asked \in Items /\ loader[l].key = L!KeyOf(loader[l].file)
    BY DEF KeysMatchFiles, GoodLoad, L!SaveKey, Keyed
  <1>2. ASSUME NEW key, key \in {L!NoKey, loader[l].key},
               disk' = [disk EXCEPT !.key[L!KeyPath(loader[l].asked, loader[l].file)] = key]
        PROVE  DiskShape' /\ KeysOnDisk'
    <2> DEFINE name == <<loader[l].asked, loader[l].file>>
    <2>1. disk'.key = [disk.key EXCEPT ![name] = key] /\ DiskShape'
      BY <1>2 DEF KeysMatchFiles, DiskShape, L!KeyPath
    <2>2. ASSUME NEW item \in Items, NEW file \in L!Files
          PROVE  disk'.key[<<item, file>>] \in {L!NoKey, L!KeyOf(file)}
      BY <1>1, <1>2, <2>1 DEF KeysMatchFiles, KeysOnDisk
    <2> QED
      BY <2>1, <2>2 DEF KeysMatchFiles, KeysOnDisk
  <1>3. DiskShape' /\ KeysOnDisk'
    BY <1>2, DiskStays DEF L!SaveKey
  <1>4. \E place \in Keyed : L!Goes(l, place)
    BY DEF L!SaveKey, Keyed
  <1> QED
    BY <1>1, <1>3, <1>4, GoesMatch

LEMMA FileMatches ==
  ASSUME KeysMatchFiles, NEW l \in Loaders,
         L!OpenFile(l) \/ L!Resolve(l) \/ L!FetchStart(l) \/ L!FetchMore(l)
  PROVE  KeysMatchFiles'
  <1>1. GoodLoad(loader[l]) /\ loader[l].at \in Keyed
    BY DEF KeysMatchFiles, L!OpenFile, L!Resolve, L!FetchStart, L!FetchMore, Keyed
  <1>2. DiskShape' /\ KeysOnDisk'
    <2>1. CASE UNCHANGED disk
      BY <2>1, DiskStays
    <2>2. CASE \E v : disk' = [disk EXCEPT !.audio = v]
      BY <2>2 DEF KeysMatchFiles, DiskShape, KeysOnDisk
    <2> QED
      BY <2>1, <2>2 DEF L!OpenFile, L!Resolve, L!FetchStart, L!FetchMore
  <1>3. ASSUME NEW me, GoodLoad(me), me.at \in Keyed, NEW v
        PROVE  /\ GoodLoad([me EXCEPT !.attempts = v]) /\ GoodLoad([me EXCEPT !.resolved = v])
               /\ GoodLoad([me EXCEPT !.expires = v])
               /\ [me EXCEPT !.resolved = v].at = me.at
    BY <1>3 DEF GoodLoad, LoadShape
  <1>4. ASSUME NEW place, place \in Keyed
        PROVE  LET me == [loader[l] EXCEPT !.at = place] IN GoodLoad(me) /\ me.at = place
    BY <1>1, <1>4, GoneLoad DEF GoodLoad, LoadShape
  <1>5. ASSUME NEW resolved, NEW expires, NEW place, place \in Keyed
        PROVE  GoodLoad([loader[l] EXCEPT !.at = place, !.resolved = resolved,
                                          !.expires = expires])
    <2> DEFINE me == [loader[l] EXCEPT !.at = place]
               you == [me EXCEPT !.resolved = resolved]
    <2>1. GoodLoad(me) /\ me.at \in Keyed
      BY <1>4, <1>5
    <2> HIDE DEF me
    <2>2. GoodLoad(you) /\ you.at \in Keyed
      BY <1>3, <2>1
    <2> HIDE DEF you
    <2>3. GoodLoad([you EXCEPT !.expires = expires])
      BY <1>3, <2>2
    <2> QED
      BY <2>3, Zenon DEF you, me
  <1>6. ASSUME NEW me, GoodLoad(me), loader' = [loader EXCEPT ![l] = me] PROVE KeysMatchFiles'
    BY <1>2, <1>6, OneLoad
  <1>7. ASSUME NEW attempts, NEW place, place \in Keyed,
               loader' = [loader EXCEPT ![l].at = place, ![l].attempts = attempts]
        PROVE  KeysMatchFiles'
    <2> DEFINE me == [loader[l] EXCEPT !.at = place]
    <2>1. GoodLoad(me) /\ me.at \in Keyed
      BY <1>4, <1>7
    <2>2. loader' = [loader EXCEPT ![l] = [me EXCEPT !.attempts = attempts]]
      BY <1>7 DEF KeysMatchFiles
    <2> HIDE DEF me
    <2> QED
      BY <1>3, <1>6, <2>1, <2>2
  <1>8. ASSUME NEW resolved, NEW expires,
               \/ \E place \in Keyed :
                    loader' = [loader EXCEPT ![l].at = place, ![l].resolved = resolved,
                                             ![l].expires = expires]
               \/ loader' = [loader EXCEPT ![l].resolved = resolved, ![l].expires = expires]
        PROVE  KeysMatchFiles'
    <2>1. CASE loader' = [loader EXCEPT ![l].resolved = resolved, ![l].expires = expires]
      <3> DEFINE you == [loader[l] EXCEPT !.resolved = resolved]
      <3>1. GoodLoad(you) /\ you.at \in Keyed
        BY <1>1, <1>3
      <3>2. loader' = [loader EXCEPT ![l] = [you EXCEPT !.expires = expires]]
        BY <2>1 DEF KeysMatchFiles
      <3> HIDE DEF you
      <3> QED
        BY <1>3, <1>6, <3>1, <3>2
    <2>2. ASSUME NEW place, place \in Keyed,
                 loader' = [loader EXCEPT ![l].at = place, ![l].resolved = resolved,
                                          ![l].expires = expires]
          PROVE  KeysMatchFiles'
      <3> DEFINE me == [loader[l] EXCEPT !.at = place, !.resolved = resolved,
                                         !.expires = expires]
      <3>1. GoodLoad(me)
        BY <1>5, <2>2
      <3>2. loader' = [loader EXCEPT ![l] = me]
        BY <2>2 DEF KeysMatchFiles
      <3> HIDE DEF me
      <3> QED
        BY <1>6, <3>1, <3>2
    <2> QED
      BY <1>8, <2>1, <2>2
  <1>9. CASE L!OpenFile(l)
    BY <1>1, <1>2, <1>7, <1>9, EndsMatch, GoesMatch DEF L!OpenFile, Keyed
  <1>10. CASE L!Resolve(l)
    <2>1. ASSUME loader' = [loader EXCEPT ![l].attempts = loader[l].attempts + 1]
          PROVE  KeysMatchFiles'
      <3>1. loader' = [loader EXCEPT ![l] =
                         [loader[l] EXCEPT !.attempts = loader[l].attempts + 1]]
        BY <2>1
      <3> QED
        BY <1>1, <1>3, <1>6, <3>1
    <2> QED
      BY <1>2, <1>8, <1>10, <2>1, EndsMatch DEF L!Resolve, Keyed
  <1>11. CASE L!FetchStart(l)
    BY <1>1, <1>2, <1>11, EndsMatch, GoesMatch DEF L!FetchStart, Keyed
  <1>12. CASE L!FetchMore(l)
    <2>1. CASE UNCHANGED loader
      BY <1>2, <2>1 DEF KeysMatchFiles
    <2> QED
      BY <1>8, <1>12, <2>1 DEF L!FetchMore
  <1> QED
    BY <1>9, <1>10, <1>11, <1>12

LEMMA LoadsInit == L!Init => KeysMatchFiles
  BY IdleLoad DEF L!Init, KeysMatchFiles, DiskShape, KeysOnDisk

LEMMA LoadsStep ==
  ASSUME KeysMatchFiles, [L!Next]_loadVars
  PROVE  KeysMatchFiles'
  <1>1. CASE UNCHANGED <<loader, disk>>
    BY <1>1 DEF KeysMatchFiles, DiskShape, KeysOnDisk
  <1>2. ASSUME NEW l \in Loaders, L!Load(l) PROVE KeysMatchFiles'
    <2>1. PICK item \in Items, rate \in Bitrates :
            loader' = [loader EXCEPT ![l] = [L!Idle EXCEPT !.at = "track", !.rate = rate,
                                                           !.asked = item, !.item = item]]
      BY <1>2 DEF L!Load
    <2> DEFINE me == [L!Idle EXCEPT !.at = "track", !.rate = rate,
                                    !.asked = item, !.item = item]
    <2> HIDE DEF me
    <2>2. LoadShape(me) /\ me.at = "track" /\ me.asked = item /\ me.item = item
      <3> DEFINE first == [L!Idle EXCEPT !.at = "track"]
                 second == [first EXCEPT !.rate = rate]
                 third == [second EXCEPT !.asked = item]
      <3>1. LoadShape(first) /\ first.at = "track"
        BY DEF L!Idle, LoadShape
      <3> HIDE DEF first
      <3>2. LoadShape(second) /\ second.at = "track"
        BY <3>1 DEF LoadShape
      <3> HIDE DEF second
      <3>3. LoadShape(third) /\ third.at = "track" /\ third.asked = item
        BY <3>2 DEF LoadShape
      <3> HIDE DEF third
      <3>4. me = [third EXCEPT !.item = item]
        BY Zenon DEF me, third, second, first
      <3> QED
        BY <3>3, <3>4 DEF LoadShape
    <2>3. GoodLoad(me)
      BY <2>2 DEF GoodLoad, Keyed
    <2>4. DiskShape' /\ KeysOnDisk'
      BY <1>2, DiskStays DEF L!Load
    <2> QED
      BY <2>1, <2>3, <2>4, OneLoad DEF me
  <1>3. ASSUME NEW l \in Loaders, L!LoadStep(l) \/ L!FetchMore(l) PROVE KeysMatchFiles'
    BY <1>3, TrackMatches, CountryMatches, PathMatches, KeyMatches, SaveKeyMatches,
       FileMatches DEF L!LoadStep
  <1>4. CASE L!Restart
    <2>1. DiskShape' /\ KeysOnDisk' /\ loader' = [l \in Loaders |-> L!Idle]
      BY <1>4, DiskStays DEF L!Restart
    <2> QED
      BY <2>1, IdleLoad DEF KeysMatchFiles
  <1> QED
    BY <1>1, <1>2, <1>3, <1>4 DEF L!Next, L!Tick, loadVars

\* Through alternatives that go by another track's id, changes of the audio quality,
\* several loads at once and restarts amid a write, what is loaded is decrypted with
\* the key of its own file.
THEOREM KeysOpenFiles == L!Spec => []KeyOpensFile
  <1>1. KeysMatchFiles => KeyOpensFile
    BY DEF KeysMatchFiles, GoodLoad, Keyed, KeyOpensFile, L!KeyOpensFile
  <1>2. KeysMatchFiles /\ [L!Next]_(L!vars) => KeysMatchFiles'
    BY LoadsStep DEF L!vars, loadVars
  <1> QED
    BY <1>1, <1>2, LoadsInit, PTL DEF L!Spec
=============================================================================
