---------------------------- MODULE DecodeWorker ----------------------------
(***************************************************************************)
(* One playing track: the decoding worker (Worker of player/worker.rs, run *)
(* by the actor loop of actor.rs), the DecoderSource that the audio        *)
(* callback reads from, and the player's seeks.  They share the worker's   *)
(* bounded mailbox, the ring buffer of decoded samples and two atomics.    *)
(*                                                                         *)
(* The worker keeps decoding by sending itself Read messages.  A handler   *)
(* is one step up to each point where another thread can see the           *)
(* difference: a send to the (full) mailbox, the store of the position,    *)
(* the clearing of the ring buffer.  Samples are numbered from 0 and       *)
(* decoded in packets of PacketSize.                                       *)
(***************************************************************************)
EXTENDS Naturals, Sequences

CONSTANTS
  Samples,      \* number of samples in the track
  PacketSize,   \* samples in a packet
  RingSize,     \* DEFAULT_BUFFER_SIZE
  Chunk,        \* samples the audio callback asks for
  MailboxSize,  \* capacity of the actor's channel
  MaxSeeks,     \* bound: seeks of the user in this track
  SeeksFail,    \* may the decoder fail to seek?
  PacketsFail,  \* may the decoder skip a packet it cannot decode?
  Unknown       \* u64::MAX, the total before the decoder has met the end

ASSUME SizesAssumption ==
  /\ Samples \in Nat \ {0} /\ PacketSize \in Nat \ {0}
  /\ RingSize \in Nat \ {0} /\ Chunk \in Nat \ {0}
  /\ MailboxSize \in Nat \ {0} /\ MaxSeeks \in Nat
ASSUME FailuresAssumption == SeeksFail \in BOOLEAN /\ PacketsFail \in BOOLEAN
ASSUME UnknownAssumption == Unknown \notin Nat

VARIABLES
  mailbox,        \* messages to the worker
  at,             \* where the worker is: see Places
  target,         \* the sample a seek under way goes to
  input,          \* the decoder: number of the next sample to decode
  packet,         \* the samples of samples_to_write
  samples_written,
  is_reading,
  ring,           \* the ring buffer, oldest sample first
  position,       \* shared atomic: number of the play head
  total_samples,  \* shared atomic
  counting,       \* samples the callback has read and not counted yet
  end_of_track,
  dropped,        \* the sink has dropped the DecoderSource
  seeks           \* seeks sent so far

worker == <<at, target, input, packet, samples_written, is_reading>>
source == <<counting, end_of_track, dropped>>
vars == <<mailbox, worker, ring, position, total_samples, source, seeks>>

Read == [kind |-> "Read", to |-> 0]
Stop == [kind |-> "Stop", to |-> 0]
SeekTo(s) == [kind |-> "Seek", to |-> s]

\* "recv" and "wait": blocked in recv() and in recv_timeout(); "send": about to
\* send itself Read at the end of on_read(); "kick": about to do so in
\* on_seek(); "store", "clear": about to store the position, and to clear the
\* ring buffer.
Places == {"recv", "wait", "send", "kick", "store", "clear", "stopped"}

\* No callback is reporting, no seek is under way.
IsIdle == counting = <<>> /\ at \notin {"kick", "store", "clear"}

TypeOK ==
  /\ mailbox \in Seq([kind : {"Read", "Stop", "Seek"}, to : 0..Samples])
  /\ Len(mailbox) <= MailboxSize
  /\ at \in Places /\ target \in 0..Samples
  /\ input \in 0..Samples /\ packet \in Seq(0..(Samples - 1))
  /\ samples_written \in Nat /\ is_reading \in BOOLEAN
  /\ ring \in Seq(0..(Samples - 1)) /\ Len(ring) <= RingSize
  /\ position \in Nat /\ total_samples \in Nat \cup {Unknown}
  /\ counting \in Seq(Nat) /\ Len(counting) <= 1
  /\ end_of_track \in BOOLEAN /\ dropped \in BOOLEAN
  /\ seeks \in 0..MaxSeeks

\* DecoderSource::new() spawns the worker and kick-starts it.
Init ==
  /\ mailbox = <<Read>> /\ at = "recv" /\ target = 0
  /\ input = 0 /\ packet = <<>> /\ samples_written = 0 /\ is_reading = FALSE
  /\ ring = <<>> /\ position = 0 /\ total_samples = Unknown
  /\ counting = <<>> /\ end_of_track = FALSE /\ dropped = FALSE
  /\ seeks = 0

Smaller(a, b) == IF a <= b THEN a ELSE b
Numbered(from, n) == [k \in 1..n |-> from + k - 1]
-----------------------------------------------------------------------------
(***************************************************************************)
(* The worker.                                                             *)
(***************************************************************************)
\* Mutant of Flush: what did not fit is forgotten.
FlushOnce ==
  /\ packet # <<>>
  /\ LET n == Smaller(Len(packet), RingSize - Len(ring))
     IN ring' = ring \o SubSeq(packet, 1, n) /\ samples_written' = samples_written + n
  /\ packet' = <<>>
  /\ is_reading' = TRUE /\ at' = "send"
  /\ UNCHANGED <<input, total_samples>>

\* on_read() with samples to flush: write what fits into the ring buffer, or
\* wait for room.
Flush ==
  /\ packet # <<>>
  /\ LET n == Smaller(Len(packet), RingSize - Len(ring))
     IN \/ /\ n > 0
           /\ ring' = ring \o SubSeq(packet, 1, n)
           /\ packet' = SubSeq(packet, n + 1, Len(packet))
           /\ samples_written' = samples_written + n
           /\ is_reading' = TRUE /\ at' = "send"
        \/ /\ n = 0
           /\ is_reading' = FALSE /\ at' = "wait"
           /\ UNCHANGED <<ring, packet, samples_written>>
  /\ UNCHANGED <<input, total_samples>>

\* on_read() with nothing to flush: the next packet that decodes, or the end.
PacketStarts ==
  {input} \cup {s \in input..Samples :
               PacketsFail /\ (s = Samples \/ (s - input) % PacketSize = 0)}

Decode ==
  /\ packet = <<>>
  /\ \E from \in PacketStarts :
       \/ /\ from < Samples
          /\ packet' = Numbered(from, Smaller(PacketSize, Samples - from))
          /\ input' = from + Len(packet')
          /\ is_reading' = TRUE /\ at' = "send"
          /\ UNCHANGED total_samples
       \/ /\ from = Samples
          /\ input' = Samples
          /\ is_reading' = FALSE /\ at' = "recv"
          /\ total_samples' = samples_written
          /\ UNCHANGED packet
  /\ UNCHANGED <<ring, samples_written>>

OnRead == (Flush \/ Decode) /\ UNCHANGED <<target, position>>

\* on_seek(): a decoder that cannot seek changes nothing; one that can makes the
\* worker drop the rest of the packet if it is reading, and else kick-start.
OnSeek(s) ==
  /\ \/ /\ SeeksFail
        /\ at' = "recv"
        /\ UNCHANGED <<input, target, packet>>
     \/ /\ input' = s /\ target' = s
        /\ packet' = IF is_reading THEN <<>> ELSE packet
        /\ at' = IF is_reading THEN "store" ELSE "kick"
  /\ UNCHANGED <<ring, position, total_samples, samples_written, is_reading>>

\* Mutant of OnStop: the actor loop goes on.
OnStopContinue ==
  /\ at' = "recv"
  /\ UNCHANGED <<target, input, packet, samples_written, is_reading, ring,
                 position, total_samples>>

OnStop ==
  /\ at' = "stopped"
  /\ UNCHANGED <<target, input, packet, samples_written, is_reading, ring,
                 position, total_samples>>

\* The actor loop takes the next message, or the timeout message if it waits.
Receive ==
  /\ at \in {"recv", "wait"} /\ mailbox # <<>>
  /\ mailbox' = Tail(mailbox)
  /\ LET m == Head(mailbox)
     IN \/ m.kind = "Read" /\ OnRead
        \/ m.kind = "Seek" /\ OnSeek(m.to)
        \/ m.kind = "Stop" /\ OnStop
  /\ UNCHANGED <<source, seeks>>

\* Mutant of Timeout: the timeout message is handled and sent as well.
TimeoutAndRead ==
  /\ at = "wait" /\ Len(mailbox) < MailboxSize
  /\ OnRead
  /\ mailbox' = Append(mailbox, Read)
  /\ UNCHANGED <<source, seeks>>

Timeout ==
  /\ at = "wait" /\ mailbox = <<>>
  /\ OnRead
  /\ UNCHANGED <<mailbox, source, seeks>>

\* this.send(Msg::Read) blocks while the mailbox is full.
SendToItself ==
  /\ at \in {"send", "kick"} /\ Len(mailbox) < MailboxSize
  /\ mailbox' = Append(mailbox, Read)
  /\ at' = IF at = "send" THEN "recv" ELSE "store"
  /\ UNCHANGED <<target, input, packet, samples_written, is_reading, ring,
                 position, total_samples, source, seeks>>

StorePosition ==
  /\ at = "store" /\ at' = "clear"
  /\ samples_written' = target /\ position' = target
  /\ UNCHANGED <<mailbox, target, input, packet, is_reading, ring,
                 total_samples, source, seeks>>

ClearRing ==
  /\ at = "clear" /\ at' = "recv"
  /\ ring' = <<>>
  /\ UNCHANGED <<mailbox, target, input, packet, samples_written, is_reading,
                 position, total_samples, source, seeks>>

Worker == Receive \/ Timeout \/ SendToItself \/ StorePosition \/ ClearRing
-----------------------------------------------------------------------------
(***************************************************************************)
(* The audio callback: DecoderSource::write() and its drop.                *)
(***************************************************************************)
ReadSamples ==
  /\ ~dropped /\ ~end_of_track /\ counting = <<>>
  /\ LET n == Smaller(Chunk, Len(ring))
     IN counting' = <<n>> /\ ring' = SubSeq(ring, n + 1, Len(ring))
  /\ UNCHANGED <<mailbox, worker, position, total_samples, end_of_track,
                 dropped, seeks>>

\* Mutant of CountSamples: the last sample does not count as the end.
CountPastTheEnd ==
  /\ ~dropped /\ counting # <<>>
  /\ position' = position + counting[1]
  /\ counting' = <<>>
  /\ end_of_track' = (total_samples # Unknown /\ position' > total_samples)
  /\ UNCHANGED <<mailbox, worker, ring, total_samples, dropped, seeks>>

CountSamples ==
  /\ ~dropped /\ counting # <<>>
  /\ position' = position + counting[1]
  /\ counting' = <<>>
  /\ end_of_track' = (total_samples # Unknown /\ position' >= total_samples)
  /\ UNCHANGED <<mailbox, worker, ring, total_samples, dropped, seeks>>

\* The callback replaces the source between two reads; the drop blocks the
\* audio thread while the mailbox is full.
Drop ==
  /\ ~dropped /\ counting = <<>>
  /\ Len(mailbox) < MailboxSize
  /\ dropped' = TRUE
  /\ mailbox' = IF at = "stopped" THEN mailbox ELSE Append(mailbox, Stop)
  /\ UNCHANGED <<worker, ring, position, total_samples, counting,
                 end_of_track, seeks>>

\* PlaybackManager::seek(): blocks the player while the mailbox is full, and does
\* nothing once the worker is gone.
Targets == {s \in 0..(Samples - 1) : s % PacketSize = 0}

Seek(s) ==
  /\ seeks < MaxSeeks /\ Len(mailbox) < MailboxSize
  /\ seeks' = seeks + 1
  /\ mailbox' = IF at = "stopped" THEN mailbox ELSE Append(mailbox, SeekTo(s))
  /\ UNCHANGED <<worker, ring, position, total_samples, source>>

Callback == ReadSamples \/ CountSamples

Next == Worker \/ Callback \/ Drop \/ \E s \in Targets : Seek(s)

Spec == Init /\ [][Next]_vars

\* The worker thread and the audio device keep running.
FairSpec == Spec /\ WF_vars(Worker) /\ WF_vars(Callback)
-----------------------------------------------------------------------------
\* The decode loop goes on by itself: a worker that waits for a message has its
\* own Read in the mailbox, unless it has decoded everything.
DecodeGoesOn ==
  at = "recv" =>
    \/ \E k \in DOMAIN mailbox : mailbox[k].kind \in {"Read", "Stop"}
    \/ input = Samples /\ packet = <<>>

\* The worker never blocks on its own mailbox, which nobody else drains: there is
\* room as long as the mailbox has two places more than there are seeks.
SelfSendsNeverBlock == at \in {"send", "kick"} => Len(mailbox) < MailboxSize

\* Without seeks: nothing the decoder gave, whatever packets it skipped, is lost
\* or reordered on its way through the packet, the partial writes and the ring
\* buffer, and the play head is just behind it: what waits to be played are whole
\* packets, the first of them perhaps begun.  The end of the track is announced
\* only when all of it has been played.
EndsPacket(n) == (n + 1) % PacketSize = 0 \/ n + 1 = Samples

WholePackets(s) ==
  \A k \in DOMAIN s :
    IF k = Len(s) THEN EndsPacket(s[k])
    ELSE \/ s[k + 1] = s[k] + 1
         \/ EndsPacket(s[k]) /\ s[k + 1] > s[k] /\ s[k + 1] % PacketSize = 0

NothingLost ==
  seeks = 0 =>
    IF end_of_track THEN ring = <<>> /\ packet = <<>> /\ input = Samples
    ELSE IsIdle => /\ position + Len(ring) = samples_written
                   /\ WholePackets(ring \o packet)

\* The track ends, unless its source is dropped first; and the thread of a dropped
\* source stops.
TrackEnds == <>(end_of_track \/ dropped)
DroppedWorkerStops == dropped ~> (at = "stopped")
-----------------------------------------------------------------------------
\* worker.rs:196-198: the shared counter is "the current play-head position": it
\* is the number of the sample that is played next.
PositionIsPlayHead == (IsIdle /\ ring # <<>>) => position = Head(ring)
=============================================================================
