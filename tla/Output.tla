------------------------------- MODULE Output -------------------------------
(***************************************************************************)
(* The audio output of the native engine (audio/output/cpal.rs and cubeb   *)
(* .rs) and the sources it asks for sound (audio/source.rs, resample.rs).  *)
(* The player calls the sink, which sends messages to two places: to the   *)
(* actor that starts and stops the device's stream, and, through a channel *)
(* of Cap messages that blocks when it is full, to the callback the device *)
(* runs while the stream runs. Only a running stream empties that channel. *)
(*                                                                         *)
(* Sound is counted in frames. The frames of a track are numbered from 1;  *)
(* 0 is silence. What the sample format and the number of channels do to   *)
(* the samples of a frame is left out.                                     *)
(***************************************************************************)
EXTENDS Naturals, Sequences

CONSTANTS
  Outputs,      \* the implementations of AudioOutput: "cpal", "cubeb"
  Chains,       \* what a source is wrapped in: see Write
  Cap,          \* capacity of the callback's channel
  Period,       \* frames the device asks for
  Block,        \* BUFFER_SIZE of ResampledSource; Period is at most twice that
  Frames,       \* of a track
  Volumes,      \* what the user sets
  MaxCommands,  \* bound: calls of the player
  MaxFailures   \* bound: failures of the device to stop its stream

OutputAssumption ==
  /\ Outputs \subseteq {"cpal", "cubeb"} /\ Chains \subseteq {"direct", "mono", "stereo", "resampled"}
  /\ {Cap, Period, Block} \subseteq Nat \ {0} /\ Period <= 2 * Block /\ Frames \in Nat
  /\ {MaxCommands, MaxFailures} \subseteq Nat

VARIABLES
  output,         \* which implementation, chosen once
  chain,          \* how the device's format wraps a source, chosen once
  sending,        \* the messages of the call under way, still to be sent
  callback_recv,  \* the callback's channel
  stream_recv,    \* the actor's
  stream,         \* is the device's stream running?
  callback,       \* StreamCallback
  buffer,         \* what the device was last given
  heard,          \* the last frame heard of the source
  in_order,       \* no frame was heard out of its turn
  asked,          \* what the player has asked for
  commands, failures
vars == <<output, chain, sending, callback_recv, stream_recv, stream, callback, buffer, heard,
          in_order, asked, commands, failures>>
device == <<stream, callback, buffer, heard, in_order>>

\* A source: its number, the last frame decoded, and a resampler's two buffers.
Source(n) == [track |-> n, decoded |-> 0, inp |-> <<>>, out |-> <<>>]
Empty == [Source(0) EXCEPT !.decoded = Frames]
Silence(n) == [i \in 1..n |-> 0]

Init ==
  /\ output \in Outputs /\ chain \in Chains
  /\ sending = <<>> /\ callback_recv = <<>> /\ stream_recv = <<>>
  /\ stream = TRUE   \* a stream runs as it is opened, on some hosts
  /\ callback = [playing |-> FALSE, source |-> Empty, volume |-> 1]
  /\ buffer = Silence(Period) /\ heard = 0 /\ in_order = TRUE
  /\ asked = [on |-> FALSE, track |-> 0, volume |-> 1]
  /\ commands = 0 /\ failures = 0

----------------------------------------------------------------------------
(* The sink.                                                                *)

ToCallback(m, v) == [to |-> "callback", m |-> m, v |-> v]
ToStream(m, v) == [to |-> "stream", m |-> m, v |-> v]

SetVolume(v) == IF output = "cpal" THEN <<ToCallback("SetVolume", v)>> ELSE <<ToStream("SetVolume", v)>>
Play(n) == <<ToCallback("PlaySource", n)>>
\* Mutant: only the stream is paused.
PauseStreamOnly == <<ToStream("Pause", 0)>>
Pause ==
  IF output = "cpal" THEN <<ToStream("Pause", 0), ToCallback("Pause", 0)>>
  ELSE <<ToCallback("Pause", 0), ToStream("Pause", 0)>>
Resume ==
  IF output = "cpal" THEN <<ToStream("Resume", 0), ToCallback("Resume", 0)>>
  ELSE <<ToCallback("Resume", 0), ToStream("Resume", 0)>>
Stop == (IF output = "cpal" THEN Play(0) ELSE <<>>) \o Pause

Call(messages, wanted) ==
  /\ sending = <<>> /\ commands < MaxCommands /\ commands' = commands + 1
  /\ sending' = messages /\ asked' = wanted
  /\ UNCHANGED <<output, chain, callback_recv, stream_recv, device, failures>>

\* The player plays a source and resumes (PlaybackManager::play), pauses and resumes the
\* source it plays, stops, and sets the volume at any time.
PlayTrack == Call(Play(commands + 1) \o Resume, [asked EXCEPT !.on = TRUE, !.track = commands + 1])
PauseTrack == asked.on /\ Call(Pause, [asked EXCEPT !.on = FALSE])
ResumeTrack == ~asked.on /\ asked.track # 0 /\ Call(Resume, [asked EXCEPT !.on = TRUE])
StopTrack == Call(Stop, [asked EXCEPT !.on = FALSE, !.track = 0])
ChangeVolume == \E v \in Volumes : Call(SetVolume(v), [asked EXCEPT !.volume = v])

\* A full channel blocks the player.
SendToCallback ==
  /\ sending # <<>> /\ Head(sending).to = "callback" /\ Len(callback_recv) < Cap
  /\ callback_recv' = Append(callback_recv, Head(sending)) /\ sending' = Tail(sending)
  /\ UNCHANGED <<output, chain, stream_recv, device, asked, commands, failures>>
SendToStream ==
  /\ sending # <<>> /\ Head(sending).to = "stream"
  /\ stream_recv' = Append(stream_recv, Head(sending)) /\ sending' = Tail(sending)
  /\ UNCHANGED <<output, chain, callback_recv, device, asked, commands, failures>>

----------------------------------------------------------------------------
(* The actor that owns the stream.                                          *)

\* The device's refusal is only logged; refusing to start is left out, nothing plays then.
Handle ==
  /\ stream_recv # <<>> /\ stream_recv' = Tail(stream_recv)
  /\ LET msg == Head(stream_recv) IN
     \/ /\ msg.m = "Pause" /\ stream' = FALSE /\ UNCHANGED <<callback, failures>>
     \/ /\ msg.m = "Pause" /\ failures < MaxFailures /\ failures' = failures + 1
        /\ UNCHANGED <<stream, callback>>
     \/ msg.m = "Resume" /\ stream' = TRUE /\ UNCHANGED <<callback, failures>>
     \/ /\ msg.m = "SetVolume" /\ callback' = [callback EXCEPT !.volume = msg.v]
        /\ UNCHANGED <<stream, failures>>
  /\ UNCHANGED <<output, chain, sending, callback_recv, buffer, heard, in_order, asked, commands>>

----------------------------------------------------------------------------
(* The sources. Each writes frames into a buffer that holds what was        *)
(* written there before, and says how many it has written.                  *)

Smaller(a, b) == IF a < b THEN a ELSE b
Decoded(source, n) == [i \in 1..n |-> source.decoded + i]
After(old, written) == written \o SubSeq(old, Len(written) + 1, Len(old))

\* Written, the count returned, and the source after it, for n frames of the decoder.
Direct(source, old, n) ==
  [out |-> After(old, Decoded(source, n)), count |-> n, left |-> [source EXCEPT !.decoded = @ + n]]

\* MonoSource and MonoMappedSource: what they do not write is silence.
MonoMapped(source, old, n) ==
  [Direct(source, old, n) EXCEPT !.out = Decoded(source, n) \o Silence(Len(old) - n)]

\* It says it has written everything.
StereoMapped(source, old, n) == [Direct(source, old, n) EXCEPT !.count = Len(old)]

\* Twice the rate: each frame comes out twice (libsamplerate is external).
Process(inp) == [i \in 1..(2 * Len(inp)) |-> inp[(i + 1) \div 2]]

\* Mutant: the rest of the resampled frames is not kept.
KeepNone(out, used) == <<>>
Keep(out, used) == SubSeq(out, used + 1, Len(out))

\* A block that the source does not fill ends in silence.
Resampled(source, old, n) ==
  LET want == Len(old)
      inp == Decoded(source, n) \o Silence(Block - n)
      fresh == IF Len(source.out) >= want THEN source.out ELSE source.out \o Process(inp)
      left == IF Len(source.out) >= want THEN source ELSE [source EXCEPT !.decoded = @ + n]
  IN [out |-> SubSeq(fresh, 1, want), count |-> want, left |-> [left EXCEPT !.out = Keep(fresh, want)]]

Write(source, old, n) ==
  CASE chain = "direct" -> Direct(source, old, n)
    [] chain = "mono" -> MonoMapped(source, old, n)
    [] chain = "stereo" -> StereoMapped(source, old, n)
    [] chain = "resampled" -> Resampled(source, old, n)
Asks == IF chain = "resampled" THEN Block ELSE Period

----------------------------------------------------------------------------
(* The callback.                                                            *)

Take(cb, msg) ==
  CASE msg.m = "PlaySource" -> [cb EXCEPT !.source = IF msg.v = 0 THEN Empty ELSE Source(msg.v)]
    [] msg.m = "SetVolume" -> [cb EXCEPT !.volume = msg.v]
    [] msg.m = "Pause" -> [cb EXCEPT !.playing = FALSE]
    [] msg.m = "Resume" -> [cb EXCEPT !.playing = TRUE]

\* A frame is heard in its turn when it is the next one, or the same again if resampled.
InTurn(last, frame) == frame = last + 1 \/ (chain = "resampled" /\ frame = last)
Listen(at, frame) ==
  IF frame = 0 THEN at ELSE [last |-> frame, ok |-> at.ok /\ InTurn(at.last, frame)]

\* Step taken over a sequence, from the first to the last.
Over(Step(_, _), from, seq) ==
  LET f[i \in 0..Len(seq)] == IF i = 0 THEN from ELSE Step(f[i - 1], seq[i]) IN f[Len(seq)]

TakeAll(cb, messages) == Over(Take, cb, messages)
ListenTo(at, frames) == Over(Listen, at, frames)

\* The messages are taken, then the device's buffer is filled with n frames of the
\* decoder; what the source says it has not written is muted.
WriteSamples ==
  /\ stream /\ callback_recv' = <<>>
  /\ \E cb \in {TakeAll(callback, callback_recv)} :
       LET last == IF cb.source.track = callback.source.track THEN heard ELSE 0 IN
       IF cb.playing
       THEN \E n \in 0..Smaller(Asks, Frames - cb.source.decoded) :
            \E w \in {Write(cb.source, buffer, n)} :
              LET out == SubSeq(w.out, 1, w.count) \o Silence(Period - w.count)
                  at == ListenTo([last |-> last, ok |-> in_order], out) IN
              /\ callback' = [cb EXCEPT !.source = w.left] /\ buffer' = out
              /\ heard' = at.last /\ in_order' = at.ok
       ELSE callback' = cb /\ buffer' = Silence(Period) /\ heard' = last /\ UNCHANGED in_order
  /\ UNCHANGED <<output, chain, sending, stream_recv, stream, asked, commands, failures>>

Next == \/ PlayTrack \/ PauseTrack \/ ResumeTrack \/ StopTrack \/ ChangeVolume
        \/ SendToCallback \/ SendToStream \/ Handle \/ WriteSamples

\* The channels are served as long as there is something in them, and the device calls
\* back as long as its stream runs.
Fairness == /\ WF_vars(SendToCallback \/ SendToStream) /\ WF_vars(Handle)
            /\ WF_vars(WriteSamples)
Spec == Init /\ [][Next]_vars /\ Fairness

----------------------------------------------------------------------------
(* Correctness.                                                             *)

\* The player waits for a channel that only a running stream empties.
Stuck == /\ sending # <<>> /\ Head(sending).to = "callback" /\ Len(callback_recv) = Cap
         /\ ~stream /\ stream_recv = <<>>

\* What is asked for comes to be what sounds, in whatever order the two channels are
\* served: the source and the volume of the last calls, and nothing once paused, even
\* when the device does not stop its stream. Unless the player is stuck.
SoundsAsAsked ==
  <>[](\/ Stuck
       \/ IF asked.on
          THEN /\ stream /\ callback.playing /\ callback.source.track = asked.track
               /\ callback.volume = asked.volume
          ELSE ~(stream /\ callback.playing))

\* Every frame is heard in its turn: none is left out, and none is heard again from a
\* buffer that was not overwritten.
HeardInOrder == in_order

\* The player never waits for ever.
NeverStuck == ~Stuck
=============================================================================
