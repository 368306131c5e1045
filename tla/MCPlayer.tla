------------------------------ MODULE MCPlayer ------------------------------
(***************************************************************************)
(* The two players, and what each reduces to what it is told of it: the    *)
(* player with the native engine and the output it plays on; the player    *)
(* that plays with librespot and the librespot engine (its patched         *)
(* player).  TLC picks the part that runs; the others stay as they began.  *)
(***************************************************************************)
EXTENDS Player

CONSTANTS
  Parts,   \* of {"player", "output", "librespot", "engine"}
  itemA, itemB,
  Outputs, Chains, Cap, Period, Block, Frames, Volumes, MaxCalls, MaxRefusals,
  Local, Queued,
  Remote, OnDisk, trackR, trackD, Suggested, Offers, MaxEngineCommands, MaxFaults

TwoItems == {itemA, itemB}
PairOnly == {<<itemA, itemB>>}
OnlyB == {itemB}

Send(name, track, play, at) == [name |-> name, track |-> track, play |-> play, at |-> at]
MCOffers ==
  {Send("Load", trackR, TRUE, 0), Send("Load", trackR, FALSE, 1), Send("Load", trackD, TRUE, 2),
   Send("Preload", trackR, FALSE, 0), Send("Seek", "none", FALSE, 0), Send("Seek", "none", FALSE, 2)}
  \cup {Send(name, "none", FALSE, 0) : name \in {"Play", "Pause", "Stop"}}

VARIABLES
  part,
  output, chain, sending, callback_recv, stream_recv, stream, callback, buffer, heard,
  in_order, asked, calls, refusals,
  lib_queue, lib_state, lib_alive, lib_commands,
  inbox, transitioning, current_item, engine, engine_commands, engine_events, view,
  stop_requested, hasty,
  internal, pc, loader, cached, copy, lock, faults

O == INSTANCE Output WITH
  MaxCommands <- MaxCalls, commands <- calls, MaxFailures <- MaxRefusals, failures <- refusals

L == INSTANCE LibrespotPlayer WITH
  queue <- lib_queue, state <- lib_state, alive <- lib_alive, commands <- lib_commands

E == INSTANCE Engine WITH e <- internal, MaxCommands <- MaxEngineCommands

ASSUME MCPlayerAssumption ==
  PlayerAssumption /\ O!OutputAssumption /\ L!LibrespotAssumption /\ E!EngineAssumption

outputVars == <<output, chain, sending, callback_recv, stream_recv, stream, callback, buffer,
                heard, in_order, asked, calls, refusals>>
librespotVars == <<lib_queue, lib_state, lib_alive, lib_commands, inbox, transitioning,
                   current_item, engine, engine_commands, engine_events, view,
                   stop_requested, hasty>>
engineVars == <<internal, pc, loader, cached, copy, lock, faults>>
allVars == <<part, vars, outputVars, librespotVars, engineVars>>

\* A part that does not run has one state.
MCInit ==
  /\ part \in Parts
  /\ Init /\ (part # "player" => crossfade = CHOOSE c \in Crossfades : TRUE)
  /\ O!Init /\ (part # "output" => output = "cpal" /\ chain = "direct")
  /\ L!Init /\ (part # "librespot" => ~hasty)
  /\ E!Init /\ (part # "engine" => internal = E!Started(FALSE) /\ cached = {})

MCNext ==
  \/ part = "player" /\ Next /\ UNCHANGED <<part, outputVars, librespotVars, engineVars>>
  \/ part = "output" /\ O!Next /\ UNCHANGED <<part, vars, librespotVars, engineVars>>
  \/ part = "librespot" /\ L!Next /\ UNCHANGED <<part, vars, outputVars, engineVars>>
  \/ part = "engine" /\ E!Next /\ UNCHANGED <<part, vars, outputVars, librespotVars>>

\* Fairness asks nothing of a player that nobody has sent anything, nor of the librespot
\* player where nothing is promised: in haste.
MCSpec ==
  /\ MCInit /\ [][MCNext]_allVars
  /\ WF_vars(part = "player" /\ HandleEndOfTrack) /\ WF_vars(part = "player" /\ HandlePosition)
  /\ WF_vars(part = "player" /\ AudioCallback)
  /\ \A i \in TwoItems :
       WF_vars(/\ part = "player"
               /\ \E ok \in BOOLEAN : HandleLoaded(i, ok) \/ HandlePreloaded(i, ok))
  /\ WF_outputVars(O!SendToCallback \/ O!SendToStream)
  /\ WF_outputVars(O!Handle) /\ WF_outputVars(part = "output" /\ O!WriteSamples)
  /\ WF_librespotVars(~hasty /\ L!Handle) /\ WF_librespotVars(~hasty /\ L!Forward)
  /\ WF_librespotVars(~hasty /\ L!EngineCommand)
  /\ WF_engineVars(part = "engine" /\ (E!Turn \/ E!PollLoaders \/ E!Packet))
  /\ WF_engineVars(part = "engine" /\ (E!LockHandles \/ E!Drain \/ E!Join))
  /\ \A l \in 1..(MaxEngineCommands + 1) : WF_engineVars(part = "engine" /\ E!Load(l))
-----------------------------------------------------------------------------
\* Every frame is heard in its turn, directly, through the mono adapters and
\* resampled; the stereo adapter is left out. See Output.
HeardInOrder == O!HeardInOrder

\* What is asked for comes to be what sounds; see Output.
SoundsAsAsked == part = "output" => O!SoundsAsAsked

\* cpal.rs: the player never waits for ever in a full channel; see Output.
NeverStuck == O!NeverStuck

\* A stop the user asks for is final: nothing that was under way plays after it;
\* see LibrespotPlayer.
StopIsFinal == L!StopIsFinal

\* A stop the user asks for comes to be shown; see LibrespotPlayer.
StopIsShown == L!StopIsShown

\* librespot.rs: a stop between two tracks is never reported as the user's; see
\* LibrespotPlayer.
TransitionStopsSuppressed == L!TransitionStopsSuppressed

\* Once everything is quiet, no suppression is left over, and the interface, the
\* player and the engine agree; see LibrespotPlayer.
QuietAgrees == L!QuietAgrees /\ L!NoSuppressionLeft

\* The last event that the engine has sent names the state, the track and the
\* request that it is in; see Engine.
SaysWhatItDoes == E!SaysWhatItDoes

\* A sink runs for nobody who has paused or stopped, however its starts and its
\* writes fail; see Engine.
SinkFollows == E!SinkFollows

\* What begins is the track last asked for, at the position last asked for; see
\* Engine.
BeginsWhereAsked == E!BeginsWhereAsked

\* Loading ends, whatever the cached copies are like; see Engine.
LoadEnds == E!LoadEnds

\* Dropping the engine waits for its loaders and comes to an end; see Engine.
JoinEnds == E!JoinEnds

\* player.rs: is_playing never finds the engine invalid; see Engine.
NeverInvalid == E!NeverInvalid
=============================================================================
