----------------------------- MODULE MCSession ------------------------------
(***************************************************************************)
(* The session with Spotify: the service and its workers, the connection   *)
(* that a worker is given, and the Mercury requests it dispatches.  TLC    *)
(* picks the part that runs; the others stay as they began.                *)
(***************************************************************************)
EXTENDS Session

CONSTANTS
  Parts,   \* of {"service", "connect", "mercury"}
  Aps, Fallback, Proxies, MayBeSilent, MaxEncoded, MaxFaults,
  Symbols, MaxParts, MaxLength, MaxMessages, MaxRequests, SeqSize

VARIABLES
  part,
  opener, stream, ours, ap, faults,
  sequence, pending, server, responses, asked, promised

C == INSTANCE Connect WITH MaxMessages <- MaxEncoded
M == INSTANCE Mercury

ASSUME M!MercuryAssumption

connectVars == <<opener, stream, ours, ap, faults>>
mercuryVars == <<sequence, pending, server, responses, asked, promised>>
allVars == <<part, vars, connectVars, mercuryVars>>

MCInit ==
  /\ part \in Parts /\ Init /\ C!Init /\ M!Init
  /\ part # "connect" => opener.proxy = "none"

MCNext ==
  \/ part = "service" /\ Next /\ UNCHANGED <<part, connectVars, mercuryVars>>
  \/ part = "connect" /\ C!Next /\ UNCHANGED <<part, vars, mercuryVars>>
  \/ part = "mercury" /\ M!Next /\ UNCHANGED <<part, vars, connectVars>>

\* Fairness asks nothing of a service that nobody has called.
MCSpec ==
  /\ MCInit /\ [][MCNext]_allVars
  /\ Fairness
  /\ WF_connectVars(part = "connect" /\ C!OpenStep)
  /\ WF_connectVars(part = "connect" /\ C!ApStep)
-----------------------------------------------------------------------------
\* A checksum fails only on what the network damaged; see Connect.
InStep == C!InStep

\* SessionConnection::open ends unless the other side falls silent; see Connect.
OpenEnds == part = "connect" => C!OpenEnds

\* session/mod.rs:96-98: SessionConnection::open gives up; see Connect.
GivesUp == part = "connect" => C!GivesUp

\* The caller of each request receives the parts the server sent for it, however
\* the server cuts them; see Mercury.
ResponseIsWhole == M!ResponseIsWhole

\* No caller that the server has answered is left without its response; see
\* Mercury.
AnsweredResponds == M!AnsweredResponds
=============================================================================
