------------------------------ MODULE Session -------------------------------
(***************************************************************************)
(* The session service (session/mod.rs): callers of connected() that share *)
(* one session worker and wait for answers, update_config() and            *)
(* shutdown(), and the three threads of a worker -- dispatcher, encoder and *)
(* decoder -- with the dispatchers of Mercury and audio key requests.      *)
(*                                                                         *)
(* A request is named by its caller, who waits for it: the sequence number *)
(* it gets is its own for as long as it is pending.  A caller's receiver   *)
(* fails once its callback is dropped: when it is neither in the           *)
(* dispatcher's channel nor pending.  Keep-alive pings are left out.       *)
(***************************************************************************)
EXTENDS Naturals, Sequences, SequencesExt

CONSTANTS
  Callers,      \* threads that call connected() and ask
  Updaters,     \* threads that call update_config() or shutdown()
  Nobody,       \* nobody holds the lock
  MaxSessions,  \* bound: sessions opened
  MaxConfigs,   \* bound: configurations set
  Malformed     \* may the server send what the dispatcher cannot parse?

ASSUME ThreadsAssumption ==
  Callers \cap Updaters = {} /\ Nobody \notin Callers \cup Updaters
ASSUME BoundsAssumption ==
  MaxSessions \in Nat /\ MaxConfigs \in Nat /\ Malformed \in BOOLEAN

VARIABLES
  config,     \* number of the configuration, 0 if there is none
  connected,  \* the session in SessionService.connected, 0 if there is none
  lock,       \* who holds the mutex of connected over several steps
  session,    \* the worker, threads and channels of each session
  caller,     \* where each caller is, and its session
  answered,   \* callers whose answer waits in their own channel
  updater     \* where each updater is, and the session it shuts down

vars == <<config, connected, lock, session, caller, answered, updater>>

Sessions == 1..MaxSessions
None == 0

\* dispatcher: "stopping" has left dispatch_messages() and not stored terminated.
Cmds == [cmd : {"Ask", "Country", "Decoded", "Failed", "Shutdown"},
         of : Callers \cup {Nobody}, shut : SUBSET {"read", "write"}]

Ask(c) == [cmd |-> "Ask", of |-> c, shut |-> {}]
Country(c) == [cmd |-> "Country", of |-> c, shut |-> {}]
Decoded(c) == [cmd |-> "Decoded", of |-> c, shut |-> {}]
DecoderError == [cmd |-> "Failed", of |-> Nobody, shut |-> {"write"}]
EncoderError == [cmd |-> "Failed", of |-> Nobody, shut |-> {"read"}]
Shutdown == [cmd |-> "Shutdown", of |-> Nobody, shut |-> {"read", "write"}]

TypeOK ==
  /\ config \in 0..MaxConfigs /\ connected \in 0..MaxSessions
  /\ lock \in Callers \cup Updaters \cup {Nobody}
  /\ session \in [Sessions ->
       [config : 0..MaxConfigs,
        dispatcher : {"unused", "running", "stopping", "ended", "panicked"},
        decoder : {"running", "ended"}, encoder : {"running", "ended"},
        queue : Seq(Cmds),                 \* the dispatcher's channel
        pending : SUBSET Callers,          \* the callbacks it keeps
        outgoing : Seq(Callers),           \* the encoder's channel
        server : SUBSET Callers,           \* requests whose answers may be read
        shut : SUBSET {"read", "write"}]]  \* halves of the stream shut down
  /\ caller \in [Callers -> [at : {"idle", "tcp", "handshake", "send", "wait"},
                             session : 0..MaxSessions]]
  /\ answered \subseteq Callers
  /\ updater \in [Updaters -> [at : {"idle", "take", "join"}, session : 0..MaxSessions]]

Unused == [config |-> 0, dispatcher |-> "unused", decoder |-> "ended",
           encoder |-> "ended", queue |-> <<>>, pending |-> {}, outgoing |-> <<>>,
           server |-> {}, shut |-> {}]

\* SessionService::empty()
Init ==
  /\ config = 0 /\ connected = None /\ lock = Nobody
  /\ session = [s \in Sessions |-> Unused]
  /\ caller = [c \in Callers |-> [at |-> "idle", session |-> None]]
  /\ answered = {}
  /\ updater = [u \in Updaters |-> [at |-> "idle", session |-> None]]

HasTerminated(s) == session[s].dispatcher = "ended"
IsConnected == connected # None /\ ~HasTerminated(connected)

\* connected() holds the config's mutex, too, while it opens the connection.
ConfigIsFree == \A c \in Callers : caller[c].at \notin {"tcp", "handshake"}

\* A session's channel with one more command; it is gone with the dispatcher.
Told(s, cmd) ==
  [session EXCEPT ![s].queue = IF session[s].dispatcher = "running"
                                 THEN Append(@, cmd) ELSE @]
-----------------------------------------------------------------------------
(***************************************************************************)
(* Callers.                                                                *)
(***************************************************************************)
Goes(c, place, s) == caller' = [caller EXCEPT ![c] = [at |-> place, session |-> s]]

\* Mutant of Connect: the mutex is not held during the connection setup.
ConnectUnlocked(c) ==
  /\ caller[c].at = "idle" /\ lock = Nobody
  /\ \/ IsConnected /\ Goes(c, "send", connected)
     \/ ~IsConnected /\ config # 0 /\ Goes(c, "tcp", None)
  /\ UNCHANGED <<config, connected, lock, session, answered, updater>>

\* connected(): the handle of the live session, or the start of a new one, with
\* the mutex held.
Connect(c) ==
  /\ caller[c].at = "idle" /\ lock = Nobody
  /\ \/ IsConnected /\ Goes(c, "send", connected) /\ UNCHANGED lock
     \/ ~IsConnected /\ config # 0 /\ Goes(c, "tcp", None) /\ lock' = c
  /\ UNCHANGED <<config, connected, session, answered, updater>>

\* Connecting has a timeout; reading the server's part of the handshake has none.
TcpConnects(c) ==
  /\ caller[c].at = "tcp"
  /\ \/ Goes(c, "handshake", None) /\ UNCHANGED lock
     \/ Goes(c, "idle", None) /\ lock' = Nobody
  /\ UNCHANGED <<config, connected, session, answered, updater>>

HandshakeFails(c) ==
  /\ caller[c].at = "handshake"
  /\ Goes(c, "idle", None) /\ lock' = Nobody
  /\ UNCHANGED <<config, connected, session, answered, updater>>

\* SessionWorker::run(); a worker that has terminated is replaced.
Open(c) ==
  /\ caller[c].at = "handshake"
  /\ \E s \in Sessions :
       /\ session[s] = Unused /\ \A r \in Sessions : r < s => session[r] # Unused
       /\ session' = [session EXCEPT ![s] =
            [Unused EXCEPT !.config = config, !.dispatcher = "running",
                           !.decoder = "running", !.encoder = "running"]]
       /\ connected' = s /\ Goes(c, "send", s)
  /\ lock' = Nobody
  /\ UNCHANGED <<config, answered, updater>>

\* A request through the handle; the send fails if the dispatcher is gone.
Send(c) ==
  /\ caller[c].at = "send"
  /\ LET s == caller[c].session
     IN \/ /\ session[s].dispatcher = "running"
           /\ \/ session' = Told(s, Ask(c))
              \/ session' = Told(s, Country(c))
           /\ Goes(c, "wait", s)
        \/ /\ session[s].dispatcher # "running"
           /\ Goes(c, "idle", None) /\ UNCHANGED session
  /\ UNCHANGED <<config, connected, lock, answered, updater>>

\* receiver.recv(): the answer, or the error that the callback was dropped.
Receive(c) ==
  /\ caller[c].at = "wait"
  /\ LET s == session[caller[c].session]
     IN c \in answered \/ (c \notin s.pending /\ \A k \in DOMAIN s.queue :
                             s.queue[k] \notin {Ask(c), Country(c)})
  /\ answered' = answered \ {c}
  /\ Goes(c, "idle", None)
  /\ UNCHANGED <<config, connected, lock, session, updater>>
-----------------------------------------------------------------------------
(***************************************************************************)
(* update_config() and shutdown().                                         *)
(***************************************************************************)
\* Mutant of ReplaceConfig: the session goes on with the old configuration.
ReplaceConfigOnly(u) ==
  /\ updater[u].at = "idle" /\ config < MaxConfigs /\ ConfigIsFree
  /\ config' = config + 1
  /\ UNCHANGED <<connected, lock, session, caller, answered, updater>>

ReplaceConfig(u) ==
  /\ updater[u].at = "idle" /\ config < MaxConfigs /\ ConfigIsFree
  /\ config' = config + 1
  /\ updater' = [updater EXCEPT ![u].at = "take"]
  /\ UNCHANGED <<connected, lock, session, caller, answered>>

BeginShutdown(u) ==
  /\ updater[u].at = "idle"
  /\ updater' = [updater EXCEPT ![u].at = "take"]
  /\ UNCHANGED <<config, connected, lock, session, caller, answered>>

\* The worker is taken out, told to shut down and joined.  The guard of the mutex
\* lives as long as the body of the if let: it is held during the join.
Take(u) ==
  /\ updater[u].at = "take" /\ lock = Nobody
  /\ \/ /\ connected = None
        /\ updater' = [updater EXCEPT ![u].at = "idle"]
        /\ UNCHANGED <<lock, session>>
     \/ /\ connected # None
        /\ session' = Told(connected, Shutdown)
        /\ lock' = u
        /\ updater' = [updater EXCEPT ![u] = [at |-> "join", session |-> connected]]
  /\ connected' = None
  /\ UNCHANGED <<config, caller, answered>>

Join(u) ==
  /\ updater[u].at = "join"
  /\ LET s == session[updater[u].session]
     IN /\ s.dispatcher \in {"ended", "panicked"}
        /\ s.encoder = "ended" /\ s.decoder = "ended"
  /\ lock' = Nobody
  /\ updater' = [updater EXCEPT ![u] = [at |-> "idle", session |-> None]]
  /\ UNCHANGED <<config, connected, session, caller, answered>>
-----------------------------------------------------------------------------
(***************************************************************************)
(* The dispatcher of session s.                                            *)
(***************************************************************************)
\* The loop ends: what is in the channel, and what is pending, is dropped.
Gone(s, how) ==
  [session EXCEPT ![s].dispatcher = how, ![s].queue = <<>>, ![s].pending = {}]

OnRequest(s, m) ==
  /\ m.cmd = "Ask"
  /\ session' = [session EXCEPT ![s].queue = Tail(@), ![s].pending = @ \cup {m.of},
                 ![s].outgoing = IF session[s].encoder = "running"
                                   THEN Append(@, m.of) ELSE @]
  /\ UNCHANGED answered

\* The callback of a Mercury answer or of an audio key; the country is at hand.
OnAnswer(s, m) ==
  /\ m.cmd \in {"Decoded", "Country"}
  /\ session' = [session EXCEPT ![s].queue = Tail(@), ![s].pending = @ \ {m.of}]
  /\ answered' = answered \cup {m.of}

OnMalformed(s, m) ==
  /\ m.cmd = "Decoded" /\ Malformed
  /\ session' = Gone(s, "panicked")
  /\ UNCHANGED answered

\* Mutants of OnEnd: the stream is left open; an error does not end the loop.
OnEndLeaveOpen(s, m) ==
  /\ m.cmd \in {"Failed", "Shutdown"}
  /\ session' = Gone(s, "stopping")
  /\ UNCHANGED answered

OnEndGoOn(s, m) ==
  /\ m.cmd \in {"Failed", "Shutdown"}
  /\ session' = [session EXCEPT ![s].queue = Tail(@), ![s].shut = @ \cup m.shut]
  /\ UNCHANGED answered

\* An error of the connection, or the shutdown.
OnEnd(s, m) ==
  /\ m.cmd \in {"Failed", "Shutdown"}
  /\ session' = [Gone(s, "stopping") EXCEPT ![s].shut = @ \cup m.shut]
  /\ UNCHANGED answered

\* One command of dispatch_messages().
Handle(s, m) == OnRequest(s, m) \/ OnAnswer(s, m) \/ OnMalformed(s, m) \/ OnEnd(s, m)

Dispatch(s) ==
  /\ session[s].dispatcher = "running" /\ session[s].queue # <<>>
  /\ Handle(s, Head(session[s].queue))
  /\ UNCHANGED <<config, connected, lock, caller, updater>>

StoreTerminated(s) ==
  /\ session[s].dispatcher = "stopping"
  /\ session' = [session EXCEPT ![s].dispatcher = "ended"]
  /\ UNCHANGED <<config, connected, lock, caller, answered, updater>>
-----------------------------------------------------------------------------
(***************************************************************************)
(* The encoder and the decoder of session s.                               *)
(***************************************************************************)
Ends(s, change) ==
  /\ session' = change
  /\ UNCHANGED <<config, connected, lock, caller, answered, updater>>

Encode(s) ==
  /\ session[s].encoder = "running" /\ session[s].outgoing # <<>>
  /\ "write" \notin session[s].shut
  /\ Ends(s, [session EXCEPT ![s].outgoing = Tail(@),
                             ![s].server = IF session[s].decoder = "running"
                               THEN @ \cup {Head(session[s].outgoing)} ELSE @])

EncodeFails(s) ==
  /\ session[s].encoder = "running" /\ session[s].outgoing # <<>>
  /\ Ends(s, [Told(s, EncoderError) EXCEPT ![s].encoder = "ended", ![s].outgoing = <<>>])

\* The dispatcher has dropped its end of the channel.
EncoderEnds(s) ==
  /\ session[s].encoder = "running" /\ session[s].outgoing = <<>>
  /\ session[s].dispatcher # "running"
  /\ Ends(s, [session EXCEPT ![s].encoder = "ended"])

\* The server's answer to c, which ends the decoder if the dispatcher is gone.  What
\* the server still has to answer when the decoder ends is of no use any more.
DecodeAnswer(s, c) ==
  /\ session[s].decoder = "running" /\ c \in session[s].server
  /\ "read" \notin session[s].shut
  /\ Ends(s, [Told(s, Decoded(c)) EXCEPT
       ![s].server = IF session[s].dispatcher = "running" THEN @ \ {c} ELSE {},
       ![s].decoder = IF session[s].dispatcher = "running" THEN @ ELSE "ended"])

\* Mutant of DecodeFails: the error is passed on as if it were a message.
DecodeFailsAsMessage(s) ==
  /\ session[s].decoder = "running"
  /\ Ends(s, [Told(s, Decoded(Nobody)) EXCEPT ![s].decoder = "ended"])

DecodeFails(s) ==
  /\ session[s].decoder = "running"
  /\ Ends(s, [Told(s, DecoderError) EXCEPT ![s].decoder = "ended", ![s].server = {}])
-----------------------------------------------------------------------------
EncoderStep(s) == Encode(s) \/ EncoderEnds(s) \/ ("write" \in session[s].shut /\ EncodeFails(s))
DecoderStep(s) == "read" \in session[s].shut /\ DecodeFails(s)

Next ==
  \/ \E c \in Callers :
       \/ Connect(c) \/ TcpConnects(c) \/ HandshakeFails(c) \/ Open(c)
       \/ Send(c) \/ Receive(c)
  \/ \E u \in Updaters : ReplaceConfig(u) \/ BeginShutdown(u) \/ Take(u) \/ Join(u)
  \/ \E s \in Sessions :
       \/ Dispatch(s) \/ StoreTerminated(s)
       \/ Encode(s) \/ EncodeFails(s) \/ EncoderEnds(s)
       \/ (\E c \in Callers : DecodeAnswer(s, c)) \/ DecodeFails(s)

Spec == Init /\ [][Next]_vars

\* The threads run, a read or a write on a stream that was shut down returns, and
\* the server answers what it has received: there is no timeout for that.
Fairness ==
  /\ \A c \in Callers :
       WF_vars(TcpConnects(c)) /\ WF_vars(Send(c)) /\ WF_vars(Receive(c))
  /\ \A u \in Updaters : WF_vars(Join(u))
  /\ \A s \in Sessions :
       /\ WF_vars(Dispatch(s)) /\ WF_vars(StoreTerminated(s))
       /\ WF_vars(EncoderStep(s)) /\ WF_vars(DecoderStep(s))
       /\ \A c \in Callers : WF_vars(DecodeAnswer(s, c))

FairSpec == Spec /\ Fairness
-----------------------------------------------------------------------------
\* The active session has the current configuration, but for the moment in which
\* update_config() has replaced it and is about to take the session.
StaleSessionIsDoomed ==
  (connected # None /\ session[connected].config # config) =>
    \E u \in Updaters : updater[u].at = "take"

\* No second session runs beside the active one: not even when two callers find
\* none, or a caller meets an update.
NoSessionLeaks ==
  \A s \in Sessions :
    session[s].dispatcher = "running" =>
      s = connected \/ \E u \in Updaters : updater[u] = [at |-> "join", session |-> s]

\* A caller gets its answer or an error, also if the session is shut down or dies
\* while it waits; shutdown() returns, if the session has not died of a panic.
Panicked == \E s \in Sessions : session[s].dispatcher = "panicked"
CallerReturns == \A c \in Callers : caller[c].at = "wait" ~> caller[c].at # "wait"
ShutdownReturns ==
  \A u \in Updaters : updater[u].at = "join" ~> (updater[u].at # "join" \/ Panicked)
-----------------------------------------------------------------------------
\* mod.rs:87: is_connected() tells that "a session worker is actively servicing the
\* connected session": its dispatcher runs, or is about to store that it ended.
ConnectedIsServiced ==
  IsConnected => session[connected].dispatcher \in {"running", "stopping"}
=============================================================================
