--------------------------- MODULE SessionProofs ---------------------------
(***************************************************************************)
(* Proofs about Session: the types of its state, and that one worker at    *)
(* most serves the service, for any number of callers, updaters, sessions  *)
(* and configurations.                                                     *)
(*                                                                         *)
(* The argument for NoSessionLeaks is that the mutex of connected is held  *)
(* by whoever is about to replace a session: a caller that opens one has   *)
(* found none that runs, and while it holds the mutex none can begin to    *)
(* run and none can be taken out by an updater.                            *)
(*                                                                         *)
(* After it, the same for the connection that a session is given, the      *)
(* instance C of Connect in MCSession, and at the end for the Mercury      *)
(* requests, its instance M of Mercury.                                    *)
(***************************************************************************)
EXTENDS MCSession, QueueLemmas, SequenceTheorems, TLAPS

\* A command about a request names the caller whose request it is.
NamesCaller(m) == m.cmd \in {"Ask", "Country", "Decoded"} => m.of \in Callers
SessionType ==
  [config : 0..MaxConfigs,
   dispatcher : {"unused", "running", "stopping", "ended", "panicked"},
   decoder : {"running", "ended"}, encoder : {"running", "ended"},
   queue : Seq(Cmds), pending : SUBSET Callers, outgoing : Seq(Callers),
   server : SUBSET Callers, shut : SUBSET {"read", "write"}]

\* A session of the right type whose channel names callers.
GoodSession(x) == x \in SessionType /\ \A k \in 1..Len(x.queue) : NamesCaller(x.queue[k])

CallerType ==
  [at : {"idle", "tcp", "handshake", "send", "wait"}, session : 0..MaxSessions]

Typed ==
  /\ config \in 0..MaxConfigs /\ connected \in 0..MaxSessions
  /\ lock \in Callers \cup Updaters \cup {Nobody}
  /\ session \in [Sessions -> SessionType] /\ \A s \in Sessions : GoodSession(session[s])
  /\ caller \in [Callers -> CallerType] /\ answered \subseteq Callers
  /\ updater \in [Updaters -> [at : {"idle", "take", "join"}, session : 0..MaxSessions]]

Opening(c) == caller[c].at \in {"tcp", "handshake"}
Ended(s) == s = None \/ session[s].dispatcher = "ended"

\* Who opens a session or joins one holds the mutex.
HoldersHoldLock ==
  /\ \A c \in Callers : Opening(c) => lock = c
  /\ \A u \in Updaters : updater[u].at = "join" => lock = u

\* Who opens a session has found none that is alive.
OpenersFoundNone == \A c \in Callers : Opening(c) => Ended(connected)

Safe == HoldersHoldLock /\ OpenersFoundNone /\ NoSessionLeaks /\ StaleSessionIsDoomed

-----------------------------------------------------------------------------
LEMMA TypedIsTypeOK == Typed => TypeOK
  BY DEF Typed, TypeOK, SessionType, CallerType

LEMMA CommandsAreCmds ==
  /\ \A c \in Callers : /\ Ask(c) \in Cmds /\ NamesCaller(Ask(c))
                        /\ Country(c) \in Cmds /\ NamesCaller(Country(c))
                        /\ Decoded(c) \in Cmds /\ NamesCaller(Decoded(c))
  /\ DecoderError \in Cmds /\ NamesCaller(DecoderError)
  /\ EncoderError \in Cmds /\ NamesCaller(EncoderError)
  /\ Shutdown \in Cmds /\ NamesCaller(Shutdown)
  BY DEF Cmds, Ask, Country, Decoded, DecoderError, EncoderError, Shutdown, NamesCaller

\* One more command, or one less, leaves a good channel.
LEMMA AppendNames ==
  ASSUME NEW q \in Seq(Cmds), \A k \in 1..Len(q) : NamesCaller(q[k]), NEW m \in Cmds, NamesCaller(m)
  PROVE  Append(q, m) \in Seq(Cmds) /\ \A k \in 1..Len(Append(q, m)) : NamesCaller(Append(q, m)[k])
  OBVIOUS

LEMMA TailNames ==
  ASSUME NEW q \in Seq(Cmds), q # <<>>, \A k \in 1..Len(q) : NamesCaller(q[k])
  PROVE  /\ Tail(q) \in Seq(Cmds) /\ \A k \in 1..Len(Tail(q)) : NamesCaller(Tail(q)[k])
         /\ Head(q) \in Cmds /\ NamesCaller(Head(q))
  OBVIOUS

-----------------------------------------------------------------------------
(***************************************************************************)
(* Types.                                                                  *)
(***************************************************************************)
\* Replacing one session by a good one leaves them all good.
LEMMA OneReplaced ==
  ASSUME Typed, NEW s \in Sessions, NEW x, GoodSession(x), session' = [session EXCEPT ![s] = x]
  PROVE  session' \in [Sessions -> SessionType] /\ \A r \in Sessions : GoodSession(session'[r])
  BY DEF Typed, GoodSession

LEMMA UnusedIsGood == GoodSession(Unused)
  BY BoundsAssumption DEF GoodSession, Unused, SessionType

\* The channel of a session after a command was sent to it.
LEMMA ToldIsGood ==
  ASSUME Typed, NEW s \in Sessions, NEW m \in Cmds, NamesCaller(m)
  PROVE  Told(s, m) \in [Sessions -> SessionType] /\ \A r \in Sessions : GoodSession(Told(s, m)[r])
  <1> DEFINE x == [session[s] EXCEPT !.queue = IF session[s].dispatcher = "running"
                                                 THEN Append(@, m) ELSE @]
  <1>1. Told(s, m) = [session EXCEPT ![s] = x]
    BY DEF Told
  <1>2. GoodSession(session[s])
    BY DEF Typed
  <1>3. GoodSession(x)
    BY <1>2, AppendNames DEF GoodSession, SessionType
  <1> QED
    BY <1>1, <1>3 DEF Typed, GoodSession

LEMMA InitTyped == Init => Typed
  BY BoundsAssumption, ThreadsAssumption, UnusedIsGood
  DEF Init, Typed, CallerType, Sessions, None, GoodSession

LEMMA CallersTyped ==
  ASSUME Typed, NEW c \in Callers,
         Connect(c) \/ TcpConnects(c) \/ HandshakeFails(c) \/ Open(c) \/ Send(c) \/ Receive(c)
  PROVE  Typed'
  <1> USE DEF Typed, Goes, CallerType
  <1>1. CASE Connect(c)
    BY <1>1, BoundsAssumption DEF Connect, None
  <1>2. CASE TcpConnects(c)
    BY <1>2, BoundsAssumption DEF TcpConnects, None
  <1>3. CASE HandshakeFails(c)
    BY <1>3, BoundsAssumption DEF HandshakeFails, None
  <1>4. CASE Open(c)
    <2>1. PICK s \in Sessions :
            /\ session' = [session EXCEPT ![s] =
                 [Unused EXCEPT !.config = config, !.dispatcher = "running",
                                !.decoder = "running", !.encoder = "running"]]
            /\ connected' = s /\ Goes(c, "send", s)
      BY <1>4 DEF Open
    <2>2. GoodSession([Unused EXCEPT !.config = config, !.dispatcher = "running",
                                     !.decoder = "running", !.encoder = "running"])
      BY UnusedIsGood DEF GoodSession, SessionType, Unused
    <2>3. session' \in [Sessions -> SessionType] /\ \A r \in Sessions : GoodSession(session'[r])
      BY <2>1, <2>2, OneReplaced
    <2>4. UNCHANGED <<config, answered, updater>> /\ lock' = Nobody
      BY <1>4 DEF Open
    <2> QED
      BY <2>1, <2>3, <2>4, BoundsAssumption DEF Sessions
  <1>5. CASE Send(c)
    <2>1. \E s \in 0..MaxSessions : Goes(c, "wait", s) \/ Goes(c, "idle", s)
      BY <1>5, BoundsAssumption DEF Send, None
    <2>2. session' \in [Sessions -> SessionType] /\ \A r \in Sessions : GoodSession(session'[r])
      <3>1. CASE session' = session
        BY <3>1
      <3>2. CASE \E m \in {Ask(c), Country(c)} : session' = Told(caller[c].session, m)
        <4>1. PICK m \in Cmds : session' = Told(caller[c].session, m) /\ NamesCaller(m)
          BY <3>2, CommandsAreCmds
        <4>2. CASE caller[c].session \in Sessions
          BY <4>1, <4>2, ToldIsGood
        <4>3. CASE caller[c].session \notin Sessions
          BY <4>1, <4>3 DEF Told
        <4> QED
          BY <4>2, <4>3
      <3> QED
        BY <1>5, <3>1, <3>2 DEF Send
    <2>3. UNCHANGED <<config, connected, lock, answered, updater>>
      BY <1>5 DEF Send
    <2> QED
      BY <2>1, <2>2, <2>3
  <1>6. CASE Receive(c)
    BY <1>6, BoundsAssumption DEF Receive, None
  <1> QED
    BY <1>1, <1>2, <1>3, <1>4, <1>5, <1>6

LEMMA UpdatersTyped ==
  ASSUME Typed, NEW u \in Updaters, ReplaceConfig(u) \/ BeginShutdown(u) \/ Take(u) \/ Join(u)
  PROVE  Typed'
  <1>1. CASE ReplaceConfig(u)
    BY <1>1, BoundsAssumption DEF Typed, ReplaceConfig
  <1>2. CASE BeginShutdown(u)
    BY <1>2 DEF Typed, BeginShutdown
  <1>3. CASE Take(u)
    <2>1. session' = session \/ (session' = Told(connected, Shutdown) /\ connected \in Sessions)
      <3>1. connected \in Nat /\ connected <= MaxSessions
        BY BoundsAssumption DEF Typed
      <3>2. connected # None => connected \in Sessions
        BY <3>1, BoundsAssumption DEF None, Sessions
      <3> QED
        BY <1>3, <3>2 DEF Take
    <2>2. session' \in [Sessions -> SessionType] /\ \A r \in Sessions : GoodSession(session'[r])
      BY <2>1, ToldIsGood, CommandsAreCmds DEF Typed
    <2>3. /\ updater' = [updater EXCEPT ![u].at = "idle"]
             \/ updater' = [updater EXCEPT ![u] = [at |-> "join", session |-> connected]]
          /\ lock' = lock \/ lock' = u
          /\ connected' = None /\ UNCHANGED <<config, caller, answered>>
      BY <1>3 DEF Take
    <2> QED
      BY <2>2, <2>3, BoundsAssumption DEF Typed, None
  <1>4. CASE Join(u)
    BY <1>4, BoundsAssumption DEF Typed, Join, None
  <1> QED
    BY <1>1, <1>2, <1>3, <1>4

\* What a dispatcher handles is a command of its channel.
LEMMA HeadIsGood ==
  ASSUME Typed, NEW s \in Sessions, session[s].queue # <<>>
  PROVE  /\ Tail(session[s].queue) \in Seq(Cmds)
         /\ \A k \in 1..Len(Tail(session[s].queue)) : NamesCaller(Tail(session[s].queue)[k])
         /\ Head(session[s].queue) \in Cmds /\ NamesCaller(Head(session[s].queue))
  <1>1. GoodSession(session[s])
    BY DEF Typed
  <1> QED
    BY <1>1, TailNames DEF GoodSession, SessionType

LEMMA DispatchTyped ==
  ASSUME Typed, NEW s \in Sessions, Dispatch(s)
  PROVE  Typed'
  <1> DEFINE m == Head(session[s].queue)
             x == session[s]
  <1>1. m \in Cmds /\ NamesCaller(m) /\ GoodSession(x)
    BY HeadIsGood DEF Dispatch, Typed
  <1>2. /\ Tail(x.queue) \in Seq(Cmds)
        /\ \A k \in 1..Len(Tail(x.queue)) : NamesCaller(Tail(x.queue)[k])
    BY HeadIsGood DEF Dispatch
  <1>3. m.shut \in SUBSET {"read", "write"}
    BY <1>1 DEF Cmds
  <1>4. UNCHANGED <<config, connected, lock, caller, updater>>
    BY DEF Dispatch
  <1> HIDE DEF m
  <1>5. CASE OnRequest(s, m)
    <2> DEFINE y == [x EXCEPT !.queue = Tail(@), !.pending = @ \cup {m.of},
                              !.outgoing = IF x.encoder = "running" THEN Append(@, m.of) ELSE @]
    <2>1. m.of \in Callers
      BY <1>1, <1>5 DEF OnRequest, NamesCaller
    <2>2. GoodSession(y)
      <3>1. (IF x.encoder = "running" THEN Append(x.outgoing, m.of) ELSE x.outgoing) \in Seq(Callers)
        BY <1>1, <2>1 DEF GoodSession, SessionType
      <3>2. y \in SessionType /\ y.queue = Tail(x.queue)
        BY <1>1, <1>2, <2>1, <3>1 DEF GoodSession, SessionType
      <3> QED
        BY <1>2, <3>2 DEF GoodSession
    <2>3. session' = [session EXCEPT ![s] = y] /\ answered' = answered
      BY <1>5 DEF OnRequest
    <2> QED
      BY <1>4, <2>2, <2>3, OneReplaced DEF Typed
  <1>6. CASE OnAnswer(s, m)
    <2> DEFINE y == [x EXCEPT !.queue = Tail(@), !.pending = @ \ {m.of}]
    <2>1. m.of \in Callers
      BY <1>1, <1>6 DEF OnAnswer, NamesCaller
    <2>2. GoodSession(y)
      BY <1>1, <1>2 DEF GoodSession, SessionType
    <2>3. session' = [session EXCEPT ![s] = y] /\ answered' = answered \cup {m.of}
      BY <1>6 DEF OnAnswer
    <2> QED
      BY <1>4, <2>1, <2>2, <2>3, OneReplaced DEF Typed
  <1>7. ASSUME NEW how \in {"stopping", "panicked"}, NEW shut \in SUBSET {"read", "write"},
               session' = [Gone(s, how) EXCEPT ![s].shut = shut], answered' = answered
        PROVE  Typed'
    <2> DEFINE y == [x EXCEPT !.dispatcher = how, !.queue = <<>>, !.pending = {}, !.shut = shut]
    <2>1. GoodSession(y)
      <3>1. <<>> \in Seq(Cmds) /\ Len(<<>>) = 0
        OBVIOUS
      <3>2. y \in SessionType /\ y.queue = <<>>
        BY <1>1, <3>1 DEF GoodSession, SessionType
      <3> QED
        BY <3>1, <3>2 DEF GoodSession
    <2>2. session' = [session EXCEPT ![s] = y]
      BY <1>7 DEF Gone, Typed
    <2> QED
      BY <1>4, <1>7, <2>1, <2>2, OneReplaced DEF Typed
  <1>8. CASE OnMalformed(s, m)
    <2>1. Gone(s, "panicked") = [Gone(s, "panicked") EXCEPT ![s].shut = x.shut]
      BY <1>1, ZenonT(40) DEF Gone, Typed, GoodSession, SessionType
    <2>2. x.shut \in SUBSET {"read", "write"}
      BY <1>1 DEF GoodSession, SessionType
    <2> QED
      BY <1>7, <1>8, <2>1, <2>2 DEF OnMalformed
  <1>9. CASE OnEnd(s, m)
    <2>1. x.shut \cup m.shut \in SUBSET {"read", "write"}
      BY <1>1, <1>3 DEF GoodSession, SessionType
    <2>2. session' = [Gone(s, "stopping") EXCEPT ![s].shut = x.shut \cup m.shut]
      BY <1>9 DEF OnEnd, Gone, Typed
    <2> QED
      BY <1>7, <1>9, <2>1, <2>2 DEF OnEnd
  <1> QED
    BY <1>5, <1>6, <1>8, <1>9 DEF Dispatch, Handle, m

\* The steps of the encoder and the decoder change one session, whose channel may
\* get one command more.
LEMMA EndsTyped ==
  ASSUME Typed, NEW s \in Sessions,
         NEW x, GoodSession(x), Ends(s, [session EXCEPT ![s] = x])
  PROVE  Typed'
  BY OneReplaced DEF Typed, Ends

\* A session whose channel got one more command.
LEMMA MoreInQueue ==
  ASSUME Typed, NEW s \in Sessions, NEW m \in Cmds, NamesCaller(m)
  PROVE  LET q == IF session[s].dispatcher = "running" THEN Append(session[s].queue, m)
                                                       ELSE session[s].queue
         IN  q \in Seq(Cmds) /\ \A k \in 1..Len(q) : NamesCaller(q[k])
  <1>1. GoodSession(session[s])
    BY DEF Typed
  <1> QED
    BY <1>1, AppendNames DEF GoodSession, SessionType

LEMMA ThreadsTyped ==
  ASSUME Typed, NEW s \in Sessions,
         \/ StoreTerminated(s) \/ Encode(s) \/ EncodeFails(s) \/ EncoderEnds(s)
         \/ (\E c \in Callers : DecodeAnswer(s, c)) \/ DecodeFails(s)
  PROVE  Typed'
  <1> DEFINE x == session[s]
             q(m) == IF x.dispatcher = "running" THEN Append(x.queue, m) ELSE x.queue
  <1>1. GoodSession(x) /\ x \in SessionType /\ session \in [Sessions -> SessionType]
    BY DEF Typed, GoodSession
  <1>2. ASSUME NEW y \in SessionType, y.queue = x.queue PROVE GoodSession(y)
    BY <1>1, <1>2 DEF GoodSession
  <1>3. ASSUME NEW m \in Cmds, NamesCaller(m), NEW y \in SessionType, y.queue = q(m)
        PROVE  GoodSession(y)
    BY <1>3, MoreInQueue DEF GoodSession
  <1>4. ASSUME NEW m \in Cmds, NamesCaller(m) PROVE q(m) \in Seq(Cmds)
    BY <1>4, MoreInQueue
  <1>5. CASE StoreTerminated(s)
    <2> DEFINE y == [x EXCEPT !.dispatcher = "ended"]
    <2>1. y \in SessionType /\ y.queue = x.queue
      BY <1>1 DEF SessionType
    <2>2. Ends(s, [session EXCEPT ![s] = y])
      BY <1>5 DEF StoreTerminated, Ends
    <2> QED
      BY <1>2, <2>1, <2>2, EndsTyped
  <1>6. CASE Encode(s)
    <2> DEFINE y == [x EXCEPT !.outgoing = Tail(@), !.server = IF x.decoder = "running"
                       THEN @ \cup {Head(x.outgoing)} ELSE @]
    <2>1. Tail(x.outgoing) \in Seq(Callers) /\ Head(x.outgoing) \in Callers
      BY <1>1, <1>6 DEF Encode, SessionType
    <2>2. y \in SessionType /\ y.queue = x.queue
      BY <1>1, <2>1 DEF SessionType
    <2>3. Ends(s, [session EXCEPT ![s] = y])
      BY <1>6 DEF Encode
    <2> QED
      BY <1>2, <2>2, <2>3, EndsTyped
  <1>7. CASE EncodeFails(s)
    <2> DEFINE y == [x EXCEPT !.queue = q(EncoderError), !.encoder = "ended", !.outgoing = <<>>]
    <2>0. q(EncoderError) \in Seq(Cmds) /\ <<>> \in Seq(Callers)
      BY <1>4, CommandsAreCmds
    <2>1. y \in SessionType /\ y.queue = q(EncoderError)
      <3> HIDE DEF q
      <3> QED
        BY <1>1, <2>0 DEF SessionType
    <2>2. Ends(s, [session EXCEPT ![s] = y])
      BY <1>1, <1>7 DEF EncodeFails, Told, SessionType
    <2> QED
      BY <1>3, <2>1, <2>2, CommandsAreCmds, EndsTyped
  <1>8. CASE EncoderEnds(s)
    <2> DEFINE y == [x EXCEPT !.encoder = "ended"]
    <2>1. y \in SessionType /\ y.queue = x.queue
      BY <1>1 DEF SessionType
    <2>2. Ends(s, [session EXCEPT ![s] = y])
      BY <1>8 DEF EncoderEnds
    <2> QED
      BY <1>2, <2>1, <2>2, EndsTyped
  <1>9. ASSUME NEW c \in Callers, DecodeAnswer(s, c) PROVE Typed'
    <2> DEFINE y == [x EXCEPT
                 !.queue = q(Decoded(c)),
                 !.server = IF x.dispatcher = "running" THEN @ \ {c} ELSE {},
                 !.decoder = IF x.dispatcher = "running" THEN @ ELSE "ended"]
    <2>1. y \in SessionType /\ y.queue = q(Decoded(c))
      BY <1>1, <1>4, CommandsAreCmds DEF SessionType
    <2>2. Ends(s, [session EXCEPT ![s] = y])
      BY <1>1, <1>9 DEF DecodeAnswer, Told, SessionType
    <2> QED
      BY <1>3, <2>1, <2>2, CommandsAreCmds, EndsTyped
  <1>10. CASE DecodeFails(s)
    <2> DEFINE y == [x EXCEPT !.queue = q(DecoderError), !.decoder = "ended", !.server = {}]
    <2>1. y \in SessionType /\ y.queue = q(DecoderError)
      BY <1>1, <1>4, CommandsAreCmds DEF SessionType
    <2>2. Ends(s, [session EXCEPT ![s] = y])
      BY <1>1, <1>10 DEF DecodeFails, Told, SessionType
    <2> QED
      BY <1>3, <2>1, <2>2, CommandsAreCmds, EndsTyped
  <1> QED
    BY <1>5, <1>6, <1>7, <1>8, <1>9, <1>10

LEMMA NextTyped == Typed /\ [Next]_vars => Typed'
  <1>1. ASSUME Typed, UNCHANGED vars PROVE Typed'
    BY <1>1 DEF Typed, vars, GoodSession
  <1> QED
    BY <1>1, CallersTyped, UpdatersTyped, DispatchTyped, ThreadsTyped DEF Next

\* Every variable keeps its type, and a command that is about a request names the
\* caller who asked: no callback is looked up for nobody.
THEOREM TypeCorrect == Spec => []TypeOK
  <1>1. Spec => []Typed
    BY InitTyped, NextTyped, PTL DEF Spec
  <1> QED
    BY <1>1, TypedIsTypeOK, PTL

-----------------------------------------------------------------------------
(***************************************************************************)
(* One worker.                                                             *)
(***************************************************************************)
\* What the threads of a worker and the sends of others leave of a session.
Aged(x, y) ==
  /\ y.config = x.config
  /\ y.dispatcher = "running" => x.dispatcher = "running"
  /\ x.dispatcher = "ended" => y.dispatcher = "ended"

LEMMA ToldAges ==
  ASSUME Typed, NEW s, NEW m, NEW r \in Sessions
  PROVE  Aged(session[r], Told(s, m)[r])
  BY DEF Typed, SessionType, Told, Aged

\* Whatever a worker does, no session begins to run, and none that has ended is
\* ever seen alive again.
LEMMA WorkerAges ==
  ASSUME Typed, NEW s \in Sessions,
         \/ Dispatch(s) \/ StoreTerminated(s)
         \/ Encode(s) \/ EncodeFails(s) \/ EncoderEnds(s)
         \/ (\E c \in Callers : DecodeAnswer(s, c)) \/ DecodeFails(s)
  PROVE  /\ \A r \in Sessions : Aged(session[r], session'[r])
         /\ UNCHANGED <<config, connected, lock, caller, updater>>
  <1> USE DEF Aged
  <1>1. session \in [Sessions -> SessionType]
    BY DEF Typed
  <1>2. CASE Dispatch(s)
    <2>1. PICK m : Handle(s, m)
      BY <1>2 DEF Dispatch
    <2>2. session[s].dispatcher = "running"
      BY <1>2 DEF Dispatch
    <2>3. \A r \in Sessions : Aged(session[r], session'[r])
      <3>1. CASE OnRequest(s, m)
        BY <1>1, <3>1 DEF OnRequest, SessionType
      <3>2. CASE OnAnswer(s, m)
        BY <1>1, <3>2 DEF OnAnswer, SessionType
      <3>3. CASE OnMalformed(s, m)
        BY <1>1, <2>2, <3>3 DEF OnMalformed, Gone, SessionType
      <3>4. CASE OnEnd(s, m)
        BY <1>1, <2>2, <3>4 DEF OnEnd, Gone, SessionType
      <3> QED
        BY <2>1, <3>1, <3>2, <3>3, <3>4 DEF Handle
    <2> QED
      BY <1>2, <2>3 DEF Dispatch
  <1>3. CASE StoreTerminated(s)
    BY <1>1, <1>3 DEF StoreTerminated, SessionType
  <1>4. CASE Encode(s)
    BY <1>1, <1>4 DEF Encode, Ends, SessionType
  <1>5. CASE EncodeFails(s)
    BY <1>1, <1>5 DEF EncodeFails, Ends, Told, SessionType
  <1>6. CASE EncoderEnds(s)
    BY <1>1, <1>6 DEF EncoderEnds, Ends, SessionType
  <1>7. ASSUME NEW c \in Callers, DecodeAnswer(s, c)
        PROVE  /\ \A r \in Sessions : Aged(session[r], session'[r])
               /\ UNCHANGED <<config, connected, lock, caller, updater>>
    BY <1>1, <1>7 DEF DecodeAnswer, Ends, Told, SessionType
  <1>8. CASE DecodeFails(s)
    BY <1>1, <1>8 DEF DecodeFails, Ends, Told, SessionType
  <1> QED
    BY <1>2, <1>3, <1>4, <1>5, <1>6, <1>7, <1>8

\* The invariant survives every step in which the sessions only age.
LEMMA AgeingIsSafe ==
  ASSUME Typed, Safe, \A r \in Sessions : Aged(session[r], session'[r]),
         UNCHANGED <<config, connected, lock, caller, updater>>
  PROVE  Safe'
  <1>1. connected # None => connected \in Sessions
    BY BoundsAssumption DEF Typed, None, Sessions
  <1>2. HoldersHoldLock'
    BY DEF Safe, HoldersHoldLock, Opening
  <1>3. OpenersFoundNone'
    BY <1>1 DEF Safe, OpenersFoundNone, Opening, Ended, Aged
  <1>4. NoSessionLeaks'
    BY DEF Safe, NoSessionLeaks, Aged
  <1>5. StaleSessionIsDoomed'
    BY <1>1 DEF Safe, StaleSessionIsDoomed, Aged
  <1> QED
    BY <1>2, <1>3, <1>4, <1>5 DEF Safe

LEMMA CallersSafe ==
  ASSUME Typed, Safe, NEW c \in Callers,
         Connect(c) \/ TcpConnects(c) \/ HandshakeFails(c) \/ Open(c) \/ Send(c) \/ Receive(c)
  PROVE  Safe'
  <1>1. /\ caller \in [Callers -> CallerType] /\ session \in [Sessions -> SessionType]
        /\ updater \in [Updaters -> [at : {"idle", "take", "join"}, session : 0..MaxSessions]]
        /\ Callers \cap Updaters = {} /\ Nobody \notin Callers \cup Updaters
    BY ThreadsAssumption DEF Typed
  <1>2. CASE Connect(c)
    <2>1. session' = session /\ connected' = connected /\ config' = config /\ updater' = updater
      BY <1>2 DEF Connect
    <2>2. HoldersHoldLock'
      BY <1>1, <1>2 DEF Connect, Goes, Safe, HoldersHoldLock, Opening, CallerType
    <2>3. OpenersFoundNone'
      BY <1>1, <1>2 DEF Connect, Goes, IsConnected, HasTerminated, Safe, OpenersFoundNone,
                        Opening, Ended, CallerType
    <2> QED
      BY <2>1, <2>2, <2>3 DEF Safe, NoSessionLeaks, StaleSessionIsDoomed
  <1>3. CASE TcpConnects(c) \/ HandshakeFails(c) \/ Receive(c)
    <2>1. session' = session /\ connected' = connected /\ config' = config /\ updater' = updater
      BY <1>3 DEF TcpConnects, HandshakeFails, Receive
    <2>2. HoldersHoldLock'
      BY <1>1, <1>3 DEF TcpConnects, HandshakeFails, Receive, Goes, Safe, HoldersHoldLock,
                        Opening, CallerType
    <2>3. OpenersFoundNone'
      BY <1>1, <1>3, <2>1 DEF TcpConnects, HandshakeFails, Receive, Goes, Safe,
                        OpenersFoundNone, Opening, Ended, CallerType
    <2> QED
      BY <2>1, <2>2, <2>3 DEF Safe, NoSessionLeaks, StaleSessionIsDoomed
  <1>4. CASE Open(c)
    <2>1. PICK s \in Sessions :
            /\ session[s] = Unused
            /\ session' = [session EXCEPT ![s] =
                 [Unused EXCEPT !.config = config, !.dispatcher = "running",
                                !.decoder = "running", !.encoder = "running"]]
            /\ connected' = s /\ Goes(c, "send", s)
      BY <1>4 DEF Open
    <2>2. Opening(c) /\ lock = c /\ Ended(connected) /\ lock' = Nobody
      BY <1>4 DEF Open, Opening, Safe, HoldersHoldLock, OpenersFoundNone
    <2>3. UNCHANGED <<config, updater>>
      BY <1>4 DEF Open
    <2>4. \A d \in Callers : ~Opening(d)'
      BY <1>1, <2>1, <2>2 DEF Goes, Opening, CallerType, Safe, HoldersHoldLock
    <2>5. \A u \in Updaters : updater[u].at # "join"
      BY <1>1, <2>2 DEF Safe, HoldersHoldLock
    <2>6. \A r \in Sessions : session[r].dispatcher # "running"
      <3>1. \A r \in Sessions, v \in Updaters : updater[v] # [at |-> "join", session |-> r]
        BY <2>5
      <3>2. \A r \in Sessions : session[r].dispatcher = "running" => r = connected
        BY <3>1 DEF Safe, NoSessionLeaks
      <3>3. \A r \in Sessions : r # None
        BY BoundsAssumption DEF Sessions, None
      <3> QED
        BY <2>2, <3>2, <3>3 DEF Ended
    <2>7. /\ session'[s].config = config
          /\ \A r \in Sessions : r # s => session'[r] = session[r]
      BY <1>1, <2>1 DEF Unused
    <2> QED
      BY <2>1, <2>3, <2>4, <2>5, <2>6, <2>7
      DEF Safe, HoldersHoldLock, OpenersFoundNone, NoSessionLeaks, StaleSessionIsDoomed
  <1>5. CASE Send(c)
    <2>1. UNCHANGED <<config, connected, lock, updater>>
      BY <1>5 DEF Send
    <2>2. \A r \in Sessions : Aged(session[r], session'[r])
      BY <1>5, ToldAges DEF Send, Aged
    <2>3. \A d \in Callers : Opening(d)' => Opening(d)
      BY <1>1, <1>5 DEF Send, Goes, Opening, CallerType
    <2>4. connected # None => connected \in Sessions
      BY BoundsAssumption DEF Typed, None, Sessions
    <2>5. HoldersHoldLock'
      BY <2>1, <2>3 DEF Safe, HoldersHoldLock
    <2>6. OpenersFoundNone'
      BY <2>1, <2>2, <2>3, <2>4 DEF Safe, OpenersFoundNone, Ended, Aged
    <2>7. NoSessionLeaks'
      BY <2>1, <2>2 DEF Safe, NoSessionLeaks, Aged
    <2>8. StaleSessionIsDoomed'
      BY <2>1, <2>2, <2>4 DEF Safe, StaleSessionIsDoomed, Aged
    <2> QED
      BY <2>5, <2>6, <2>7, <2>8 DEF Safe
  <1> QED
    BY <1>2, <1>3, <1>4, <1>5

LEMMA UpdatersSafe ==
  ASSUME Typed, Safe, NEW u \in Updaters,
         ReplaceConfig(u) \/ BeginShutdown(u) \/ Take(u) \/ Join(u)
  PROVE  Safe'
  <1>1. /\ caller \in [Callers -> CallerType] /\ session \in [Sessions -> SessionType]
        /\ updater \in [Updaters -> [at : {"idle", "take", "join"}, session : 0..MaxSessions]]
        /\ Callers \cap Updaters = {} /\ Nobody \notin Callers \cup Updaters
    BY ThreadsAssumption DEF Typed
  <1>2. CASE ReplaceConfig(u) \/ BeginShutdown(u)
    <2>1. UNCHANGED <<connected, lock, session, caller>>
      BY <1>2 DEF ReplaceConfig, BeginShutdown
    <2>2. updater' = [updater EXCEPT ![u].at = "take"] /\ updater[u].at = "idle"
      BY <1>2 DEF ReplaceConfig, BeginShutdown
    <2>3. updater'[u].at = "take" /\ \A v \in Updaters : v # u => updater'[v] = updater[v]
      BY <1>1, <2>2
    <2>4. HoldersHoldLock' /\ OpenersFoundNone'
      BY <2>1, <2>3 DEF Safe, HoldersHoldLock, OpenersFoundNone, Opening, Ended
    <2>5. NoSessionLeaks'
      <3>1. \A v \in Updaters, s \in Sessions :
              updater[v] = [at |-> "join", session |-> s] => updater'[v] = updater[v]
        BY <2>2, <2>3
      <3> QED
        BY <2>1, <3>1 DEF Safe, NoSessionLeaks
    <2>6. StaleSessionIsDoomed'
      BY <2>3 DEF StaleSessionIsDoomed
    <2> QED
      BY <2>4, <2>5, <2>6 DEF Safe
  <1>3. CASE Take(u)
    <2>1. /\ lock = Nobody /\ connected' = None /\ UNCHANGED <<config, caller>>
          /\ \A c \in Callers : ~Opening(c)
          /\ \A v \in Updaters : updater[v].at # "join"
      BY <1>1, <1>3 DEF Take, Safe, HoldersHoldLock
    <2>2. StaleSessionIsDoomed'
      BY <2>1 DEF StaleSessionIsDoomed
    <2>3. HoldersHoldLock' /\ OpenersFoundNone'
      <3>1. \A v \in Updaters : updater'[v].at = "join" => v = u /\ lock' = u
        BY <1>1, <1>3, <2>1 DEF Take
      <3> QED
        BY <2>1, <3>1 DEF HoldersHoldLock, OpenersFoundNone, Opening
    <2>4. NoSessionLeaks'
      <3>1. \A s \in Sessions : session[s].dispatcher = "running" => s = connected
        <4>1. \A s \in Sessions, v \in Updaters : updater[v] # [at |-> "join", session |-> s]
          BY <2>1
        <4> QED
          BY <4>1 DEF Safe, NoSessionLeaks
      <3>2. CASE connected = None
        BY <1>3, <3>1, <3>2 DEF Take, NoSessionLeaks, Sessions, None
      <3>3. CASE connected # None
        <4>1. session' = Told(connected, Shutdown)
              /\ updater' = [updater EXCEPT ![u] = [at |-> "join", session |-> connected]]
          BY <1>3, <3>3 DEF Take
        <4>2. \A r \in Sessions : Aged(session[r], session'[r])
          BY <4>1, ToldAges
        <4>3. updater'[u] = [at |-> "join", session |-> connected]
          BY <1>1, <4>1
        <4> QED
          BY <3>1, <4>2, <4>3 DEF NoSessionLeaks, Aged
      <3> QED
        BY <3>2, <3>3
    <2> QED
      BY <2>2, <2>3, <2>4 DEF Safe
  <1>4. CASE Join(u)
    <2>1. UNCHANGED <<config, connected, session, caller>> /\ updater[u].at = "join"
      BY <1>4 DEF Join
    <2>2. lock = u /\ \A c \in Callers : ~Opening(c)
      BY <1>1, <2>1 DEF Safe, HoldersHoldLock
    <2>3. updater'[u].at = "idle" /\ \A v \in Updaters : v # u => updater'[v] = updater[v]
      BY <1>1, <1>4 DEF Join
    <2>4. HoldersHoldLock' /\ OpenersFoundNone'
      BY <1>1, <2>1, <2>2, <2>3 DEF Safe, HoldersHoldLock, OpenersFoundNone, Opening
    <2>5. NoSessionLeaks'
      <3>1. session[updater[u].session].dispatcher # "running"
        BY <1>4 DEF Join
      <3>2. \A v \in Updaters, s \in Sessions :
              updater[v] = [at |-> "join", session |-> s] /\ session[s].dispatcher = "running"
                => v # u
        BY <3>1
      <3> QED
        BY <2>1, <2>3, <3>2, ZenonT(40) DEF Safe, NoSessionLeaks
    <2>6. StaleSessionIsDoomed'
      BY <2>1, <2>3 DEF Safe, StaleSessionIsDoomed
    <2> QED
      BY <2>4, <2>5, <2>6 DEF Safe
  <1> QED
    BY <1>2, <1>3, <1>4

LEMMA InitSafe == Init => Safe
  BY DEF Init, Safe, HoldersHoldLock, OpenersFoundNone, NoSessionLeaks, StaleSessionIsDoomed,
         Opening, Unused

LEMMA NextSafe == Typed /\ Safe /\ [Next]_vars => Safe'
  <1>1. ASSUME Typed, Safe, UNCHANGED vars PROVE Safe'
    <2>1. \A r \in Sessions : Aged(session[r], session'[r])
      BY <1>1 DEF vars, Aged
    <2> QED
      BY <1>1, <2>1, AgeingIsSafe DEF vars
  <1>2. ASSUME Typed, Safe, NEW s \in Sessions,
               \/ Dispatch(s) \/ StoreTerminated(s)
               \/ Encode(s) \/ EncodeFails(s) \/ EncoderEnds(s)
               \/ (\E c \in Callers : DecodeAnswer(s, c)) \/ DecodeFails(s)
        PROVE  Safe'
    BY <1>2, WorkerAges, AgeingIsSafe
  <1> QED
    BY <1>1, <1>2, CallersSafe, UpdatersSafe DEF Next

LEMMA AlwaysSafe == Spec => []Safe
  <1>1. Init => Typed /\ Safe
    BY InitTyped, InitSafe
  <1>2. (Typed /\ Safe) /\ [Next]_vars => (Typed /\ Safe)'
    BY NextTyped, NextSafe
  <1> QED
    BY <1>1, <1>2, PTL DEF Spec

\* However many threads ask for a session, replace its configuration and shut it
\* down, no worker runs that the service does not know of: one that is not in
\* SessionService.connected is being joined.
THEOREM NoSessionIsLeaked == Spec => []NoSessionLeaks
  <1>1. Safe => NoSessionLeaks
    BY DEF Safe
  <1> QED
    BY <1>1, AlwaysSafe, PTL

\* Nobody goes on with a session of an earlier configuration: an updater is about
\* to take it.
THEOREM StaleSessionsAreDoomed == Spec => []StaleSessionIsDoomed
  <1>1. Safe => StaleSessionIsDoomed
    BY DEF Safe
  <1> QED
    BY <1>1, AlwaysSafe, PTL
-----------------------------------------------------------------------------
(***************************************************************************)
(* InStep, of Connect: for any access points, proxies and number of        *)
(* messages.  While the network has damaged nothing, what is on its way in *)
(* one direction are the frames from the one that the decoder expects to   *)
(* the last that was encoded, and both ends have the keys of one handshake.*)
(***************************************************************************)
OurKeys ==
  C!ComputeKeys(C!Secret("gc", "gs"), C!Hello("gc"), C!Answer("answer", "gs"))
TheirKeys == [send |-> OurKeys.recv, recv |-> OurKeys.send]

Commands == {"LOGIN", "MERCURY_REQ", "AP_WELCOME", "AUTH_FAILURE", "PING"}
Frames(key) == [cmd : Commands, key : {key}, nonce : Nat, whole : {TRUE}]

\* The frames numbered from first up to, but without, next.
RunOf(link, key, first, next) ==
  /\ link \in Seq(Frames(key)) /\ first + Len(link) = next
  /\ \A i \in 1..Len(link) : link[i].nonce = first + i - 1

CodecType ==
  [keys : {C!NoKeys, OurKeys, TheirKeys},
   sent : Nat, nonce : Nat, got : Nat, mac : {"good"}]

ConnectShape ==
  /\ opener = [at |-> opener.at, left |-> opener.left, proxy |-> opener.proxy]
  /\ stream = [up |-> stream.up, down |-> stream.down]
  /\ ap = [codec |-> ap.codec, at |-> ap.at]
  /\ ours \in CodecType /\ ap.codec \in CodecType

\* How far open() has come says what its codec has done.
OursKept ==
  /\ opener.at \in {"resolve", "dial", "hello", "answer", "stuck"} => ours = C!Codec
  /\ opener.at \in {"respond", "login"} => ours = [C!Codec EXCEPT !.keys = OurKeys]
  /\ opener.at \in {"welcome", "open"} => ours.keys = OurKeys

\* What is on its way to an access point that still listens.
UpKept ==
  /\ opener.at \in {"resolve", "dial"} => ap.at = "none"
  /\ ap.at = "none" =>
       /\ opener.at \in {"resolve", "dial", "stuck", "error"}
       /\ stream = C!NoStream /\ ap.codec = C!Codec
  /\ ap.at = "accepted" =>
       /\ ap.codec = C!Codec /\ stream.down = <<>>
       /\ \/ opener.at = "hello" /\ stream.up = <<>>
          \/ opener.at = "answer" /\ stream.up = <<C!Hello("gc")>>
  /\ ap.at = "challenged" =>
       /\ ap.codec = [C!Codec EXCEPT !.keys = TheirKeys]
       /\ \/ /\ opener.at = "answer" /\ stream.up = <<>>
             /\ stream.down = <<C!Answer("answer", "gs")>>
          \/ opener.at = "respond" /\ stream.up = <<>>
          \/ opener.at = "login" /\ \E response : stream.up = <<response>>
          \/ opener.at = "welcome" /\ \E response, login :
               /\ stream.up = <<response, login>>
               /\ RunOf(<<login>>, OurKeys.send, 0, ours.sent)
  /\ ap.at = "secured" =>
       /\ ap.codec.keys = TheirKeys /\ ap.codec.got = ap.codec.nonce
       /\ opener.at \in {"login", "welcome", "open", "error", "panicked"}
       /\ RunOf(stream.up, OurKeys.send, ap.codec.nonce, ours.sent)

\* What is on its way from the access point, while open() or its session reads it.
DownKept ==
  /\ opener.at \in {"hello", "respond", "login"} =>
       stream.down = <<>> /\ ap.codec.sent = 0
  /\ opener.at = "answer" =>
       /\ stream.down \in
            {<<>>, <<C!Answer("answer", "gs")>>, <<C!Answer("refusal", "none")>>}
       /\ ap.codec.sent = 0
  /\ opener.at \in {"welcome", "open"} =>
       RunOf(stream.down, OurKeys.recv, ours.nonce, ap.codec.sent)

Agree == ConnectShape /\ OursKept /\ UpKept /\ DownKept
AgreeUndamaged == faults \in Nat /\ (faults = 0 => Agree)

LEMMA RunAppend ==
  ASSUME NEW link, NEW key, NEW first, NEW next, NEW cmd,
         first \in Nat, next \in Nat, cmd \in Commands, RunOf(link, key, first, next)
  PROVE  RunOf(Append(link, [cmd |-> cmd, key |-> key, nonce |-> next, whole |-> TRUE]),
               key, first, next + 1)
  <1> DEFINE frame == [cmd |-> cmd, key |-> key, nonce |-> next, whole |-> TRUE]
             longer == Append(link, frame)
  <1>1. frame \in Frames(key) /\ frame.nonce = next
    BY DEF Frames
  <1>2. link \in Seq(Frames(key)) /\ first + Len(link) = next /\ Len(link) \in Nat
        /\ \A i \in 1..Len(link) : link[i].nonce = first + i - 1
    BY DEF RunOf
  <1> HIDE DEF frame
  <1>3. longer \in Seq(Frames(key)) /\ Len(longer) = Len(link) + 1
        /\ (\A i \in 1..Len(link) : longer[i] = link[i]) /\ longer[Len(link) + 1] = frame
    BY <1>1, <1>2
  <1> HIDE DEF longer
  <1>4. ASSUME NEW i \in 1..Len(longer) PROVE longer[i].nonce = first + i - 1
    <2>1. CASE i \in 1..Len(link)
      BY <1>2, <1>3, <2>1
    <2>2. CASE i = Len(link) + 1
      BY <1>1, <1>2, <1>3, <2>2
    <2> QED
      BY <1>2, <1>3, <2>1, <2>2
  <1>5. RunOf(longer, key, first, next + 1)
    BY <1>2, <1>3, <1>4 DEF RunOf
  <1> QED
    BY <1>5 DEF longer, frame

LEMMA RunTail ==
  ASSUME NEW link, NEW key, NEW first, NEW next,
         first \in Nat, next \in Nat, RunOf(link, key, first, next), link # <<>>
  PROVE  RunOf(Tail(link), key, first + 1, next)
  <1>1. link \in Seq(Frames(key)) /\ first + Len(link) = next /\ Len(link) \in Nat \ {0}
        /\ \A i \in 1..Len(link) : link[i].nonce = first + i - 1
    BY DEF RunOf
  <1>2. Tail(link) \in Seq(Frames(key)) /\ Len(Tail(link)) = Len(link) - 1
        /\ \A i \in 1..Len(Tail(link)) : Tail(link)[i] = link[i + 1]
    BY <1>1
  <1>3. \A i \in 1..Len(Tail(link)) : Tail(link)[i].nonce = first + 1 + i - 1
    BY <1>1, <1>2
  <1> QED
    BY <1>1, <1>2, <1>3 DEF RunOf

LEMMA RunHead ==
  ASSUME NEW link, NEW key, NEW first, NEW next,
         first \in Nat, next \in Nat, RunOf(link, key, first, next), link # <<>>
  PROVE  Head(link) \in Frames(key) /\ Head(link).nonce = first
  <1>1. link \in Seq(Frames(key)) /\ Len(link) \in Nat \ {0}
        /\ \A i \in 1..Len(link) : link[i].nonce = first + i - 1
    BY DEF RunOf
  <1>2. Head(link) = link[1] /\ link[1] \in Frames(key) /\ link[1].nonce = first
    BY <1>1
  <1> QED
    BY <1>2

LEMMA RunForward ==
  ASSUME NEW link, NEW key, NEW first, NEW next,
         first \in Nat, next \in Nat, RunOf(link, key, first, next)
  PROVE  first <= next /\ (link # <<>> => first < next)
  BY DEF RunOf

LEMMA RunEmpty ==
  ASSUME NEW key, NEW next, next \in Nat
  PROVE  RunOf(<<>>, key, next, next)
  BY DEF RunOf

\* What the decoder expects it decodes.
LEMMA DecodesTheNext ==
  ASSUME NEW codec \in CodecType, NEW frame,
         frame.whole, frame.key = codec.keys.recv, frame.nonce = codec.nonce
  PROVE  /\ C!Decoded(codec, frame) \in CodecType
         /\ C!Decoded(codec, frame) =
              [codec EXCEPT !.nonce = codec.nonce + 1, !.got = codec.got + 1]
  <1>1. C!Decoded(codec, frame) =
          [codec EXCEPT !.nonce = codec.nonce + 1, !.got = codec.got + 1]
    BY DEF C!Decoded, CodecType
  <1>2. /\ codec = [keys |-> codec.keys, sent |-> codec.sent, nonce |-> codec.nonce,
                   got |-> codec.got, mac |-> codec.mac]
        /\ codec.nonce + 1 \in Nat /\ codec.got + 1 \in Nat
    BY DEF CodecType
  <1>3. [codec EXCEPT !.nonce = codec.nonce + 1, !.got = codec.got + 1] \in CodecType
    BY <1>2 DEF CodecType
  <1> QED
    BY <1>1, <1>3

\* Both ends derive the same keys, each for the other's direction.
LEMMA KeysMatch ==
  /\ C!ComputeKeys(C!Secret("gc", C!Answer("answer", "gs").key), C!Hello("gc"),
                   C!Answer("answer", "gs")) = OurKeys
  /\ C!Hello("gc").key = "gc"
  /\ [send |-> <<OurKeys.send[1], OurKeys.send[2], OurKeys.send[3], "52..84">>,
      recv |-> <<OurKeys.send[1], OurKeys.send[2], OurKeys.send[3], "20..52">>] = TheirKeys
  /\ TheirKeys.recv = OurKeys.send /\ TheirKeys.send = OurKeys.recv
  BY DEF OurKeys, TheirKeys, C!ComputeKeys, C!Secret, C!Hello, C!Answer

\* What a codec has after it has decoded the next frame.
LEMMA DecodesOn ==
  ASSUME NEW codec \in CodecType, NEW frame,
         frame.whole, frame.key = codec.keys.recv, frame.nonce = codec.nonce,
         NEW read, read = C!Decoded(codec, frame)
  PROVE  /\ read \in CodecType /\ read.mac = "good" /\ read.keys = codec.keys
         /\ read.nonce = codec.nonce + 1 /\ read.got = codec.got + 1
         /\ read.sent = codec.sent
  <1>1. codec.nonce \in Nat /\ codec.got \in Nat /\ codec.mac = "good"
        /\ codec = [keys |-> codec.keys, sent |-> codec.sent, nonce |-> codec.nonce,
                    got |-> codec.got, mac |-> codec.mac]
    BY DEF CodecType
  <1>2. read \in CodecType
        /\ read = [codec EXCEPT !.nonce = codec.nonce + 1, !.got = codec.got + 1]
    BY DecodesTheNext
  <1> QED
    BY <1>1, <1>2

\* What a codec has after it has encoded a message.
LEMMA EncodesOn ==
  ASSUME NEW codec \in CodecType, NEW cmd
  PROVE  /\ C!Encoded(codec, cmd).codec \in CodecType
         /\ C!Encoded(codec, cmd).codec.keys = codec.keys
         /\ C!Encoded(codec, cmd).codec.sent = codec.sent + 1
         /\ C!Encoded(codec, cmd).codec.nonce = codec.nonce
         /\ C!Encoded(codec, cmd).codec.got = codec.got
         /\ C!Encoded(codec, cmd).frame =
              [cmd |-> cmd, key |-> codec.keys.send, nonce |-> codec.sent, whole |-> TRUE]
  BY DEF CodecType, C!Encoded

\* What it encodes is the next frame.
LEMMA EncodesTheNext ==
  ASSUME NEW codec \in CodecType, NEW cmd, cmd \in Commands,
         NEW link, NEW first, first \in Nat,
         RunOf(link, codec.keys.send, first, codec.sent)
  PROVE  RunOf(Append(link, C!Encoded(codec, cmd).frame), codec.keys.send, first,
               codec.sent + 1)
  <1>1. codec.sent \in Nat
    BY DEF CodecType
  <1>2. RunOf(Append(link, [cmd |-> cmd, key |-> codec.keys.send,
                            nonce |-> codec.sent, whole |-> TRUE]),
              codec.keys.send, first, codec.sent + 1)
    BY <1>1, RunAppend
  <1> QED
    BY <1>2, EncodesOn

LEMMA FirstCodec ==
  /\ C!Codec \in CodecType /\ C!Codec.mac = "good" /\ C!Codec.sent = 0
  /\ [C!Codec EXCEPT !.keys = OurKeys] \in CodecType
  /\ [C!Codec EXCEPT !.keys = OurKeys].sent = 0
  /\ [C!Codec EXCEPT !.keys = TheirKeys] \in CodecType
  /\ [C!Codec EXCEPT !.keys = TheirKeys].sent = 0
  BY DEF C!Codec, CodecType

LEMMA AgreeInit == C!Init => AgreeUndamaged
  <1> SUFFICES ASSUME C!Init PROVE AgreeUndamaged
    OBVIOUS
  <1> USE DEF C!Init
  <1>1. ConnectShape
    BY FirstCodec DEF ConnectShape, C!NoStream
  <1>2. OursKept /\ UpKept /\ DownKept
    BY DEF OursKept, UpKept, DownKept
  <1> QED
    BY <1>1, <1>2 DEF AgreeUndamaged, Agree

\* open() up to a stream: nothing is sent yet.
LEMMA DialsAgree ==
  ASSUME Agree,
         C!ResolveApWithFallback \/ C!Unreachable \/ C!Reached
           \/ C!ProxyIsSilent \/ C!NoneReached
  PROVE  Agree'
  <1>1. /\ opener.at \in {"resolve", "dial"} /\ ap.at = "none" /\ ours = C!Codec
        /\ stream = C!NoStream /\ ap.codec = C!Codec
    BY DEF Agree, OursKept, UpKept, C!ResolveApWithFallback, C!Unreachable,
           C!Reached, C!ProxyIsSilent, C!NoneReached
  <1>2. CASE C!Reached
    <2>1. /\ opener'.at = "hello" /\ ap'.at = "accepted" /\ ap'.codec = C!Codec
          /\ UNCHANGED <<stream, ours>>
          /\ opener' = [at |-> opener'.at, left |-> opener'.left, proxy |-> opener'.proxy]
          /\ ap' = [codec |-> ap'.codec, at |-> ap'.at]
      BY <1>2 DEF C!Reached, C!Opens, Agree, ConnectShape
    <2>2. ConnectShape'
      BY <2>1, <1>1, FirstCodec DEF Agree, ConnectShape
    <2>3. OursKept' /\ UpKept' /\ DownKept'
      BY <2>1, <1>1, FirstCodec DEF OursKept, UpKept, DownKept, C!NoStream
    <2> QED
      BY <2>2, <2>3 DEF Agree
  <1>3. CASE C!ResolveApWithFallback \/ C!Unreachable \/ C!ProxyIsSilent \/ C!NoneReached
    <2>1. /\ opener'.at \in {"dial", "stuck", "error"} /\ UNCHANGED <<stream, ours, ap>>
          /\ opener' = [at |-> opener'.at, left |-> opener'.left, proxy |-> opener'.proxy]
      BY <1>3 DEF C!ResolveApWithFallback, C!Unreachable, C!ProxyIsSilent, C!NoneReached,
                  C!Opens, Agree, ConnectShape
    <2>2. ConnectShape'
      BY <2>1, <1>1, FirstCodec DEF Agree, ConnectShape
    <2>3. OursKept' /\ UpKept' /\ DownKept'
      BY <2>1, <1>1, FirstCodec DEF OursKept, UpKept, DownKept, C!NoStream
    <2> QED
      BY <2>2, <2>3 DEF Agree
  <1> QED
    BY <1>2, <1>3

LEMMA SendHelloAgrees ==
  ASSUME Agree, C!SendHello
  PROVE  Agree'
  <1> USE DEF C!SendHello, C!Opens
  <1>1. ConnectShape'
    BY DEF Agree, ConnectShape
  <1>2. OursKept'
    BY DEF Agree, ConnectShape, OursKept
  <1>3. UpKept'
    BY DEF Agree, ConnectShape, UpKept
  <1>4. DownKept'
    BY DEF Agree, ConnectShape, DownKept
  <1> QED
    BY <1>1, <1>2, <1>3, <1>4 DEF Agree

LEMMA ReadAnswerAgrees ==
  ASSUME Agree, C!ReadAnswer
  PROVE  Agree'
  <1> DEFINE answer == C!Answer("answer", "gs")
             refusal == C!Answer("refusal", "none")
  <1>1. /\ opener.at = "answer" /\ ours = C!Codec /\ ap.codec.sent = 0
        /\ stream.down \in {<<>>, <<answer>>, <<refusal>>}
        /\ UNCHANGED <<ap, faults>>
    BY DEF C!ReadAnswer, Agree, OursKept, DownKept
  <1>2. /\ answer.kind = "answer" /\ answer.whole
        /\ refusal.kind = "refusal" /\ refusal.whole
    BY DEF C!Answer
  <1> HIDE DEF answer, refusal
  <1>3. \/ /\ stream.down = <<answer>> /\ opener'.at = "respond"
           /\ ours' = [C!Codec EXCEPT !.keys = OurKeys] /\ stream'.down = <<>>
        \/ /\ stream.down # <<answer>> /\ opener'.at \in {"error", "panicked"}
           /\ UNCHANGED ours
    <2>1. CASE stream.down = <<>>
      BY <1>1, <1>2, <2>1 DEF C!ReadAnswer, C!Opens, Agree, ConnectShape
    <2>2. CASE stream.down = <<refusal>>
      <3>1. Head(stream.down) = refusal /\ <<refusal>> # <<answer>> /\ <<refusal>> # <<>>
        BY <1>2, <2>2
      <3> QED
        BY <1>1, <1>2, <2>2, <3>1 DEF C!ReadAnswer, C!Opens, Agree, ConnectShape
    <2>3. CASE stream.down = <<answer>>
      <3>1. Head(stream.down) = answer /\ Tail(stream.down) = <<>> /\ <<answer>> # <<>>
        BY <2>3
      <3>2. C!ComputeKeys(C!Secret("gc", answer.key), C!Hello("gc"), answer) = OurKeys
        BY KeysMatch DEF answer
      <3> QED
        BY <1>1, <1>2, <2>3, <3>1, <3>2 DEF C!ReadAnswer, C!Opens, Agree, ConnectShape
    <2> QED
      BY <1>1, <2>1, <2>2, <2>3
  <1>4. /\ opener' = [at |-> opener'.at, left |-> opener'.left, proxy |-> opener'.proxy]
        /\ stream' = [up |-> stream'.up, down |-> stream'.down] /\ stream'.up = stream.up
    BY DEF C!ReadAnswer, C!Opens, Agree, ConnectShape
  <1>5. ConnectShape'
    BY <1>1, <1>3, <1>4, FirstCodec DEF Agree, ConnectShape
  <1>6. OursKept'
    BY <1>1, <1>3 DEF OursKept
  <1>7. ap.at = "accepted" => stream.down = <<>>
    BY DEF Agree, UpKept
  <1>8. UpKept'
    <2>1. CASE stream.down = <<answer>> /\ opener'.at = "respond"
      <3>1. ap.at \notin {"none", "accepted", "secured"}
        BY <1>1, <1>2, <2>1 DEF Agree, UpKept
      <3>2. ap.at = "challenged" =>
              stream.up = <<>> /\ ap.codec = [C!Codec EXCEPT !.keys = TheirKeys]
        BY <1>1 DEF Agree, UpKept
      <3> QED
        BY <1>1, <1>4, <2>1, <3>1, <3>2 DEF UpKept
    <2>2. CASE stream.down # <<answer>> /\ opener'.at \in {"error", "panicked"}
      <3>1. ap.at \notin {"none", "challenged", "secured"}
        BY <1>1, <2>2 DEF Agree, UpKept, answer
      <3>2. ap.at # "accepted"
        BY <1>1, <1>7, <2>2 DEF C!ReadAnswer
      <3> QED
        BY <1>1, <2>2, <3>1, <3>2 DEF UpKept
    <2> QED
      BY <1>3, <2>1, <2>2
  <1>9. DownKept'
    BY <1>1, <1>3 DEF DownKept
  <1> QED
    BY <1>5, <1>6, <1>8, <1>9 DEF Agree

LEMMA RespondAgrees ==
  ASSUME Agree, C!Respond
  PROVE  Agree'
  <1> USE DEF C!Respond, C!Opens
  <1>1. ConnectShape'
    BY DEF Agree, ConnectShape
  <1>2. OursKept'
    BY DEF Agree, ConnectShape, OursKept
  <1>3. UpKept'
    BY DEF Agree, ConnectShape, UpKept
  <1>4. DownKept'
    BY DEF Agree, ConnectShape, DownKept
  <1> QED
    BY <1>1, <1>2, <1>3, <1>4 DEF Agree

\* The other side goes away, or silent.
LEMMA LeavesAgree ==
  ASSUME Agree, C!ApCloses \/ C!ApFallsSilent
  PROVE  Agree'
  <1> USE DEF C!ApCloses, C!ApFallsSilent
  <1>1. ConnectShape'
    BY DEF Agree, ConnectShape
  <1>2. OursKept'
    BY DEF Agree, OursKept
  <1>3. UpKept'
    BY DEF Agree, ConnectShape, UpKept
  <1>4. DownKept'
    BY DEF Agree, ConnectShape, DownKept
  <1> QED
    BY <1>1, <1>2, <1>3, <1>4 DEF Agree

LEMMA SendLoginAgrees ==
  ASSUME Agree, C!SendLogin
  PROVE  Agree'
  <1>1. /\ opener.at = "login" /\ ours = [C!Codec EXCEPT !.keys = OurKeys]
        /\ stream.down = <<>> /\ ap.codec.sent = 0 /\ UNCHANGED <<ap, faults>>
        /\ opener' = [at |-> opener'.at, left |-> opener'.left, proxy |-> opener'.proxy]
    BY DEF C!SendLogin, C!Opens, Agree, ConnectShape, OursKept, DownKept
  <1>2. /\ ours.keys = OurKeys /\ ours.sent = 0 /\ ours.nonce = 0 /\ ours \in CodecType
    BY <1>1, FirstCodec DEF C!Codec
  <1>3. CASE ap.at = "closed" /\ opener'.at = "error" /\ UNCHANGED <<stream, ours>>
    <2>1. ConnectShape'
      BY <1>1, <1>3 DEF Agree, ConnectShape
    <2>2. OursKept' /\ UpKept' /\ DownKept'
      BY <1>1, <1>3 DEF OursKept, UpKept, DownKept
    <2> QED
      BY <2>1, <2>2 DEF Agree
  <1>4. CASE /\ ours' = C!Encoded(ours, "LOGIN").codec /\ opener'.at = "welcome"
             /\ stream' = [stream EXCEPT !.up = Append(@, C!Encoded(ours, "LOGIN").frame)]
    <2> DEFINE frame == C!Encoded(ours, "LOGIN").frame
    <2> HIDE DEF frame
    <2>1. /\ ours' \in CodecType /\ ours'.keys = OurKeys
          /\ ours'.sent = ours.sent + 1 /\ ours'.nonce = 0
      BY <1>2, <1>4, EncodesOn
    <2>2. /\ stream'.up = Append(stream.up, frame) /\ stream'.down = <<>>
          /\ stream' = [up |-> stream'.up, down |-> stream'.down]
      BY <1>1, <1>4 DEF Agree, ConnectShape, frame
    <2>3. RunOf(<<>>, OurKeys.send, 0, 0) /\ RunOf(<<>>, OurKeys.recv, 0, 0)
      BY RunEmpty
    <2> DEFINE message == "LOGIN"
    <2>4. message \in Commands
      BY DEF Commands
    <2> HIDE DEF message
    <2>5. ASSUME NEW link, NEW first, first \in Nat,
                 RunOf(link, ours.keys.send, first, ours.sent)
          PROVE  RunOf(Append(link, C!Encoded(ours, message).frame), ours.keys.send, first,
                       ours.sent + 1)
      BY <1>2, <2>4, <2>5, EncodesTheNext
    <2>6. RunOf(Append(<<>>, frame), OurKeys.send, 0, ours'.sent)
      <3>1. RunOf(<<>>, ours.keys.send, 0, ours.sent)
        BY <1>2, <2>3
      <3>2. RunOf(Append(<<>>, C!Encoded(ours, message).frame), ours.keys.send, 0,
                       ours.sent + 1)
        BY <2>5, <3>1
      <3> QED
        BY <1>2, <2>1, <3>2 DEF frame, message
    <2>7. ap.at = "challenged" =>
            \E response, login : /\ stream'.up = <<response, login>>
                                 /\ RunOf(<<login>>, OurKeys.send, 0, ours'.sent)
      <3>1. ap.at = "challenged" => \E response : stream.up = <<response>>
        BY <1>1 DEF Agree, UpKept
      <3>2. Append(<<>>, frame) = <<frame>>
        OBVIOUS
      <3>3. ASSUME NEW response PROVE Append(<<response>>, frame) = <<response, frame>>
        <4> DEFINE packets == {response, frame}
                   both == Append(<<response>>, frame)
        <4>1. <<response>> \in Seq(packets) /\ <<response, frame>> \in Seq(packets)
          OBVIOUS
        <4>2. both \in Seq(packets) /\ Len(both) = 2 /\ both[1] = response /\ both[2] = frame
          BY <4>1
        <4> HIDE DEF packets, both
        <4>3. Len(<<response, frame>>) = 2 /\ <<response, frame>>[1] = response
              /\ <<response, frame>>[2] = frame
          OBVIOUS
        <4>4. \A i \in 1..2 : i = 1 \/ i = 2
          OBVIOUS
        <4>5. both = <<response, frame>>
          BY <4>1, <4>2, <4>3, <4>4, SeqEqual
        <4> QED
          BY <4>5 DEF both
      <3> QED
        BY <2>2, <2>6, <3>1, <3>2, <3>3
    <2>8. ap.at = "secured" => RunOf(stream'.up, OurKeys.send, ap.codec.nonce, ours'.sent)
      <3>1. ap.at = "secured" =>
              RunOf(stream.up, OurKeys.send, ap.codec.nonce, ours.sent)
        BY DEF Agree, UpKept
      <3>2. ap.codec.nonce \in Nat
        BY DEF Agree, ConnectShape, CodecType
      <3> QED
        BY <1>2, <2>1, <2>2, <2>5, <3>1, <3>2 DEF frame, message
    <2>9. ConnectShape'
      BY <1>1, <2>1, <2>2 DEF Agree, ConnectShape
    <2>10. OursKept' /\ DownKept'
      BY <1>1, <1>4, <2>1, <2>2, <2>3 DEF OursKept, DownKept
    <2>11. UpKept'
      <3>1. ap.at \notin {"none", "accepted"}
        BY <1>1 DEF Agree, UpKept
      <3> QED
        BY <1>1, <1>4, <2>1, <2>7, <2>8, <3>1 DEF Agree, UpKept
    <2> QED
      BY <2>9, <2>10, <2>11 DEF Agree
  <1> QED
    BY <1>3, <1>4 DEF C!SendLogin, C!Opens, Agree, ConnectShape

\* The session reads the next frame.
LEMMA ReadsTheNext ==
  ASSUME Agree, opener.at \in {"welcome", "open"}, stream.down # <<>>,
         ours' = C!Decoded(ours, Head(stream.down))
  PROVE  /\ ours' \in CodecType /\ ours'.keys = OurKeys /\ ours'.sent = ours.sent
         /\ RunOf(Tail(stream.down), OurKeys.recv, ours'.nonce, ap.codec.sent)
  <1>1. /\ ours \in CodecType /\ ours.keys = OurKeys
        /\ ours.nonce \in Nat /\ ap.codec.sent \in Nat
        /\ RunOf(stream.down, OurKeys.recv, ours.nonce, ap.codec.sent)
    BY DEF Agree, ConnectShape, CodecType, OursKept, DownKept
  <1>2. /\ Head(stream.down).whole /\ Head(stream.down).key = OurKeys.recv
        /\ Head(stream.down).nonce = ours.nonce
    <2>1. /\ Head(stream.down) \in Frames(OurKeys.recv)
          /\ Head(stream.down).nonce = ours.nonce
      BY <1>1, RunHead
    <2> QED
      BY <2>1 DEF Frames
  <1>3. RunOf(Tail(stream.down), OurKeys.recv, ours.nonce + 1, ap.codec.sent)
    BY <1>1, RunTail
  <1>4. /\ ours' \in CodecType /\ ours'.keys = OurKeys
        /\ ours'.sent = ours.sent /\ ours'.nonce = ours.nonce + 1
    BY <1>1, <1>2, DecodesOn
  <1> QED
    BY <1>3, <1>4

LEMMA ReadWelcomeAgrees ==
  ASSUME Agree, C!ReadWelcome
  PROVE  Agree'
  <1>1. /\ opener.at = "welcome" /\ UNCHANGED <<ap, faults>> /\ stream'.up = stream.up
        /\ opener' = [at |-> opener'.at, left |-> opener'.left, proxy |-> opener'.proxy]
        /\ stream' = [up |-> stream'.up, down |-> stream'.down]
    BY DEF C!ReadWelcome, C!Opens, Agree, ConnectShape
  <1>2. /\ ours' \in CodecType /\ ours'.keys = OurKeys /\ ours'.sent = ours.sent
        /\ \/ opener'.at = "error"  /\ (ap.at = "closed" \/ stream.down # <<>>)
           \/ /\ opener'.at \in {"open", "error", "panicked"} /\ stream.down # <<>>
              /\ RunOf(stream'.down, OurKeys.recv, ours'.nonce, ap.codec.sent)
    <2>1. CASE stream.down = <<>>
      BY <1>1, <2>1 DEF C!ReadWelcome, C!Opens, Agree, ConnectShape, OursKept
    <2>2. CASE stream.down # <<>>
      <3>1. /\ ours' = C!Decoded(ours, Head(stream.down))
            /\ stream'.down = Tail(stream.down)
            /\ opener'.at \in {"open", "error", "panicked"}
        BY <1>1, <2>2 DEF C!ReadWelcome, C!Opens, Agree, ConnectShape
      <3> QED
        BY <1>1, <2>2, <3>1, ReadsTheNext
    <2> QED
      BY <2>1, <2>2
  <1>3. ap.at = "challenged" => stream.down = <<>>
    <2>1. SUFFICES ASSUME ap.at = "challenged" PROVE stream.down = <<>>
      OBVIOUS
    <2>2. RunOf(stream.down, OurKeys.recv, ours.nonce, 0) /\ ours.nonce \in Nat
      BY <1>1, <2>1, FirstCodec DEF Agree, UpKept, DownKept, ConnectShape, CodecType
    <2>3. stream.down # <<>> => ours.nonce < 0
      BY <2>2, RunForward
    <2> QED
      BY <2>2, <2>3
  <1>4. ConnectShape'
    BY <1>1, <1>2 DEF Agree, ConnectShape
  <1>5. OursKept' /\ DownKept'
    BY <1>1, <1>2 DEF OursKept, DownKept
  <1>6. UpKept'
    BY <1>1, <1>2, <1>3 DEF Agree, UpKept
  <1> QED
    BY <1>4, <1>5, <1>6 DEF Agree

LEMMA EncodeAgrees ==
  ASSUME Agree, C!Encode
  PROVE  Agree'
  <1> DEFINE cmd == "MERCURY_REQ"
  <1>1. cmd \in Commands
    BY DEF Commands
  <1>2. /\ opener.at = "open" /\ ours' = C!Encoded(ours, cmd).codec
        /\ stream' = [stream EXCEPT !.up = Append(@, C!Encoded(ours, cmd).frame)]
        /\ UNCHANGED <<opener, ap, faults>>
    BY DEF C!Encode
  <1> HIDE DEF cmd
  <1>3. /\ ours \in CodecType /\ ours.keys = OurKeys /\ ap.codec.nonce \in Nat
    BY <1>2 DEF Agree, ConnectShape, CodecType, OursKept
  <1>4. /\ ours' \in CodecType /\ ours'.keys = OurKeys
        /\ ours'.sent = ours.sent + 1 /\ ours'.nonce = ours.nonce
    BY <1>2, <1>3, EncodesOn
  <1>5. /\ stream'.up = Append(stream.up, C!Encoded(ours, cmd).frame)
        /\ stream'.down = stream.down
        /\ stream' = [up |-> stream'.up, down |-> stream'.down]
    BY <1>2 DEF Agree, ConnectShape
  <1>6. ap.at = "secured" => RunOf(stream'.up, OurKeys.send, ap.codec.nonce, ours'.sent)
    <2>1. ap.at = "secured" => RunOf(stream.up, OurKeys.send, ap.codec.nonce, ours.sent)
      BY DEF Agree, UpKept
    <2> QED
      BY <1>1, <1>3, <1>4, <1>5, <2>1, EncodesTheNext
  <1>7. ConnectShape'
    BY <1>2, <1>4, <1>5 DEF Agree, ConnectShape
  <1>8. OursKept' /\ DownKept'
    BY <1>2, <1>4, <1>5 DEF Agree, OursKept, DownKept
  <1>9. UpKept'
    <2>1. ap.at \notin {"none", "accepted", "challenged"}
      BY <1>2 DEF Agree, UpKept
    <2> QED
      BY <1>2, <1>6, <2>1 DEF Agree, UpKept
  <1> QED
    BY <1>7, <1>8, <1>9 DEF Agree

LEMMA DecodeAgrees ==
  ASSUME Agree, C!Decode
  PROVE  Agree'
  <1>1. /\ opener.at = "open" /\ stream.down # <<>>
        /\ ours' = C!Decoded(ours, Head(stream.down))
        /\ stream'.down = Tail(stream.down) /\ stream'.up = stream.up
        /\ stream' = [up |-> stream'.up, down |-> stream'.down]
        /\ UNCHANGED <<opener, ap, faults>>
    BY DEF C!Decode, Agree, ConnectShape
  <1>2. /\ ours' \in CodecType /\ ours'.keys = OurKeys /\ ours'.sent = ours.sent
        /\ RunOf(stream'.down, OurKeys.recv, ours'.nonce, ap.codec.sent)
    BY <1>1, ReadsTheNext
  <1>3. ConnectShape'
    BY <1>1, <1>2 DEF Agree, ConnectShape
  <1>4. OursKept' /\ DownKept'
    BY <1>1, <1>2 DEF Agree, OursKept, DownKept
  <1>5. UpKept'
    <2>1. ap.at \notin {"none", "accepted", "challenged"}
      BY <1>1 DEF Agree, UpKept
    <2> QED
      BY <1>1, <1>2, <2>1 DEF Agree, UpKept
  <1> QED
    BY <1>3, <1>4, <1>5 DEF Agree

\* The access point takes the hello and answers with its key, or refuses.
LEMMA ApAnswersAgree ==
  ASSUME Agree, C!ApAnswers
  PROVE  Agree'
  <1> DEFINE answer == C!Answer("answer", "gs")
             refusal == C!Answer("refusal", "none")
             hello == C!Hello("gc")
  <1>1. /\ ap.at = "accepted" /\ opener.at = "answer" /\ ap.codec = C!Codec
        /\ stream.up = <<hello>> /\ stream.down = <<>> /\ UNCHANGED <<opener, ours, faults>>
    BY DEF C!ApAnswers, Agree, UpKept
  <1>2. /\ Head(stream.up) = hello /\ Tail(stream.up) = <<>>
        /\ Append(stream.down, answer) = <<answer>>
        /\ Append(stream.down, refusal) = <<refusal>>
    BY <1>1
  <1>3. /\ stream' = [up |-> stream'.up, down |-> stream'.down] /\ stream'.up = <<>>
        /\ \/ /\ ap'.at = "challenged" /\ stream'.down = <<answer>>
              /\ ap'.codec = [C!Codec EXCEPT !.keys = TheirKeys]
           \/ /\ ap'.at = "closed" /\ stream'.down = <<refusal>>
              /\ ap'.codec = C!Codec
        /\ ap' = [codec |-> ap'.codec, at |-> ap'.at]
    <2>1. CASE /\ ap' = [ap EXCEPT !.at = "closed"]
               /\ stream' = [up |-> <<>>, down |-> <<refusal>>]
      BY <1>1, <2>1 DEF Agree, ConnectShape
    <2>2. CASE /\ ap' = [ap EXCEPT !.at = "challenged", !.codec.keys = TheirKeys]
               /\ stream' = [up |-> <<>>, down |-> <<answer>>]
      BY <1>1, <2>2 DEF Agree, ConnectShape
    <2>3. C!ComputeKeys(C!Secret(hello.key, "gs"), hello, answer) = OurKeys
      BY KeysMatch DEF OurKeys
    <2>4. \/ /\ ap' = [ap EXCEPT !.at = "challenged", !.codec.keys = TheirKeys]
             /\ stream' = [up |-> Tail(stream.up), down |-> Append(stream.down, answer)]
          \/ /\ ap' = [ap EXCEPT !.at = "closed"]
             /\ stream' = [up |-> Tail(stream.up), down |-> Append(stream.down, refusal)]
      BY <1>2, <2>3, KeysMatch, ZenonT(40) DEF C!ApAnswers
    <2> QED
      BY <1>2, <2>1, <2>2, <2>4
  <1>4. ap'.codec.sent = 0 /\ ap'.codec \in CodecType
    BY <1>3, FirstCodec
  <1>5. ConnectShape'
    BY <1>1, <1>3, <1>4 DEF Agree, ConnectShape
  <1>6. OursKept' /\ DownKept'
    BY <1>1, <1>3, <1>4 DEF Agree, OursKept, DownKept
  <1>7. UpKept'
    BY <1>1, <1>3 DEF UpKept
  <1> QED
    BY <1>5, <1>6, <1>7 DEF Agree

LEMMA ApChecksAgree ==
  ASSUME Agree, C!ApChecks
  PROVE  Agree'
  <1>1. /\ ap.at = "challenged" /\ stream.up # <<>> /\ UNCHANGED <<opener, ours, faults>>
        /\ ap'.at \in {"secured", "closed"} /\ ap'.codec = ap.codec
        /\ ap' = [codec |-> ap'.codec, at |-> ap'.at]
        /\ stream'.up = Tail(stream.up) /\ stream'.down = stream.down
        /\ stream' = [up |-> stream'.up, down |-> stream'.down]
    BY DEF C!ApChecks, Agree, ConnectShape
  <1>2. /\ ap.codec = [C!Codec EXCEPT !.keys = TheirKeys]
        /\ opener.at \in {"login", "welcome"}
    BY <1>1 DEF Agree, UpKept
  <1>3. ap.codec.keys = TheirKeys /\ ap.codec.nonce = 0 /\ ap.codec.got = 0
    BY <1>2 DEF C!Codec
  <1>4. RunOf(stream'.up, OurKeys.send, 0, ours.sent)
    <2>1. CASE opener.at = "login"
      <3>1. PICK response : stream.up = <<response>>
        BY <1>1, <2>1 DEF Agree, UpKept
      <3>2. stream'.up = <<>>
        BY <1>1, <3>1
      <3>3. ours.sent = 0
        BY <2>1, FirstCodec DEF Agree, OursKept
      <3> QED
        BY <3>2, <3>3, RunEmpty
    <2>2. CASE opener.at = "welcome"
      <3>1. PICK response, login : /\ stream.up = <<response, login>>
                                   /\ RunOf(<<login>>, OurKeys.send, 0, ours.sent)
        BY <1>1, <2>2 DEF Agree, UpKept
      <3>2. stream'.up = <<login>>
        BY <1>1, <3>1
      <3> QED
        BY <3>1, <3>2
    <2> QED
      BY <1>2, <2>1, <2>2
  <1>5. ConnectShape'
    BY <1>1 DEF Agree, ConnectShape
  <1>6. OursKept' /\ DownKept'
    BY <1>1 DEF Agree, OursKept, DownKept
  <1>7. UpKept'
    BY <1>1, <1>2, <1>3, <1>4 DEF UpKept
  <1> QED
    BY <1>5, <1>6, <1>7 DEF Agree

LEMMA ApDecodesAgrees ==
  ASSUME Agree, C!ApDecodes
  PROVE  Agree'
  <1>1. /\ ap.at = "secured" /\ stream.up # <<>> /\ UNCHANGED <<opener, ours, faults>>
        /\ ap'.codec = C!Decoded(ap.codec, Head(stream.up))
        /\ ap'.at \in {"secured", "closed"}
        /\ ap' = [codec |-> ap'.codec, at |-> ap'.at]
        /\ stream'.up = Tail(stream.up) /\ stream'.down = stream.down
        /\ stream' = [up |-> stream'.up, down |-> stream'.down]
    BY DEF C!ApDecodes, Agree, ConnectShape
  <1>2. /\ ap.codec \in CodecType /\ ap.codec.keys = TheirKeys
        /\ ap.codec.got = ap.codec.nonce /\ ap.codec.nonce \in Nat /\ ours.sent \in Nat
        /\ RunOf(stream.up, OurKeys.send, ap.codec.nonce, ours.sent)
        /\ opener.at \in {"login", "welcome", "open", "error", "panicked"}
    BY <1>1 DEF Agree, ConnectShape, CodecType, UpKept
  <1>3. Head(stream.up) \in Frames(OurKeys.send) /\ Head(stream.up).nonce = ap.codec.nonce
    BY <1>1, <1>2, RunHead
  <1>4. Head(stream.up).whole /\ Head(stream.up).key = ap.codec.keys.recv
    BY <1>2, <1>3, KeysMatch DEF Frames
  <1>5. /\ ap'.codec \in CodecType /\ ap'.codec.keys = TheirKeys
        /\ ap'.codec.nonce = ap.codec.nonce + 1 /\ ap'.codec.got = ap'.codec.nonce
        /\ ap'.codec.sent = ap.codec.sent
    BY <1>1, <1>2, <1>3, <1>4, DecodesOn
  <1>6. RunOf(stream'.up, OurKeys.send, ap'.codec.nonce, ours.sent)
    BY <1>1, <1>2, <1>5, RunTail
  <1>7. ConnectShape'
    BY <1>1, <1>5 DEF Agree, ConnectShape
  <1>8. OursKept' /\ DownKept'
    BY <1>1, <1>5 DEF Agree, OursKept, DownKept
  <1>9. UpKept'
    BY <1>1, <1>2, <1>5, <1>6 DEF UpKept
  <1> QED
    BY <1>7, <1>8, <1>9 DEF Agree

LEMMA ApEncodesAgrees ==
  ASSUME Agree, C!ApEncodes
  PROVE  Agree'
  <1>1. PICK cmd :
          /\ cmd \in {"AP_WELCOME", "AUTH_FAILURE", "PING"}
          /\ ap'.codec = C!Encoded(ap.codec, cmd).codec /\ ap'.at = ap.at
          /\ ap' = [codec |-> ap'.codec, at |-> ap'.at]
          /\ stream' = [stream EXCEPT !.down = Append(@, C!Encoded(ap.codec, cmd).frame)]
    BY ZenonT(40) DEF C!ApEncodes, Agree, ConnectShape
  <1>2. cmd \in Commands
    BY <1>1 DEF Commands
  <1>3. /\ ap.at = "secured" /\ ap.codec.got > 0 /\ UNCHANGED <<opener, ours, faults>>
    BY DEF C!ApEncodes
  <1>4. /\ ap.codec \in CodecType /\ ap.codec.keys = TheirKeys
        /\ ap.codec.got = ap.codec.nonce /\ ap.codec.nonce \in Nat
        /\ ours.sent \in Nat /\ ours.nonce \in Nat
        /\ RunOf(stream.up, OurKeys.send, ap.codec.nonce, ours.sent)
        /\ opener.at \in {"login", "welcome", "open", "error", "panicked"}
    BY <1>3 DEF Agree, ConnectShape, CodecType, UpKept
  <1>5. opener.at # "login"
    <2>1. ap.codec.nonce <= ours.sent
      BY <1>4, RunForward
    <2>2. opener.at = "login" => ours.sent = 0
      BY FirstCodec DEF Agree, OursKept
    <2> QED
      BY <1>3, <1>4, <2>1, <2>2
  <1>6. /\ ap'.codec \in CodecType /\ ap'.codec.keys = TheirKeys
        /\ ap'.codec.sent = ap.codec.sent + 1
        /\ ap'.codec.nonce = ap.codec.nonce /\ ap'.codec.got = ap.codec.got
    <2>1. ASSUME NEW codec, codec \in CodecType, NEW sent, sent = C!Encoded(codec, cmd)
          PROVE  /\ sent.codec \in CodecType /\ sent.codec.keys = codec.keys
                 /\ sent.codec.sent = codec.sent + 1
                 /\ sent.codec.nonce = codec.nonce /\ sent.codec.got = codec.got
      BY <2>1, EncodesOn
    <2> QED
      BY <1>1, <1>4, <2>1
  <1>7. /\ stream'.down = Append(stream.down, C!Encoded(ap.codec, cmd).frame)
        /\ stream'.up = stream.up
        /\ stream' = [up |-> stream'.up, down |-> stream'.down]
    BY <1>1 DEF Agree, ConnectShape
  <1>8. opener.at \in {"welcome", "open"} =>
          RunOf(stream'.down, OurKeys.recv, ours.nonce, ap'.codec.sent)
    <2>1. opener.at \in {"welcome", "open"} =>
            RunOf(stream.down, ap.codec.keys.send, ours.nonce, ap.codec.sent)
      BY <1>4, KeysMatch DEF Agree, DownKept
    <2>2. opener.at \in {"welcome", "open"} =>
            RunOf(stream'.down, ap.codec.keys.send, ours.nonce, ap.codec.sent + 1)
      BY <1>2, <1>4, <1>7, <2>1, EncodesTheNext
    <2> QED
      BY <1>4, <1>6, <2>2, KeysMatch
  <1>9. ConnectShape'
    BY <1>1, <1>3, <1>6, <1>7 DEF Agree, ConnectShape
  <1>10. OursKept' /\ DownKept'
    BY <1>3, <1>4, <1>5, <1>8 DEF Agree, OursKept, DownKept
  <1>11. UpKept'
    BY <1>1, <1>3, <1>4, <1>6, <1>7 DEF UpKept
  <1> QED
    BY <1>9, <1>10, <1>11 DEF Agree

LEMMA StepsAgree ==
  ASSUME AgreeUndamaged, [C!Next]_connectVars
  PROVE  AgreeUndamaged'
  <1> USE DEF AgreeUndamaged
  <1>1. CASE C!Damage
    BY <1>1 DEF C!Damage
  <1>2. CASE UNCHANGED connectVars
    <2>1. Agree => Agree'
      BY <1>2 DEF connectVars, Agree, ConnectShape, OursKept, UpKept, DownKept
    <2> QED
      BY <1>2, <2>1 DEF connectVars
  <1>3. CASE C!Next /\ ~C!Damage
    <2>1. UNCHANGED faults
      BY <1>3 DEF C!Next, C!OpenStep, C!ApStep, C!ResolveApWithFallback, C!Unreachable,
        C!Reached, C!ProxyIsSilent, C!NoneReached, C!SendHello, C!ReadAnswer, C!Respond,
        C!SendLogin, C!ReadWelcome, C!Encode, C!Decode, C!ApAnswers, C!ApChecks,
        C!ApDecodes, C!ApEncodes, C!ApCloses, C!ApFallsSilent
    <2>2. Agree => Agree'
      BY <1>3, DialsAgree, SendHelloAgrees, ReadAnswerAgrees, RespondAgrees,
         SendLoginAgrees, ReadWelcomeAgrees, EncodeAgrees, DecodeAgrees, ApAnswersAgree,
         ApChecksAgree, ApDecodesAgrees, ApEncodesAgrees, LeavesAgree
         DEF C!Next, C!OpenStep, C!ApStep
    <2> QED
      BY <2>1, <2>2
  <1> QED
    BY <1>1, <1>2, <1>3

\* The encoder's and the decoder's threads never lose count of each other's nonces,
\* and the keys of the two sides never differ: for any access points, any proxy and
\* any number of messages, a checksum fails only on what the network damaged.
THEOREM EndsStayInStep == C!Spec => []InStep
  <1>1. AgreeUndamaged => InStep
    BY DEF AgreeUndamaged, Agree, ConnectShape, CodecType, InStep, C!InStep
  <1>2. AgreeUndamaged /\ [C!Next]_(C!vars) => AgreeUndamaged'
    BY StepsAgree DEF C!vars, connectVars
  <1> QED
    BY <1>1, <1>2, AgreeInit, PTL DEF C!Spec

-----------------------------------------------------------------------------
(***************************************************************************)
(* The Mercury requests, instance M of Mercury.  While its messages        *)
(* arrive, what aggregate() has made of them, followed by what the server  *)
(* has left with the kept part in front, is the whole response.            *)
(***************************************************************************)
Text == Seq(Symbols)
Joining == [results : Seq(Text), kept : Text]
Nothing == [results |-> <<>>, kept |-> <<>>]

\* The parts, with text in front of the first one.
Glued(text, parts) == [i \in 1..Len(parts) |-> IF i = 1 THEN text \o parts[1] ELSE parts[i]]

Messages == [flags : {M!PARTIAL, M!FINAL}, parts : Seq(Text) \ {<<>>}]

LEMMA GluedTyped ==
  ASSUME NEW text \in Text, NEW parts \in Seq(Text)
  PROVE  /\ Glued(text, parts) \in Seq(Text)
         /\ Len(Glued(text, parts)) = Len(parts)
         /\ \A i \in 1..Len(parts) : Glued(text, parts)[i] =
              IF i = 1 THEN text \o parts[1] ELSE parts[i]
  <1>1. \A i \in 1..Len(parts) : parts[i] \in Text
    OBVIOUS
  <1>2. \A i \in 1..Len(parts) : (IF i = 1 THEN text \o parts[1] ELSE parts[i]) \in Text
    <2> TAKE i \in 1..Len(parts)
    <2>1. CASE i = 1
      BY <1>1, <2>1, ConcatProperties DEF Text
    <2> QED BY <1>1, <2>1
  <1>3. Len(parts) \in Nat
    OBVIOUS
  <1> HIDE DEF Text
  <1> QED
    BY <1>2, <1>3 DEF Glued

\* Nothing in front changes nothing.
LEMMA GluedToNothing ==
  ASSUME NEW parts \in Seq(Text)
  PROVE  Glued(<<>>, parts) = parts
  <1>1. \A i \in 1..Len(parts) : parts[i] \in Text /\ <<>> \o parts[i] = parts[i]
    BY ConcatEmptySeq DEF Text
  <1>2. parts = [i \in 1..Len(parts) |-> parts[i]]
    OBVIOUS
  <1>3. Len(parts) \in Nat
    OBVIOUS
  <1>4. Glued(<<>>, parts) = [i \in 1..Len(parts) |-> parts[i]]
    BY <1>1, <1>3 DEF Glued
  <1> QED BY <1>2, <1>4

\* One part is added.
LEMMA JoinedTyped ==
  ASSUME NEW s \in Joining, NEW text \in Text, NEW keep \in BOOLEAN
  PROVE  /\ M!Joined(s, text, keep) \in Joining
         /\ keep => M!Joined(s, text, keep) = [results |-> s.results, kept |-> s.kept \o text]
         /\ ~keep => M!Joined(s, text, keep) =
                       [results |-> s.results \o <<s.kept \o text>>, kept |-> <<>>]
  <1>1. s.kept \o text \in Text
    BY ConcatProperties DEF Joining, Text
  <1>2. <<>> \in Text
    BY DEF Text
  <1> HIDE DEF Text
  <1>3. s.results \in Seq(Text) /\ s.results \o <<s.kept \o text>> \in Seq(Text)
        /\ Append(s.results, s.kept \o text) = s.results \o <<s.kept \o text>>
    <2>1. s.results \in Seq(Text)
      BY DEF Joining
    <2>2. <<s.kept \o text>> \in Seq(Text)
      BY <1>1
    <2> QED BY <1>1, <2>1, <2>2, ConcatProperties, AppendIsConcat
  <1> QED
    BY <1>1, <1>2, <1>3 DEF Joining, M!Joined

\* What has been joined after the first k parts of a message.
JoinsParts(s, msg, f) ==
  f[0] = s /\ \A i \in 1..Len(msg.parts) :
    f[i] = M!Joined(f[i - 1], msg.parts[i], msg.flags = M!PARTIAL /\ i = Len(msg.parts))

LEMMA AddMessageIs ==
  ASSUME NEW s \in Joining, NEW msg \in Messages
  PROVE  \E f \in [0..Len(msg.parts) -> Joining] :
           JoinsParts(s, msg, f) /\ M!AddMessage(s, msg) = f[Len(msg.parts)]
  <1> DEFINE n == Len(msg.parts)
             keep(i) == msg.flags = M!PARTIAL /\ i = Len(msg.parts)
             step == [p \in (1..n) \X Joining |-> M!Joined(p[2], msg.parts[p[1]], keep(p[1]))]
  <1>1. n \in Nat /\ \A i \in 1..n : msg.parts[i] \in Text /\ keep(i) \in BOOLEAN
    BY DEF Messages
  <1> HIDE DEF n
  <1>2. \A i \in 1..n, v \in Joining :
          step[<<i, v>>] = M!Joined(v, msg.parts[i], keep(i)) /\ step[<<i, v>>] \in Joining
    <2> TAKE i \in 1..n, v \in Joining
    <2>1. step[<<i, v>>] = M!Joined(v, msg.parts[i], keep(i))
      OBVIOUS
    <2> QED BY <1>1, <2>1, JoinedTyped
  <1> HIDE DEF step, keep
  <1>3. PICK f \in [0..n -> Joining] : Recurs(f, n, s, step)
    BY <1>1, <1>2, Recursion
  <1>4. f[0] = s /\ \A i \in 1..n : i - 1 \in 0..n /\ f[i] = M!Joined(f[i - 1], msg.parts[i], keep(i))
    <2>1. \A i \in 1..n : i - 1 \in 0..n
      BY <1>1
    <2> QED BY <1>2, <1>3, <2>1 DEF Recurs
  <1> DEFINE Is(k) == k = [i \in 0..n |-> IF i = 0 THEN s
                             ELSE M!Joined(k[i - 1], msg.parts[i], keep(i))]
  <1>5. Is(f)
    <2> DEFINE g(i) == IF i = 0 THEN s ELSE M!Joined(f[i - 1], msg.parts[i], keep(i))
    <2>1. \A i \in 0..n : i = 0 \/ i \in 1..n
      BY <1>1
    <2>2. \A i \in 0..n : f[i] = g(i)
      BY <1>4, <2>1
    <2>3. f = [i \in 0..n |-> f[i]]
      BY <1>3
    <2> HIDE DEF g
    <2>4. f = [i \in 0..n |-> g(i)]
      BY <2>2, <2>3
    <2> QED BY <2>4, Zenon DEF g
  <1> DEFINE k == CHOOSE k : Is(k)
  <1>6. Is(k) BY <1>5
  <1>7. M!AddMessage(s, msg) = k[n]
    BY Zenon DEF M!AddMessage, n, keep
  <1>8. k = f
    <2> HIDE DEF k
    <2> DEFINE T == {i \in Nat : i <= n => k[i] = f[i]}
    <2>1. 0 \in T
      BY <1>1, <1>4, <1>6
    <2>2. ASSUME NEW i \in Nat, i \in T PROVE i + 1 \in T
      <3> SUFFICES ASSUME i + 1 <= n PROVE k[i + 1] = f[i + 1]
        OBVIOUS
      <3>1. i + 1 \in 1..n /\ i + 1 \in 0..n /\ i + 1 # 0 /\ (i + 1) - 1 = i
        BY <1>1
      <3>2. k[i + 1] = M!Joined(k[i], msg.parts[i + 1], keep(i + 1))
        BY <1>6, <3>1
      <3> QED BY <1>1, <1>4, <2>2, <3>1, <3>2
    <2>3. Nat \subseteq T
      <3> HIDE DEF T
      <3> QED BY <2>1, <2>2, Induction
    <2>4. \A i \in 0..n : k[i] = f[i]
      BY <1>1, <2>3
    <2>5. k = [i \in 0..n |-> k[i]] /\ f = [i \in 0..n |-> f[i]]
      BY <1>3, <1>6
    <2> QED BY <2>4, <2>5
  <1> HIDE DEF k
  <1> QED
    BY <1>3, <1>4, <1>7, <1>8 DEF JoinsParts, n, keep

LEMMA Regroup ==
  ASSUME NEW a \in Seq(Text), NEW b \in Seq(Text), NEW c \in Seq(Text)
  PROVE  (a \o b) \o c = a \o (b \o c)
  BY ConcatAssociative

LEMMA RegroupText ==
  ASSUME NEW a \in Text, NEW b \in Text, NEW c \in Text
  PROVE  (a \o b) \o c = a \o (b \o c)
  BY ConcatAssociative DEF Text

LEMMA Concats ==
  ASSUME NEW a \in Seq(Text), NEW b \in Seq(Text)
  PROVE  /\ a \o b \in Seq(Text) /\ Len(a \o b) = Len(a) + Len(b)
         /\ Len(a) \in Nat /\ Len(b) \in Nat
         /\ \A i \in 1..Len(a) : (a \o b)[i] = a[i]
         /\ \A i \in 1..Len(b) : (a \o b)[Len(a) + i] = b[i]
  <1>1. Len(a) \in Nat /\ Len(b) \in Nat
    OBVIOUS
  <1>2. /\ a \o b \in Seq(Text) /\ Len(a \o b) = Len(a) + Len(b)
        /\ \A i \in 1..Len(a) + Len(b) : (a \o b)[i] = IF i <= Len(a) THEN a[i] ELSE b[i - Len(a)]
    BY ConcatProperties
  <1> QED BY <1>1, <1>2

\* One part more of a sequence.
LEMMA FrontAnd ==
  ASSUME NEW parts \in Seq(Text), NEW i \in 1..Len(parts)
  PROVE  /\ SubSeq(parts, 1, i - 1) \in Seq(Text)
         /\ SubSeq(parts, 1, i - 1) \o <<parts[i]>> = SubSeq(parts, 1, i)
  <1>1. parts # <<>> /\ 1 \in 1..Len(parts) /\ i \in 1..i /\ Len(parts) \in Nat
    OBVIOUS
  <1>2. \A j \in 1..(i - 1) : parts[j] \in Text
    OBVIOUS
  <1>3. SubSeq(parts, 1, i) = SubSeq(parts, 1, i - 1) \o <<parts[i]>>
    BY <1>1, SubSeqRecursiveSecond
  <1> HIDE DEF Text
  <1> QED BY <1>2, <1>3, SubSeqProperties

\* After i parts of which none was kept, what was kept before is in front of them.
LEMMA PartsJoined ==
  ASSUME NEW s \in Joining, NEW msg \in Messages,
         NEW f \in [0..Len(msg.parts) -> Joining], JoinsParts(s, msg, f)
  PROVE  \A i \in 1..Len(msg.parts) :
           /\ (msg.flags = M!PARTIAL /\ i = Len(msg.parts)) =>
                f[i] = [results |-> s.results \o SubSeq(Glued(s.kept, msg.parts), 1, i - 1),
                        kept |-> Glued(s.kept, msg.parts)[i]]
           /\ ~(msg.flags = M!PARTIAL /\ i = Len(msg.parts)) =>
                f[i] = [results |-> s.results \o SubSeq(Glued(s.kept, msg.parts), 1, i),
                        kept |-> <<>>]
  <1> DEFINE n == Len(msg.parts)
             keep(i) == msg.flags = M!PARTIAL /\ i = Len(msg.parts)
             g == Glued(s.kept, msg.parts)
             before(i) == s.results \o SubSeq(g, 1, i)
             \* Before part i: what is joined, and what is in front of part i.
             Ready(i) == f[i - 1] = [results |-> before(i - 1),
                                     kept |-> IF i = 1 THEN s.kept ELSE <<>>]
             T == {i \in Nat : (i + 1 <= n) => Ready(i + 1)}
  <1>1. /\ n \in Nat \ {0} /\ msg.parts \in Seq(Text) /\ \A i \in 1..n : msg.parts[i] \in Text
        /\ s.kept \in Text /\ s.results \in Seq(Text)
        /\ \A i \in 1..n : keep(i) \in BOOLEAN
    BY DEF Messages, Joining
  <1>2. /\ g \in Seq(Text) /\ Len(g) = n
        /\ \A i \in 1..n : g[i] = (IF i = 1 THEN s.kept \o msg.parts[1] ELSE msg.parts[i])
    BY <1>1, GluedTyped
  <1>3. f[0] = s /\ \A i \in 1..n : f[i] = M!Joined(f[i - 1], msg.parts[i], keep(i))
    BY DEF JoinsParts
  <1> HIDE DEF n, keep, g
  <1>4. ASSUME NEW i \in 1..n, Ready(i)
        PROVE  /\ keep(i) => f[i] = [results |-> before(i - 1), kept |-> g[i]]
               /\ ~keep(i) => f[i] = [results |-> before(i), kept |-> <<>>]
    <2>1. f[i - 1].kept \o msg.parts[i] = g[i]
      <3>1. <<>> \o msg.parts[i] = msg.parts[i]
        BY <1>1, ConcatEmptySeq DEF Text
      <3>2. f[i - 1].kept = IF i = 1 THEN s.kept ELSE <<>>
        BY <1>4
      <3> HIDE DEF Ready, before
      <3>3. CASE i = 1
        BY <1>2, <3>2, <3>3
      <3>4. CASE i # 1
        BY <1>2, <3>1, <3>2, <3>4
      <3> QED BY <3>3, <3>4
    <2>2. f[i - 1] \in Joining
      <3>1. i - 1 \in 0..n
        BY <1>1
      <3> QED BY <3>1 DEF n
    <2>3. f[i - 1].results \o <<g[i]>> = before(i)
      <3>1. /\ SubSeq(g, 1, i - 1) \in Seq(Text)
            /\ SubSeq(g, 1, i - 1) \o <<g[i]>> = SubSeq(g, 1, i)
        BY <1>2, FrontAnd
      <3>2. <<g[i]>> \in Seq(Text)
        BY <1>2
      <3>3. before(i - 1) \o <<g[i]>> = s.results \o (SubSeq(g, 1, i - 1) \o <<g[i]>>)
        <4>1. s.results \in Seq(Text)
          BY <1>1
        <4> DEFINE b == SubSeq(g, 1, i - 1)
                   c == <<g[i]>>
        <4>2. b \in Seq(Text) /\ c \in Seq(Text)
          BY <3>1, <3>2
        <4>3. before(i - 1) \o c = (s.results \o b) \o c
          OBVIOUS
        <4> HIDE DEF b, c, before
        <4>4. (s.results \o b) \o c = s.results \o (b \o c)
          BY <4>1, <4>2, Regroup
        <4>5. before(i - 1) \o c = s.results \o (b \o c)
          BY <4>3, <4>4
        <4> QED BY <4>5 DEF b, c
      <3>4. f[i - 1].results = before(i - 1)
        BY <1>4
      <3> HIDE DEF Ready
      <3> QED BY <3>1, <3>3, <3>4
    <2>4. f[i - 1].results = before(i - 1)
      BY <1>4
    <2>5. f[i] = M!Joined(f[i - 1], msg.parts[i], keep(i))
      BY <1>3
    <2>6. msg.parts[i] \in Text /\ keep(i) \in BOOLEAN
      BY <1>1
    <2> DEFINE u == f[i - 1]
               b == before(i)
               c == before(i - 1)
               d == msg.parts[i]
               h == keep(i)
    <2> HIDE DEF u, b, c, d, h
    <2>7. /\ M!Joined(u, d, h) \in Joining
          /\ h => M!Joined(u, d, h) = [results |-> u.results, kept |-> u.kept \o d]
          /\ ~h => M!Joined(u, d, h) = [results |-> u.results \o <<u.kept \o d>>, kept |-> <<>>]
      <3>1. u \in Joining /\ d \in Text /\ h \in BOOLEAN
        BY <2>2, <2>6 DEF u, d, h
      <3> QED BY <3>1, JoinedTyped
    <2>8. u.kept \o d = g[i] /\ u.results \o <<g[i]>> = b /\ u.results = c
      BY <2>1, <2>3, <2>4 DEF u, d, b, c
    <2>9. /\ h => M!Joined(u, d, h) = [results |-> c, kept |-> g[i]]
          /\ ~h => M!Joined(u, d, h) = [results |-> b, kept |-> <<>>]
      BY <2>7, <2>8
    <2> QED BY <2>5, <2>9 DEF u, b, c, d, h
  <1>5. 0 \in T
    <2>1. SubSeq(g, 1, 0) = <<>>
      BY SubSeqEmpty
    <2>2. before(0) = s.results
      BY <1>1, <2>1, ConcatEmptySeq
    <2>3. s = [results |-> s.results, kept |-> s.kept]
      BY DEF Joining
    <2> HIDE DEF before
    <2> QED BY <1>3, <2>2, <2>3
  <1>6. ASSUME NEW i \in Nat, i \in T PROVE i + 1 \in T
    <2> SUFFICES ASSUME (i + 1) + 1 <= n PROVE Ready((i + 1) + 1)
      OBVIOUS
    <2>1. i + 1 \in 1..n /\ Ready(i + 1) /\ i + 1 # n /\ ((i + 1) + 1) - 1 = i + 1
          /\ (i + 1) + 1 # 1
      BY <1>1, <1>6
    <2>2. ~keep(i + 1)
      BY <2>1 DEF keep, n
    <2> HIDE DEF before
    <2>3. f[i + 1] = [results |-> before(i + 1), kept |-> <<>>]
      BY <1>4, <2>1, <2>2
    <2> QED BY <2>1, <2>3
  <1>7. Nat \subseteq T
    <2> HIDE DEF T
    <2> QED BY <1>5, <1>6, Induction
  <1>8. \A i \in 1..n : Ready(i)
    <2> TAKE i \in 1..n
    <2>1. i - 1 \in Nat /\ (i - 1) + 1 = i /\ i <= n
      BY <1>1
    <2>2. i - 1 \in T
      BY <1>7, <2>1
    <2> HIDE DEF Ready
    <2> QED BY <2>1, <2>2
  <1> HIDE DEF Ready, before
  <1>9. \A i \in 1..n :
          /\ keep(i) => f[i] = [results |-> before(i - 1), kept |-> g[i]]
          /\ ~keep(i) => f[i] = [results |-> before(i), kept |-> <<>>]
    BY <1>4, <1>8
  <1> QED BY <1>9 DEF n, keep, g, before

\* What a message adds: the last part of a PARTIAL message is kept.
LEMMA MessageAdds ==
  ASSUME NEW s \in Joining, NEW msg \in Messages
  PROVE  LET g == Glued(s.kept, msg.parts)
             n == Len(msg.parts)
         IN /\ M!AddMessage(s, msg) \in Joining
            /\ msg.flags = M!FINAL => M!AddMessage(s, msg).results = s.results \o g
            /\ msg.flags = M!PARTIAL =>
                 M!AddMessage(s, msg) = [results |-> s.results \o SubSeq(g, 1, n - 1),
                                         kept |-> g[n]]
  <1> DEFINE g == Glued(s.kept, msg.parts)
             n == Len(msg.parts)
  <1>1. PICK f \in [0..n -> Joining] : JoinsParts(s, msg, f) /\ M!AddMessage(s, msg) = f[n]
    BY AddMessageIs
  <1>2. n \in 1..n /\ n \in 0..n /\ msg.parts \in Seq(Text) /\ s.kept \in Text
    BY DEF Messages, Joining
  <1>3. f[n] \in Joining
    BY <1>1, <1>2
  <1>4. g \in Seq(Text) /\ Len(g) = n
    BY <1>2, GluedTyped
  <1>5. SubSeq(g, 1, n) = g
    BY <1>4, SubSeqFull
  <1>6. /\ msg.flags = M!PARTIAL =>
             f[n] = [results |-> s.results \o SubSeq(g, 1, n - 1), kept |-> g[n]]
        /\ msg.flags # M!PARTIAL =>
             f[n] = [results |-> s.results \o SubSeq(g, 1, n), kept |-> <<>>]
    BY <1>1, <1>2, PartsJoined
  <1>7. M!FINAL # M!PARTIAL
    BY DEF M!FINAL, M!PARTIAL
  <1> HIDE DEF g, n
  <1>8. /\ M!AddMessage(s, msg) \in Joining
        /\ msg.flags = M!FINAL => M!AddMessage(s, msg).results = s.results \o g
        /\ msg.flags = M!PARTIAL =>
             M!AddMessage(s, msg) = [results |-> s.results \o SubSeq(g, 1, n - 1), kept |-> g[n]]
    <2>1. msg.flags = M!FINAL => M!AddMessage(s, msg).results = s.results \o g
      <3> SUFFICES ASSUME msg.flags = M!FINAL
                   PROVE  M!AddMessage(s, msg).results = s.results \o g
        OBVIOUS
      <3>1. msg.flags # M!PARTIAL
        BY <1>7
      <3>2. f[n] = [results |-> s.results \o SubSeq(g, 1, n), kept |-> <<>>]
        BY <1>6, <3>1
      <3>3. f[n] = [results |-> s.results \o g, kept |-> <<>>]
        BY <1>5, <3>2, Zenon
      <3>4. M!AddMessage(s, msg) = [results |-> s.results \o g, kept |-> <<>>]
        BY <1>1, <3>3
      <3> QED BY <3>4
    <2>2. msg.flags = M!PARTIAL =>
            M!AddMessage(s, msg) = [results |-> s.results \o SubSeq(g, 1, n - 1), kept |-> g[n]]
      BY <1>1, <1>6
    <2> QED BY <1>1, <1>3, <2>1, <2>2
  <1> QED BY <1>8 DEF g, n

\* The same for the messages of a response.
JoinsMessages(msgs, f) ==
  f[0] = Nothing /\ \A i \in 1..Len(msgs) : f[i] = M!AddMessage(f[i - 1], msgs[i])

LEMMA AddMessagesIs ==
  ASSUME NEW msgs \in Seq(Messages)
  PROVE  \E f \in [0..Len(msgs) -> Joining] :
           JoinsMessages(msgs, f) /\ M!AddMessages(msgs) = f[Len(msgs)]
  <1> DEFINE n == Len(msgs)
             step == [p \in (1..n) \X Joining |-> M!AddMessage(p[2], msgs[p[1]])]
  <1>1. n \in Nat /\ \A i \in 1..n : msgs[i] \in Messages
    OBVIOUS
  <1>0. Nothing \in Joining
    BY DEF Nothing, Joining, Text
  <1> HIDE DEF n
  <1>2. \A i \in 1..n, v \in Joining :
          step[<<i, v>>] = M!AddMessage(v, msgs[i]) /\ step[<<i, v>>] \in Joining
    <2> TAKE i \in 1..n, v \in Joining
    <2>1. step[<<i, v>>] = M!AddMessage(v, msgs[i])
      OBVIOUS
    <2> QED BY <1>1, <2>1, MessageAdds
  <1> HIDE DEF step
  <1>3. PICK f \in [0..n -> Joining] : Recurs(f, n, Nothing, step)
    BY <1>0, <1>1, <1>2, Recursion
  <1>4. f[0] = Nothing /\ \A i \in 1..n : i - 1 \in 0..n /\ f[i] = M!AddMessage(f[i - 1], msgs[i])
    <2>1. \A i \in 1..n : i - 1 \in 0..n
      BY <1>1
    <2> QED BY <1>2, <1>3, <2>1 DEF Recurs
  <1> DEFINE Is(k) == k = [i \in 0..n |-> IF i = 0 THEN Nothing ELSE M!AddMessage(k[i - 1], msgs[i])]
  <1>5. Is(f)
    <2> DEFINE g(i) == IF i = 0 THEN Nothing ELSE M!AddMessage(f[i - 1], msgs[i])
    <2>1. \A i \in 0..n : i = 0 \/ i \in 1..n
      BY <1>1
    <2>2. \A i \in 0..n : f[i] = g(i)
      BY <1>4, <2>1
    <2>3. f = [i \in 0..n |-> f[i]]
      BY <1>3
    <2> HIDE DEF g
    <2>4. f = [i \in 0..n |-> g(i)]
      BY <2>2, <2>3
    <2> QED BY <2>4, Zenon DEF g
  <1> DEFINE k == CHOOSE k : Is(k)
  <1>6. Is(k) BY <1>5
  <1>7. M!AddMessages(msgs) = k[n]
    BY Zenon DEF M!AddMessages, n, Nothing
  <1>8. k = f
    <2> HIDE DEF k
    <2> DEFINE T == {i \in Nat : i <= n => k[i] = f[i]}
    <2>1. 0 \in T
      BY <1>1, <1>4, <1>6
    <2>2. ASSUME NEW i \in Nat, i \in T PROVE i + 1 \in T
      <3> SUFFICES ASSUME i + 1 <= n PROVE k[i + 1] = f[i + 1]
        OBVIOUS
      <3>1. i + 1 \in 1..n /\ i + 1 \in 0..n /\ i + 1 # 0 /\ (i + 1) - 1 = i
        BY <1>1
      <3>2. k[i + 1] = M!AddMessage(k[i], msgs[i + 1])
        BY <1>6, <3>1
      <3> QED BY <1>1, <1>4, <2>2, <3>1, <3>2
    <2>3. Nat \subseteq T
      <3> HIDE DEF T
      <3> QED BY <2>1, <2>2, Induction
    <2>4. \A i \in 0..n : k[i] = f[i]
      BY <1>1, <2>3
    <2>5. k = [i \in 0..n |-> k[i]] /\ f = [i \in 0..n |-> f[i]]
      BY <1>3, <1>6
    <2> QED BY <2>4, <2>5
  <1> HIDE DEF k
  <1> QED
    BY <1>3, <1>4, <1>7, <1>8 DEF JoinsMessages, n

\* It is what any such account of it ends with.
LEMMA AddMessagesOn ==
  ASSUME NEW msgs \in Seq(Messages), NEW msg \in Messages
  PROVE  /\ M!AddMessages(msgs) \in Joining
         /\ M!AddMessages(Append(msgs, msg)) = M!AddMessage(M!AddMessages(msgs), msg)
  <1> DEFINE n == Len(msgs)
             more == Append(msgs, msg)
  <1>1. PICK f \in [0..n -> Joining] : JoinsMessages(msgs, f) /\ M!AddMessages(msgs) = f[n]
    BY AddMessagesIs
  <1>2. /\ n \in Nat /\ n \in 0..n /\ Len(more) = n + 1 /\ more[n + 1] = msg
        /\ \A i \in 1..n : more[i] = msgs[i]
    OBVIOUS
  <1>3. PICK g \in [0..(n + 1) -> Joining] :
          JoinsMessages(more, g) /\ M!AddMessages(more) = g[n + 1]
    BY <1>2, AddMessagesIs
  <1> HIDE DEF more
  <1>4. f[0] = Nothing /\ \A i \in 1..n : f[i] = M!AddMessage(f[i - 1], msgs[i])
    BY <1>1 DEF JoinsMessages
  <1>5. g[0] = Nothing /\ \A i \in 1..(n + 1) : g[i] = M!AddMessage(g[i - 1], more[i])
    BY <1>2, <1>3 DEF JoinsMessages
  <1> HIDE DEF n
  <1> DEFINE T == {i \in Nat : i <= n => g[i] = f[i]}
  <1>6. 0 \in T
    BY <1>4, <1>5
  <1>7. ASSUME NEW i \in Nat, i \in T PROVE i + 1 \in T
    <2> SUFFICES ASSUME i + 1 <= n PROVE g[i + 1] = f[i + 1]
      OBVIOUS
    <2>1. i + 1 \in 1..n /\ i + 1 \in 1..(n + 1) /\ (i + 1) - 1 = i
      BY <1>2
    <2> QED BY <1>2, <1>4, <1>5, <1>7, <2>1
  <1>8. Nat \subseteq T
    <2> HIDE DEF T
    <2> QED BY <1>6, <1>7, Induction
  <1>9. g[n] = f[n]
    BY <1>2, <1>8
  <1>10. n + 1 \in 1..(n + 1) /\ (n + 1) - 1 = n
    BY <1>2
  <1>11. g[n + 1] = M!AddMessage(f[n], msg)
    BY <1>2, <1>5, <1>9, <1>10
  <1> QED BY <1>1, <1>2, <1>3, <1>11 DEF more

-----------------------------------------------------------------------------
\* After msgs the server has left to send, and both together are whole.
Underway(msgs, left, whole) ==
  /\ msgs \in Seq(Messages) /\ left \in Seq(Text) \ {<<>>}
  /\ whole = M!AddMessages(msgs).results \o Glued(M!AddMessages(msgs).kept, left)

LEMMA UnderwayBegins ==
  ASSUME NEW whole \in Seq(Text) \ {<<>>}
  PROVE  Underway(<<>>, whole, whole)
  <1>1. M!AddMessages(<<>>) = Nothing
    <2>1. <<>> \in Seq(Messages) /\ Len(<<>>) = 0
      OBVIOUS
    <2>2. PICK f : JoinsMessages(<<>>, f) /\ M!AddMessages(<<>>) = f[Len(<<>>)]
      BY <2>1, AddMessagesIs
    <2> QED BY <2>1, <2>2 DEF JoinsMessages
  <1>2. Glued(<<>>, whole) = whole
    BY GluedToNothing
  <1>3. <<>> \o whole = whole
    BY ConcatEmptySeq
  <1>4. Nothing.results = <<>> /\ Nothing.kept = <<>>
    BY DEF Nothing
  <1>5. M!AddMessages(<<>>).results \o Glued(M!AddMessages(<<>>).kept, whole) = whole
    BY <1>1, <1>2, <1>3, <1>4, Zenon
  <1>6. <<>> \in Seq(Messages)
    OBVIOUS
  <1> QED BY <1>5, <1>6 DEF Underway

\* All that is left completes the response.
LEMMA UnderwayEnds ==
  ASSUME NEW msgs, NEW left, NEW whole, Underway(msgs, left, whole)
  PROVE  M!Aggregate(Append(msgs, [flags |-> M!FINAL, parts |-> left])) = whole
  <1> DEFINE msg == [flags |-> M!FINAL, parts |-> left]
             s == M!AddMessages(msgs)
  <1>1. msg \in Messages /\ msg.flags = M!FINAL /\ msg.parts = left /\ msgs \in Seq(Messages)
    BY DEF Messages, Underway
  <1> HIDE DEF msg, s
  <1>2. s \in Joining /\ M!AddMessages(Append(msgs, msg)) = M!AddMessage(s, msg)
    BY <1>1, AddMessagesOn DEF s
  <1>3. M!AddMessage(s, msg).results = s.results \o Glued(s.kept, left)
    BY <1>1, <1>2, MessageAdds
  <1>4. whole = s.results \o Glued(s.kept, left)
    BY DEF Underway, s
  <1> QED BY <1>2, <1>3, <1>4 DEF M!Aggregate, msg

\* What is sent up to the first l symbols of part k, and what is left then.
Cut(left, k, l) == SubSeq(left, 1, k - 1) \o <<SubSeq(left[k], 1, l)>>
Uncut(left, k, l) == <<SubSeq(left[k], l + 1, Len(left[k]))>> \o SubSeq(left, k + 1, Len(left))

LEMMA CutTyped ==
  ASSUME NEW left \in Seq(Text), NEW k \in 1..Len(left), NEW l \in 0..Len(left[k])
  PROVE  /\ Cut(left, k, l) \in Seq(Text) /\ Len(Cut(left, k, l)) = k
         /\ \A i \in 1..(k - 1) : Cut(left, k, l)[i] = left[i]
         /\ Uncut(left, k, l) \in Seq(Text) /\ Len(Uncut(left, k, l)) = Len(left) - k + 1
         /\ \A i \in 2..(Len(left) - k + 1) : Uncut(left, k, l)[i] = left[k + i - 1]
         /\ Cut(left, k, l)[k] \in Text /\ Uncut(left, k, l)[1] \in Text
         /\ Cut(left, k, l)[k] \o Uncut(left, k, l)[1] = left[k]
  <1> DEFINE n == Len(left)
             text == left[k]
             a == SubSeq(text, 1, l)
             b == SubSeq(text, l + 1, Len(text))
             c == SubSeq(left, 1, k - 1)
             d == SubSeq(left, k + 1, n)
  <1>1. text \in Text /\ n \in Nat /\ k \in Nat /\ k >= 1 /\ k <= n
    OBVIOUS
  <1>2. a \in Text /\ b \in Text /\ a \o b = text
    <2> HIDE DEF text
    <2>1. text \in Seq(Symbols) /\ l \in 0..Len(text)
      BY <1>1 DEF Text, text
    <2>2. a \in Seq(Symbols) /\ b \in Seq(Symbols)
      BY <2>1, SubSeqProperties
    <2>3. a \o b = SubSeq(text, 1, Len(text))
      <3>1. 1 \in 1..(Len(text) + 1) /\ l \in 1 - 1..Len(text) /\ Len(text) \in l..Len(text)
        BY <2>1
      <3> QED BY <2>1, <3>1, ConcatAdjacentSubSeq
    <2>4. SubSeq(text, 1, Len(text)) = text
      BY <2>1, SubSeqFull
    <2> QED BY <2>2, <2>3, <2>4 DEF Text
  <1> HIDE DEF text, a, b
  <1>3. c \in Seq(Text) /\ Len(c) = k - 1 /\ \A i \in 1..(k - 1) : c[i] = left[i]
    <2>1. \A i \in 1..(k - 1) : left[i] \in Text
      BY <1>1
    <2> QED BY <1>1, <2>1, SubSeqProperties
  <1>4. d \in Seq(Text) /\ Len(d) = n - k /\ \A i \in 1..(n - k) : d[i] = left[k + i]
    <2>1. \A i \in (k + 1)..n : left[i] \in Text
      BY <1>1
    <2> QED BY <1>1, <2>1, SubSeqProperties
  <1> HIDE DEF c, d
  <1>5. /\ c \o <<a>> \in Seq(Text) /\ Len(c \o <<a>>) = k
        /\ \A i \in 1..(k - 1) : (c \o <<a>>)[i] = left[i]
        /\ (c \o <<a>>)[k] = a
    <2>1. <<a>> \in Seq(Text) /\ Len(<<a>>) = 1 /\ <<a>>[1] = a
      BY <1>2
    <2>2. /\ c \o <<a>> \in Seq(Text) /\ Len(c \o <<a>>) = (k - 1) + 1
          /\ \A i \in 1..(k - 1) : (c \o <<a>>)[i] = c[i]
          /\ \A i \in 1..1 : (c \o <<a>>)[(k - 1) + i] = <<a>>[i]
      BY <1>3, <2>1, Concats
    <2>3. (k - 1) + 1 = k /\ 1 \in 1..1
      BY <1>1
    <2> QED BY <1>3, <2>1, <2>2, <2>3
  <1>6. /\ <<b>> \o d \in Seq(Text) /\ Len(<<b>> \o d) = n - k + 1
        /\ \A i \in 2..(n - k + 1) : (<<b>> \o d)[i] = left[k + i - 1]
        /\ (<<b>> \o d)[1] = b
    <2>1. <<b>> \in Seq(Text) /\ Len(<<b>>) = 1 /\ <<b>>[1] = b
      BY <1>2
    <2>2. /\ <<b>> \o d \in Seq(Text) /\ Len(<<b>> \o d) = 1 + (n - k)
          /\ \A i \in 1..1 : (<<b>> \o d)[i] = <<b>>[i]
          /\ \A i \in 1..(n - k) : (<<b>> \o d)[1 + i] = d[i]
      <3> DEFINE z == <<b>>
      <3> HIDE DEF z
      <3>1. /\ z \o d \in Seq(Text) /\ Len(z \o d) = Len(z) + Len(d)
            /\ \A i \in 1..Len(z) : (z \o d)[i] = z[i]
            /\ \A i \in 1..Len(d) : (z \o d)[Len(z) + i] = d[i]
        <4>1. z \in Seq(Text)
          BY <2>1 DEF z
        <4> QED BY <1>4, <4>1, Concats
      <3>2. Len(z) = 1 /\ Len(d) = n - k
        BY <1>4, <2>1 DEF z
      <3>3. /\ z \o d \in Seq(Text) /\ Len(z \o d) = 1 + (n - k)
            /\ \A i \in 1..1 : (z \o d)[i] = z[i]
            /\ \A i \in 1..(n - k) : (z \o d)[1 + i] = d[i]
        BY <3>1, <3>2, Zenon
      <3> QED BY <3>3 DEF z
    <2>3. ASSUME NEW i \in 2..(n - k + 1) PROVE (<<b>> \o d)[i] = left[k + i - 1]
      <3>1. i - 1 \in 1..(n - k) /\ 1 + (i - 1) = i /\ k + (i - 1) = k + i - 1
        BY <1>1
      <3> QED BY <1>4, <2>2, <3>1
    <2>4. 1 + (n - k) = n - k + 1 /\ 1 \in 1..1
      BY <1>1
    <2> QED BY <2>1, <2>2, <2>3, <2>4
  <1>7. Cut(left, k, l) = c \o <<a>> /\ Uncut(left, k, l) = <<b>> \o d
    BY DEF Cut, Uncut, a, b, c, d, n, text
  <1> QED BY <1>2, <1>5, <1>6, <1>7, Zenon DEF n, text

\* Some of what is left, cut anywhere, leaves the whole as it was.
LEMMA UnderwayGoesOn ==
  ASSUME NEW msgs, NEW left, NEW whole, Underway(msgs, left, whole),
         NEW k \in 1..Len(left), NEW l \in 0..Len(left[k])
  PROVE  Underway(Append(msgs, [flags |-> M!PARTIAL, parts |-> Cut(left, k, l)]),
                  Uncut(left, k, l), whole)
  <1> DEFINE cut == Cut(left, k, l)
             rest == Uncut(left, k, l)
             msg == [flags |-> M!PARTIAL, parts |-> cut]
             s == M!AddMessages(msgs)
             n == Len(left)
             g == Glued(s.kept, left)
             h == Glued(s.kept, cut)
             e == Glued(h[k], rest)
             c == SubSeq(h, 1, k - 1)
  <1>1. /\ left \in Seq(Text) /\ n \in Nat /\ msgs \in Seq(Messages) /\ k \in 1..n
        /\ \A i \in 1..n : left[i] \in Text
    BY DEF Underway
  <1>2. /\ cut \in Seq(Text) /\ Len(cut) = k
        /\ \A i \in 1..(k - 1) : cut[i] = left[i]
        /\ rest \in Seq(Text) /\ Len(rest) = n - k + 1
        /\ \A i \in 2..(n - k + 1) : rest[i] = left[k + i - 1]
        /\ cut[k] \in Text /\ rest[1] \in Text
        /\ cut[k] \o rest[1] = left[k]
    BY <1>1, CutTyped
  <1> HIDE DEF cut, rest
  <1>3. msg \in Messages /\ msg.flags = M!PARTIAL /\ msg.parts = cut /\ rest # <<>>
    BY <1>1, <1>2 DEF Messages
  <1> HIDE DEF msg, s, n
  <1>4. s \in Joining /\ M!AddMessages(Append(msgs, msg)) = M!AddMessage(s, msg)
    BY <1>1, <1>3, AddMessagesOn DEF s
  <1>5. s.kept \in Text /\ s.results \in Seq(Text)
    BY <1>4 DEF Joining
  <1>6. /\ g \in Seq(Text) /\ Len(g) = n
        /\ \A i \in 1..n : g[i] = IF i = 1 THEN s.kept \o left[1] ELSE left[i]
    BY <1>1, <1>5, GluedTyped DEF n
  <1>7. /\ h \in Seq(Text) /\ Len(h) = k
        /\ \A i \in 1..k : h[i] = IF i = 1 THEN s.kept \o cut[1] ELSE cut[i]
    BY <1>2, <1>5, GluedTyped
  <1> HIDE DEF g, h
  <1>8. M!AddMessage(s, msg) = [results |-> s.results \o c, kept |-> h[k]]
    BY <1>2, <1>3, <1>4, MessageAdds DEF h
  <1>9. k \in 1..k /\ h[k] \in Text
    BY <1>1, <1>7
  <1>10. /\ e \in Seq(Text) /\ Len(e) = n - k + 1
         /\ \A i \in 1..(n - k + 1) : e[i] = IF i = 1 THEN h[k] \o rest[1] ELSE rest[i]
    <2>1. rest \in Seq(Text) /\ h[k] \in Text
      BY <1>2, <1>9
    <2>2. Len(rest) = n - k + 1
      BY <1>2
    <2>3. /\ e \in Seq(Text) /\ Len(e) = Len(rest)
          /\ \A i \in 1..Len(rest) : e[i] = IF i = 1 THEN h[k] \o rest[1] ELSE rest[i]
      BY <2>1, GluedTyped
    <2> HIDE DEF e
    <2> QED BY <2>2, <2>3
  <1> HIDE DEF e
  <1>11. c \in Seq(Text) /\ Len(c) = k - 1 /\ \A i \in 1..(k - 1) : c[i] = h[i]
    <2>1. k - 1 \in Int /\ 1 <= k /\ \A i \in 1..(k - 1) : h[i] \in Text
      BY <1>1, <1>7
    <2> QED BY <2>1, SubSeqProperties
  <1> HIDE DEF c
  <1>12. h[k] \o rest[1] = g[k]
    <2>1. CASE k = 1
      <3>1. (s.kept \o cut[1]) \o rest[1] = s.kept \o (cut[1] \o rest[1])
        <4>1. cut[1] \in Text /\ rest[1] \in Text /\ s.kept \in Text
          BY <1>2, <1>5, <2>1
        <4> QED BY <4>1, RegroupText
      <3>2. h[k] = s.kept \o cut[1] /\ g[k] = s.kept \o left[1] /\ cut[1] \o rest[1] = left[1]
        BY <1>1, <1>2, <1>6, <1>7, <1>9, <2>1
      <3> QED BY <3>1, <3>2, Zenon
    <2>2. CASE k # 1
      BY <1>1, <1>2, <1>6, <1>7, <1>9, <2>2
    <2> QED BY <2>1, <2>2
  <1>13. c \o e = g
    <2>1. /\ c \o e \in Seq(Text) /\ Len(c \o e) = n
          /\ \A i \in 1..(k - 1) : (c \o e)[i] = c[i]
          /\ \A i \in 1..(n - k + 1) : (c \o e)[(k - 1) + i] = e[i]
      <3>1. /\ c \o e \in Seq(Text) /\ Len(c \o e) = Len(c) + Len(e)
            /\ \A i \in 1..Len(c) : (c \o e)[i] = c[i]
            /\ \A i \in 1..Len(e) : (c \o e)[Len(c) + i] = e[i]
        BY <1>10, <1>11, Concats
      <3>2. Len(c) = k - 1 /\ Len(e) = n - k + 1 /\ (k - 1) + (n - k + 1) = n
        BY <1>1, <1>10, <1>11
      <3> QED BY <3>1, <3>2
    <2>2. ASSUME NEW i \in 1..n PROVE (c \o e)[i] = g[i]
      <3>1. CASE i < k
        <4>1. i \in 1..(k - 1) /\ i \in 1..k
          BY <1>1, <3>1
        <4>2. (c \o e)[i] = h[i] /\ cut[i] = left[i]
          BY <1>2, <1>11, <2>1, <4>1
        <4>3. h[i] = g[i]
          <5>1. CASE i = 1
            <6>1. h[i] = s.kept \o cut[i] /\ g[i] = s.kept \o left[i]
              BY <1>6, <1>7, <4>1, <5>1
            <6> QED BY <4>2, <6>1
          <5>2. CASE i # 1
            <6>1. h[i] = cut[i] /\ g[i] = left[i]
              BY <1>6, <1>7, <4>1, <5>2
            <6> QED BY <4>2, <6>1
          <5> QED BY <5>1, <5>2
        <4> QED BY <4>2, <4>3
      <3>2. CASE i = k
        <4>1. 1 \in 1..(n - k + 1) /\ (k - 1) + 1 = k
          BY <1>1
        <4>2. (c \o e)[k] = e[1]
          <5>1. (c \o e)[(k - 1) + 1] = e[1]
            BY <2>1, <4>1, Zenon
          <5> QED BY <4>1, <5>1, Zenon
        <4>3. e[1] = h[k] \o rest[1]
          BY <1>10, <4>1
        <4> QED BY <1>12, <3>2, <4>2, <4>3
      <3>3. CASE i > k
        <4> DEFINE j == i - (k - 1)
        <4>1. /\ j \in 2..(n - k + 1) /\ j \in 1..(n - k + 1) /\ j # 1 /\ i # 1
              /\ (k - 1) + j = i /\ k + j - 1 = i
          BY <1>1, <3>3
        <4> HIDE DEF j
        <4>2. (c \o e)[i] = e[j] /\ e[j] = rest[j]
          <5>1. (c \o e)[(k - 1) + j] = e[j]
            BY <2>1, <4>1, Zenon
          <5>2. e[j] = rest[j]
            BY <1>10, <4>1, Zenon
          <5> QED BY <4>1, <5>1, <5>2, Zenon
        <4>3. rest[j] = left[i]
          BY <1>2, <4>1
        <4>4. g[i] = left[i]
          BY <1>6, <4>1
        <4> QED BY <4>2, <4>3, <4>4
      <3>4. i < k \/ i = k \/ i > k
        BY <1>1
      <3> QED BY <3>1, <3>2, <3>3, <3>4
    <2> QED BY <1>6, <2>1, <2>2
  <1>14. whole = (s.results \o c) \o e
    <2>1. (s.results \o c) \o e = s.results \o (c \o e)
      BY <1>5, <1>10, <1>11, Regroup
    <2>2. whole = s.results \o g
      BY DEF Underway, g, s
    <2> QED BY <1>13, <2>1, <2>2
  <1>15. Append(msgs, msg) \in Seq(Messages)
    BY <1>1, <1>3
  <1>16. whole = M!AddMessages(Append(msgs, msg)).results
                   \o Glued(M!AddMessages(Append(msgs, msg)).kept, rest)
    <2>1. /\ M!AddMessages(Append(msgs, msg)).results = s.results \o c
          /\ M!AddMessages(Append(msgs, msg)).kept = h[k]
      BY <1>4, <1>8
    <2> QED BY <1>14, <2>1, Zenon DEF e
  <1>17. Underway(Append(msgs, msg), rest, whole)
    BY <1>2, <1>3, <1>15, <1>16 DEF Underway
  <1> QED BY <1>17 DEF msg, cut, rest

\* r is the latest request with the sequence number n.
Latest(n, r) == r \in DOMAIN asked /\ asked[r] = n /\ \A q \in DOMAIN asked : q > r => asked[q] # n

Answering ==
  /\ sequence \in Nat /\ asked \in Seq(Nat) /\ promised \in Seq(Seq(Text))
  /\ Len(asked) = Len(promised) /\ DOMAIN server = DOMAIN pending
  /\ \A n \in DOMAIN pending :
       \E r : Latest(n, r) /\ Underway(pending[n], server[n].left, promised[r])
  /\ \A r \in DOMAIN responses : r \in DOMAIN promised /\ responses[r] = promised[r]
  /\ \A n, r : Latest(n, r) /\ n \notin DOMAIN pending => r \in DOMAIN responses

LEMMA ResponsesTyped == M!Response \subseteq Seq(Text) \ {<<>>}
  <1>1. M!Part \subseteq Text
    BY DEF M!Part, Text
  <1>2. ASSUME NEW x \in M!Response PROVE x \in Seq(M!Part) \ {<<>>}
    <2>1. PICK n \in 1..MaxParts : x \in [1..n -> M!Part]
      BY DEF M!Response
    <2>2. n \in Nat /\ n # 0
      BY <2>1
    <2> QED BY <2>1, <2>2
  <1> QED BY <1>1, <1>2

LEMMA AnsweringInit == M!Init => Answering
  BY DEF M!Init, M!Empty, Answering, Latest

LEMMA EnqueueAnswers ==
  ASSUME Answering, NEW response \in M!Response, M!Enqueue(response)
  PROVE  Answering'
  <1> DEFINE n == sequence
  <1>0. PICK r : r = Len(asked) + 1
    OBVIOUS
  <1>1. /\ sequence \in Nat /\ asked \in Seq(Nat) /\ promised \in Seq(Seq(Text))
        /\ Len(asked) = Len(promised) /\ DOMAIN server = DOMAIN pending
    BY DEF Answering
  <1>2. /\ sequence' = (sequence + 1) % SeqSize
        /\ pending' = M!Put(pending, n, <<>>)
        /\ server' = M!Put(server, n, [left |-> response, sent |-> 0])
        /\ asked' = Append(asked, n) /\ promised' = Append(promised, response)
        /\ responses' = responses
    BY DEF M!Enqueue
  <1>3. response \in Seq(Text) \ {<<>>}
    BY ResponsesTyped
  <1>4. sequence' \in Nat
    BY <1>1, <1>2, M!MercuryAssumption DEF M!MercuryAssumption
  <1>5. /\ asked' \in Seq(Nat) /\ Len(asked') = r /\ asked'[r] = n
        /\ \A q \in 1..Len(asked) : asked'[q] = asked[q]
        /\ DOMAIN asked' = 1..r /\ DOMAIN asked = 1..Len(asked) /\ Len(asked) \in Nat
    BY <1>0, <1>1, <1>2
  <1>6. /\ promised' \in Seq(Seq(Text)) /\ Len(promised') = r /\ promised'[r] = response
        /\ \A q \in 1..Len(asked) : promised'[q] = promised[q]
        /\ DOMAIN promised' = 1..r /\ DOMAIN promised = 1..Len(asked)
    BY <1>0, <1>1, <1>2, <1>3
  <1>7. /\ DOMAIN pending' = DOMAIN pending \cup {n} /\ DOMAIN server' = DOMAIN pending'
        /\ \A m \in DOMAIN pending' : pending'[m] = IF m = n THEN <<>> ELSE pending[m]
        /\ \A m \in DOMAIN pending' : server'[m] = IF m = n THEN [left |-> response, sent |-> 0]
                                                   ELSE server[m]
    BY <1>1, <1>2 DEF M!Put
  <1>8. ASSUME NEW m \in DOMAIN pending'
        PROVE  \E x : Latest(m, x)' /\ Underway(pending'[m], server'[m].left, promised'[x])
    <2>1. CASE m = n
      <3>1. Latest(m, r)'
        <4>1. ASSUME NEW q \in DOMAIN asked' PROVE ~(q > r)
          BY <1>0, <1>5
        <4>2. r \in DOMAIN asked'
          BY <1>0, <1>5
        <4> QED BY <1>5, <2>1, <4>1, <4>2 DEF Latest
      <3>2. pending'[m] = <<>> /\ server'[m].left = response /\ promised'[r] = response
        BY <1>6, <1>7, <2>1
      <3>3. Underway(<<>>, response, response)
        BY <1>3, UnderwayBegins
      <3>4. Underway(pending'[m], server'[m].left, promised'[r])
        BY <3>2, <3>3, Zenon
      <3> QED BY <3>1, <3>4
    <2>2. CASE m # n
      <3>1. m \in DOMAIN pending /\ pending'[m] = pending[m] /\ server'[m] = server[m]
        BY <1>7, <2>2
      <3>2. PICK x : Latest(m, x) /\ Underway(pending[m], server[m].left, promised[x])
        BY <3>1 DEF Answering
      <3>3. x \in 1..Len(asked)
        BY <1>5, <3>2 DEF Latest
      <3>4. Latest(m, x)'
        <4>1. x \in DOMAIN asked' /\ asked'[x] = m
          BY <1>0, <1>5, <3>2, <3>3 DEF Latest
        <4>2. ASSUME NEW q \in DOMAIN asked', q > x PROVE asked'[q] # m
          BY <1>0, <1>5, <2>2, <3>2, <4>2 DEF Latest
        <4> QED BY <4>1, <4>2 DEF Latest
      <3>5. promised'[x] = promised[x]
        BY <1>6, <3>3
      <3> QED BY <3>1, <3>2, <3>4, <3>5
    <2> QED BY <2>1, <2>2
  <1>9. \A x \in DOMAIN responses' : x \in DOMAIN promised' /\ responses'[x] = promised'[x]
    <2> TAKE x \in DOMAIN responses'
    <2>1. x \in DOMAIN promised /\ responses[x] = promised[x] /\ responses'[x] = responses[x]
      BY <1>2 DEF Answering
    <2> QED BY <1>0, <1>5, <1>6, <2>1
  <1>10. \A m, x : Latest(m, x)' /\ m \notin DOMAIN pending' => x \in DOMAIN responses'
    <2> SUFFICES ASSUME NEW m, NEW x, Latest(m, x)', m \notin DOMAIN pending'
                 PROVE  x \in DOMAIN responses
      BY <1>2
    <2>1. m # n /\ m \notin DOMAIN pending /\ x \in 1..r /\ asked'[x] = m
      BY <1>5, <1>7 DEF Latest
    <2>2. x \in 1..Len(asked) /\ asked[x] = m
      BY <1>0, <1>5, <2>1
    <2>3. ASSUME NEW q \in DOMAIN asked, q > x PROVE asked[q] # m
      BY <1>0, <1>5, <2>3 DEF Latest
    <2>4. Latest(m, x)
      BY <1>5, <2>2, <2>3 DEF Latest
    <2> QED BY <2>1, <2>4 DEF Answering
  <1> QED
    BY <1>4, <1>5, <1>6, <1>7, <1>8, <1>9, <1>10 DEF Answering

\* The callback is that of the request which is underway.
LEMMA CallbackIsLatest ==
  ASSUME Answering, NEW n, NEW r, Latest(n, r)
  PROVE  M!Callback(n) = r
  <1>1. ASSUME NEW q, Latest(n, q) PROVE q = r
    <2>1. q \in Nat /\ r \in Nat
      BY <1>1 DEF Latest, Answering
    <2> QED BY <1>1, <2>1 DEF Latest
  <1> QED BY <1>1, Zenon DEF M!Callback, Latest

LEMMA SendFinalAnswers ==
  ASSUME Answering, NEW n \in DOMAIN server, M!SendFinal(n)
  PROVE  Answering'
  <1> DEFINE msg == [flags |-> M!FINAL, parts |-> server[n].left]
  <1>1. n \in DOMAIN pending /\ DOMAIN server = DOMAIN pending
    BY DEF Answering
  <1>2. PICK r : Latest(n, r) /\ Underway(pending[n], server[n].left, promised[r])
    BY <1>1 DEF Answering
  <1>3. r \in DOMAIN promised
    BY <1>2 DEF Latest, Answering
  <1>4. M!Aggregate(Append(pending[n], msg)) = promised[r]
    BY <1>2, UnderwayEnds
  <1>5. M!Callback(n) = r
    BY <1>2, CallbackIsLatest
  <1>6. /\ pending' = M!Removed(pending, n) /\ server' = M!Removed(server, n)
        /\ responses' = M!Put(responses, r, promised[r])
        /\ sequence' = sequence /\ asked' = asked /\ promised' = promised
    BY <1>1, <1>4, <1>5 DEF M!SendFinal, M!HandleMercuryReq
  <1>7. /\ DOMAIN pending' = DOMAIN pending \ {n} /\ DOMAIN server' = DOMAIN pending'
        /\ \A m \in DOMAIN pending' : pending'[m] = pending[m] /\ server'[m] = server[m]
    BY <1>1, <1>6 DEF M!Removed
  <1>8. \A x \in DOMAIN responses' : x \in DOMAIN promised' /\ responses'[x] = promised'[x]
    BY <1>3, <1>6 DEF M!Put, Answering
  <1>9. ASSUME NEW m \in DOMAIN pending'
        PROVE  \E x : Latest(m, x)' /\ Underway(pending'[m], server'[m].left, promised'[x])
    <2>1. PICK x : Latest(m, x) /\ Underway(pending[m], server[m].left, promised[x])
      BY <1>7 DEF Answering
    <2> QED BY <1>6, <1>7, <2>1 DEF Latest
  <1>10. \A m, x : Latest(m, x)' /\ m \notin DOMAIN pending' => x \in DOMAIN responses'
    <2> SUFFICES ASSUME NEW m, NEW x, Latest(m, x)', m \notin DOMAIN pending'
                 PROVE  x \in DOMAIN responses'
      OBVIOUS
    <2>1. Latest(m, x)
      BY <1>6 DEF Latest
    <2>2. DOMAIN responses' = DOMAIN responses \cup {r}
      BY <1>6 DEF M!Put
    <2>3. CASE m = n
      BY <1>2, <1>5, <2>1, <2>2, <2>3, CallbackIsLatest
    <2>4. CASE m # n
      BY <1>7, <2>1, <2>2, <2>4 DEF Answering
    <2> QED BY <2>3, <2>4
  <1> QED
    BY <1>6, <1>7, <1>8, <1>9, <1>10 DEF Answering

LEMMA SendPartialAnswers ==
  ASSUME Answering, NEW n \in DOMAIN server, M!SendPartial(n)
  PROVE  Answering'
  <1>1. n \in DOMAIN pending /\ DOMAIN server = DOMAIN pending
    BY DEF Answering
  <1>2. PICK r : Latest(n, r) /\ Underway(pending[n], server[n].left, promised[r])
    BY <1>1 DEF Answering
  <1> DEFINE left == server[n].left
             msg(k, l) == [flags |-> M!PARTIAL, parts |-> Cut(left, k, l)]
  <1>3. PICK k \in DOMAIN left : \E l \in 0..Len(left[k]) :
          /\ M!HandleMercuryReq(n, msg(k, l))
          /\ server' = [server EXCEPT ![n] = [left |-> Uncut(left, k, l), sent |-> @.sent + 1]]
    BY DEF M!SendPartial, Cut, Uncut
  <1>4. PICK l \in 0..Len(left[k]) :
          /\ M!HandleMercuryReq(n, msg(k, l))
          /\ server' = [server EXCEPT ![n] = [left |-> Uncut(left, k, l), sent |-> @.sent + 1]]
    BY <1>3
  <1>5. /\ pending' = [pending EXCEPT ![n] = Append(@, msg(k, l))] /\ responses' = responses
        /\ sequence' = sequence /\ asked' = asked /\ promised' = promised
    <2>1. M!PARTIAL # M!FINAL
      BY DEF M!PARTIAL, M!FINAL
    <2> QED BY <1>1, <1>4, <2>1 DEF M!SendPartial, M!HandleMercuryReq
  <1>6. k \in 1..Len(left)
    <2>1. left \in Seq(Text)
      BY <1>2 DEF Underway
    <2> QED BY <2>1
  <1>7. Underway(Append(pending[n], msg(k, l)), Uncut(left, k, l), promised[r])
    BY <1>2, <1>6, UnderwayGoesOn
  <1> HIDE DEF msg
  <1>8. /\ DOMAIN pending' = DOMAIN pending /\ DOMAIN server' = DOMAIN pending'
        /\ \A m \in DOMAIN pending \ {n} : pending'[m] = pending[m] /\ server'[m] = server[m]
        /\ pending'[n] = Append(pending[n], msg(k, l)) /\ server'[n].left = Uncut(left, k, l)
    BY <1>1, <1>4, <1>5
  <1>9. ASSUME NEW m \in DOMAIN pending'
        PROVE  \E x : Latest(m, x)' /\ Underway(pending'[m], server'[m].left, promised'[x])
    <2>1. \A x : Latest(m, x) => Latest(m, x)'
      BY <1>5 DEF Latest
    <2>2. CASE m = n
      BY <1>2, <1>5, <1>7, <1>8, <2>1, <2>2
    <2>3. CASE m # n
      <3>1. PICK x : Latest(m, x) /\ Underway(pending[m], server[m].left, promised[x])
        BY <1>8 DEF Answering
      <3> QED BY <1>5, <1>8, <2>1, <2>3, <3>1
    <2> QED BY <2>2, <2>3
  <1>10. \A m, x : Latest(m, x)' /\ m \notin DOMAIN pending' => x \in DOMAIN responses'
    BY <1>5, <1>8 DEF Latest, Answering
  <1> QED
    BY <1>5, <1>8, <1>9, <1>10 DEF Answering

LEMMA StepsAnswer ==
  ASSUME Answering, [M!Next]_mercuryVars
  PROVE  Answering'
  <1>1. CASE UNCHANGED mercuryVars
    BY <1>1 DEF mercuryVars, Answering, Latest
  <1> QED
    BY <1>1, EnqueueAnswers, SendFinalAnswers, SendPartialAnswers DEF M!Next

\* mercury.rs, aggregate() and handle_mercury_req(): for any responses of any number of
\* parts, cut anywhere into any number of messages that interleave in any way, every
\* callback receives the parts the server sent for its request, even when sequence
\* numbers are used again.
THEOREM ResponsesAreWhole == M!Spec => []ResponseIsWhole
  <1>1. Answering => ResponseIsWhole
    BY DEF Answering, ResponseIsWhole, M!ResponseIsWhole
  <1>2. Answering /\ [M!Next]_(M!vars) => Answering'
    BY StepsAnswer DEF M!vars, mercuryVars
  <1> QED
    BY <1>1, <1>2, AnsweringInit, PTL DEF M!Spec

\* mercury.rs, handle_mercury_req(): once the server has sent all of a response, its
\* callback has been called, unless a later request took the sequence number.
THEOREM AnswersArrive == M!Spec => []AnsweredResponds
  <1>1. Answering => AnsweredResponds
    BY DEF Answering, Latest, AnsweredResponds, M!AnsweredResponds
  <1>2. Answering /\ [M!Next]_(M!vars) => Answering'
    BY StepsAnswer DEF M!vars, mercuryVars
  <1> QED
    BY <1>1, <1>2, AnsweringInit, PTL DEF M!Spec
=============================================================================
