-------------------------- MODULE WebTokensProofs --------------------------
(***************************************************************************)
(* Proofs about the tokens of the web client, for any number of threads,   *)
(* logins and librespot sessions.                                          *)
(* At the end, the same for the accounts they belong to, the instance A of *)
(* Accounts in MCLogins.                                                   *)
(***************************************************************************)
EXTENDS MCLogins, TLAPS

Places == {"idle", "oauth", "refreshing", "login5", "logging", "client", "asking", "session",
           "connected", "connecting", "mark", "set_session", "set_token", "token",
           "login5_token", "sending"}
AllKinds == {"api", "partner", "spclient", "rspotify"}
Threads == [at : Places, kind : AllKinds, session : 0..MaxSessions]
Tokens == [grant : 0..MaxGrants, fresh : BOOLEAN]
Locks == {"oauth", "login5", "client", "rspotify"}

Typed ==
  /\ kinds \subseteq AllKinds
  /\ thread \in [Callers -> Threads] /\ telling \in BOOLEAN
  /\ oauth \in Tokens /\ revoked \in BOOLEAN
  /\ kept \in 0..MaxSessions
  /\ state \in [session : 0..MaxSessions, connected : BOOLEAN]
  /\ librespot \in [Sessions -> {"unmade", "new", "up", "invalid"}]
  /\ lock \in [Locks -> Callers \cup {Free}]
  /\ issued \in Grants /\ given \in 0..MaxGrants

\* Whoever refreshes the token holds its lock, so that the token it found is the
\* token there is.
RefreshersHold == \A c \in Callers : At(c, "refreshing") => lock["oauth"] = c /\ oauth # NoToken

\* Refresh tokens are numbered as they are issued, and a login is given the next.
GrantsAreOrdered ==
  /\ given <= issued
  /\ oauth # NoToken => given <= oauth.grant

ToldToLogIn == revoked /\ ~telling => oauth = NoToken

Kept == RefreshersHold /\ GrantsAreOrdered /\ ToldToLogIn

\* A session that a thread was given, or that is the one in use, has been made.
SessionsAreMade ==
  /\ state.session # 0 => librespot[state.session] # "unmade"
  /\ \A c \in Callers :
       At(c, "connected") \/ At(c, "connecting") =>
         thread[c].session \in Sessions /\ librespot[thread[c].session] # "unmade"

One == SessionsAreMade /\ OneLibrespotSession

\* What a step does with the threads: only c moves, to p.
Moves(c, p) ==
  /\ thread' \in [Callers -> Threads]
  /\ thread'[c].at = p
  /\ \A d \in Callers \ {c} : thread'[d] = thread[d]

LEMMA GotoMoves ==
  ASSUME WebTokensAssumption, Typed, NEW c \in Callers, NEW p \in Places, Goto(c, p)
  PROVE  Moves(c, p) /\ (p # "idle" => thread'[c].session = thread[c].session)
<1>1. thread[c] \in Threads /\ thread \in [Callers -> Threads]  BY DEF Typed
<1>2. CASE p = "idle"
  <2>1. Resting \in Threads /\ Resting.at = "idle"
    BY DEF Resting, Threads, Places, AllKinds, WebTokensAssumption
  <2>2. thread' = [thread EXCEPT ![c] = Resting]  BY <1>2 DEF Goto
  <2> QED  BY <1>1, <1>2, <2>1, <2>2 DEF Moves
<1>3. CASE p # "idle"
  <2>1. PICK t : t = [thread[c] EXCEPT !.at = p]  OBVIOUS
  <2>2. t \in Threads /\ t.at = p /\ t.session = thread[c].session
    BY <1>1, <2>1 DEF Threads
  <2>3. thread' = [thread EXCEPT ![c] = t]  BY <1>1, <1>3, <2>1 DEF Goto
  <2> QED  BY <1>1, <2>2, <2>3 DEF Moves
<1> QED  BY <1>2, <1>3

LEMMA GotoWithMoves ==
  ASSUME Typed, NEW c \in Callers, NEW p \in Places, NEW s \in 0..MaxSessions, GotoWith(c, p, s)
  PROVE  Moves(c, p) /\ thread'[c].session = s
<1>1. thread[c] \in Threads /\ thread \in [Callers -> Threads]  BY DEF Typed
<1>2. PICK t : t = [thread[c] EXCEPT !.at = p, !.session = s]  OBVIOUS
<1>3. t \in Threads /\ t.at = p /\ t.session = s  BY <1>1, <1>2 DEF Threads
<1>4. thread' = [thread EXCEPT ![c] = t]  BY <1>1, <1>2 DEF GotoWith
<1> QED  BY <1>1, <1>3, <1>4 DEF Moves

LEMMA WhereNext ==
  ASSUME Typed, NEW c \in Callers
  PROVE  /\ Found(c) \in {"client", "sending", "set_token"}
         /\ WithoutOauth(c) \in {"login5", "session", "idle"}
         /\ WithoutLogin5(c) \in {"idle", "oauth"}
<1>1. Kind(c) \in AllKinds  BY DEF Typed, Threads, Kind
<1> QED  BY <1>1 DEF Found, WithoutOauth, WithoutLogin5, AllKinds

\* The steps of a thread that keep the OAuth token, its lock and the sessions.
Aside(c) ==
  \/ TakeLogin5(c) \/ TakeClient(c) \/ ReadConnected(c) \/ SetSession(c) \/ SetToken(c)
  \/ EnsureToken(c) \/ Send(c)
  \/ \E ok \in BOOLEAN : LogIn(c, ok) \/ AskClient(c, ok)

LEMMA AsideSteps ==
  ASSUME WebTokensAssumption, Typed, NEW c \in Callers, Aside(c)
  PROVE  /\ \E p \in Places \ {"refreshing", "connected"} :
              /\ Moves(c, p)
              /\ p = "connecting" => At(c, "connected") /\ thread'[c].session = thread[c].session
         /\ lock' \in [Locks -> Callers \cup {Free}] /\ lock'["oauth"] = lock["oauth"]
         /\ kept' \in 0..MaxSessions
         /\ UNCHANGED <<telling, oauth, revoked, state, librespot, server>>
<1> USE DEF Places
<1>1. lock \in [Locks -> Callers \cup {Free}] /\ kept \in 0..MaxSessions
  BY DEF Typed
<1>2. ASSUME NEW l \in Locks \ {"oauth"}, lock' = lock \/ Take(l, c) \/ Drop(l)
      PROVE  lock' \in [Locks -> Callers \cup {Free}] /\ lock'["oauth"] = lock["oauth"]
  BY <1>1, <1>2 DEF Take, Drop, Locks
<1>3. CASE TakeLogin5(c)
  <2>1. Goto(c, Found(c)) \/ Goto(c, "logging")  BY <1>3 DEF TakeLogin5
  <2>2. \E p \in {"client", "sending", "set_token", "logging"} : Moves(c, p)
    BY <2>1, WhereNext, GotoMoves
  <2>3. lock' = lock \/ Take("login5", c)  BY <1>3 DEF TakeLogin5
  <2> QED  BY <1>1, <1>2, <1>3, <2>2, <2>3 DEF TakeLogin5, Locks
<1>4. CASE TakeClient(c)
  <2>1. \E p \in {"sending", "asking"} : Moves(c, p)  BY <1>4, GotoMoves DEF TakeClient
  <2>2. lock' = lock \/ Take("client", c)  BY <1>4 DEF TakeClient
  <2> QED  BY <1>1, <1>2, <1>4, <2>1, <2>2 DEF TakeClient, Locks
<1>5. CASE ReadConnected(c)
  <2>1. PICK p \in {"set_session", "connecting"} : Goto(c, p)  BY <1>5 DEF ReadConnected
  <2>2. Moves(c, p) /\ thread'[c].session = thread[c].session  BY <2>1, GotoMoves
  <2> QED  BY <1>1, <1>5, <2>2 DEF ReadConnected, internal, server
<1>6. CASE SetSession(c)
  <2>1. Moves(c, "token")  BY <1>6, GotoMoves DEF SetSession
  <2>2. kept' \in 0..MaxSessions  BY <1>6 DEF SetSession, Typed, Threads
  <2> QED  BY <1>1, <1>6, <2>1, <2>2 DEF SetSession
<1>7. CASE SetToken(c)
  <2>1. Moves(c, "sending")  BY <1>7, GotoMoves DEF SetToken
  <2> QED  BY <1>1, <1>7, <2>1 DEF SetToken
<1>8. CASE EnsureToken(c)
  <2>1. Goto(c, "sending") \/ GotoWith(c, "login5_token", kept)  BY <1>8 DEF EnsureToken
  <2>2. \E p \in {"sending", "login5_token"} : Moves(c, p)
    BY <1>1, <2>1, GotoMoves, GotoWithMoves
  <2>3. lock' = lock \/ Take("rspotify", c)  BY <1>8 DEF EnsureToken
  <2> QED  BY <1>1, <1>2, <1>8, <2>2, <2>3 DEF EnsureToken, Locks, internal
<1>9. CASE Send(c)
  <2>1. Moves(c, "idle")  BY <1>9, GotoMoves DEF Send
  <2> QED  BY <1>1, <1>9, <2>1 DEF Send, internal
<1>10. CASE \E ok \in BOOLEAN : LogIn(c, ok)
  <2>1. PICK ok \in BOOLEAN : LogIn(c, ok)  BY <1>10
  <2>2. Goto(c, Found(c)) \/ Goto(c, WithoutLogin5(c))  BY <2>1 DEF LogIn
  <2>3. \E p \in {"client", "sending", "set_token", "idle", "oauth"} : Moves(c, p)
    BY <2>2, WhereNext, GotoMoves
  <2>4. Drop("login5")  BY <2>1 DEF LogIn
  <2> QED  BY <1>1, <1>2, <2>1, <2>3, <2>4 DEF LogIn, Locks
<1>11. CASE \E ok \in BOOLEAN : AskClient(c, ok)
  <2>1. PICK ok \in BOOLEAN : AskClient(c, ok)  BY <1>11
  <2>2. Moves(c, "sending")  BY <2>1, GotoMoves DEF AskClient
  <2>3. Drop("client")  BY <2>1 DEF AskClient
  <2> QED  BY <1>1, <1>2, <2>1, <2>2, <2>3 DEF AskClient, Locks
<1> QED
  BY <1>3, <1>4, <1>5, <1>6, <1>7, <1>8, <1>9, <1>10, <1>11 DEF Aside
-----------------------------------------------------------------------------
(***************************************************************************)
(* What the parts of the invariant stand.                                  *)
(***************************************************************************)
\* A thread that moves elsewhere than to a refresh, the lock and the token as they were.
LEMMA MoveKeeps ==
  ASSUME Kept, NEW c \in Callers, NEW p, Moves(c, p), p # "refreshing",
         lock'["oauth"] = lock["oauth"],
         UNCHANGED <<telling, oauth, revoked, issued, given>>
  PROVE  Kept'
<1>1. \A d \in Callers : At(d, "refreshing")' => At(d, "refreshing")
  BY DEF Moves, At
<1> QED  BY <1>1 DEF Kept, RefreshersHold, GrantsAreOrdered, ToldToLogIn

\* No session comes up but the one in use, and none is unmade.
NoNewSession ==
  /\ state'.session = state.session
  /\ \A s \in Sessions : librespot[s] # "unmade" => librespot'[s] # "unmade"
  /\ \A s \in Sessions : librespot'[s] \in {"new", "up"} => librespot[s] \in {"new", "up"}

LEMMA MoveIsOne ==
  ASSUME Typed, One, NEW c \in Callers, NEW p, Moves(c, p), p # "connected", NoNewSession,
         p = "connecting" => At(c, "connected") /\ thread'[c].session = thread[c].session
  PROVE  One'
<1>1. state.session \in 0..MaxSessions  BY DEF Typed
<1>2. state'.session # 0 => librespot'[state'.session] # "unmade"
  BY <1>1 DEF One, SessionsAreMade, NoNewSession, Sessions
<1>3. ASSUME NEW d \in Callers, At(d, "connected")' \/ At(d, "connecting")'
      PROVE  thread'[d].session \in Sessions /\ librespot'[thread'[d].session] # "unmade"
  <2>1. /\ thread'[d].session = thread[d].session
        /\ At(d, "connected") \/ At(d, "connecting")
    BY <1>3 DEF Moves, At
  <2> QED  BY <2>1 DEF One, SessionsAreMade, NoNewSession
<1>4. OneLibrespotSession'  BY DEF One, OneLibrespotSession, NoNewSession
<1> QED  BY <1>2, <1>3, <1>4 DEF One, SessionsAreMade

Safe == Typed /\ Kept /\ One

LEMMA AsideIsSafe ==
  ASSUME WebTokensAssumption, Safe, NEW c \in Callers, Aside(c), UNCHANGED kinds
  PROVE  Safe'
<1> USE DEF Safe
<1>1. PICK p \in Places \ {"refreshing", "connected"} :
        /\ Moves(c, p)
        /\ p = "connecting" => At(c, "connected") /\ thread'[c].session = thread[c].session
  BY AsideSteps
<1>2. /\ lock' \in [Locks -> Callers \cup {Free}] /\ lock'["oauth"] = lock["oauth"]
      /\ kept' \in 0..MaxSessions
      /\ UNCHANGED <<telling, oauth, revoked, state, librespot, server>>
  BY AsideSteps
<1>3. Typed'  BY <1>1, <1>2 DEF Typed, Moves, server
<1>4. Kept'
  <2>1. p # "refreshing" /\ UNCHANGED <<telling, oauth, revoked, issued, given>>
    BY <1>1, <1>2 DEF server
  <2> QED  BY <1>1, <1>2, <2>1, MoveKeeps
<1>5. One'
  <2>1. NoNewSession /\ p # "connected"  BY <1>1, <1>2 DEF NoNewSession
  <2> QED  BY <1>1, <2>1, MoveIsOne
<1> QED  BY <1>3, <1>4, <1>5

\* The first look at the token, and perhaps the lock.
LEMMA TakeOauthIsSafe ==
  ASSUME WebTokensAssumption, Safe, NEW c \in Callers, TakeOauth(c), UNCHANGED kinds
  PROVE  Safe'
<1> USE DEF Safe
<1>1. /\ UNCHANGED <<telling, oauth, revoked, internal, server>> /\ lock["oauth"] = Free
  BY DEF TakeOauth
<1>2. UNCHANGED <<kept, state, librespot, issued, given>> /\ NoNewSession
  BY <1>1 DEF internal, server, NoNewSession
<1>3. ASSUME NEW p \in Places \ {"refreshing", "connected", "connecting"}, Goto(c, p), lock' = lock
      PROVE  Safe'
  <2>1. Moves(c, p) /\ p # "refreshing" /\ p # "connected" /\ p # "connecting"
    BY <1>3, GotoMoves
  <2>2. Typed'  BY <1>1, <1>2, <1>3, <2>1 DEF Typed, Moves
  <2>3. Kept'  BY <1>1, <1>2, <1>3, <2>1, MoveKeeps
  <2>4. One'  BY <1>2, <2>1, MoveIsOne
  <2> QED  BY <2>2, <2>3, <2>4
<1>4. CASE oauth # NoToken /\ ~oauth.fresh /\ Take("oauth", c) /\ Goto(c, "refreshing")
  <2>1. Moves(c, "refreshing")  BY <1>4, GotoMoves DEF Places
  <2>2. lock' \in [Locks -> Callers \cup {Free}] /\ lock'["oauth"] = c
    BY <1>4 DEF Take, Typed, Locks
  <2>3. Typed'  BY <1>1, <1>2, <2>1, <2>2 DEF Typed, Moves
  <2>4. RefreshersHold'
    <3> SUFFICES ASSUME NEW d \in Callers, At(d, "refreshing")'
                 PROVE  lock'["oauth"] = d /\ oauth' # NoToken
      BY DEF RefreshersHold
    <3>1. d = c
      <4> SUFFICES ASSUME d # c PROVE FALSE  OBVIOUS
      <4>1. At(d, "refreshing")  BY <2>1 DEF Moves, At
      <4>2. lock["oauth"] = d  BY <4>1 DEF Kept, RefreshersHold
      <4> QED  BY <1>1, <4>2 DEF WebTokensAssumption
    <3> QED  BY <1>1, <1>4, <2>2, <3>1
  <2>5. GrantsAreOrdered' /\ ToldToLogIn'
    BY <1>1, <1>2 DEF Kept, GrantsAreOrdered, ToldToLogIn
  <2>6. One'  BY <1>2, <2>1, MoveIsOne
  <2> QED  BY <2>3, <2>4, <2>5, <2>6 DEF Kept
<1>5. Found(c) \in Places \ {"refreshing", "connected", "connecting"}
      /\ WithoutOauth(c) \in Places \ {"refreshing", "connected", "connecting"}
  BY WhereNext DEF Places
<1> QED  BY <1>3, <1>4, <1>5 DEF TakeOauth

\* The end of a refresh.
LEMMA RefreshIsSafe ==
  ASSUME WebTokensAssumption, Safe, NEW c \in Callers, Refresh(c), UNCHANGED kinds
  PROVE  Safe'
<1> USE DEF Safe
<1>1. /\ At(c, "refreshing") /\ lock["oauth"] = c /\ oauth # NoToken
      /\ UNCHANGED <<telling, internal, given>> /\ Drop("oauth")
  BY DEF Refresh, Kept, RefreshersHold
<1>2. UNCHANGED <<kept, state, librespot>> /\ NoNewSession
  BY <1>1 DEF internal, NoNewSession
<1>3. PICK p \in Places \ {"refreshing", "connected", "connecting"} : Goto(c, p)
  <2>1. Found(c) \in Places \ {"refreshing", "connected", "connecting"}
        /\ WithoutOauth(c) \in Places \ {"refreshing", "connected", "connecting"}
    BY WhereNext DEF Places
  <2>2. Goto(c, Found(c)) \/ Goto(c, WithoutOauth(c))
    BY DEF Refresh, NotRefreshed, Refreshed
  <2> QED  BY <2>1, <2>2
<1>4. Moves(c, p)  BY <1>3, GotoMoves
<1>5. lock' \in [Locks -> Callers \cup {Free}]  BY <1>1 DEF Drop, Typed
<1>6. /\ oauth' \in Tokens /\ revoked' \in BOOLEAN /\ issued' \in Grants /\ given <= issued'
      /\ oauth' # NoToken => given <= oauth'.grant
      /\ revoked' /\ ~telling => oauth' = NoToken
  <2>1. /\ oauth \in Tokens /\ revoked \in BOOLEAN /\ issued \in Grants /\ given \in 0..MaxGrants
        /\ given <= issued /\ given <= oauth.grant /\ ~(revoked /\ ~telling)
    BY <1>1 DEF Typed, Kept, GrantsAreOrdered, ToldToLogIn
  <2>2. CASE NotRefreshed(c)
    <3>1. CASE oauth' = NoToken /\ revoked' = TRUE
      <4>1. NoToken \in Tokens  BY WebTokensAssumption DEF NoToken, Tokens, WebTokensAssumption
      <4> QED  BY <2>1, <2>2, <3>1, <4>1 DEF NotRefreshed
    <3>2. CASE UNCHANGED <<oauth, revoked>>  BY <2>1, <2>2, <3>2 DEF NotRefreshed
    <3> QED  BY <2>2, <3>1, <3>2 DEF NotRefreshed
  <2>3. ASSUME NEW rotate \in BOOLEAN, Refreshed(c, rotate)
        PROVE  /\ oauth' \in Tokens /\ revoked' \in BOOLEAN /\ issued' \in Grants /\ given <= issued'
               /\ oauth' # NoToken => given <= oauth'.grant
               /\ revoked' /\ ~telling => oauth' = NoToken
    <3>1. PICK g : g = IF rotate THEN issued' ELSE oauth.grant  OBVIOUS
    <3>2. oauth' = [grant |-> g, fresh |-> TRUE] /\ UNCHANGED revoked
      BY <2>3, <3>1 DEF Refreshed
    <3>3. issued' \in Grants /\ given <= issued' /\ g \in 0..MaxGrants /\ given <= g
      <4>1. CASE rotate
        <5>1. issued < MaxGrants /\ issued' = issued + 1 /\ g = issued'
          BY <2>3, <3>1, <4>1 DEF Refreshed
        <5> QED  BY <2>1, <5>1, WebTokensAssumption DEF Grants, WebTokensAssumption
      <4>2. CASE ~rotate
        <5>1. issued' = issued /\ g = oauth.grant  BY <2>3, <3>1, <4>2 DEF Refreshed
        <5> QED  BY <2>1, <5>1 DEF Tokens
      <4> QED  BY <4>1, <4>2
    <3> QED  BY <2>1, <3>2, <3>3 DEF Tokens
  <2> QED  BY <2>2, <2>3 DEF Refresh
<1>7. Typed'  BY <1>1, <1>2, <1>4, <1>5, <1>6 DEF Typed, Moves
<1>8. RefreshersHold'
  <2> SUFFICES ASSUME NEW d \in Callers, At(d, "refreshing")'  PROVE FALSE
    BY DEF RefreshersHold
  <2>1. d # c /\ At(d, "refreshing")  BY <1>4 DEF Moves, At
  <2> QED  BY <1>1, <2>1 DEF Kept, RefreshersHold
<1>9. GrantsAreOrdered' /\ ToldToLogIn'
  BY <1>1, <1>6 DEF GrantsAreOrdered, ToldToLogIn
<1>10. One'  BY <1>2, <1>3, <1>4, MoveIsOne
<1> QED  BY <1>7, <1>8, <1>9, <1>10 DEF Kept

\* A thread is given the session in use, or makes one when it is of no use any more.
LEMMA GetSessionIsSafe ==
  ASSUME WebTokensAssumption, Safe, NEW c \in Callers, GetSession(c), UNCHANGED kinds
  PROVE  Safe'
<1> USE DEF Safe
<1>1. UNCHANGED <<telling, oauth, revoked, kept, lock, server>>  BY DEF GetSession
<1>2. /\ state.session \in 0..MaxSessions /\ thread \in [Callers -> Threads]
      /\ librespot \in [Sessions -> {"unmade", "new", "up", "invalid"}]
  BY DEF Typed
<1>3. ASSUME NEW s \in 0..MaxSessions, GotoWith(c, "connected", s), s \in Sessions,
             librespot'[s] # "unmade", state'.session # 0 => librespot'[state'.session] # "unmade",
             \A r \in Sessions : librespot[r] # "unmade" => librespot'[r] # "unmade",
             OneLibrespotSession',
             librespot' \in [Sessions -> {"unmade", "new", "up", "invalid"}],
             state' \in [session : 0..MaxSessions, connected : BOOLEAN]
      PROVE  Safe'
  <2>1. Moves(c, "connected") /\ thread'[c].session = s  BY <1>3, GotoWithMoves DEF Places
  <2>2. Typed'  BY <1>1, <1>3, <2>1 DEF Typed, Moves, server
  <2>3. Kept'  BY <1>1, <2>1, MoveKeeps DEF server
  <2>4. SessionsAreMade'
    <3> SUFFICES ASSUME NEW d \in Callers, At(d, "connected")' \/ At(d, "connecting")'
                 PROVE  thread'[d].session \in Sessions /\ librespot'[thread'[d].session] # "unmade"
      BY <1>3 DEF SessionsAreMade
    <3>1. CASE d = c  BY <1>3, <2>1, <3>1
    <3>2. CASE d # c
      <4>1. thread'[d] = thread[d] /\ (At(d, "connected") \/ At(d, "connecting"))
        BY <2>1, <3>2 DEF Moves, At
      <4> QED  BY <1>3, <4>1 DEF One, SessionsAreMade
    <3> QED  BY <3>1, <3>2
  <2> QED  BY <1>3, <2>2, <2>3, <2>4 DEF One
<1>4. CASE NeedsNew
  <2>1. PICK s \in Sessions :
          librespot[s] = "unmade" /\ Made(s) /\ GotoWith(c, "connected", s)
    BY <1>4 DEF GetSession
  <2>2. /\ s \in 0..MaxSessions /\ s # 0
        /\ state' = [session |-> s, connected |-> FALSE]
        /\ librespot' = [librespot EXCEPT ![s] = "new"]
    BY <2>1 DEF Made, Sessions
  <2>3. state'.session = s /\ state' \in [session : 0..MaxSessions, connected : BOOLEAN]
    BY <2>2
  <2>4. OneLibrespotSession'
    <3> SUFFICES ASSUME NEW r \in Sessions, librespot'[r] \in {"new", "up"}, r # s
                 PROVE  FALSE
      BY <2>3 DEF OneLibrespotSession
    <3>1. librespot[r] \in {"new", "up"}  BY <1>2, <2>2
    <3>2. r = state.session  BY <3>1 DEF One, OneLibrespotSession
    <3> QED  BY <1>4, <3>1, <3>2 DEF NeedsNew, Sessions
  <2>5. librespot' \in [Sessions -> {"unmade", "new", "up", "invalid"}] /\ librespot'[s] = "new"
        /\ \A r \in Sessions : librespot[r] # "unmade" => librespot'[r] # "unmade"
    BY <1>2, <2>2
  <2> QED  BY <1>3, <2>1, <2>2, <2>3, <2>4, <2>5
<1>5. CASE ~NeedsNew
  <2>1. GotoWith(c, "connected", state.session) /\ UNCHANGED <<librespot, state>>
    BY <1>5 DEF GetSession
  <2>2. state.session # 0 /\ state.session \in Sessions
    BY <1>2, <1>5 DEF NeedsNew, Sessions
  <2>3. state \in [session : 0..MaxSessions, connected : BOOLEAN]  BY DEF Typed
  <2> QED  BY <1>2, <1>3, <2>1, <2>2, <2>3 DEF One, SessionsAreMade, OneLibrespotSession
<1> QED  BY <1>4, <1>5

\* The steps that connect a session or give it up: none comes up but one that was
\* made and not shut down.
LEMMA ConnectingIsSafe ==
  ASSUME WebTokensAssumption, Safe, NEW c \in Callers, UNCHANGED kinds,
         \/ \E ok \in BOOLEAN : Connect(c, ok)
         \/ MarkConnected(c)
         \/ \E answer \in {"ok", "failed", "late"} : Login5Token(c, answer)
  PROVE  Safe'
<1> USE DEF Safe
<1>1. /\ state \in [session : 0..MaxSessions, connected : BOOLEAN]
      /\ librespot \in [Sessions -> {"unmade", "new", "up", "invalid"}]
      /\ lock \in [Locks -> Callers \cup {Free}]
  BY DEF Typed
<1>2. ASSUME NEW p \in Places \ {"refreshing", "connected", "connecting"}, Goto(c, p), NoNewSession,
             state' \in [session : 0..MaxSessions, connected : BOOLEAN],
             librespot' \in [Sessions -> {"unmade", "new", "up", "invalid"}],
             lock' \in [Locks -> Callers \cup {Free}], lock'["oauth"] = lock["oauth"],
             UNCHANGED <<telling, oauth, revoked, kept, server>>
      PROVE  Safe'
  <2>1. Moves(c, p) /\ p # "refreshing" /\ p # "connected" /\ p # "connecting"
    BY <1>2, GotoMoves
  <2>2. Typed'  BY <1>2, <2>1 DEF Typed, Moves, server
  <2>3. Kept'  BY <1>2, <2>1, MoveKeeps DEF server
  <2>4. One'  BY <1>2, <2>1, MoveIsOne
  <2> QED  BY <2>2, <2>3, <2>4
<1>3. ASSUME NEW ok \in BOOLEAN, Connect(c, ok)  PROVE Safe'
  <2>1. UNCHANGED <<telling, oauth, revoked, kept, state, lock, server>> /\ At(c, "connecting")
    BY <1>3 DEF Connect
  <2>2. PICK s : s = thread[c].session  OBVIOUS
  <2>3. s \in Sessions /\ librespot[s] # "unmade"
    BY <2>1, <2>2 DEF One, SessionsAreMade
  <2>4. CASE ok /\ librespot[s] # "invalid"
    <3>1. librespot' = [librespot EXCEPT ![s] = "up"] /\ Goto(c, "mark")
      BY <1>3, <2>2, <2>4 DEF Connect
    <3>2. librespot[s] \in {"new", "up"}  BY <1>1, <2>3, <2>4
    <3>3. NoNewSession  BY <1>1, <2>1, <3>1, <3>2 DEF NoNewSession
    <3>4. librespot' \in [Sessions -> {"unmade", "new", "up", "invalid"}]  BY <1>1, <3>1
    <3> QED  BY <1>1, <1>2, <2>1, <3>1, <3>3, <3>4 DEF Places
  <2>5. CASE ~(ok /\ librespot[s] # "invalid")
    <3>1. Goto(c, "token") /\ UNCHANGED librespot  BY <1>3, <2>2, <2>5 DEF Connect
    <3>2. NoNewSession  BY <2>1, <3>1 DEF NoNewSession
    <3> QED  BY <1>1, <1>2, <2>1, <3>1, <3>2 DEF Places
  <2> QED  BY <2>4, <2>5
<1>4. CASE MarkConnected(c)
  <2>1. /\ state' = [state EXCEPT !.connected = TRUE] /\ Goto(c, "set_session")
        /\ UNCHANGED <<telling, oauth, revoked, kept, librespot, lock, server>>
    BY <1>4 DEF MarkConnected
  <2>2. /\ state'.session = state.session
        /\ state' \in [session : 0..MaxSessions, connected : BOOLEAN]
    BY <1>1, <2>1
  <2>3. NoNewSession  BY <2>1, <2>2 DEF NoNewSession
  <2> QED  BY <1>1, <1>2, <2>1, <2>2, <2>3 DEF Places
<1>5. ASSUME NEW answer \in {"ok", "failed", "late"}, Login5Token(c, answer)  PROVE Safe'
  <2>1. /\ Goto(c, "sending") \/ Goto(c, "idle")
        /\ librespot' = librespot
             \/ librespot' = [librespot EXCEPT ![thread[c].session] = "invalid"]
        /\ Drop("rspotify")
        /\ UNCHANGED <<telling, oauth, revoked, kept, state, server>>
    BY <1>5 DEF Login5Token
  <2>2. lock' \in [Locks -> Callers \cup {Free}] /\ lock'["oauth"] = lock["oauth"]
    BY <1>1, <2>1 DEF Drop, Locks
  <2>3. librespot' \in [Sessions -> {"unmade", "new", "up", "invalid"}]  BY <1>1, <2>1
  <2>4. NoNewSession  BY <1>1, <2>1 DEF NoNewSession
  <2> QED  BY <1>1, <1>2, <2>1, <2>2, <2>3, <2>4 DEF Places
<1> QED  BY <1>3, <1>4, <1>5

\* A call begins.
LEMMA CallIsSafe ==
  ASSUME WebTokensAssumption, Safe, NEW c \in Callers, NEW k \in kinds, Call(c, k), UNCHANGED kinds
  PROVE  Safe'
<1> USE DEF Safe
<1>1. PICK p : p = IF k \in {"api", "rspotify"} THEN "oauth" ELSE "login5"  OBVIOUS
<1>2. PICK t : t = [at |-> p, kind |-> k, session |-> 0]  OBVIOUS
<1>3. thread \in [Callers -> Threads] /\ k \in AllKinds  BY DEF Typed
<1>4. t \in Threads /\ t.at = p
  BY <1>1, <1>2, <1>3 DEF Threads, Places, WebTokensAssumption
<1>5. thread' = [thread EXCEPT ![c] = t] /\ UNCHANGED <<telling, oauth, revoked, internal, lock, server>>
  BY <1>1, <1>2 DEF Call
<1>6. Moves(c, p) /\ p # "refreshing" /\ p # "connected" /\ p # "connecting"
  BY <1>1, <1>3, <1>4, <1>5 DEF Moves
<1>7. Typed'  BY <1>5, <1>6 DEF Typed, Moves, internal, server
<1>8. Kept'  BY <1>5, <1>6, MoveKeeps DEF server
<1>9. One'
  <2>1. NoNewSession  BY <1>5 DEF NoNewSession, internal
  <2> QED  BY <1>6, <2>1, MoveIsOne
<1> QED  BY <1>7, <1>8, <1>9

\* The rest of the world leaves the threads where they are, and the sessions to
\* their threads.
LEMMA AroundIsSafe ==
  ASSUME WebTokensAssumption, Safe, UNCHANGED <<kinds, thread>>,
         \/ SetOauthToken \/ ClearRevoked \/ TakeRevoked \/ Expire \/ Revoke
         \/ \E s \in Sessions : Lost(s)
         \/ UNCHANGED vars
  PROVE  Safe'
<1> USE DEF Safe
<1>1. UNCHANGED <<kept, state>>
  BY DEF SetOauthToken, ClearRevoked, TakeRevoked, Expire, Revoke, Lost, internal, vars
<1>2. /\ librespot' \in [Sessions -> {"unmade", "new", "up", "invalid"}] /\ NoNewSession
  <2>1. CASE UNCHANGED librespot  BY <1>1, <2>1 DEF NoNewSession, Typed
  <2>2. CASE \E s \in Sessions : Lost(s)
    <3>1. PICK s \in Sessions : librespot' = [librespot EXCEPT ![s] = "invalid"]
      BY <2>2 DEF Lost
    <3>2. librespot \in [Sessions -> {"unmade", "new", "up", "invalid"}]  BY DEF Typed
    <3> QED  BY <1>1, <3>1, <3>2 DEF NoNewSession
  <2> QED
    BY <2>1, <2>2 DEF SetOauthToken, ClearRevoked, TakeRevoked, Expire, Revoke, internal, vars
<1>3. One'
  <2>1. \A c \in Callers : thread'[c] = thread[c]  OBVIOUS
  <2>2. state.session \in 0..MaxSessions  BY DEF Typed
  <2> QED  BY <1>1, <1>2, <2>1, <2>2
     DEF One, SessionsAreMade, OneLibrespotSession, NoNewSession, At, Sessions
<1>4. lock' = lock
  BY DEF SetOauthToken, ClearRevoked, TakeRevoked, Expire, Revoke, Lost, vars
<1>5. /\ oauth \in Tokens /\ issued \in Grants /\ given \in 0..MaxGrants
      /\ revoked \in BOOLEAN /\ telling \in BOOLEAN
  BY DEF Typed
<1>6. ASSUME oauth' \in Tokens, issued' \in Grants, given' \in 0..MaxGrants,
             revoked' \in BOOLEAN, telling' \in BOOLEAN,
             lock["oauth"] # Free => oauth' = oauth, GrantsAreOrdered', ToldToLogIn'
      PROVE  Safe'
  <2>1. Typed'  BY <1>1, <1>2, <1>4, <1>6 DEF Typed
  <2>2. RefreshersHold'
    BY <1>4, <1>6 DEF Kept, RefreshersHold, At, WebTokensAssumption
  <2> QED  BY <1>3, <1>6, <2>1, <2>2 DEF Kept
<1>7. CASE SetOauthToken
  <2>1. /\ issued < MaxGrants /\ oauth' = [grant |-> issued + 1, fresh |-> TRUE]
        /\ issued' = issued + 1 /\ given' = issued + 1 /\ telling' = TRUE /\ revoked' = revoked
        /\ lock["oauth"] = Free
    BY <1>7 DEF SetOauthToken, Store
  <2>2. issued + 1 \in Grants /\ issued + 1 \in 0..MaxGrants
    BY <1>5, <2>1 DEF Grants, WebTokensAssumption
  <2>3. oauth' \in Tokens /\ oauth'.grant = issued + 1  BY <2>1, <2>2 DEF Tokens
  <2>4. GrantsAreOrdered' /\ ToldToLogIn'
    BY <2>1, <2>2, <2>3 DEF GrantsAreOrdered, ToldToLogIn
  <2> QED  BY <1>5, <1>6, <2>1, <2>2, <2>3, <2>4
<1>8. CASE ClearRevoked \/ TakeRevoked
  <2>1. revoked' = FALSE /\ telling' \in BOOLEAN /\ UNCHANGED <<oauth, issued, given>>
    BY <1>5, <1>8 DEF ClearRevoked, TakeRevoked, Unflag, server
  <2>2. GrantsAreOrdered' /\ ToldToLogIn'
    BY <2>1 DEF Kept, GrantsAreOrdered, ToldToLogIn
  <2> QED  BY <1>5, <1>6, <2>1, <2>2
<1>9. CASE Expire
  <2>1. UNCHANGED <<telling, revoked, issued, given>>  BY <1>9 DEF Expire, server
  <2>2. CASE oauth' = oauth
    BY <1>5, <1>6, <2>1, <2>2 DEF Kept, GrantsAreOrdered, ToldToLogIn
  <2>3. CASE oauth.fresh /\ lock["oauth"] = Free /\ oauth' = [oauth EXCEPT !.fresh = FALSE]
    <3>1. oauth # NoToken  BY <2>3 DEF NoToken
    <3>2. oauth' \in Tokens /\ oauth'.grant = oauth.grant  BY <1>5, <2>3 DEF Tokens
    <3>3. GrantsAreOrdered' /\ ToldToLogIn'
      BY <2>1, <3>1, <3>2 DEF Kept, GrantsAreOrdered, ToldToLogIn
    <3> QED  BY <1>5, <1>6, <2>1, <2>3, <3>2, <3>3
  <2> QED  BY <1>9, <2>2, <2>3 DEF Expire
<1>10. CASE Revoke \/ (\E s \in Sessions : Lost(s)) \/ UNCHANGED vars
  <2>1. UNCHANGED <<telling, oauth, revoked, issued, given>>
    BY <1>10 DEF Revoke, Lost, vars, server
  <2> QED  BY <1>5, <1>6, <2>1 DEF Kept, GrantsAreOrdered, ToldToLogIn
<1> QED  BY <1>7, <1>8, <1>9, <1>10

LEMMA StepIsSafe ==
  ASSUME WebTokensAssumption, Safe, [Next]_vars
  PROVE  Safe'
<1>1. ASSUME NEW c \in Callers, Work(c)  PROVE Safe'
  <2>1. Step(c) /\ UNCHANGED kinds  BY <1>1 DEF Work
  <2>2. CASE TakeOauth(c)  BY <2>1, <2>2, TakeOauthIsSafe
  <2>3. CASE Refresh(c)  BY <2>1, <2>3, RefreshIsSafe
  <2>4. CASE GetSession(c)  BY <2>1, <2>4, GetSessionIsSafe
  <2>5. CASE \/ \E ok \in BOOLEAN : Connect(c, ok)
             \/ MarkConnected(c)
             \/ \E answer \in {"ok", "failed", "late"} : Login5Token(c, answer)
    BY <2>1, <2>5, ConnectingIsSafe
  <2>6. CASE Aside(c)  BY <2>1, <2>6, AsideIsSafe
  <2> QED  BY <2>1, <2>2, <2>3, <2>4, <2>5, <2>6 DEF Step, Aside
<1>2. CASE Around /\ UNCHANGED kinds
  <2>1. ASSUME NEW c \in Callers, NEW k \in kinds, Call(c, k)  PROVE Safe'
    BY <1>2, <2>1, CallIsSafe
  <2>2. CASE \/ SetOauthToken \/ ClearRevoked \/ TakeRevoked \/ Expire \/ Revoke
             \/ \E s \in Sessions : Lost(s)
    <3>1. UNCHANGED thread
      BY <2>2 DEF SetOauthToken, ClearRevoked, TakeRevoked, Expire, Revoke, Lost
    <3> QED  BY <1>2, <2>2, <3>1, AroundIsSafe
  <2> QED  BY <1>2, <2>1, <2>2 DEF Around
<1>3. CASE UNCHANGED vars
  <2>1. UNCHANGED <<kinds, thread>>  BY <1>3 DEF vars
  <2> QED  BY <1>3, <2>1, AroundIsSafe
<1> QED  BY <1>1, <1>2, <1>3 DEF Next

LEMMA StartIsSafe ==
  ASSUME WebTokensAssumption, Init
  PROVE  Safe
<1> USE DEF WebTokensAssumption
<1>1. Resting \in Threads /\ Resting.at = "idle"
  BY DEF Resting, Threads, Places, AllKinds
<1>2. oauth \in Tokens /\ oauth.grant \in {0, 1}
  <2>1. 0 \in 0..MaxGrants /\ 1 \in 0..MaxGrants  OBVIOUS
  <2>2. PICK g \in {0, 1} : oauth = [grant |-> g, fresh |-> FALSE]  BY DEF Init, NoToken
  <2> QED  BY <2>1, <2>2 DEF Tokens
<1>3. kinds \subseteq AllKinds  BY DEF Init, AllKinds
<1>4. state \in [session : 0..MaxSessions, connected : BOOLEAN]  BY DEF Init
<1>5. lock \in [Locks -> Callers \cup {Free}]  BY DEF Init, Locks
<1>6. Typed
  <2>1. thread \in [Callers -> Threads]  BY <1>1 DEF Init
  <2>2. librespot \in [Sessions -> {"unmade", "new", "up", "invalid"}]  BY DEF Init
  <2>3. issued \in Grants /\ given \in 0..MaxGrants /\ kept \in 0..MaxSessions
    BY <1>2 DEF Init, Grants
  <2>4. telling \in BOOLEAN /\ revoked \in BOOLEAN  BY DEF Init
  <2> QED  BY <1>2, <1>3, <1>4, <1>5, <2>1, <2>2, <2>3, <2>4 DEF Typed
<1>7. \A c \in Callers : thread[c].at = "idle"  BY <1>1 DEF Init
<1>8. Kept
  BY <1>2, <1>7 DEF Init, Kept, RefreshersHold, GrantsAreOrdered, ToldToLogIn, At
<1>9. One
  BY <1>7 DEF Init, One, SessionsAreMade, OneLibrespotSession, At
<1> QED  BY <1>6, <1>8, <1>9 DEF Safe

LEMMA Invariance ==
  ASSUME WebTokensAssumption
  PROVE  Spec => []Safe
<1>1. Init => Safe  BY StartIsSafe
<1>2. Safe /\ [Next]_vars => Safe'  BY StepIsSafe
<1> QED  BY <1>1, <1>2, PTL DEF Spec

\* Whatever refreshes are under way when the user logs in, and however many threads
\* find the token expired, the token of the login (or its successors) stays in use
\* until Spotify takes it back, and nobody is told to log in while it is there: the
\* lock is kept through the exchange of a refresh (oauth_access_token,
\* set_oauth_token of webapi/client.rs).
THEOREM TheLoginIsKept ==
  ASSUME WebTokensAssumption
  PROVE  Spec => []LoginIsKept
<1>1. Safe => LoginIsKept  BY DEF Safe, Kept, GrantsAreOrdered, ToldToLogIn, LoginIsKept
<1> QED  BY <1>1, Invariance, PTL

\* A librespot session that still has a connection is the one threads are given,
\* although ensure_librespot_session lets go of its lock between looking for the
\* session, connecting it and marking it as connected.
THEOREM TheSessionInUse ==
  ASSUME WebTokensAssumption
  PROVE  Spec => []OneLibrespotSession
<1>1. Safe => OneLibrespotSession  BY DEF Safe, One
<1> QED  BY <1>1, Invariance, PTL
-----------------------------------------------------------------------------
(***************************************************************************)
(* AccountAgrees, of Accounts: for any accounts, attempts to log in,       *)
(* windows, refresh tokens and deaths of the program.  It is inductive     *)
(* once the records have their fields.                                     *)
(***************************************************************************)
TokenShape(token) == token = [of |-> token.of, grant |-> token.grant]
ConfigShape(c) ==
  /\ c = [creds |-> c.creds, oauth |-> c.oauth, key |-> c.key, session |-> c.session]
  /\ TokenShape(c.oauth)
AttemptShape(l) ==
  /\ l = [st |-> l.st, service |-> l.service, win |-> l.win, key |-> l.key, page |-> l.page,
          token |-> l.token, creds |-> l.creds, session |-> l.session]
  /\ TokenShape(l.token)

AttemptsShaped == DOMAIN login = A!Logins /\ \A a \in A!Logins : AttemptShape(login[a])
AccountShape ==
  /\ ConfigShape(config) /\ ConfigShape(disk)
  /\ webapi = [oauth |-> webapi.oauth, revoked |-> webapi.revoked]
  /\ TokenShape(webapi.oauth)
  /\ prefs = [id |-> prefs.id, kind |-> prefs.kind]

LEMMA EmptyShapes ==
  /\ TokenShape(A!NoToken) /\ AttemptShape(A!Idle)
  /\ ConfigShape(A!NoConfig) /\ ConfigShape(A!Torn)
  /\ A!NoToken.of = A!None
  /\ A!NoConfig.creds = A!None /\ A!NoConfig.oauth = A!NoToken
  /\ A!Torn.creds = A!None /\ A!Torn.oauth = A!NoToken
  BY DEF TokenShape, ConfigShape, AttemptShape, A!NoToken, A!Idle, A!NoConfig, A!Torn

\* A field of an attempt is given a value.
LEMMA FieldShaped ==
  ASSUME NEW l, AttemptShape(l), NEW v
  PROVE  /\ AttemptShape([l EXCEPT !.st = v]) /\ AttemptShape([l EXCEPT !.service = v])
         /\ AttemptShape([l EXCEPT !.win = v]) /\ AttemptShape([l EXCEPT !.key = v])
         /\ AttemptShape([l EXCEPT !.page = v]) /\ AttemptShape([l EXCEPT !.creds = v])
         /\ AttemptShape([l EXCEPT !.session = v])
  BY DEF AttemptShape

LEMMA TokenFieldShaped ==
  ASSUME NEW l, AttemptShape(l), NEW token, TokenShape(token)
  PROVE  AttemptShape([l EXCEPT !.token = token])
  BY DEF AttemptShape

LEMMA GrantFieldShaped ==
  ASSUME NEW l, AttemptShape(l), NEW v
  PROVE  AttemptShape([l EXCEPT !.token.grant = v])
  <1>1. TokenShape(l.token)
    BY DEF AttemptShape
  <1>2. TokenShape([l.token EXCEPT !.grant = v])
    BY <1>1 DEF TokenShape
  <1> QED
    BY <1>2, TokenFieldShaped

LEMMA GoneShape ==
  ASSUME NEW a \in A!Logins
  PROVE  AttemptShape(A!Gone(a))
  BY EmptyShapes, FieldShaped, Zenon DEF A!Gone

\* One attempt goes on.
LEMMA OneShaped ==
  ASSUME AttemptsShaped, NEW a \in A!Logins, NEW l, AttemptShape(l),
         login' = [login EXCEPT ![a] = l]
  PROVE  AttemptsShaped'
  BY DEF AttemptsShaped

LEMMA OverShaped ==
  ASSUME AttemptsShaped, NEW a \in A!Logins, A!Over(a)
  PROVE  AttemptsShaped'
  BY OneShaped, GoneShape DEF A!Over

LEMMA FailsShaped ==
  ASSUME AttemptsShaped, NEW a \in A!Logins, A!Fails(a)
  PROVE  AttemptsShaped'
  <1>1. AttemptShape(login[a])
    BY DEF AttemptsShaped
  <1> DEFINE l == [login[a] EXCEPT !.st = "failed", !.creds = A!None, !.session = A!None,
                                   !.token = A!NoToken]
  <1>2. AttemptShape(l)
    BY <1>1, EmptyShapes, FieldShaped, TokenFieldShaped, Zenon
  <1>3. login' = [login EXCEPT ![a] = l]
    BY DEF A!Fails, AttemptsShaped
  <1> HIDE DEF l
  <1> QED
    BY <1>2, <1>3, OneShaped

LEMMA AttemptShaped ==
  ASSUME AttemptsShaped, NEW a \in A!Logins, A!Attempt(a)
  PROVE  AttemptsShaped'
  <1>1. AttemptShape(login[a])
    BY DEF AttemptsShaped
  <1>2. ASSUME NEW st, login' = [login EXCEPT ![a].st = st] PROVE AttemptsShaped'
    <2>1. AttemptShape([login[a] EXCEPT !.st = st])
      BY <1>1 DEF AttemptShape
    <2>2. login' = [login EXCEPT ![a] = [login[a] EXCEPT !.st = st]]
      BY <1>2
    <2> QED
      BY <2>1, <2>2, OneShaped
  <1>3. CASE A!Bind(a)
    BY <1>2, <1>3, FailsShaped DEF A!Bind
  <1>4. CASE A!TimeOut(a)
    BY <1>4, FailsShaped DEF A!TimeOut
  <1>5. ASSUME NEW ok \in BOOLEAN, A!Exchange(a, ok) PROVE AttemptsShaped'
    <2>1. CASE login' = [login EXCEPT ![a].st = "tokened",
                           ![a].token = [of |-> login[a].creds, grant |-> granted']]
      <3> DEFINE token == [of |-> login[a].creds, grant |-> granted']
                 l == [login[a] EXCEPT !.st = "tokened", !.token = token]
      <3>1. TokenShape(token)
        BY DEF TokenShape
      <3> HIDE DEF token
      <3>2. AttemptShape(l)
        BY <1>1, <3>1, FieldShaped, TokenFieldShaped, Zenon
      <3>3. login' = [login EXCEPT ![a] = l]
        BY <2>1 DEF AttemptsShaped, token
      <3> HIDE DEF l
      <3> QED
        BY <3>2, <3>3, OneShaped
    <2> QED
      BY <1>2, <1>5, <2>1, FailsShaped DEF A!Exchange
  <1>6. ASSUME NEW ok \in BOOLEAN, A!LogIn(a, ok) PROVE AttemptsShaped'
    <2> DEFINE creds == IF ok THEN login[a].creds ELSE A!None
               l == [login[a] EXCEPT !.st = "done", !.creds = creds]
    <2> HIDE DEF creds
    <2>1. AttemptShape(l)
      BY <1>1, FieldShaped, Zenon
    <2>2. login' = [login EXCEPT ![a] = l]
      BY <1>6 DEF A!LogIn, AttemptsShaped, creds
    <2> HIDE DEF l
    <2> QED
      BY <2>1, <2>2, OneShaped
  <1>7. CASE A!LoggedIn(a) \/ A!Scrobbles(a) \/ A!Refused(a) \/ A!Unheard(a)
    BY <1>7, OverShaped DEF A!LoggedIn, A!Scrobbles, A!Refused, A!Unheard
  <1> QED
    BY <1>3, <1>4, <1>5, <1>6, <1>7 DEF A!Attempt

LEMMA RequestShaped ==
  ASSUME AttemptsShaped, NEW a \in A!Logins, NEW s, NEW browser \in BOOLEAN,
         A!Request(a, s, browser)
  PROVE  AttemptsShaped'
  <1> DEFINE l == [A!Idle EXCEPT !.st = "start", !.service = s, !.win = prefs.id,
                                 !.key = typed, !.page = IF browser THEN a ELSE 0]
  <1>1. AttemptShape(l)
    BY EmptyShapes, FieldShaped, Zenon
  <1>2. login' = [login EXCEPT ![a] = l]
    BY DEF A!Request
  <1> HIDE DEF l
  <1> QED
    BY <1>1, <1>2, OneShaped

LEMMA RedirectShaped ==
  ASSUME AttemptsShaped, NEW p \in A!Logins, NEW u, A!Redirect(p, u)
  PROVE  AttemptsShaped'
  <1>1. ASSUME NEW b \in A!Logins PROVE AttemptShape(login'[b])
    <2>1. AttemptShape(login[b])
      BY DEF AttemptsShaped
    <2>2. PICK page, st, creds, key :
            \/ login'[b] = [login[b] EXCEPT !.page = page, !.st = st, !.creds = creds,
                                            !.session = key, !.token.grant = p]
            \/ login'[b] = [login[b] EXCEPT !.page = page]
      BY DEF A!Redirect
    <2> DEFINE l1 == [login[b] EXCEPT !.page = page]
               l2 == [l1 EXCEPT !.st = st]
               l3 == [l2 EXCEPT !.creds = creds]
               l4 == [l3 EXCEPT !.session = key]
               l5 == [l4 EXCEPT !.token.grant = p]
    <2>3. login'[b] = l5 \/ login'[b] = l1
      BY <2>2, Zenon
    <2> HIDE DEF l1, l2, l3, l4, l5
    <2>4. AttemptShape(l1)
      BY <2>1, FieldShaped, Zenon DEF l1
    <2>5. AttemptShape(l2)
      BY <2>4, FieldShaped, Zenon DEF l2
    <2>6. AttemptShape(l3)
      BY <2>5, FieldShaped, Zenon DEF l3
    <2>7. AttemptShape(l4)
      BY <2>6, FieldShaped, Zenon DEF l4
    <2>8. AttemptShape(l5)
      BY <2>7, GrantFieldShaped, Zenon DEF l5
    <2> QED
      BY <2>3, <2>4, <2>8, Zenon
  <1>2. DOMAIN login' = A!Logins
    BY DEF A!Redirect
  <1> QED
    BY <1>1, <1>2 DEF AttemptsShaped

LEMMA StartedShaped ==
  ASSUME NEW c, NEW w, A!Started(c, w)
  PROVE  AttemptsShaped'
  <1>1. login' = [a \in A!Logins |-> IF login[a].st = "idle" THEN A!Idle ELSE A!Gone(a)]
    BY DEF A!Started
  <1> QED
    BY <1>1, EmptyShapes, GoneShape DEF AttemptsShaped

LEMMA AttemptsStayShaped ==
  ASSUME AttemptsShaped, A!Next
  PROVE  AttemptsShaped'
  <1>1. CASE login' = login
    BY <1>1 DEF AttemptsShaped
  <1>2. ASSUME NEW a \in A!Logins, A!Attempt(a) PROVE AttemptsShaped'
    BY <1>2, AttemptShaped
  <1>3. ASSUME A!Kill PROVE AttemptsShaped'
    BY <1>3, StartedShaped DEF A!Kill
  <1>4. ASSUME A!Start PROVE AttemptsShaped'
    BY <1>1, <1>4, StartedShaped DEF A!Start
  <1>5. ASSUME NEW a \in A!Logins, NEW s \in A!Served, NEW b \in BOOLEAN, A!Request(a, s, b)
        PROVE  AttemptsShaped'
    BY <1>5, RequestShaped
  <1>6. ASSUME NEW p \in A!Logins, NEW u, A!Redirect(p, u) PROVE AttemptsShaped'
    BY <1>6, RedirectShaped
  <1>7. ASSUME A!Window \/ A!Client PROVE login' = login
    BY <1>7 DEF A!Window, A!Client, A!ShowPreferences, A!SwitchTab, A!ClosePreferences,
      A!LogOut, A!Disconnect, A!TypeKey, A!WindowRemoved, A!Refresh, A!Revoke, A!Progress,
      A!Threads
  <1> QED
    BY <1>1, <1>2, <1>3, <1>4, <1>5, <1>6, <1>7 DEF A!Next

\* The credentials that a login answers with are of the account of its token.
Owned(l) == l.st \in {"tokened", "done"} /\ l.service = "spotify" /\ l.creds # A!None
              => l.token.of = l.creds
AttemptsOwned == \A a \in A!Logins : Owned(login[a])

\* An attempt that is not answering owns nothing.
LEMMA OneOwned ==
  ASSUME AttemptsShaped, AttemptsOwned, NEW a \in A!Logins, NEW l, Owned(l),
         login' = [login EXCEPT ![a] = l]
  PROVE  AttemptsOwned'
  BY DEF AttemptsShaped, AttemptsOwned

LEMMA AttemptOwned ==
  ASSUME AttemptsShaped, AttemptsOwned, NEW a \in A!Logins, A!Attempt(a)
  PROVE  AttemptsOwned'
  <1> DEFINE x == login[a]
  <1>1. AttemptShape(x) /\ Owned(x)
    BY DEF AttemptsShaped, AttemptsOwned
  <1>2. CASE login' = [login EXCEPT ![a] = A!Gone(a)]
    <2>1. A!Gone(a).st = "over"
      BY DEF A!Gone, A!Idle
    <2> QED
      BY <1>2, <2>1, OneOwned DEF Owned
  <1>3. CASE A!Fails(a)
    <2> DEFINE l == [x EXCEPT !.st = "failed", !.creds = A!None, !.session = A!None,
                              !.token = A!NoToken]
    <2>1. login' = [login EXCEPT ![a] = l]
      BY <1>3 DEF A!Fails, AttemptsShaped
    <2>2. l.st = "failed"
      BY <1>1 DEF AttemptShape
    <2> HIDE DEF l
    <2> QED
      BY <2>1, <2>2, OneOwned DEF Owned
  <1>4. ASSUME NEW st, st = "listening" \/ (st = "done" /\ x.service # "spotify"),
               login' = [login EXCEPT ![a].st = st]
        PROVE  AttemptsOwned'
    <2> DEFINE l == [x EXCEPT !.st = st]
    <2>1. login' = [login EXCEPT ![a] = l]
      BY <1>4
    <2>2. l.st = st /\ l.service = x.service
      BY <1>1 DEF AttemptShape
    <2> HIDE DEF l, x
    <2>3. Owned(l)
      BY <1>4, <2>2 DEF Owned
    <2> QED
      BY <2>1, <2>3, OneOwned
  <1>5. CASE A!Bind(a)
    BY <1>3, <1>4, <1>5 DEF A!Bind
  <1>6. ASSUME NEW ok \in BOOLEAN, A!Exchange(a, ok) PROVE AttemptsOwned'
    <2>1. CASE login' = [login EXCEPT ![a].st = "tokened",
                           ![a].token = [of |-> x.creds, grant |-> granted']]
      <3> DEFINE l == [x EXCEPT !.st = "tokened", !.token = [of |-> x.creds, grant |-> granted']]
      <3>1. login' = [login EXCEPT ![a] = l]
        BY <2>1 DEF AttemptsShaped
      <3>2. l.token.of = x.creds /\ l.creds = x.creds
        BY <1>1 DEF AttemptShape
      <3> HIDE DEF l
      <3> QED
        BY <3>1, <3>2, OneOwned DEF Owned
    <2> QED
      BY <1>3, <1>4, <1>6, <2>1 DEF A!Exchange
  <1>7. ASSUME NEW ok \in BOOLEAN, A!LogIn(a, ok) PROVE AttemptsOwned'
    <2> DEFINE creds == IF ok THEN x.creds ELSE A!None
               l == [x EXCEPT !.st = "done", !.creds = creds]
    <2>1. login' = [login EXCEPT ![a] = l]
      BY <1>7 DEF A!LogIn, AttemptsShaped
    <2>2. creds = x.creds \/ creds = A!None
      OBVIOUS
    <2> HIDE DEF creds
    <2>3. l.creds = creds /\ l.token = x.token /\ l.service = x.service
      BY <1>1 DEF AttemptShape
    <2>4. x.st = "tokened"
      BY <1>7 DEF A!LogIn, A!Thread
    <2> HIDE DEF l, x
    <2>5. Owned(l)
      BY <1>1, <2>2, <2>3, <2>4 DEF Owned
    <2> QED
      BY <2>1, <2>5, OneOwned
  <1> QED
    BY <1>2, <1>3, <1>5, <1>6, <1>7
       DEF A!Attempt, A!TimeOut, A!LoggedIn, A!Scrobbles, A!Refused, A!Unheard, A!Over

LEMMA RedirectOwned ==
  ASSUME AttemptsShaped, AttemptsOwned, NEW p \in A!Logins, NEW u, A!Redirect(p, u)
  PROVE  AttemptsOwned'
  <1>1. ASSUME NEW b \in A!Logins PROVE Owned(login'[b])
    <2> DEFINE x == login[b]
    <2>1. AttemptShape(x) /\ Owned(x)
      BY DEF AttemptsShaped, AttemptsOwned
    <2>2. PICK page, st, creds, key :
            \/ /\ login'[b] = [x EXCEPT !.page = page, !.st = st, !.creds = creds,
                                         !.session = key, !.token.grant = p]
               /\ st \in {"failed", "coded"}
            \/ login'[b] = [x EXCEPT !.page = page]
      BY DEF A!Redirect
    <2>3. CASE /\ login'[b] = [x EXCEPT !.page = page, !.st = st, !.creds = creds,
                                        !.session = key, !.token.grant = p]
               /\ st \in {"failed", "coded"}
      <3> DEFINE l1 == [x EXCEPT !.page = page]
                 l2 == [l1 EXCEPT !.st = st]
                 l3 == [l2 EXCEPT !.creds = creds]
                 l4 == [l3 EXCEPT !.session = key]
                 l5 == [l4 EXCEPT !.token.grant = p]
      <3>1. login'[b] = l5
        BY <2>3, Zenon
      <3>2. "st" \in DOMAIN l1
        BY <2>1 DEF AttemptShape
      <3> HIDE DEF l1
      <3>3. l2.st = st
        BY <3>2
      <3> HIDE DEF l2
      <3>4. l3.st = st
        BY <3>3
      <3> HIDE DEF l3
      <3>5. l4.st = st
        BY <3>4
      <3> HIDE DEF l4
      <3>6. l5.st = st
        BY <3>5
      <3> HIDE DEF l5
      <3> QED
        BY <2>3, <3>1, <3>6 DEF Owned
    <2>4. CASE login'[b] = [x EXCEPT !.page = page]
      <3> DEFINE l == [x EXCEPT !.page = page]
      <3>1. l.st = x.st /\ l.service = x.service /\ l.creds = x.creds /\ l.token = x.token
        BY <2>1 DEF AttemptShape
      <3> HIDE DEF l, x
      <3> QED
        BY <2>1, <2>4, <3>1 DEF Owned, l
    <2> QED
      BY <2>2, <2>3, <2>4
  <1> QED
    BY <1>1 DEF AttemptsOwned

LEMMA StartedOwned ==
  ASSUME NEW c, NEW w, A!Started(c, w)
  PROVE  AttemptsOwned'
  <1>1. login' = [a \in A!Logins |-> IF login[a].st = "idle" THEN A!Idle ELSE A!Gone(a)]
    BY DEF A!Started
  <1>2. A!Idle.st = "idle" /\ \A a \in A!Logins : A!Gone(a).st = "over"
    BY DEF A!Gone, A!Idle
  <1> QED
    BY <1>1, <1>2 DEF AttemptsOwned, Owned

LEMMA AttemptsStayOwned ==
  ASSUME AttemptsShaped, AttemptsOwned, A!Next
  PROVE  AttemptsOwned'
  <1>1. CASE login' = login
    BY <1>1 DEF AttemptsOwned, Owned
  <1>2. ASSUME NEW a \in A!Logins, A!Attempt(a) PROVE AttemptsOwned'
    BY <1>2, AttemptOwned
  <1>3. ASSUME A!Kill PROVE AttemptsOwned'
    BY <1>3, StartedOwned DEF A!Kill
  <1>4. ASSUME A!Start PROVE AttemptsOwned'
    BY <1>1, <1>4, StartedOwned DEF A!Start
  <1>5. ASSUME NEW a \in A!Logins, NEW s \in A!Served, NEW b \in BOOLEAN, A!Request(a, s, b)
        PROVE  AttemptsOwned'
    <2> DEFINE l == [A!Idle EXCEPT !.st = "start", !.service = s, !.win = prefs.id,
                                   !.key = typed, !.page = IF b THEN a ELSE 0]
    <2>1. login' = [login EXCEPT ![a] = l]
      BY <1>5 DEF A!Request
    <2>2. l.st = "start"
      BY DEF A!Idle
    <2> HIDE DEF l
    <2> QED
      BY <2>1, <2>2, OneOwned DEF Owned
  <1>6. ASSUME NEW p \in A!Logins, NEW u, A!Redirect(p, u) PROVE AttemptsOwned'
    BY <1>6, RedirectOwned
  <1>7. ASSUME A!Window \/ A!Client PROVE login' = login
    BY <1>7 DEF A!Window, A!Client, A!ShowPreferences, A!SwitchTab, A!ClosePreferences,
      A!LogOut, A!Disconnect, A!TypeKey, A!WindowRemoved, A!Refresh, A!Revoke, A!Progress,
      A!Threads
  <1> QED
    BY <1>1, <1>2, <1>3, <1>4, <1>5, <1>6, <1>7 DEF A!Next

\* What is on disk is of one account too: it outlives the program.
FileAgrees == ~halved => disk.creds = disk.oauth.of
Agrees == AccountShape /\ A!AccountAgrees /\ FileAgrees
Accounts == AttemptsShaped /\ AttemptsOwned /\ Agrees

LEMMA AccountsInit == A!Init => Accounts
  <1> SUFFICES ASSUME A!Init PROVE Accounts
    OBVIOUS
  <1>1. AttemptsShaped
    BY EmptyShapes DEF A!Init, AttemptsShaped
  <1>2. ConfigShape(config)
    <2>1. CASE config = A!NoConfig
      BY <2>1, EmptyShapes
    <2>2. CASE config # A!NoConfig
      BY <2>2, ZenonT(40) DEF A!Init, A!NoConfig, A!NoToken, ConfigShape, TokenShape
    <2> QED
      BY <2>1, <2>2
  <1>3. AccountShape
    BY <1>2 DEF A!Init, AccountShape, ConfigShape
  <1>4. A!AccountAgrees
    <2>1. config.creds = config.oauth.of
      <3>1. CASE config = A!NoConfig
        BY <3>1, EmptyShapes
      <3>2. CASE config = [A!NoConfig EXCEPT !.creds = A!User, !.oauth = [of |-> A!User, grant |-> 1]]
        BY <3>2 DEF A!NoConfig
      <3> QED
        BY <3>1, <3>2 DEF A!Init
    <2> QED
      BY <2>1 DEF A!Init, A!AccountAgrees
  <1>5. AttemptsOwned
    BY DEF A!Init, AttemptsOwned, Owned, A!Idle
  <1>6. FileAgrees
    BY <1>4 DEF A!Init, FileAgrees, A!AccountAgrees
  <1> QED
    BY <1>1, <1>3, <1>4, <1>5, <1>6 DEF Accounts, Agrees

\* The windows come and go; only logging out changes the account.
LEMMA WindowAgrees ==
  ASSUME Accounts, A!Window
  PROVE  Agrees'
  <1> USE DEF Accounts, Agrees, AccountShape, A!AccountAgrees, FileAgrees
  <1>1. CASE UNCHANGED <<up, config, disk, session, webapi, main, halved>>
             /\ prefs' = [id |-> prefs'.id, kind |-> prefs'.kind]
    BY <1>1
  <1>2. CASE A!LogOut
    <2>1. ConfigShape(config') /\ config'.creds = A!None /\ config'.oauth = A!NoToken
      <3> DEFINE c == [config EXCEPT !.creds = A!None]
      <3>1. c = [creds |-> A!None, oauth |-> c.oauth, key |-> c.key, session |-> c.session]
        BY DEF ConfigShape
      <3>2. config' = [c EXCEPT !.oauth = A!NoToken]
        BY <1>2 DEF A!LogOut
      <3> HIDE DEF c
      <3> QED
        BY <3>1, <3>2, EmptyShapes DEF ConfigShape
    <2> QED
      BY <1>2, <2>1, EmptyShapes DEF A!LogOut, A!Opened
  <1>3. CASE A!Disconnect
    <2>1. ConfigShape(config') /\ config'.creds = config.creds /\ config'.oauth = config.oauth
      <3> DEFINE c == [config EXCEPT !.key = A!None]
      <3>1. c = [creds |-> c.creds, oauth |-> c.oauth, key |-> c.key, session |-> c.session]
            /\ c.creds = config.creds /\ c.oauth = config.oauth
        BY DEF ConfigShape
      <3>2. config' = [c EXCEPT !.session = A!None]
        BY <1>3 DEF A!Disconnect
      <3> HIDE DEF c
      <3> QED
        BY <3>1, <3>2, EmptyShapes DEF ConfigShape
    <2> QED
      BY <1>3, <2>1 DEF A!Disconnect, A!windows
  <1>4. CASE A!Window /\ ~A!LogOut /\ ~A!Disconnect
    BY <1>1, <1>4 DEF A!Window, A!ShowPreferences, A!SwitchTab, A!ClosePreferences,
      A!TypeKey, A!WindowRemoved, A!Opened, A!windows
  <1> QED
    BY <1>2, <1>3, <1>4

\* A login that is answered changes the account in the four places at once.
LEMMA LoggedInAgrees ==
  ASSUME Accounts, NEW a \in A!Logins, A!LoggedIn(a)
  PROVE  Agrees'
  <1> DEFINE c == A!Stored(a)
             first == \E w \in A!Asker(a) : w.kind = "setup"
  <1>1. /\ config' = c /\ disk' = c /\ up' = up
        /\ webapi' = [webapi EXCEPT !.oauth = c.oauth, !.revoked = FALSE]
        /\ session' = IF first /\ c.creds # A!None THEN c.creds
                      ELSE IF login[a].creds = A!None THEN session ELSE login[a].creds
        /\ IF first /\ c.creds # A!None
           THEN prefs' = [prefs EXCEPT !.kind = "closed"] /\ main' = TRUE
           ELSE UNCHANGED <<prefs, main>>
    BY DEF A!LoggedIn
  <1>2. /\ ConfigShape(c) /\ c.oauth = login[a].token
        /\ c.creds = IF login[a].creds = A!None THEN config.creds ELSE login[a].creds
    <2> DEFINE d == A!StoredToken(a)
    <2>1. TokenShape(login[a].token)
      BY DEF Accounts, AttemptsShaped, AttemptShape
    <2>2. ConfigShape(config)
      BY DEF Accounts, Agrees, AccountShape
    <2>3. ConfigShape(d) /\ d.oauth = login[a].token /\ d.creds = config.creds
      BY <2>1, <2>2 DEF A!StoredToken, ConfigShape
    <2>4. c = [d EXCEPT !.creds = IF login[a].creds = A!None THEN d.creds ELSE login[a].creds]
      BY DEF A!Stored
    <2> HIDE DEF c, d
    <2> QED
      BY <2>3, <2>4 DEF ConfigShape
  <1> HIDE DEF c, first
  <1>3. webapi' = [oauth |-> c.oauth, revoked |-> FALSE]
    BY <1>1 DEF Accounts, Agrees, AccountShape
  <1>4. prefs' = [id |-> prefs'.id, kind |-> prefs'.kind]
    BY <1>1 DEF Accounts, Agrees, AccountShape
  <1>5. AccountShape'
    BY <1>1, <1>2, <1>3, <1>4 DEF AccountShape, ConfigShape
  <1>6. ~halved' => c.creds = c.oauth.of
    <2>1. halved' = (login[a].creds = A!None) /\ Owned(login[a])
          /\ login[a].st = "done" /\ login[a].service = "spotify"
      BY DEF A!LoggedIn, A!Answers, A!Thread, Accounts, AttemptsOwned
    <2> QED
      BY <1>2, <2>1 DEF Owned
  <1>7. A!AccountAgrees' /\ FileAgrees'
    BY <1>1, <1>2, <1>3, <1>6 DEF Accounts, Agrees, A!AccountAgrees, FileAgrees
  <1> QED
    BY <1>5, <1>7 DEF Agrees

LEMMA ScrobblesAgrees ==
  ASSUME Accounts, NEW a \in A!Logins, A!Scrobbles(a)
  PROVE  Agrees'
  <1>1. ConfigShape(config') /\ config'.creds = config.creds /\ config'.oauth = config.oauth
    <2> DEFINE c == [config EXCEPT !.key = typed]
    <2>1. ConfigShape(c) /\ c.creds = config.creds /\ c.oauth = config.oauth
      BY DEF Accounts, Agrees, AccountShape, ConfigShape
    <2>2. config' = [c EXCEPT !.session = login[a].session]
      BY DEF A!Scrobbles
    <2> HIDE DEF c
    <2> QED
      BY <2>1, <2>2 DEF ConfigShape
  <1> QED
    BY <1>1 DEF Accounts, Agrees, AccountShape, A!AccountAgrees, FileAgrees, A!Scrobbles,
      A!windows

\* The client's token changes, but not whose it is.
LEMMA ClientAgrees ==
  ASSUME Accounts, A!Client
  PROVE  Agrees'
  <1> USE DEF Accounts, Agrees, AccountShape, A!AccountAgrees, FileAgrees
  <1>1. ASSUME NEW rotate, A!Refresh(rotate) PROVE Agrees'
    <2>1. /\ webapi' = [oauth |-> webapi'.oauth, revoked |-> webapi'.revoked]
          /\ TokenShape(webapi'.oauth)
          /\ webapi'.oauth = A!NoToken \/ webapi'.oauth.of = webapi.oauth.of
          /\ webapi.oauth # A!NoToken
      <3>1. CASE webapi' = [webapi EXCEPT !.oauth = A!NoToken, !.revoked = TRUE]
        BY <1>1, <3>1, EmptyShapes DEF A!Refresh
      <3>2. CASE webapi' = [webapi EXCEPT !.oauth.grant = granted']
        <4> DEFINE token == [webapi.oauth EXCEPT !.grant = granted']
        <4>1. TokenShape(token) /\ token.of = webapi.oauth.of
          BY DEF TokenShape
        <4>2. webapi' = [webapi EXCEPT !.oauth = token]
          BY <3>2
        <4> HIDE DEF token
        <4> QED
          BY <1>1, <4>1, <4>2 DEF A!Refresh
      <3> QED
        BY <1>1, <3>1, <3>2 DEF A!Refresh
    <2> QED
      BY <1>1, <2>1 DEF A!Refresh, A!windows
  <1>2. CASE A!Revoke
    BY <1>2 DEF A!Revoke, A!Threads, A!windows
  <1>3. CASE A!Progress
    BY <1>3 DEF A!Progress, A!windows
  <1> QED
    BY <1>1, <1>2, <1>3 DEF A!Client

\* A program that is started has what the file names, whatever the death left of it.
LEMMA RestartAgrees ==
  ASSUME Accounts, A!Kill \/ A!Start
  PROVE  Agrees'
  <1>1. ASSUME NEW c, NEW w, ConfigShape(c), A!Started(c, w)
        PROVE  /\ ConfigShape(config') /\ config' = c /\ session' = c.creds
               /\ main' = (c.creds # A!None)
               /\ webapi' = [oauth |-> c.oauth, revoked |-> FALSE]
               /\ TokenShape(webapi'.oauth)
               /\ prefs' = [id |-> prefs'.id, kind |-> prefs'.kind]
    BY <1>1 DEF A!Started, ConfigShape
  <1>2. ASSUME A!Kill PROVE Agrees'
    <2>1. ConfigShape(disk) /\ FileAgrees
      BY DEF Accounts, Agrees, AccountShape
    <2>2. ASSUME NEW a \in A!Logins PROVE ConfigShape(A!StoredToken(a))
      <3>1. ConfigShape(config) /\ TokenShape(login[a].token)
        BY DEF Accounts, Agrees, AccountShape, AttemptsShaped, AttemptShape
      <3> QED
        BY <3>1 DEF A!StoredToken, ConfigShape
    <2>3. \/ UNCHANGED <<disk, halved>>
          \/ disk' = A!Torn
          \/ halved' = TRUE /\ \E a \in A!Logins : disk' = A!StoredToken(a)
      BY <1>2 DEF A!Kill
    <2>4. ConfigShape(disk')
      BY <2>1, <2>2, <2>3, EmptyShapes
    <2>5. FileAgrees'
      BY <2>1, <2>3, EmptyShapes DEF FileAgrees
    <2>6. A!Started(A!NoConfig, prefs.id) /\ up' = "down"
      BY <1>2 DEF A!Kill
    <2>7. /\ config' = A!NoConfig /\ main' = FALSE
          /\ webapi' = [oauth |-> A!NoToken, revoked |-> FALSE]
          /\ prefs' = [id |-> prefs'.id, kind |-> prefs'.kind]
      BY <1>1, <2>6, EmptyShapes
    <2>8. AccountShape'
      BY <2>4, <2>7, EmptyShapes DEF AccountShape
    <2> QED
      BY <2>5, <2>6, <2>7, <2>8, EmptyShapes DEF Agrees, A!AccountAgrees
  <1>3. ASSUME A!Start PROVE Agrees'
    <2>1. ConfigShape(disk) /\ UNCHANGED <<disk, halved>> /\ FileAgrees
      BY <1>3 DEF Accounts, Agrees, AccountShape, A!Start
    <2>2. CASE A!Started(disk, prefs.id + 1) /\ up' = "up"
      <3>1. /\ config' = disk /\ session' = disk.creds
            /\ main' = (disk.creds # A!None)
            /\ webapi' = [oauth |-> disk.oauth, revoked |-> FALSE]
            /\ TokenShape(disk.oauth)
            /\ prefs' = [id |-> prefs'.id, kind |-> prefs'.kind]
        BY <2>1, <2>2 DEF A!Started, ConfigShape
      <3>2. AccountShape'
        BY <2>1, <3>1 DEF AccountShape
      <3>3. A!AccountAgrees' /\ FileAgrees'
        BY <2>1, <2>2, <3>1 DEF A!AccountAgrees, FileAgrees
      <3> QED
        BY <3>2, <3>3 DEF Agrees
    <2>3. CASE up' = "dead" /\ UNCHANGED <<config, session, webapi, A!windows>>
      BY <2>1, <2>3 DEF Accounts, Agrees, AccountShape, A!AccountAgrees, FileAgrees, A!windows
    <2> QED
      BY <1>3, <2>2, <2>3 DEF A!Start
  <1> QED
    BY <1>2, <1>3

LEMMA AccountsStep ==
  ASSUME Accounts, [A!Next]_accountVars
  PROVE  Accounts'
  <1>1. CASE UNCHANGED accountVars
    BY <1>1 DEF Accounts, AttemptsShaped, AttemptsOwned, Owned, Agrees, AccountShape,
      A!AccountAgrees, FileAgrees, accountVars
  <1>2. CASE A!Next
    <2>1. AttemptsShaped' /\ AttemptsOwned'
      BY <1>2, AttemptsStayShaped, AttemptsStayOwned DEF Accounts
    <2>2. ASSUME UNCHANGED <<up, config, disk, session, webapi, prefs, main, halved>>
          PROVE  Agrees'
      BY <2>2 DEF Accounts, Agrees, AccountShape, A!AccountAgrees, FileAgrees
    <2>3. ASSUME NEW a \in A!Logins, A!Attempt(a) PROVE Agrees'
      BY <2>2, <2>3, LoggedInAgrees, ScrobblesAgrees
         DEF A!Attempt, A!Bind, A!TimeOut, A!Refused, A!Unheard, A!Exchange, A!LogIn,
             A!Threads, A!windows
    <2>4. ASSUME NEW a \in A!Logins, NEW s, NEW b, A!Request(a, s, b)
          PROVE  Agrees'
      BY <2>2, <2>4 DEF A!Request, A!windows
    <2>5. ASSUME NEW p, NEW u, A!Redirect(p, u) PROVE Agrees'
      BY <2>2, <2>5 DEF A!Redirect, A!Threads, A!windows
    <2>6. Agrees'
      BY <1>2, <2>3, <2>4, <2>5, WindowAgrees, ClientAgrees, RestartAgrees DEF A!Next
    <2> QED
      BY <2>1, <2>6 DEF Accounts
  <1> QED
    BY <1>1, <1>2

\* However logins of several accounts, answers without credentials, refreshes,
\* revocations, logouts, closed windows and deaths in the middle of a save interleave:
\* while the main window is open the session connects with the configuration's
\* credentials and the web client has its token; the file holds the configuration; and
\* credentials and token are of one account unless the login that came last stored the
\* token alone.
THEOREM OneAccount == A!Spec => []AccountAgrees
  <1>1. Accounts => AccountAgrees
    BY DEF Accounts, Agrees, AccountAgrees
  <1>2. Accounts /\ [A!Next]_(A!vars) => Accounts'
    BY AccountsStep DEF A!vars, accountVars
  <1> QED
    BY <1>1, <1>2, AccountsInit, PTL DEF A!Spec
=============================================================================
