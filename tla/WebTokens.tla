----------------------------- MODULE WebTokens -----------------------------
(***************************************************************************)
(* The tokens of the web client (webapi/client.rs, webapi/rspotify_client  *)
(* .rs, session/login5.rs, session/client_token.rs). Threads that call the *)
(* web API share an OAuth token, a token of the login5 service, a token of *)
(* the client and, for rspotify, a librespot session; each is behind a     *)
(* lock, and all but the last keep theirs while they ask the service for a *)
(* new one. Meanwhile the user may log in again.                           *)
(*                                                                         *)
(* A step is what a thread does with one lock, or one exchange. The gate   *)
(* that admits a call is RequestGate's; login5 and the client token of its *)
(* own are one exchange here.                                              *)
(***************************************************************************)
EXTENDS Integers, FiniteSets

CONSTANTS
  Callers,      \* threads
  Kinds,        \* sets of kinds of calls; a behaviour makes those of one
  MaxGrants,    \* bound: refresh tokens issued
  MaxSessions   \* bound: librespot sessions, the last of which stays

Free == "free"

WebTokensAssumption ==
  /\ IsFiniteSet(Callers) /\ Kinds \subseteq SUBSET {"api", "partner", "spclient", "rspotify"}
  /\ MaxGrants \in Nat \ {0} /\ MaxSessions \in Nat \ {0} /\ Free \notin Callers

Sessions == 1..MaxSessions
Grants == 1..MaxGrants
Resting == [at |-> "idle", kind |-> "api", session |-> 0]
NoToken == [grant |-> 0, fresh |-> FALSE]

VARIABLES
  kinds,     \* of calls made
  thread,    \* thread -> where it is, the call it makes, the librespot session it was given
  telling,   \* the thread of the interface has stored a token and not yet cleared the flag
  oauth,     \* WebApi.oauth_token: its refresh token and whether it is far from expiring
  revoked,   \* WebApi.oauth_revoked
  login5,    \* Login5.auth_token
  client,    \* ClientTokenProvider.token
  rspotify,  \* RSpotifyClient.token
  kept,      \* RSpotifyClient.session, or 0
  state,     \* WebApi.librespot_state: [session, connected], session 0 is None
  librespot, \* session -> "unmade", "new", "up" or "invalid"
  lock,      \* oauth, login5, client, rspotify -> the thread that holds it
  honoured,  \* refresh tokens Spotify honours
  issued,    \* refresh tokens issued
  given      \* the refresh token of the last login
vars == <<kinds, thread, telling, oauth, revoked, login5, client, rspotify, kept, state, librespot, lock,
          honoured, issued, given>>
server == <<honoured, issued, given>>
internal == <<login5, client, rspotify, kept, state, librespot>>

Init ==
  /\ kinds \in Kinds
  /\ thread = [c \in Callers |-> Resting] /\ telling = FALSE
  /\ oauth \in {NoToken, [grant |-> 1, fresh |-> FALSE]} /\ revoked = FALSE
  /\ login5 = "none" /\ client = "none" /\ rspotify = "none" /\ kept = 0
  /\ state = [session |-> 0, connected |-> FALSE]
  /\ librespot = [s \in Sessions |-> "unmade"]
  /\ lock = [l \in {"oauth", "login5", "client", "rspotify"} |-> Free]
  /\ honoured = {1} /\ issued = 1 /\ given = oauth.grant

At(c, p) == thread[c].at = p
Kind(c) == thread[c].kind
Goto(c, p) == thread' = [thread EXCEPT ![c] = IF p = "idle" THEN Resting ELSE [@ EXCEPT !.at = p]]
GotoWith(c, p, s) == thread' = [thread EXCEPT ![c] = [@ EXCEPT !.at = p, !.session = s]]
Take(l, c) == lock[l] = Free /\ lock' = [lock EXCEPT ![l] = c]
Drop(l) == lock' = [lock EXCEPT ![l] = Free]

Call(c, k) ==
  /\ At(c, "idle")
  /\ thread' = [thread EXCEPT ![c] =
       [at |-> IF k \in {"api", "rspotify"} THEN "oauth" ELSE "login5", kind |-> k, session |-> 0]]
  /\ UNCHANGED <<telling, oauth, revoked, internal, lock, server>>

\* Where a call goes with a token, and without the one it tried: access_token_for
\* tries OAuth first for the public host and login5 first for the others.
Found(c) == CASE Kind(c) \in {"api", "partner"} -> "client"
              [] Kind(c) = "spclient" -> "sending"
              [] Kind(c) = "rspotify" -> "set_token"
\* Mutant: each token is the fallback of the other.
InCircles(c) == IF Kind(c) = "rspotify" THEN "session" ELSE "login5"
WithoutOauth(c) == CASE Kind(c) = "api" -> "login5" [] Kind(c) = "rspotify" -> "session" [] OTHER -> "idle"
WithoutLogin5(c) == IF Kind(c) = "api" THEN "idle" ELSE "oauth"

----------------------------------------------------------------------------
(* The OAuth token.                                                         *)

\* oauth_access_token, oauth_token_for_rspotify: the lock is kept for a refresh.
\* A token without a refresh token, or none, is passed over.
TakeOauth(c) ==
  /\ At(c, "oauth") /\ lock["oauth"] = Free
  /\ \/ oauth = NoToken /\ Goto(c, WithoutOauth(c)) /\ UNCHANGED lock
     \/ oauth.fresh /\ Goto(c, Found(c)) /\ UNCHANGED lock
     \/ oauth # NoToken /\ ~oauth.fresh /\ Take("oauth", c) /\ Goto(c, "refreshing")
  /\ UNCHANGED <<telling, oauth, revoked, internal, server>>

\* Mutant: a token that is refused is kept.
NotForgotten(c) ==
  /\ Goto(c, WithoutOauth(c))
  /\ revoked' = (revoked \/ oauth.grant \notin honoured)
  /\ UNCHANGED <<oauth, honoured, issued>>

\* The old token is kept when the service could not be asked.
NotRefreshed(c) ==
  /\ Goto(c, WithoutOauth(c))
  /\ \/ oauth.grant \notin honoured /\ oauth' = NoToken /\ revoked' = TRUE
     \/ UNCHANGED <<oauth, revoked>>
  /\ UNCHANGED <<honoured, issued>>

\* Spotify may answer with another refresh token, and honours the old one no more.
Refreshed(c, rotate) ==
  /\ oauth.grant \in honoured /\ Goto(c, Found(c))
  /\ IF rotate
     THEN /\ issued < MaxGrants /\ issued' = issued + 1
          /\ honoured' = (honoured \ {oauth.grant}) \cup {issued'}
     ELSE UNCHANGED <<honoured, issued>>
  /\ oauth' = [grant |-> IF rotate THEN issued' ELSE oauth.grant, fresh |-> TRUE]
  /\ UNCHANGED revoked

Refresh(c) ==
  /\ At(c, "refreshing")
  /\ NotRefreshed(c) \/ \E rotate \in BOOLEAN : Refreshed(c, rotate)
  /\ Drop("oauth")
  /\ UNCHANGED <<telling, internal, given>>

\* The user logs in: set_oauth_token stores the token, and takes the flag back
\* when it has let go of the lock.
Store(token) == lock["oauth"] = Free /\ oauth' = token /\ UNCHANGED revoked
Unflag == revoked' = FALSE /\ UNCHANGED oauth

SetOauthToken ==
  /\ ~telling /\ issued < MaxGrants
  /\ Store([grant |-> issued + 1, fresh |-> TRUE])
  /\ issued' = issued + 1 /\ honoured' = honoured \cup {issued'} /\ given' = issued'
  /\ telling' = TRUE
  /\ UNCHANGED <<thread, internal, lock>>

ClearRevoked ==
  /\ telling
  /\ Unflag
  /\ telling' = FALSE
  /\ UNCHANGED <<thread, internal, lock, server>>

\* take_oauth_revoked.
TakeRevoked ==
  /\ revoked /\ revoked' = FALSE
  /\ UNCHANGED <<thread, telling, oauth, internal, lock, server>>

----------------------------------------------------------------------------
(* The tokens of login5 and of the client.                                  *)

\* Login5::get_access_token; an expired token is forgotten, and is none here.
TakeLogin5(c) ==
  /\ At(c, "login5")
  /\ IF login5 = "fresh"
     THEN lock["login5"] = Free /\ Goto(c, Found(c)) /\ UNCHANGED <<lock, login5>>
     ELSE Take("login5", c) /\ Goto(c, "logging") /\ UNCHANGED login5
  /\ UNCHANGED <<telling, oauth, revoked, client, rspotify, kept, state, librespot, server>>

\* request_new_token: at most MAX_LOGIN_TRIES exchanges, each with a timeout.
LogIn(c, ok) ==
  /\ At(c, "logging")
  /\ login5' = IF ok THEN "fresh" ELSE login5
  /\ Goto(c, IF ok THEN Found(c) ELSE WithoutLogin5(c))
  /\ Drop("login5")
  /\ UNCHANGED <<telling, oauth, revoked, client, rspotify, kept, state, librespot, server>>

\* ClientTokenProvider::get.
TakeClient(c) ==
  /\ At(c, "client")
  /\ IF client = "fresh"
     THEN lock["client"] = Free /\ Goto(c, "sending") /\ UNCHANGED <<lock, client>>
     ELSE Take("client", c) /\ Goto(c, "asking") /\ UNCHANGED client
  /\ UNCHANGED <<telling, oauth, revoked, login5, rspotify, kept, state, librespot, server>>

\* Without a client token the call is made all the same.
AskClient(c, ok) ==
  /\ At(c, "asking")
  /\ client' = IF ok THEN "fresh" ELSE client
  /\ Goto(c, "sending") /\ Drop("client")
  /\ UNCHANGED <<telling, oauth, revoked, login5, rspotify, kept, state, librespot, server>>

----------------------------------------------------------------------------
(* ensure_librespot_session and ensure_token, for rspotify.                 *)

Made(s) == librespot' = [librespot EXCEPT ![s] = "new"] /\ state' = [session |-> s, connected |-> FALSE]

\* Mutant: a session that is still connecting is not waited for.
NeedsConnected == state.session = 0 \/ ~state.connected
NeedsNew == state.session = 0 \/ librespot[state.session] = "invalid"

\* The lock is taken once for the session and once more for the flag.
GetSession(c) ==
  /\ At(c, "session")
  /\ IF NeedsNew
     THEN \E s \in Sessions :
            /\ librespot[s] = "unmade" /\ \A r \in Sessions : r < s => librespot[r] # "unmade"
            /\ Made(s) /\ GotoWith(c, "connected", s)
     ELSE GotoWith(c, "connected", state.session) /\ UNCHANGED <<librespot, state>>
  /\ UNCHANGED <<telling, oauth, revoked, login5, client, rspotify, kept, lock, server>>

ReadConnected(c) ==
  /\ At(c, "connected")
  /\ Goto(c, IF state.connected THEN "set_session" ELSE "connecting")
  /\ UNCHANGED <<telling, oauth, revoked, internal, lock, server>>

\* session.connect; a call that could not connect keeps none.
Connect(c, ok) ==
  /\ At(c, "connecting")
  /\ IF ok /\ librespot[thread[c].session] # "invalid"
     THEN librespot' = [librespot EXCEPT ![thread[c].session] = "up"] /\ Goto(c, "mark")
     ELSE Goto(c, "token") /\ UNCHANGED librespot
  /\ UNCHANGED <<telling, oauth, revoked, login5, client, rspotify, kept, state, lock, server>>

\* Whatever session is there by now is marked as connected.
MarkConnected(c) ==
  /\ At(c, "mark")
  /\ state' = [state EXCEPT !.connected = TRUE]
  /\ Goto(c, "set_session")
  /\ UNCHANGED <<telling, oauth, revoked, login5, client, rspotify, kept, librespot, lock, server>>

SetSession(c) ==
  /\ At(c, "set_session") /\ kept' = thread[c].session /\ Goto(c, "token")
  /\ UNCHANGED <<telling, oauth, revoked, login5, client, rspotify, state, librespot, lock, server>>

SetToken(c) ==
  /\ At(c, "set_token") /\ lock["rspotify"] = Free
  /\ rspotify' = "fresh" /\ Goto(c, "sending")
  /\ UNCHANGED <<telling, oauth, revoked, login5, client, kept, state, librespot, lock, server>>

\* The session is the one kept last, by whichever thread.
EnsureToken(c) ==
  /\ At(c, "token")
  /\ IF rspotify = "fresh"
     THEN lock["rspotify"] = Free /\ Goto(c, "sending") /\ UNCHANGED lock
     ELSE Take("rspotify", c) /\ GotoWith(c, "login5_token", kept)
  /\ UNCHANGED <<telling, oauth, revoked, internal, server>>

\* login5_token of a session that is up answers, or fails, or takes more than
\* five seconds and the session is shut down.
Login5Token(c, answer) ==
  LET s == thread[c].session IN
  /\ At(c, "login5_token")
  /\ answer = "ok" => s # 0 /\ librespot[s] = "up"
  /\ answer = "late" => s \in 1..(MaxSessions - 1) /\ librespot[s] # "invalid"
  /\ rspotify' = IF answer = "ok" THEN "fresh" ELSE rspotify
  /\ librespot' = IF answer = "late" THEN [librespot EXCEPT ![s] = "invalid"] ELSE librespot
  /\ Goto(c, IF answer = "ok" THEN "sending" ELSE "idle")
  /\ Drop("rspotify")
  /\ UNCHANGED <<telling, oauth, revoked, login5, client, kept, state, server>>

Send(c) ==
  /\ At(c, "sending") /\ Goto(c, "idle")
  /\ UNCHANGED <<telling, oauth, revoked, internal, lock, server>>

----------------------------------------------------------------------------
(* Time, the access points and the user's account page.                     *)

Expire ==
  /\ \/ oauth.fresh /\ lock["oauth"] = Free /\ oauth' = [oauth EXCEPT !.fresh = FALSE]
        /\ UNCHANGED <<login5, client, rspotify>>
     \/ login5 = "fresh" /\ login5' = "none" /\ UNCHANGED <<oauth, client, rspotify>>
     \/ client = "fresh" /\ client' = "none" /\ UNCHANGED <<oauth, login5, rspotify>>
     \/ rspotify = "fresh" /\ rspotify' = "none" /\ UNCHANGED <<oauth, login5, client>>
  /\ UNCHANGED <<thread, telling, revoked, kept, state, librespot, lock, server>>

Lost(s) ==
  /\ s < MaxSessions /\ librespot[s] = "up" /\ librespot' = [librespot EXCEPT ![s] = "invalid"]
  /\ UNCHANGED <<thread, telling, oauth, revoked, login5, client, rspotify, kept, state, lock, server>>

Revoke ==
  /\ honoured # {} /\ honoured' = {}
  /\ UNCHANGED <<thread, telling, oauth, revoked, internal, lock, issued, given>>

Step(c) ==
  \/ TakeOauth(c) \/ Refresh(c) \/ TakeLogin5(c) \/ TakeClient(c)
  \/ GetSession(c) \/ ReadConnected(c) \/ MarkConnected(c) \/ SetSession(c) \/ SetToken(c)
  \/ EnsureToken(c) \/ Send(c)
  \/ \E ok \in BOOLEAN : LogIn(c, ok) \/ AskClient(c, ok) \/ Connect(c, ok)
  \/ \E answer \in {"ok", "failed", "late"} : Login5Token(c, answer)
Work(c) == Step(c) /\ UNCHANGED kinds
Around ==
  \/ \E c \in Callers, k \in kinds : Call(c, k)
  \/ SetOauthToken \/ ClearRevoked \/ TakeRevoked \/ Expire \/ Revoke
  \/ \E s \in Sessions : Lost(s)
Next == (\E c \in Callers : Work(c)) \/ (Around /\ UNCHANGED kinds)

\* A thread runs when it can: each exchange ends by a timeout at the latest, and
\* a lock that is let go of again and again is taken in the end.
Fairness == \A c \in Callers : SF_vars(Work(c))
Spec == Init /\ [][Next]_vars /\ Fairness

----------------------------------------------------------------------------
(* Properties.                                                              *)

\* The token of the last login, or one that Spotify gave for it, is the one in
\* use until it is taken back: no refresh of an earlier one puts that in its
\* place, and the user is not told to log in again while it is there.
\* (set_oauth_token, oauth_access_token, oauth_token_for_rspotify.)
LoginIsKept ==
  /\ oauth # NoToken => oauth.grant >= given
  /\ revoked /\ ~telling => oauth = NoToken

\* A librespot session that was not shut down is the one calls are given: none
\* is left behind with its connection open (ensure_librespot_session).
OneLibrespotSession == \A s \in Sessions : librespot[s] \in {"new", "up"} => s = state.session

\* Every call ends, with an answer or without (WebApi::request_raw, rspotify_call).
CallsEnd == \A c \in Callers : ~At(c, "idle") ~> At(c, "idle")
=============================================================================
