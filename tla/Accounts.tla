------------------------------ MODULE Accounts ------------------------------
(***************************************************************************)
(* Logging in and out (ui/preferences.rs, data/config.rs, controller/      *)
(* session.rs, delegate.rs, main.rs; oauth.rs and lastfm.rs of the core).  *)
(* A login is a thread of its own: it listens on a fixed port for the      *)
(* browser to come back with a code, exchanges the code for a token, with  *)
(* Spotify logs in to the access point, and sends its answer to the window *)
(* that asked, which may be gone by then. The account is kept in four      *)
(* places: the configuration, its file, the session service and the web    *)
(* client.                                                                 *)
(***************************************************************************)
EXTENDS Integers, FiniteSets

CONSTANTS
  Users,        \* accounts of the person at the keyboard
  Keys,         \* Last.fm api keys that may be typed
  Services,     \* sets of services; a behaviour logs in to those of one of them
  MaxLogins,    \* bound: attempts to log in
  MaxWindows,   \* bound: preference windows opened
  MaxGrants,    \* bound: refresh tokens issued
  MaxKills      \* bound: times the program dies

None == "none"
Logins == 1..MaxLogins
Grants == 1..MaxGrants

AccountsAssumption ==
  /\ None \notin Users /\ None \notin Keys
  /\ Services \subseteq SUBSET {"spotify", "lastfm"}
  /\ MaxLogins \in Nat /\ MaxWindows \in Nat /\ MaxGrants \in Nat /\ MaxKills \in Nat

\* An OAuthToken: whose it is and the refresh token that comes with it.
Token == [of : Users, grant : Grants]
NoToken == [of |-> None, grant |-> 0]
\* Of the configuration, what says who is logged in.
NoConfig == [creds |-> None, oauth |-> NoToken, key |-> None, session |-> None]
Torn == [NoConfig EXCEPT !.key = "torn"]

VARIABLES
  up,       \* "up", "down", or "dead": it panics each time it is started
  config,   \* Config: credentials, oauth_token, lastfm_api_key, lastfm_session_key
  disk,     \* what config.json holds
  session,  \* whose credentials the SessionService connects with
  webapi,   \* WebApi: oauth_token and the oauth_revoked flag
  prefs,    \* the window in Delegate.preferences_window: [id, kind]
  closing,  \* windows that were told to close and still answer commands, if any is to come
  active,   \* the tab last chosen in the preferences is that of the accounts
  main,     \* the main window is open
  result,   \* service -> Authentication.result, lastfm_auth_result
  typed,    \* lastfm_api_key_input
  alert,    \* the alert that asks to authenticate again is shown
  login,    \* attempt -> how far its thread is
  port,     \* service -> the attempt whose listener is bound to its port, 0 for none
  grants,   \* refresh tokens the service honours
  issued, kills,
  halved    \* history: the token stored last came without its credentials
vars == <<up, config, disk, session, webapi, prefs, closing, active, main,
          result, typed, alert, login, port, grants, issued, kills, halved>>
windows == <<prefs, closing, active, main>>
server == <<grants, issued>>

Served == DOMAIN result
Idle == [st |-> "idle", service |-> None, win |-> 0, key |-> None, page |-> 0,
         token |-> NoToken, creds |-> None, session |-> None]

\* Of an attempt that is over, the page in the browser may be left.
Gone(a) == [Idle EXCEPT !.st = "over", !.page = login[a].page, !.service = login[a].service,
                        !.key = login[a].key, !.win = login[a].win]

\* main() after Config::load: the main window when there are credentials, the
\* login window otherwise. SessionController connects when it is added.
Started(c, w) ==
  /\ config' = c /\ session' = c.creds
  /\ webapi' = [oauth |-> c.oauth, revoked |-> FALSE]
  /\ main' = (c.creds # None)
  /\ prefs' = [id |-> w, kind |-> IF c.creds = None THEN "setup" ELSE "closed"]
  /\ closing' = {} /\ active' = FALSE /\ alert' = FALSE
  /\ result' = [s \in Served |-> "Empty"] /\ typed' = IF c.creds = None THEN c.key ELSE None
  /\ login' = [a \in Logins |-> IF login[a].st = "idle" THEN Idle ELSE Gone(a)]
  /\ port' = [s \in Served |-> 0]

\* The program is started for the first time, or by someone who is logged in.
User == CHOOSE u \in Users : TRUE
Init ==
  /\ up = "up" /\ kills = 0 /\ halved = FALSE
  /\ config \in {NoConfig, [NoConfig EXCEPT !.creds = User, !.oauth = [of |-> User, grant |-> 1]]}
  /\ issued = 1 /\ grants = {config.oauth.grant} \ {0}
  /\ disk = config /\ session = config.creds
  /\ webapi = [oauth |-> config.oauth, revoked |-> FALSE]
  /\ main = (config.creds # None)
  /\ prefs = [id |-> 1, kind |-> IF main THEN "closed" ELSE "setup"]
  /\ closing = {} /\ active = FALSE /\ alert = FALSE
  /\ \E ss \in Services : result = [s \in ss |-> "Empty"] /\ port = [s \in ss |-> 0]
  /\ login = [a \in Logins |-> Idle] /\ typed = None

----------------------------------------------------------------------------
(* The windows.                                                             *)

\* The account tab, with its Authenticate controller, is in the window w.
Live(w) == w.kind = "setup" \/ (w.kind = "prefs" /\ active)
Open == up = "up" /\ prefs.kind # "closed"
Shut(w) == closing' = closing \cup
  {x \in {w} : w.kind # "closed" /\ \E a \in Logins : login[a].win = w.id /\ login[a].st # "over"}
Opened(kind) == prefs' = [id |-> prefs.id + 1, kind |-> kind]

\* INITIALIZE_LASTFM_FIELDS, sent when the account tab is added.
InitializeFields == typed' = config.key

ShowPreferences(onAccount) ==
  /\ up = "up" /\ main /\ prefs.id < MaxWindows
  /\ onAccount => alert
  /\ active' = (active \/ onAccount)
  /\ alert' = (alert /\ ~onAccount)
  /\ IF prefs.kind = "closed" THEN Opened("prefs") ELSE prefs' = prefs
  /\ prefs' # prefs \/ alert' # alert
  /\ IF active' /\ ~Live(prefs) THEN InitializeFields ELSE typed' = typed
  /\ UNCHANGED <<up, config, disk, session, webapi, closing, main, result,
                 login, port, server, kills, halved>>

SwitchTab ==
  /\ Open /\ prefs.kind = "prefs"
  /\ active' = ~active
  /\ IF active' THEN InitializeFields ELSE typed' = typed
  /\ UNCHANGED <<up, config, disk, session, webapi, prefs, closing, main,
                 result, alert, login, port, server, kills, halved>>

TypeKey(k) ==
  /\ Open /\ prefs.kind = "prefs" /\ active /\ "lastfm" \in Served
  /\ config.session = None /\ typed # k
  /\ typed' = k
  /\ UNCHANGED <<up, config, disk, session, webapi, windows, result, alert,
                 login, port, server, kills, halved>>

\* CLOSE_WINDOW: the delegate forgets the window before it is removed, so that
\* the preferences are not reset when it is.
ClosePreferences ==
  /\ Open /\ prefs.kind = "prefs"
  /\ Shut(prefs) /\ prefs' = [prefs EXCEPT !.kind = "closed"]
  /\ UNCHANGED <<up, config, disk, session, webapi, active, main, result,
                 typed, alert, login, port, server, kills, halved>>

WindowRemoved(w) ==
  /\ up = "up" /\ w \in closing
  /\ closing' = closing \ {w}
  /\ UNCHANGED <<up, config, disk, session, webapi, prefs, active, main,
                 result, typed, alert, login, port, server, kills, halved>>

LogOut ==
  /\ Open /\ prefs.kind = "prefs" /\ active /\ config.creds # None /\ prefs.id < MaxWindows
  /\ config' = [config EXCEPT !.creds = None, !.oauth = NoToken] /\ disk' = config'
  /\ Shut(prefs) /\ Opened("setup") /\ main' = FALSE
  /\ InitializeFields /\ halved' = FALSE
  /\ UNCHANGED <<up, session, webapi, active, result, alert, login, port,
                 server, kills>>

----------------------------------------------------------------------------
(* Logging in.                                                              *)

\* SPOTIFY_REQUEST, LASTFM_REQUEST: the browser is sent to the service, unless
\* it cannot be opened, and the thread is started in either case.
Request(a, s, browser) ==
  /\ Open /\ Live(prefs) /\ login[a].st = "idle" /\ \A b \in Logins : b < a => login[b].st # "idle"
  /\ s = "lastfm" => prefs.kind = "prefs" /\ config.session = None /\ typed # None
  /\ login' = [login EXCEPT ![a] = [Idle EXCEPT !.st = "start", !.service = s, !.win = prefs.id,
                                    !.key = typed, !.page = IF browser THEN a ELSE 0]]
  /\ result' = [result EXCEPT ![s] = IF browser THEN "Deferred" ELSE "Rejected"]
  /\ UNCHANGED <<up, config, disk, session, webapi, windows, typed, alert,
                 port, server, kills, halved>>

Threads == <<up, config, disk, session, webapi, windows, result, typed, alert, kills, halved>>
Thread(a, st) == up = "up" /\ login[a].st = st
Fails(a) == login' = [login EXCEPT ![a].st = "failed", ![a].creds = None, ![a].session = None,
                                   ![a].token = NoToken]

\* listen_for_callback_parameter: another attempt may have the port.
Bind(a) ==
  /\ Thread(a, "start")
  /\ IF port[login[a].service] = 0
     THEN /\ port' = [port EXCEPT ![login[a].service] = a]
          /\ login' = [login EXCEPT ![a].st = "listening"]
     ELSE Fails(a) /\ port' = port
  /\ UNCHANGED <<Threads, server>>

\* The browser is done with the page of the attempt p and connects to the port,
\* whoever listens there; u is None when access was denied. The listener of an
\* attempt that gave up takes the connection, and tells no one.
Redirect(p, u) ==
  /\ up = "up" /\ login[p].page = p
  /\ LET s == login[p].service
         o == port[s] IN
     /\ o # 0 /\ (s = "lastfm" => u # None)
     /\ port' = [port EXCEPT ![s] = 0]
     /\ login' = [b \in Logins |->
          LET page == IF b = p THEN 0 ELSE login[b].page IN
          IF b = o /\ login[b].st = "listening"
          THEN [login[b] EXCEPT !.page = page, !.st = IF u = None THEN "failed" ELSE "coded",
                                !.creds = IF s = "spotify" THEN u ELSE None,
                                !.session = login[p].key, !.token.grant = p]
          ELSE [login[b] EXCEPT !.page = page]]
  /\ UNCHANGED <<Threads, server>>

TimeOutUntold(a) ==
  /\ Thread(a, "listening")
  /\ login' = [login EXCEPT ![a] = Gone(a)]
  /\ UNCHANGED <<Threads, port, server>>

\* Five minutes have passed. The listening thread is left behind, and with it
\* the port.
TimeOut(a) ==
  /\ Thread(a, "listening")
  /\ Fails(a)
  /\ UNCHANGED <<Threads, port, server>>

\* The code goes with the verifier of the attempt whose page was opened.
Exchange(a, ok) ==
  /\ Thread(a, "coded")
  /\ IF ~ok THEN Fails(a) /\ UNCHANGED server
     ELSE IF login[a].service = "lastfm"
     THEN IF login[a].session = login[a].key
          THEN login' = [login EXCEPT ![a].st = "done"] /\ UNCHANGED server
          ELSE Fails(a) /\ UNCHANGED server
     ELSE IF login[a].token.grant = a
     THEN /\ issued < MaxGrants /\ issued' = issued + 1 /\ grants' = grants \cup {issued'}
          /\ login' = [login EXCEPT ![a].st = "tokened",
                                    ![a].token = [of |-> login[a].creds, grant |-> issued']]
     ELSE Fails(a) /\ UNCHANGED server
  /\ UNCHANGED <<Threads, port>>

\* Up to three attempts at the access point. Without them the token is still
\* answered.
LogIn(a, ok) ==
  /\ Thread(a, "tokened")
  /\ login' = [login EXCEPT ![a].st = "done", ![a].creds = IF ok THEN @ ELSE None]
  /\ UNCHANGED <<Threads, port, server>>

\* The window that asked, if it is still there and shows the account tab.
Asker(a) == {w \in {prefs} \cup closing : w.id = login[a].win /\ Live(w)}
Over(a) == login' = [login EXCEPT ![a] = Gone(a)]

Answers(a) == Thread(a, "done") /\ login[a].service = "spotify" /\ Asker(a) # {}

\* The configuration with the token, and with the credentials that came of it.
StoredToken(a) == [config EXCEPT !.oauth = login[a].token]
Stored(a) == [StoredToken(a) EXCEPT !.creds = IF login[a].creds = None THEN @ ELSE login[a].creds]

\* SPOTIFY_RESPONSE with a token.
LoggedIn(a) ==
  LET c == Stored(a)
      first == \E w \in Asker(a) : w.kind = "setup" IN
  /\ Answers(a)
  /\ config' = c /\ disk' = c
  /\ webapi' = [webapi EXCEPT !.oauth = c.oauth, !.revoked = FALSE]
  /\ session' = IF first /\ c.creds # None THEN c.creds
                ELSE IF login[a].creds = None THEN session ELSE login[a].creds
  /\ result' = [result EXCEPT !["spotify"] = "Resolved"]
  /\ IF first /\ c.creds # None
     THEN Shut(prefs) /\ prefs' = [prefs EXCEPT !.kind = "closed"] /\ main' = TRUE
     ELSE UNCHANGED <<closing, prefs, main>>
  /\ halved' = (login[a].creds = None)
  /\ Over(a)
  /\ UNCHANGED <<up, active, typed, alert, port, server, kills>>

\* LASTFM_RESPONSE with a session key, stored with the api key typed by now.
Scrobbles(a) ==
  /\ Thread(a, "done") /\ login[a].service = "lastfm" /\ Asker(a) # {}
  /\ config' = [config EXCEPT !.key = typed, !.session = login[a].session] /\ disk' = config'
  /\ result' = [result EXCEPT !["lastfm"] = "Resolved"]
  /\ Over(a)
  /\ UNCHANGED <<up, session, webapi, windows, typed, alert, port, server, kills, halved>>

\* Either response with an error.
Refused(a) ==
  /\ Thread(a, "failed") /\ Asker(a) # {}
  /\ result' = [result EXCEPT ![login[a].service] = "Rejected"]
  /\ Over(a)
  /\ UNCHANGED <<up, config, disk, session, webapi, windows, typed, alert,
                 port, server, kills, halved>>

\* A command to a window, or to a tab, that is gone.
Unheard(a) ==
  /\ up = "up" /\ login[a].st \in {"done", "failed"} /\ Asker(a) = {}
  /\ Over(a)
  /\ UNCHANGED <<Threads, port, server>>

Disconnect ==
  /\ Open /\ prefs.kind = "prefs" /\ active /\ config.session # None
  /\ config' = [config EXCEPT !.key = None, !.session = None] /\ disk' = config'
  /\ result' = [result EXCEPT !["lastfm"] = "Empty"] /\ typed' = None
  /\ UNCHANGED <<up, session, webapi, windows, alert, login, port, server, kills, halved>>

----------------------------------------------------------------------------
(* The tokens of the web client.                                            *)

\* oauth_access_token with a token that expires: refresh_access_token may be
\* given another refresh token, which is kept in memory only.
Refresh(rotate) ==
  /\ up = "up" /\ main /\ webapi.oauth # NoToken
  /\ IF webapi.oauth.grant \in grants
     THEN /\ rotate /\ issued < MaxGrants /\ issued' = issued + 1
          /\ grants' = (grants \ {webapi.oauth.grant}) \cup {issued'}
          /\ webapi' = [webapi EXCEPT !.oauth.grant = issued']
     ELSE /\ webapi' = [webapi EXCEPT !.oauth = NoToken, !.revoked = TRUE]
          /\ UNCHANGED server
  /\ UNCHANGED <<up, config, disk, session, windows, result, typed, alert,
                 login, port, kills, halved>>

\* The user takes the access back on the pages of the service.
Revoke ==
  /\ "spotify" \in Served /\ grants # {} /\ grants' = {}
  /\ UNCHANGED <<Threads, login, port, issued>>

\* PLAYBACK_PROGRESS: take_oauth_revoked and oauth_revoked_alert.
Progress ==
  /\ up = "up" /\ main /\ webapi.revoked
  /\ webapi' = [webapi EXCEPT !.revoked = FALSE] /\ alert' = TRUE
  /\ UNCHANGED <<up, config, disk, session, windows, result, typed, login,
                 port, server, kills, halved>>

----------------------------------------------------------------------------
(* The program ends and is started again.                                   *)

\* Config::save is called with every change in the windows: of the volume, the
\* queue's behavior or a preference, and by the actions above.
Saving == main \/ (\E w \in {prefs} \cup closing : w.kind = "prefs") \/ \E a \in Logins : Answers(a)

\* It may be killed at any time, in Config::save too, when the file is
\* truncated already; LoggedIn saves twice. What is in memory is gone.
Kill ==
  /\ up = "up" /\ kills < MaxKills /\ kills' = kills + 1 /\ up' = "down"
  /\ \/ disk' = disk /\ halved' = halved
     \/ Saving /\ disk' = Torn /\ halved' = halved
     \/ \E a \in Logins : Answers(a) /\ disk' = StoredToken(a) /\ halved' = TRUE
  /\ Started(NoConfig, prefs.id)
  /\ UNCHANGED server

Start ==
  /\ up = "down" /\ prefs.id < MaxWindows
  /\ IF disk = Torn THEN up' = "dead" /\ UNCHANGED <<config, session, webapi, windows,
                                                   result, typed, alert, login, port>>
     ELSE up' = "up" /\ Started(disk, prefs.id + 1)
  /\ UNCHANGED <<disk, server, kills, halved>>

Window ==
  \/ \E b \in BOOLEAN : ShowPreferences(b)
  \/ SwitchTab \/ ClosePreferences \/ LogOut \/ Disconnect
  \/ \E k \in Keys : TypeKey(k)
  \/ \E w \in closing : WindowRemoved(w)
Attempt(a) ==
  \/ Bind(a) \/ TimeOut(a) \/ LoggedIn(a) \/ Scrobbles(a) \/ Refused(a) \/ Unheard(a)
  \/ \E b \in BOOLEAN : Exchange(a, b) \/ LogIn(a, b)
Client ==
  \/ \E b \in BOOLEAN : Refresh(b)
  \/ Revoke \/ Progress
Next ==
  \/ Window \/ Client \/ Kill \/ Start
  \/ \E a \in Logins : Attempt(a)
  \/ \E a \in Logins, s \in Served, b \in BOOLEAN : Request(a, s, b)
  \/ \E p \in Logins, u \in Users \cup {None} : Redirect(p, u)

\* The threads run, and a listener gives up after five minutes.
Fairness == \A a \in Logins : WF_vars(Attempt(a))
Spec == Init /\ [][Next]_vars /\ Fairness

----------------------------------------------------------------------------
(* Properties.                                                              *)

TypeOK ==
  /\ up \in {"up", "down", "dead"} /\ session \in Users \cup {None}
  /\ webapi \in [oauth : Token \cup {NoToken}, revoked : BOOLEAN]
  /\ result \in [Served -> {"Empty", "Deferred", "Resolved", "Rejected"}]
  /\ port \in [Served -> Logins \cup {0}] /\ grants \subseteq 1..issued

\* While the main window is open, the session connects with the credentials of
\* the configuration and the web client has its token, and the file holds the
\* configuration, so that nothing of it changes when the program is started again.
\* Credentials and token are of one account, whatever logins of several accounts
\* overlap, unless the last of them stored the token alone: it answered without
\* credentials, or the program died between its two saves
\* (SPOTIFY_RESPONSE, LOG_OUT, Config::save, main).
AccountAgrees ==
  /\ up = "up" /\ main => /\ config.creds # None /\ session = config.creds
                          /\ webapi.oauth = NoToken \/ webapi.oauth.of = config.oauth.of
  /\ up = "up" => disk = config
  /\ ~halved => config.creds = config.oauth.of

\* A window is not left with "Logging in..." by the logins it asked for, whatever
\* becomes of the browser, unless it is closed or another tab is chosen
\* (oauth.rs, spawn_auth_thread).
Waits(a) == /\ up = "up" /\ Live(prefs) /\ prefs.id = login[a].win
            /\ result[login[a].service] = "Deferred"
LoginEnds == \A a \in Logins : login[a].st \notin {"idle", "over"} /\ Waits(a) ~> ~Waits(a)

\* The api key kept for Last.fm is the one its session was obtained with ("On
\* success, store the validated key/secret in config and save.",
\* ui/preferences.rs).
LastfmKeyIsItsSession == up = "up" /\ config.session # None => config.key = config.session
=============================================================================
