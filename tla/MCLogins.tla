------------------------------ MODULE MCLogins ------------------------------
(***************************************************************************)
(* The tokens that calls of the web API carry, and the logins of the user  *)
(* that they come from.  TLC picks the part that runs; the other stays as  *)
(* it began.                                                               *)
(***************************************************************************)
EXTENDS WebTokens

CONSTANTS
  Parts,   \* of {"tokens", "accounts"}
  Users, Keys, Services, MaxLogins, MaxWindows, MaxDeaths

VARIABLES
  part,
  up, config, disk, session, webapi, prefs, closing, active, main, result, typed, alert,
  login, port, grants, granted, deaths, halved

KindsOfCalls == {{"api", "partner", "spclient"}, {"rspotify"}}

A == INSTANCE Accounts WITH
  MaxKills <- MaxDeaths, issued <- granted, kills <- deaths

ASSUME WebTokensAssumption /\ A!AccountsAssumption

accountVars == <<up, config, disk, session, webapi, prefs, closing, active, main, result, typed,
                 alert, login, port, grants, granted, deaths,
                 halved>>
allVars == <<part, vars, accountVars>>

\* A part that does not run has one state.
MCInit ==
  /\ part \in Parts
  /\ Init /\ (part # "tokens" => kinds = {"rspotify"} /\ oauth = NoToken)
  /\ A!Init /\ (part # "accounts" => config = A!NoConfig /\ DOMAIN result = {"spotify"})

MCNext ==
  \/ part = "tokens" /\ Next /\ UNCHANGED <<part, accountVars>>
  \/ part = "accounts" /\ A!Next /\ UNCHANGED <<part, vars>>

MCSpec ==
  /\ MCInit /\ [][MCNext]_allVars
  /\ \A c \in Callers : SF_vars(part = "tokens" /\ Work(c))
  /\ \A l \in 1..MaxLogins : WF_accountVars(part = "accounts" /\ A!Attempt(l))
-----------------------------------------------------------------------------
\* The session and the client follow the configuration, the file holds it, and its
\* credentials and token are of one account, or the last login is known to have
\* stored only the token; see Accounts.
AccountAgrees == A!AccountAgrees

\* A window is not left with "Logging in..." by the logins it asked for; see
\* Accounts.
LoginEnds == A!LoginEnds

\* ui/preferences.rs: the api key kept is the one of the session; see Accounts.
LastfmKeyIsItsSession == A!LastfmKeyIsItsSession
=============================================================================
