----------------------------- MODULE MCPlayback -----------------------------
(***************************************************************************)
(* The play queue, and the controller of the user interface that mirrors   *)
(* it.  TLC picks the part that runs: "queue" is the queue alone, under    *)
(* every operation; in "view" the controller and its player exchange their *)
(* messages.  The other part stays as it began.                            *)
(***************************************************************************)
EXTENDS PlayQueue

CONSTANTS
  Parts,   \* of {"queue", "view"}
  ViewItems, Episodes, Locals, ViewLists, QueuedLists, Suggested, ViewBehaviors,
  MaxCommands, MaxEnds, MaxLaunches

\* An empty playlist, a single track, a duplicate, and all three tracks.
SomeLists == {<<>>, <<"a">>, <<"a", "b", "b">>, <<"c", "a", "b">>}

\* The user interface plays one list and queues another.  What is recommended for
\* d is played already, for s it is what was queued, and for a file of the user's
\* own there is nothing.
ThreeTracks == {<<"a", "b", "c">>}
TwoQueued == {<<"d", "s">>}
MCSuggested ==
  [i \in ViewItems |-> IF i \in Locals THEN <<>> ELSE IF i = "s" THEN <<"d">> ELSE <<"s">>]

VARIABLES
  part,
  queue, added_queue, playback, now_playing, drag, autoplay, pending_restore,
  user_stop_requested, eq_restart_timer, orders, reports, player, pq, fetching, snapshot,
  restoring, forgotten, ended, tangled, curated, bounds, hasty, reachable

V == INSTANCE PlaybackView WITH
  Item <- ViewItems, Lists <- ViewLists, Inserted <- QueuedLists,
  Behaviors <- ViewBehaviors

ASSUME NoViewItemAssumption == NoItem \notin ViewItems
ASSUME ViewAssumption == V!PlaybackViewAssumption

viewVars ==
  <<queue, added_queue, playback, now_playing, drag, autoplay, pending_restore,
    user_stop_requested, eq_restart_timer, orders, reports, player, pq, fetching, snapshot,
    restoring, forgotten, ended, tangled, curated, bounds, hasty, reachable>>
allVars == <<part, vars, viewVars>>

MCInit ==
  /\ part \in Parts /\ Init /\ V!Init
  /\ part = "queue" => ~hasty /\ reachable

MCNext ==
  \/ part = "queue" /\ Next /\ UNCHANGED <<part, viewVars>>
  \/ part = "view" /\ V!Next /\ UNCHANGED <<part, vars>>

\* Fairness is asked where something is promised that needs it: see AutoplayGoesOn.
Promising == part = "view" /\ ~hasty /\ reachable
MCSpec ==
  /\ MCInit /\ [][MCNext]_allVars
  /\ WF_viewVars(Promising /\ V!OnReport) /\ WF_viewVars(Promising /\ V!TakeOrder)
  /\ WF_viewVars(Promising /\ V!EngineLoaded)
  /\ WF_viewVars(Promising /\ \E seed \in ViewItems : V!AutoplayReady(seed))
-----------------------------------------------------------------------------
\* Every track in the player's queue is listed by the user interface, unless
\* the user queued it and it has played; see PlaybackView.
MirrorKnowsPlayer == V!MirrorKnowsPlayer

\* What the panel lists after the track that plays is what the player will
\* play, in that order; see PlaybackView.
UpcomingAgrees == V!UpcomingAgrees

\* Once it is reported that a track plays, recommendations are taken only for
\* this track; see PlaybackView.
SuggestionsAreForWhatPlays == V!SuggestionsAreForWhatPlays

\* The snapshot is of the track that is shown, unless that is a file of the user's
\* own; see PlaybackView.
SnapshotIsShown == V!SnapshotIsShown

\* When the last track has ended and the web API recommends some, playback goes
\* on; see PlaybackView.
AutoplayGoesOn == V!AutoplayGoesOn
=============================================================================
