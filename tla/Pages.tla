------------------------------- MODULE Pages -------------------------------
(***************************************************************************)
(* The pages of the main window (controller/nav.rs, data/mod.rs, data/     *)
(* nav.rs and the page of each route in ui/): which one is shown, which    *)
(* were before, and what was asked of the service for each. A page keeps   *)
(* one promise per part, whatever album, artist, ... it is about; going to *)
(* a page loads it unless it was already loaded for the same argument.     *)
(* Requests run on threads of their own and are answered in any order.     *)
(***************************************************************************)
EXTENDS Integers, Sequences, SequencesExt, Promises

CONSTANTS
  Navs,     \* the pages that can be gone to, see Nav
  LastRoutes, \* the pages the program may have been closed on
  Queries,  \* what can be searched for, the Links among it
  Links,    \* queries that SpotifyUrl::parse takes for links
  LinkNav,  \* link -> the page it leads to
  Topics,   \* topics a search may be restricted to, besides "all"
  Params,   \* settings of the knobs of the recommendations, besides "default"
  Songs,    \* what may be playing
  MaxActs,  \* bound: commands of the user
  MaxFails  \* bound: requests that fail

\* A page: its route, what it is about, and the track that an album page is
\* to highlight.
Nav(route, arg) == [route |-> route, arg |-> arg, mark |-> "none"]
Home == Nav("Home", "()")
Lyrics == Nav("Lyrics", "()")

ArgsOf(route) == {n.arg : n \in {m \in Navs : m.route = route}}

ASSUME PagesAssumption ==
  /\ {Home, Lyrics} \cup LastRoutes \subseteq Navs
  /\ Links \subseteq Queries /\ ArgsOf("SearchResults") \subseteq Queries
  /\ \A l \in Links : LinkNav[l] \in Navs /\ LinkNav[l].route # "SearchResults"
  /\ ArgsOf("Home") = {"()"} /\ "none" \notin Songs /\ "" \notin Queries
  /\ \A n \in Navs : n = [route |-> n.route, arg |-> n.arg, mark |-> n.mark]
  /\ \A n \in Navs : [n EXCEPT !.mark = "none"] \in Navs

\* The parts of each page. Their commands go to every part of the page.
HomeParts == {"madeForYou", "topArtists", "homeTracks"}
PartsOf(route) ==
  CASE route = "AlbumDetail" -> {"album"}
    [] route = "ArtistDetail" -> {"topTracks", "albums", "info"}
    [] route = "PlaylistDetail" -> {"playlist", "tracks"}
    [] route = "ShowDetail" -> {"show", "episodes"}
    [] route = "Recommendations" -> {"recommend"}
    [] OTHER -> {}
Details == {"AlbumDetail", "ArtistDetail", "PlaylistDetail", "ShowDetail", "Recommendations"}

\* The part whose promise tells whether a page was asked for.
KeyOf(route) ==
  CASE route = "AlbumDetail" -> "album" [] route = "ArtistDetail" -> "topTracks"
    [] route = "PlaylistDetail" -> "playlist" [] route = "ShowDetail" -> "show"
    [] OTHER -> "recommend"

Parts == HomeParts \cup {"search", "lyrics"} \cup UNION {PartsOf(r) : r \in Details}
Kinds == Parts \cup {"link"}

\* What a request of each kind may be about.
Seeds == [seed : ArgsOf("Recommendations"), params : Params \cup {"default"}]
Searches == [q : Queries, id : BOOLEAN, topic : Topics \cup {"all"}]
RequestsOf == [k \in Kinds |->
  CASE k \in HomeParts -> {"()"}
    [] k = "search" -> Searches
    [] k = "link" -> Links
    [] k = "lyrics" -> Songs
    [] k = "recommend" -> Seeds
    [] OTHER -> UNION {ArgsOf(r) : r \in {d \in Details : k \in PartsOf(d)}}]

VARIABLES
  nav,      \* AppState.nav, its copy in common_ctx and config.last_route
  history,  \* AppState.history
  visited,  \* routes that were ever shown: ViewDispatcher.children
  promise,  \* part -> its promise
  flying,   \* kind -> argument -> how many requests are on their way
  typed,    \* Search.input, "" for none
  topic,    \* Search.topic
  playing,  \* what is playing, "none" for nothing
  started,  \* the window was set up
  acts, fails
vars == <<nav, history, visited, promise, flying, typed, topic, playing, started, acts, fails>>

Init ==
  /\ nav = Home /\ history = <<>> /\ visited = {"Home"}
  /\ promise = [s \in Parts |-> Empty]
  /\ flying = [k \in Kinds |-> [a \in RequestsOf[k] |-> 0]]
  /\ typed = "" /\ topic = "all" /\ playing = "none"
  /\ started = FALSE /\ acts = 0 /\ fails = 0

----------------------------------------------------------------------------
(* Asking.                                                                  *)

\* Where the answer of a request goes, and what it is known by there. The
\* lyrics are not told apart.
Target(k) == IF k = "link" THEN "search" ELSE k
DefOf(k, a) ==
  CASE k = "link" -> [q |-> a, id |-> TRUE, topic |-> "all"]
    [] k = "lyrics" -> "()"
    [] OTHER -> a

\* With the promises p and the requests f so far, a is asked of the kinds ks.
Ask(p, f, ks, a) ==
  /\ promise' = [s \in Parts |-> IF \E k \in ks : Target(k) = s
                                 THEN Deferred(DefOf(CHOOSE k \in ks : Target(k) = s, a)) ELSE p[s]]
  /\ flying' = [k \in Kinds |-> IF k \in ks THEN [f[k] EXCEPT ![a] = @ + 1] ELSE f[k]]

\* What the page n lacks when it is shown, and what it is asked for by.
Wanted(n, p) ==
  CASE n.route = "Home" -> {s \in HomeParts : p[s] = Empty}
    [] n.route = "SearchResults" /\ n.arg \in Links -> {"link"}
    [] n.route = "SearchResults" /\ n.arg \notin Links ->
         IF AskedFor(p["search"], [q |-> n.arg, id |-> FALSE, topic |-> topic]) THEN {} ELSE {"search"}
    [] n.route = "Recommendations" ->
         IF AskedFor(p["recommend"], [seed |-> n.arg, params |-> "default"]) THEN {} ELSE {"recommend"}
    [] OTHER -> IF PartsOf(n.route) # {} /\ AskedFor(p[KeyOf(n.route)], n.arg) THEN {} ELSE PartsOf(n.route)
Argument(n) ==
  CASE n.route = "SearchResults" /\ n.arg \notin Links -> [q |-> n.arg, id |-> FALSE, topic |-> topic]
    [] n.route = "Recommendations" -> [seed |-> n.arg, params |-> "default"]
    [] OTHER -> n.arg

LoadRouteData(n, p, f) ==
  /\ visited' = visited \cup {n.route}
  /\ Ask(p, f, Wanted(n, p), Argument(n))

----------------------------------------------------------------------------
(* Going from page to page.                                                 *)

Spend == started /\ acts < MaxActs /\ acts' = acts + 1

NavigateFrom(n, p, f) ==
  /\ nav' = n /\ history' = IF nav = n THEN history ELSE Append(history, nav)
  /\ LoadRouteData(n, p, f)

\* The main window opens on the page it was closed on.
Start(n) ==
  /\ ~started /\ started' = TRUE
  /\ NavigateFrom(n, promise, flying)
  /\ UNCHANGED <<typed, topic, playing, acts, fails>>

Navigate(n) ==
  /\ Spend /\ NavigateFrom(n, promise, flying)
  /\ UNCHANGED <<typed, topic, playing, started, fails>>

\* The search box: Enter goes to the results and clears it.
Type(q) ==
  /\ Spend /\ typed' = q
  /\ UNCHANGED <<nav, history, visited, promise, flying, topic, playing, started, fails>>
Submit ==
  /\ Spend /\ typed # "" /\ typed' = ""
  /\ NavigateFrom(Nav("SearchResults", typed), promise, flying)
  /\ UNCHANGED <<topic, playing, started, fails>>

\* One step back. The search for a link is not gone back to; the page before
\* it is. An album no longer marks a track.
IsLink(n) == n.route = "SearchResults" /\ n.arg \in Links
NavigateBack(at) ==
  LET rest == Front(at.history)
      skip == IsLink(Last(at.history))
      to == IF ~skip THEN Last(at.history) ELSE IF rest = <<>> THEN Home ELSE Last(rest)
  IN IF at.history = <<>> THEN at
     ELSE [nav |-> [to EXCEPT !.mark = "none"],
           history |-> IF skip /\ rest # <<>> THEN Front(rest) ELSE rest]

BackTo(at) == nav' = at.nav /\ history' = at.history /\ LoadRouteData(at.nav, promise, flying)

\* A bug: the page gone back to is not loaded.
BackNoLoad(twice) ==
  /\ Spend
  /\ LET at == NavigateBack([nav |-> nav, history |-> history]) IN
     /\ nav' = at.nav /\ history' = at.history /\ visited' = visited \cup {at.nav.route}
  /\ UNCHANGED <<promise, flying, typed, topic, playing, started, fails>>

\* The button, its menu of earlier pages, the mouse.
Back(twice) ==
  /\ Spend /\ history # <<>>
  /\ LET once == NavigateBack([nav |-> nav, history |-> history])
     IN BackTo(IF twice THEN NavigateBack(once) ELSE once)
  /\ UNCHANGED <<typed, topic, playing, started, fails>>

\* The sort order of playlists changed, or Ctrl+R was pressed: what was
\* loaded is forgotten, and the page that is shown is loaded again.
Forget(parts) ==
  /\ Spend
  /\ nav' = nav /\ history' = history
  /\ LoadRouteData(nav, [s \in Parts |-> IF s \in parts THEN Empty ELSE promise[s]], flying)
  /\ UNCHANGED <<typed, topic, playing, started, fails>>
RefreshPlaylist == Forget(PartsOf("PlaylistDetail"))
RefreshAll == Forget(UNION {PartsOf(r) : r \in Details \ {"Recommendations"}})

\* The lyrics are asked for when their page is opened by its button, and,
\* once it was shown, whenever something else begins to play.
ToggleLyrics ==
  /\ Spend
  /\ IF nav = Lyrics
     THEN BackTo(NavigateBack([nav |-> nav, history |-> history]))
     ELSE /\ nav' = Lyrics /\ history' = Append(history, nav) /\ visited' = visited \cup {"Lyrics"}
          /\ Ask(promise, flying, IF playing = "none" THEN {} ELSE {"lyrics"}, playing)
  /\ UNCHANGED <<typed, topic, playing, started, fails>>
NowPlaying(t) ==
  /\ Spend /\ playing' = t
  /\ Ask(promise, flying, IF "Lyrics" \in visited THEN {"lyrics"} ELSE {}, t)
  /\ UNCHANGED <<nav, history, visited, typed, topic, started, fails>>

----------------------------------------------------------------------------
(* On a page.                                                               *)

OnPage(ks, a) ==
  /\ Spend /\ Ask(promise, flying, ks, a)
  /\ UNCHANGED <<nav, history, visited, typed, playing, started, fails>>

\* "Retry" where a part of the page failed asks again for what failed, for
\* all parts of the page. The failure of a link is retried as a search.
Retryable(route) ==
  CASE route = "Home" -> HomeParts \ {"madeForYou"}
    [] route = "SearchResults" -> {"search"}
    [] OTHER -> PartsOf(route)
Retry(s) ==
  /\ s \in Retryable(nav.route) /\ promise[s].st = "Rejected"
  /\ OnPage(IF nav.route \in Details THEN PartsOf(nav.route) ELSE {s}, promise[s].def)
  /\ UNCHANGED topic

\* "Refresh" on what was loaded asks for it past the cache.
RefreshDetail ==
  /\ nav.route \in {"AlbumDetail", "ArtistDetail", "ShowDetail"}
  /\ IsResolved(promise[KeyOf(nav.route)])
  /\ OnPage(PartsOf(nav.route), promise[KeyOf(nav.route)].def)
  /\ UNCHANGED topic

\* A topic is chosen: what is in the search box is searched for, or else what
\* was searched for last.
SetTopic(t) ==
  /\ nav.route = "SearchResults" /\ topic' = t
  /\ LET again == promise["search"].st # "Empty"
         q == IF typed # "" THEN typed ELSE IF again THEN promise["search"].def.q ELSE ""
         id == typed = "" /\ again /\ promise["search"].def.id
     IN OnPage(IF typed # "" \/ again THEN {"search"} ELSE {},
               [q |-> q, id |-> id, topic |-> t])

\* Half a second after the knobs were last moved, wherever the user is now,
\* recommendations are asked for again, for what they were asked for last.
UpdateParams(ps) ==
  /\ "Recommendations" \in visited /\ promise["recommend"].st # "Empty"
  /\ OnPage({"recommend"}, [promise["recommend"].def EXCEPT !.params = ps])
  /\ UNCHANGED topic

----------------------------------------------------------------------------
(* Answers.                                                                 *)

Landed(k, a) == [flying EXCEPT ![k][a] = @ - 1]
Outcome(ok) == (ok \/ fails < MaxFails) /\ fails' = IF ok THEN fails ELSE fails + 1

\* A bug: an answer is taken whatever its page is about by now.
AnswerStale(k, a, ok) ==
  /\ k \in Parts /\ flying[k][a] > 0 /\ Outcome(ok)
  /\ flying' = Landed(k, a)
  /\ promise' = [promise EXCEPT ![k] = IF ok THEN Resolved(DefOf(k, a), a) ELSE Rejected(DefOf(k, a))]
  /\ UNCHANGED <<nav, history, visited, typed, topic, playing, started, acts>>

\* A bug: a request that failed is not reported to the promise.
AnswerOk(k, a, ok) ==
  /\ k \in Parts /\ flying[k][a] > 0 /\ Outcome(ok)
  /\ flying' = Landed(k, a)
  /\ promise' = IF ok THEN [promise EXCEPT ![k] = Updated(@, DefOf(k, a), ok, a)] ELSE promise
  /\ UNCHANGED <<nav, history, visited, typed, topic, playing, started, acts>>

Answer(k, a, ok) ==
  /\ k \in Parts /\ flying[k][a] > 0 /\ Outcome(ok)
  /\ flying' = Landed(k, a)
  /\ promise' = [promise EXCEPT ![k] = Updated(@, DefOf(k, a), ok, a)]
  /\ UNCHANGED <<nav, history, visited, typed, topic, playing, started, acts>>

\* A link leads to its page, or is shown to have failed, whatever is shown
\* and searched for by now.
OpenLink(l, ok) ==
  /\ flying["link"][l] > 0 /\ Outcome(ok)
  /\ IF ok
     THEN NavigateFrom(LinkNav[l], [promise EXCEPT !["search"] = Empty], Landed("link", l))
     ELSE /\ promise' = [promise EXCEPT !["search"] = Rejected(DefOf("link", l))]
          /\ flying' = Landed("link", l)
          /\ UNCHANGED <<nav, history, visited>>
  /\ UNCHANGED <<typed, topic, playing, started, acts>>

AnswerAny(k) == \E a \in RequestsOf[k], ok \in BOOLEAN : Answer(k, a, ok)
OpenLinkAny == \E l \in Links, ok \in BOOLEAN : OpenLink(l, ok)

Next ==
  \/ \E n \in LastRoutes : Start(n)
  \/ \E n \in Navs : Navigate(n)
  \/ \E q \in Queries : Type(q)
  \/ Submit
  \/ \E twice \in BOOLEAN : Back(twice)
  \/ RefreshPlaylist \/ RefreshAll \/ ToggleLyrics
  \/ \E t \in Songs : NowPlaying(t)
  \/ \E s \in Parts : Retry(s)
  \/ RefreshDetail
  \/ \E t \in Topics \cup {"all"} : SetTopic(t)
  \/ \E ps \in Params : UpdateParams(ps)
  \/ \E k \in Parts : AnswerAny(k)
  \/ OpenLinkAny

\* Every request ends: the HTTP agent has a timeout.
Fairness == WF_vars((\E k \in Parts : AnswerAny(k)) \/ OpenLinkAny)
Spec == Init /\ [][Next]_vars /\ Fairness

----------------------------------------------------------------------------
AllPages == Navs \cup [route : {"SearchResults"}, arg : Queries, mark : {"none"}]
IsPromise(s, p) ==
  \/ p = Empty
  \/ /\ p.st \in {"Deferred", "Resolved", "Rejected"}
     /\ p.def \in IF s = "lyrics" THEN {"()"} ELSE RequestsOf[s]

TypeOK ==
  /\ nav \in AllPages /\ history \in Seq(AllPages)
  /\ DOMAIN promise = Parts /\ \A s \in Parts : IsPromise(s, promise[s])
  /\ DOMAIN flying = Kinds /\ \A k \in Kinds : flying[k] \in [RequestsOf[k] -> Nat]
  /\ typed \in Queries \cup {""} /\ topic \in Topics \cup {"all"} /\ playing \in Songs \cup {"none"}
  /\ started \in BOOLEAN

\* A part that shows its spinner has a request on its way that will end it.
DeferredIsAsked ==
  \A s \in Parts : promise[s].st = "Deferred" =>
    \E k \in Kinds : \E a \in RequestsOf[k] :
      Target(k) = s /\ DefOf(k, a) = promise[s].def /\ flying[k][a] > 0

\* What a page shows, waits for or failed to get is what it is about, in all
\* of its parts, whatever answers of earlier pages were still to come; and
\* no page is left blank. (Of recommendations the knobs may have changed;
\* the results of a search may be of another: see Argument and SetTopic.)
PageIsOfNav ==
  started =>
    /\ nav.route \in Details \ {"Recommendations"} =>
         \A s \in PartsOf(nav.route) : AskedFor(promise[s], nav.arg)
    /\ nav.route = "Recommendations" =>
         promise["recommend"] # Empty /\ promise["recommend"].def.seed = nav.arg
    /\ nav.route = "Home" => \A s \in HomeParts : promise[s] # Empty

\* Every spinner ends.
PageSettles ==
  (\E s \in Parts : promise[s].st = "Deferred") ~> (\A s \in Parts : promise[s].st # "Deferred")

\* The menu of the back button leads to the page it names.
MenuGoesWhereItSays ==
  [][\A twice \in BOOLEAN :
       LET n == IF twice THEN 2 ELSE 1 IN
       Back(twice) /\ Len(history) >= n =>
         nav' = [history[Len(history) + 1 - n] EXCEPT !.mark = "none"]]_vars

\* The lyrics are those of what is playing.
LyricsOfPlaying ==
  IsResolved(promise["lyrics"]) => promise["lyrics"].val = playing
=============================================================================
