------------------------------- MODULE MCWeb -------------------------------
(***************************************************************************)
(* What the client of the web API is made of besides its tokens: the gate  *)
(* its requests pass, the cache of their answers, and the files of the     *)
(* user that stand in for what it has not got.  TLC picks the part that    *)
(* runs; the others stay as they began.                                    *)
(***************************************************************************)
EXTENDS RequestGate, Sequences, Endpoints

CONSTANTS
  Parts,   \* of {"gate", "cache", "local"}
  CacheCallers, Wants, Edits, Contents, Limit, Paginated, ImageCache, MaxLoads, MaxKills

VARIABLES
  part,
  stored, images, version, caller, loads, kills,
  database, reader, loading, registry

Want(endpoint, id, policy) == [name |-> endpoint, arg |-> <<id>>, policy |-> policy]
MCWants ==
  {Want(endpoint, "r", "Use") : endpoint \in DOMAIN Table \ {"get_user_info", "get_episodes"}}
  \cup {Want("get_image", "s", "Use")}
  \cup {Want(endpoint, "r", "Refresh") : endpoint \in {"get_show_episodes", "get_artist_albums"}}
MCContents == <<<<"a", "b", "c", "d", "e">>, <<"a", "b", "c">>>>
C == INSTANCE WebCache WITH Callers <- CacheCallers, disk <- stored
ASSUME WebCacheAssumption == C!CacheAssumption

\* A title of 130 bytes has a length of two; a trailer may hold the first byte of its
\* end, and a string all of it.
LongTitle == [i \in 1..130 |-> 97]
One == [title |-> <<120, 4>>, artist |-> <<98>>, album |-> <<>>, path |-> <<47, 49>>,
        trailer |-> <<8, 120>>]
Two == [title |-> LongTitle, artist |-> <<9>>, album |-> <<97>>, path |-> <<47, 50>>,
        trailer |-> <<8, 5, 120, 120>>]
Three == [One EXCEPT !.artist = <<99>>, !.path = <<47, 51>>, !.trailer = <<>>]
F == INSTANCE LocalFiles WITH
  Libraries <- {<<>>, <<One>>, <<Two, One>>, <<One, Three, Two>>},
  ChunkSizes <- {1, 2, 3, 5, 7, 64, 8163}, Cuts <- {0, 1, 2, 3, 9, 150}, MaxFinds <- 2,
  Wanted <- {[title |-> <<120, 4>>, artist |-> {}, album |-> {}],
             [title |-> <<120, 4>>, artist |-> {<<99>>}, album |-> {<<>>}],
             [title |-> LongTitle, artist |-> {<<9>>}, album |-> {<<97>>}]}

cacheVars == <<stored, images, version, caller, loads, kills>>
localVars == <<database, reader, loading, registry>>
allVars == <<part, vars, cacheVars, localVars>>

\* A part that does not run has one state.
MCInit ==
  /\ part \in Parts /\ Init /\ C!Init
  /\ F!Init
  /\ part # "local" => Len(database.chunks) = 1 /\ database.magic /\ database.library = <<>> /\ database.cut = 0

MCNext ==
  \/ part = "gate" /\ Next /\ UNCHANGED <<part, cacheVars, localVars>>
  \/ part = "cache" /\ C!Next /\ UNCHANGED <<part, vars, localVars>>
  \/ part = "local" /\ F!Next /\ UNCHANGED <<part, vars, cacheVars>>

MCSpec ==
  /\ MCInit /\ [][MCNext]_allVars
  /\ WF_vars(part = "gate" /\ Tick) /\ \A c \in Callers : WF_vars(part = "gate" /\ Step(c))
-----------------------------------------------------------------------------
\* What is found in the cache was said to the request it is found for; see WebCache.
OwnAnswer == C!OwnAnswer

\* A refresh shows what the server held when it was asked for; see WebCache.
RefreshIsFresh == C!RefreshIsFresh

\* A list of pages that agree is the beginning of the server's; see WebCache.
WholeList == C!WholeList

\* The tracks are the entries of the database, however it is cut into chunks; see
\* LocalFiles.
ReadsWhatIsWritten == F!ReadsWhatIsWritten

\* item_id.rs:22-23: no path is registered under several ids; see LocalFiles.
OnePathOneId == F!OnePathOneId
=============================================================================
