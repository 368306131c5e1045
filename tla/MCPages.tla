------------------------------ MODULE MCPages ------------------------------
(***************************************************************************)
(* The pages of the user interface: their navigation, the user's library   *)
(* and the user's playlists.  TLC picks the part that runs; the others     *)
(* stay as they began.                                                     *)
(***************************************************************************)
EXTENDS Pages

CONSTANTS
  Picked,   \* of {"pages", "library", "playlists"}
  LibraryKinds, Savable, LibraryPageSize, LibraryLimit,
  Threads, MaxEdits

VARIABLES
  part,
  server, cache, saved, seen, threads, alerts, orderly,
  rows, name, mine, disk, list, shown, sort, page, workers, told, wanted, calm,
  edits, failures

L == INSTANCE Library WITH
  Kinds <- LibraryKinds, Items <- Savable, PageSize <- LibraryPageSize, Limit <- LibraryLimit,
  MaxActs <- MaxEdits, visited <- seen, acts <- edits, fails <- failures

\* Page by page by title, or all at once with the newest first.
P == INSTANCE Playlists WITH
  Playlists <- {"A", "B"}, Tracks <- {"x", "l", "m"}, Locals <- {"l", "m"}, Missing <- {"m"},
  Title <- [x |-> 2, l |-> 1, m |-> 3],
  Contents <- [A |-> <<"x", "l", "x">>, B |-> <<"m", "x">>], PageSize <- 2,
  Sorts <- {[by |-> "title", desc |-> FALSE, paging |-> TRUE],
            [by |-> "date", desc |-> TRUE, paging |-> FALSE]},
  MaxActs <- MaxEdits,
  server <- rows, nav <- shown, threads <- workers, acts <- edits, fails <- failures

ASSUME L!LibraryAssumption /\ P!PlaylistsAssumption

Page(route, arg, mark) == [route |-> route, arg |-> arg, mark |-> mark]
MCNavs ==
  {Page("Home", "()", "none"), Page("Lyrics", "()", "none"),
   Page("AlbumDetail", "a", "none"), Page("AlbumDetail", "a", "t"), Page("AlbumDetail", "b", "none"),
   Page("ArtistDetail", "r", "none"),
   Page("PlaylistDetail", "p", "none"),
   Page("Recommendations", "m", "none")}
MCLastRoutes == {Page("Lyrics", "()", "none"), Page("AlbumDetail", "a", "t")}
MCLinkNav == [l |-> Page("AlbumDetail", "a", "t")]

libraryVars == <<server, cache, saved, seen, threads, alerts, orderly>>
playlistVars == <<rows, name, mine, disk, list, shown, sort, page, workers, told, wanted, calm>>
editVars == <<edits, failures>>
allVars == <<part, vars, libraryVars, playlistVars, editVars>>

MCInit ==
  /\ part \in Picked /\ Init /\ L!Init /\ P!Init
  /\ part # "library" => server = [k \in LibraryKinds |-> <<>>]
  /\ part # "playlists" => sort.paging

MCNext ==
  \/ part = "pages" /\ Next /\ UNCHANGED <<part, libraryVars, playlistVars, editVars>>
  \/ part = "library" /\ L!Next /\ UNCHANGED <<part, vars, playlistVars>>
  \/ part = "playlists" /\ P!Next /\ UNCHANGED <<part, vars, libraryVars>>

\* Fairness asks nothing of a part in which nothing was asked for.
MCSpec ==
  /\ MCInit /\ [][MCNext]_allVars
  /\ Fairness
  /\ \A t \in Threads : WF_libraryVars(part = "library" /\ L!Work(t))
  /\ \A t \in Threads : WF_playlistVars(part = "playlists" /\ P!Work(t))
-----------------------------------------------------------------------------
\* What is shown as saved is what the service has; see Library.
LibraryIsServers == L!LibraryIsServers

\* A list of the library that is being loaded is shown or reported as failed; see
\* Library.
ListSettles == L!ListSettles

\* Every "Save ... to Library" is sent to the service; see Library.
EverySaveIsSent == L!EverySaveIsSent

\* What the user does to playlists is what the service has; see Playlists.
EditsReachServer == P!EditsReachServer

\* What is shown of a playlist is what the service has; see Playlists.
ShownAsServer == P!ShownAsServer

\* Who is told that a playlist was renamed finds it renamed; see Playlists.
RenamedAsTold == P!RenamedAsTold

\* What is shown is sorted as asked for; see Playlists.
ShownSorted == P!ShownSorted
=============================================================================
