----------------------------- MODULE Playlists -----------------------------
(***************************************************************************)
(* The playlists of the user: the list in the side bar, the page of one of *)
(* them, loaded page by page, sorted and edited, and the service and the   *)
(* cache on disk behind them (ui/playlist.rs, data/playlist.rs,            *)
(* controller/sort.rs, webapi/client.rs). Each command has a thread of its *)
(* own, and answers arrive in any order.                                   *)
(***************************************************************************)
EXTENDS Integers, Sequences, SequencesExt, FiniteSets, TLC, Promises

CONSTANTS
  Playlists,  \* all of them owned by the user
  Tracks,
  Locals,     \* those without a URI: files of the user in a playlist
  Missing,    \* those of them that this computer does not have
  Title,      \* track -> rank of its title
  Contents,   \* playlist -> its tracks at first, in the order they were added
  PageSize,   \* PAGE_SIZE
  Sorts,      \* ways to sort and to load that the program may start with
  Threads,
  MaxActs,    \* bound: commands of the user
  MaxFails    \* bound: requests that fail

PlaylistsAssumption ==
  /\ Missing \subseteq Locals /\ Locals \subseteq Tracks /\ Title \in [Tracks -> Nat]
  /\ Contents \in [Playlists -> Seq(Tracks)] /\ PageSize \in Nat \ {0}
  /\ Sorts \subseteq [by : {"date", "title"}, desc : BOOLEAN, paging : BOOLEAN]

VARIABLES
  server,  \* playlist -> rows of the service: an identity, a track
  name,    \* playlist -> its name there
  mine,    \* playlists in the library of the user there
  disk,    \* cached answers
  list,    \* promise of the side bar: playlist -> name and number of tracks
  nav,     \* the playlist whose page is shown
  sort,    \* the criterion, whether descending, and whether pages are loaded
           \* one by one: AppConfig
  page,    \* promise of the rows of the page: PlaylistDetail.tracks
  threads,
  told,    \* what the alerts said was done
  wanted,  \* what the commands of the user amount to: rows, names, library
  calm,    \* no command came while a thread was busy, none failed, no restart
           \* followed an edit and none removed local and other tracks at once
  acts, fails
vars == <<server, name, mine, disk, list, nav, sort, page, threads, told, wanted, calm, acts, fails>>

Idle == [op |-> "idle"]
Quiet == \A t \in Threads : threads[t] = Idle
RowsOf(p) == [i \in DOMAIN Contents[p] |-> [row |-> <<p, i>>, id |-> Contents[p][i]]]

Init ==
  /\ server = [p \in Playlists |-> RowsOf(p)]
  /\ name = [p \in Playlists |-> "old"] /\ mine = Playlists
  /\ disk = [k \in {} |-> 0]
  /\ list = Empty /\ page = Empty /\ nav = "none"
  /\ sort \in Sorts
  /\ threads = [t \in Threads |-> Idle] /\ told = {}
  /\ wanted = [rows |-> server, name |-> name, mine |-> mine]
  /\ calm = TRUE /\ acts = 0 /\ fails = 0

----------------------------------------------------------------------------
(* Pages.                                                                   *)

Least(a, b) == IF a < b THEN a ELSE b

\* A page as the service gives it, and the tracks in it: those that exist,
\* each with its place in the playlist.
PageAt(p, off) ==
  [rows |-> SubSeq(server[p], off + 1, Least(off + PageSize, Len(server[p]))), total |-> Len(server[p]), off |-> off]
Items(pg) ==
  SelectSeq([i \in DOMAIN pg.rows |-> pg.rows[i] @@ [pos |-> pg.off + i - 1]], LAMBDA r : r.id \notin Missing)

\* A stable sort. Dates are the indices in the list as it stands.
Sorted(s, how) ==
  LET Key(i) == IF how.by = "title" THEN Title[s[i].id] ELSE i
      Less(i, j) == IF how.desc THEN Key(i) > Key(j) ELSE Key(i) < Key(j)
      Place(i) == Cardinality({j \in DOMAIN s : Less(j, i) \/ (~Less(i, j) /\ j < i)}) + 1
  IN [k \in DOMAIN s |-> s[CHOOSE i \in DOMAIN s : Place(i) = k]]

FromPage(pg, got, how) ==
  [items |-> Sorted(got, how), total |-> pg.total, next |-> Least(pg.off + PageSize, pg.total),
   more |-> FALSE, selecting |-> FALSE, sel |-> {}]
FromFull(got, how) ==
  [items |-> Sorted(got, how), total |-> Len(got), next |-> Len(got),
   more |-> FALSE, selecting |-> FALSE, sel |-> {}]
HasMore(c) == Len(c.items) < c.total

\* What the promise of a page is keyed by.
DetailKey(p, how) == [p |-> p, how |-> how]
Shown == page.val
ShowsPage == IsResolved(page)

----------------------------------------------------------------------------
(* Commands.                                                                *)

Spend == acts < MaxActs /\ acts' = acts + 1
Calmly == calm' = (calm /\ Quiet)
Start(r) == \E t \in Threads : threads[t] = Idle /\ threads' = [threads EXCEPT ![t] = r]
Loader(p, how) == [op |-> "load", key |-> DetailKey(p, how), off |-> 0, got |-> <<>>, at |-> "read", ok |-> TRUE]
Edit(op, p, arg) == [op |-> op, p |-> p, arg |-> arg, at |-> "call", ok |-> TRUE]

\* LOAD_DETAIL: the page waits for its rows.
LoadDetail(p, how) == page' = Deferred(DetailKey(p, how)) /\ Start(Loader(p, how))

\* A playlist is opened. What is there already is not loaded again.
Open(p) ==
  /\ Spend /\ nav' = p
  /\ IF page.st # "Empty" /\ page.def.p = p THEN UNCHANGED <<page, threads, calm>> ELSE LoadDetail(p, sort) /\ Calmly
  /\ UNCHANGED <<server, name, mine, disk, list, sort, told, wanted, fails>>

\* SORT_BY_* and TOGGLE_SORT_ORDER: the page is emptied and loaded again.
SortBy(by) ==
  /\ Spend /\ nav # "none" /\ by # sort.by
  /\ sort' = [sort EXCEPT !.by = by] /\ LoadDetail(nav, sort') /\ Calmly
  /\ UNCHANGED <<server, name, mine, disk, list, nav, told, wanted, fails>>
ToggleSortOrder ==
  /\ Spend /\ nav # "none"
  /\ sort' = [sort EXCEPT !.desc = ~@] /\ LoadDetail(nav, sort') /\ Calmly
  /\ UNCHANGED <<server, name, mine, disk, list, nav, told, wanted, fails>>

LoadMoreTracks ==
  /\ Spend /\ ShowsPage /\ ~Shown.more /\ HasMore(Shown)
  /\ page' = ResolvedMut(page, LAMBDA c : [c EXCEPT !.more = TRUE])
  /\ Start([op |-> "more", p |-> page.def.p, off |-> Shown.next, at |-> "read", ok |-> TRUE]) /\ Calmly
  /\ UNCHANGED <<server, name, mine, disk, list, nav, sort, told, wanted, fails>>

\* The link on the error of a page.
RetryDetail ==
  /\ Spend /\ page.st = "Rejected"
  /\ page' = Deferred(page.def) /\ Start(Loader(page.def.p, page.def.how)) /\ Calmly
  /\ UNCHANGED <<server, name, mine, disk, list, nav, sort, told, wanted, fails>>

\* Rows are marked by their place. Only the playlists in the library are
\* editable.
Editable(p) == IsResolved(list) /\ p \in DOMAIN list.val
Select(Op(_)) ==
  /\ ShowsPage /\ Editable(page.def.p)
  /\ page' = ResolvedMut(page, Op)
  /\ UNCHANGED <<server, name, mine, disk, list, nav, sort, threads, told, wanted, calm, acts, fails>>
SetSelectionMode(on) == ShowsPage /\ Shown.selecting # on /\ Select(LAMBDA c : [c EXCEPT !.selecting = on, !.sel = IF on THEN @ ELSE {}])
ToggleTrack(r) ==
  /\ ShowsPage /\ Shown.selecting
  /\ Select(LAMBDA c : [c EXCEPT !.sel = IF r.pos \in @ THEN @ \ {r.pos} ELSE @ \cup {r.pos}])
SelectAll == ShowsPage /\ Shown.selecting /\ Select(LAMBDA c : [c EXCEPT !.sel = {r.pos : r \in ToSet(c.items)}])

Change(p, by) == [list EXCEPT !.val = [@ EXCEPT ![p].count = IF @ + by < 0 THEN 0 ELSE @ + by]]
Counted(p, by) == IF Editable(p) THEN Change(p, by) ELSE list

\* A bug: a row is found by where it is listed.
BuildRequestListed(c, sel) ==
  {[c.items[i] EXCEPT !.pos = i - 1] : i \in {j \in DOMAIN c.items : c.items[j].pos \in sel}}

\* What is sent for the marked rows.
BuildRequest(c, sel) == {r \in ToSet(c.items) : r.pos \in sel}
Mixed(rs) == \E r, q \in rs : r.id \in Locals /\ q.id \notin Locals
Without(s, rs) == SelectSeq(s, LAMBDA x : x.row \notin {r.row : r \in rs})

SendRemoval(op, sel) ==
  LET p == page.def.p
      rs == BuildRequest(Shown, sel)
  IN /\ Spend /\ Editable(p) /\ rs # {}
     /\ list' = Counted(p, 0 - Cardinality(rs))
     /\ Start(Edit(op, p, rs))
     /\ wanted' = [wanted EXCEPT !.rows[p] = Without(@, {r \in ToSet(Shown.items) : r.pos \in sel})]
     /\ calm' = (calm /\ Quiet /\ ~Mixed(rs))
     /\ UNCHANGED <<server, name, mine, disk, nav, sort, page, told, fails>>
RemoveSelected == ShowsPage /\ Shown.selecting /\ Shown.sel # {} /\ SendRemoval("removeSelected", Shown.sel)
RemoveTrack(r) == ShowsPage /\ SendRemoval("remove", {r.pos})

\* A track is added from a menu anywhere. A local one has no URI: its thread
\* fails before any request.
AddTrack(p, x) ==
  LET row == [row |-> <<p, "new", acts>>, id |-> x] IN
  /\ Spend /\ Editable(p)
  /\ list' = Counted(p, 1)
  /\ Start(IF x \in Locals THEN [Edit("add", p, row) EXCEPT !.at = "answer", !.ok = FALSE] ELSE Edit("add", p, row))
  /\ wanted' = IF x \in Locals THEN wanted ELSE [wanted EXCEPT !.rows[p] = Append(@, row)]
  /\ Calmly
  /\ UNCHANGED <<server, name, mine, disk, nav, sort, page, told, fails>>

Rename(p) ==
  /\ Spend /\ Editable(p)
  /\ list' = [list EXCEPT !.val[p].name = "new"]
  /\ Start(Edit("rename", p, "new")) /\ wanted' = [wanted EXCEPT !.name[p] = "new"] /\ Calmly
  /\ UNCHANGED <<server, name, mine, disk, nav, sort, page, told, fails>>
Unfollow(p) ==
  /\ Spend /\ Editable(p)
  /\ list' = [list EXCEPT !.val = [q \in DOMAIN @ \ {p} |-> @[q]]]
  /\ Start(Edit("unfollow", p, "")) /\ wanted' = [wanted EXCEPT !.mine = @ \ {p}] /\ Calmly
  /\ UNCHANGED <<server, name, mine, disk, nav, sort, page, told, fails>>
\* (the entry of the list is made of what the page knows of the playlist)
Follow(p) ==
  /\ Spend /\ IsResolved(list) /\ p \notin DOMAIN list.val
  /\ list' = [list EXCEPT !.val = (p :> [name |-> name[p], count |-> Len(server[p])]) @@ @]
  /\ Start(Edit("follow", p, "")) /\ wanted' = [wanted EXCEPT !.mine = @ \cup {p}] /\ Calmly
  /\ UNCHANGED <<server, name, mine, disk, nav, sort, page, told, fails>>

\* The session is connected: the list is loaded.
LoadList ==
  /\ Spend /\ list.st = "Empty"
  /\ list' = Deferred("list") /\ Start([op |-> "list", at |-> "read", ok |-> TRUE]) /\ Calmly
  /\ UNCHANGED <<server, name, mine, disk, nav, sort, page, told, wanted, fails>>

Restart ==
  /\ Spend /\ \E k \in DOMAIN disk : TRUE
  /\ list' = Empty /\ page' = Empty /\ nav' = "none" /\ told' = {}
  /\ threads' = [t \in Threads |-> Idle]
  /\ calm' = (calm /\ Quiet /\ wanted = [rows |-> [p \in Playlists |-> RowsOf(p)], name |-> [p \in Playlists |-> "old"], mine |-> Playlists])
  /\ UNCHANGED <<server, name, mine, disk, sort, wanted, fails>>

----------------------------------------------------------------------------
(* Threads.                                                                 *)

Set(t, r) == threads' = [threads EXCEPT ![t] = r]
Fail(t) ==
  /\ fails < MaxFails /\ fails' = fails + 1 /\ calm' = FALSE
  /\ Set(t, [threads[t] EXCEPT !.at = "answer", !.ok = FALSE])
  /\ UNCHANGED <<server, name, mine, disk, list, nav, sort, page, told, wanted, acts>>

\* load_cached_value_rspotify: the value is taken from the cache, or else
\* asked of the service and then, in a step of its own, stored.
CacheKey(r) == CASE r.op = "list" -> <<"playlists">> [] r.op = "load" -> <<r.key.p, r.off>> [] OTHER -> <<r.p, r.off>>
Fetched(r) ==
  IF r.op = "list" THEN [p \in mine |-> [name |-> name[p], count |-> Len(server[p])]] ELSE PageAt(CacheKey(r)[1], r.off)

\* get_playlist_tracks_all goes on to the next page, the others answer.
AllNext(r, v) ==
  LET g == [r EXCEPT !.got = @ \o Items(v)]
  IN IF ~r.key.how.paging /\ v.off + PageSize < v.total
     THEN [g EXCEPT !.at = "read", !.off = v.off + PageSize]
     ELSE [at |-> "answer", val |-> v] @@ g
Got(r, v) == IF r.op = "load" THEN AllNext(r, v) ELSE [at |-> "answer", val |-> v] @@ r

Reads(t) == threads[t].op \in {"load", "more", "list"}
ReadValue(t) ==
  LET r == threads[t] k == CacheKey(r) IN
  /\ Reads(t) /\ r.at = "read"
  /\ \/ /\ Set(t, IF k \in DOMAIN disk THEN Got(r, disk[k]) ELSE [at |-> "store", val |-> Fetched(r)] @@ r)
        /\ UNCHANGED <<server, name, mine, disk, list, nav, sort, page, told, wanted, calm, acts, fails>>
     \/ k \notin DOMAIN disk /\ Fail(t)
StoreValue(t) ==
  LET r == threads[t] IN
  /\ Reads(t) /\ r.at = "store"
  /\ disk' = (CacheKey(r) :> r.val) @@ disk
  /\ Set(t, Got([f \in DOMAIN r \ {"val"} |-> r[f]], r.val))
  /\ UNCHANGED <<server, name, mine, list, nav, sort, page, told, wanted, calm, acts, fails>>

\* A bug: a failed load leaves its page waiting.
DetailAnswerOk(t) ==
  LET r == threads[t] IN
  /\ r.op = "load" /\ r.at = "answer" /\ Set(t, Idle)
  /\ page' = IF r.ok THEN Updated(page, r.key, TRUE, IF r.key.how.paging THEN FromPage(r.val, r.got, r.key.how) ELSE FromFull(r.got, r.key.how)) ELSE page
  /\ UNCHANGED <<server, name, mine, disk, list, nav, sort, told, wanted, calm, acts, fails>>

DetailAnswer(t) ==
  LET r == threads[t] IN
  /\ r.op = "load" /\ r.at = "answer" /\ Set(t, Idle)
  /\ page' = Updated(page, r.key, r.ok,
       IF r.ok /\ r.key.how.paging THEN FromPage(r.val, r.got, r.key.how) ELSE FromFull(r.got, r.key.how))
  /\ UNCHANGED <<server, name, mine, disk, list, nav, sort, told, wanted, calm, acts, fails>>

\* More tracks go to whatever page is shown, which is sorted again.
MoreAnswer(t) ==
  LET r == threads[t] IN
  /\ r.op = "more" /\ r.at = "answer" /\ Set(t, Idle)
  /\ page' = ResolvedMut(page, LAMBDA c :
       IF ~r.ok THEN [c EXCEPT !.more = FALSE]
       ELSE [c EXCEPT !.more = FALSE, !.items = Sorted(@ \o Items(r.val), sort), !.total = r.val.total,
                      !.next = Least(r.val.off + PageSize, r.val.total)])
  /\ UNCHANGED <<server, name, mine, disk, list, nav, sort, told, wanted, calm, acts, fails>>

ListAnswer(t) ==
  LET r == threads[t] IN
  /\ r.op = "list" /\ r.at = "answer" /\ Set(t, Idle)
  /\ list' = Updated(list, "list", r.ok, IF r.ok THEN r.val ELSE <<>>)
  /\ UNCHANGED <<server, name, mine, disk, nav, sort, page, told, wanted, calm, acts, fails>>

\* A DELETE of rows by place: by URI and place, or by place alone.
Gone(s, rs, byUri) ==
  {i \in DOMAIN s : \E r \in rs : r.pos = i - 1 /\ (byUri => r.id = s[i].id)}
Cut(s, is) == SelectSeq([i \in DOMAIN s |-> <<i, s[i]>>], LAMBDA x : x[1] \notin is)
Delete(p, rs, byUri) ==
  LET left == Cut(server[p], Gone(server[p], rs, byUri))
  IN server' = [server EXCEPT ![p] = [i \in DOMAIN left |-> left[i][2]]]

\* One request of an edit. The tracks with a URI go first, and then the
\* others, by the places they had before.
Remote(rs) == {r \in rs : r.id \notin Locals}
CallEdit(t) ==
  LET r == threads[t] IN
  /\ r.op \notin {"idle", "load", "more", "list"} /\ r.at = "call"
  /\ \/ /\ CASE r.op = "add" -> server' = [server EXCEPT ![r.p] = Append(@, r.arg)] /\ UNCHANGED <<name, mine>>
             [] r.op = "follow" -> mine' = mine \cup {r.p} /\ UNCHANGED <<server, name>>
             [] r.op = "unfollow" -> mine' = mine \ {r.p} /\ UNCHANGED <<server, name>>
             [] r.op = "rename" -> UNCHANGED <<server, name, mine>>   \* a GET of the tracks
             [] OTHER -> /\ Delete(r.p, IF Remote(r.arg) # {} THEN Remote(r.arg) ELSE r.arg, Remote(r.arg) # {})
                         /\ UNCHANGED <<name, mine>>
        /\ Set(t, [r EXCEPT !.at = "clear"])
        /\ UNCHANGED <<disk, list, nav, sort, page, told, wanted, calm, acts, fails>>
     \/ Fail(t)

\* A bug: the pages of a playlist stay in the cache.
ClearedNone(op, p) == DOMAIN disk

\* The cached answers that an edit leaves.
Cleared(op, p) ==
  IF op \in {"follow", "unfollow", "rename"} THEN DOMAIN disk \ {<<"playlists">>} ELSE DOMAIN disk \cap {<<"playlists">>}
ClearEdit(t) ==
  LET r == threads[t]
      rest == IF r.op \in {"remove", "removeSelected"} /\ Mixed(r.arg) THEN r.arg \ Remote(r.arg) ELSE {}
  IN /\ r.op \notin {"idle", "load", "more", "list"} /\ r.at = "clear"
     /\ disk' = [k \in Cleared(r.op, r.p) |-> disk[k]]
     /\ Set(t, IF rest # {} THEN [r EXCEPT !.at = "call", !.arg = rest] ELSE [r EXCEPT !.at = "answer"])
     /\ UNCHANGED <<server, name, mine, list, nav, sort, page, told, wanted, calm, acts, fails>>

\* The answer to an edit: an alert. After a removal the playlist it was made
\* in is loaded again, whatever is shown.
EditAnswer(t) ==
  LET r == threads[t]
      removal == r.op \in {"remove", "removeSelected"}
  IN /\ r.op \notin {"idle", "load", "more", "list"} /\ r.at = "answer"
     /\ told' = IF r.ok THEN told \cup {<<r.op, r.p>>} ELSE told
     /\ IF removal THEN page' = Deferred(DetailKey(r.p, sort)) /\ Set(t, Loader(r.p, sort))
                   ELSE page' = page /\ Set(t, Idle)
     /\ calm' = (calm /\ r.ok)
     /\ UNCHANGED <<server, name, mine, disk, list, nav, sort, wanted, acts, fails>>

Work(t) ==
  \/ ReadValue(t) \/ StoreValue(t) \/ DetailAnswer(t) \/ MoreAnswer(t) \/ ListAnswer(t)
  \/ CallEdit(t) \/ ClearEdit(t) \/ EditAnswer(t)
Next ==
  \/ \E p \in Playlists : Open(p) \/ Rename(p) \/ Follow(p) \/ Unfollow(p) \/ \E x \in Tracks \ Missing : AddTrack(p, x)
  \/ \E by \in {"date", "title"} : SortBy(by)
  \/ ToggleSortOrder \/ LoadMoreTracks \/ RetryDetail \/ LoadList \/ Restart
  \/ \E on \in BOOLEAN : SetSelectionMode(on)
  \/ ShowsPage /\ \E r \in ToSet(Shown.items) : ToggleTrack(r) \/ RemoveTrack(r)
  \/ SelectAll \/ RemoveSelected
  \/ \E t \in Threads : Work(t)

\* Threads run, and every request ends within its timeout.
Fairness == \A t \in Threads : WF_vars(Work(t))
Spec == Init /\ [][Next]_vars /\ Fairness

----------------------------------------------------------------------------
\* What the user did one command at a time is what the service has: removed
\* were the marked rows, however the page was sorted and paged, and nothing
\* else; added and followed what was told to. (The name is another matter.)
EditsReachServer ==
  calm /\ Quiet => server = wanted.rows /\ mine = wanted.mine

\* And what is shown is what the service has: rows of the playlist at their
\* places, none twice, none of those loaded left out, whatever the cache
\* held; in the list, the playlists with their numbers of tracks.
ShownAsServer ==
  calm /\ Quiet =>
    /\ ShowsPage =>
         LET s == server[page.def.p] c == Shown IN
         /\ Cardinality({r.pos : r \in ToSet(c.items)}) = Len(c.items)
         /\ \A r \in ToSet(c.items) : r.pos < Len(s) /\ s[r.pos + 1].row = r.row
         /\ \A i \in 1..c.next : s[i].id \in Missing \/ \E r \in ToSet(c.items) : r.pos = i - 1
    /\ IsResolved(list) =>
         /\ DOMAIN list.val = mine
         /\ \A p \in mine : list.val[p].count = Len(server[p])

\* A page that is waited for is shown or reported as failed in the end.
PageSettles == page.st = "Deferred" ~> page.st # "Deferred"

\* Who is told that a playlist was renamed finds it renamed.
RenamedAsTold == \A p \in Playlists : <<"rename", p>> \in told => name[p] = "new"

\* What is shown is sorted as asked for.
ShownSorted ==
  calm /\ ShowsPage /\ sort.by = "date" =>
    \A i, j \in DOMAIN Shown.items : i < j => (Shown.items[i].pos < Shown.items[j].pos) # sort.desc
=============================================================================
