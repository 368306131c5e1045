------------------------------ MODULE Library ------------------------------
(***************************************************************************)
(* The saved tracks, albums and shows of the user: three lists that the    *)
(* interface loads page by page through a cache on disk, and changes at    *)
(* once when the user saves or removes something, while a thread tells     *)
(* the service (ui/library.rs, ui/home.rs, data/mod.rs, webapi/client.rs). *)
(* One thread runs per command and its answers arrive in any order. A      *)
(* command reaches the pages that were ever visited, and no others.        *)
(***************************************************************************)
EXTENDS Integers, Sequences, SequencesExt, FiniteSets, Promises

CONSTANTS
  Kinds,     \* which of "tracks", "albums", "shows" an instance has
  Items,     \* what can be saved
  PageSize,  \* entries of a page
  Limit,     \* paginated_limit: no page is asked for after this offset
  Threads,   \* names of the background threads
  MaxActs,   \* bound: commands of the user
  MaxFails   \* bound: requests that fail

LibraryAssumption ==
  /\ Kinds \subseteq {"tracks", "albums", "shows"}
  /\ PageSize \in Nat \ {0} /\ Limit \in Nat
  /\ IsFiniteSet(Items) /\ IsFiniteSet(Threads)

VARIABLES
  server,   \* kind -> what the service has saved, the newest first
  cache,    \* kind -> the cached pages by offset: one directory per kind
  saved,    \* kind -> the promise of the list, in AppState.library
  visited,  \* pages that were ever shown: ViewDispatcher.children
  threads,  \* name -> what the thread of an OnCommandAsync is doing
  alerts,   \* styles of the alerts raised so far
  orderly,  \* no command overlapped another of its kind, and no exit and no
            \* lost reply came between a change and the removal of its pages
  acts, fails
vars == <<server, cache, saved, visited, threads, alerts, orderly, acts, fails>>

Idle == [op |-> "idle"]
Ids(s) == {s[i] : i \in DOMAIN s}
Busy(k) == {t \in Threads : threads[t].op # "idle" /\ threads[t].kind = k}
Offsets == 0..(PageSize * Cardinality(Items))

\* The list, and the set of its ids: SavedTracks, SavedAlbums and Shows.
New(list) == [list |-> list, set |-> Ids(list)]

\* Vec::retain(): every copy is taken out.
Without(s, x) ==
  LET Kept[i \in 0..Len(s)] ==
        IF i = 0 THEN <<>> ELSE IF s[i] = x THEN Kept[i - 1] ELSE Append(Kept[i - 1], s[i])
  IN Kept[Len(s)]

\* A new entry goes in front of the list.
Added(c, x) == [list |-> <<x>> \o c.list, set |-> c.set \cup {x}]
Removed(c, x) == [list |-> Without(c.list, x), set |-> c.set \ {x}]
IsSaved(k, x) == IsResolved(saved[k]) /\ x \in saved[k].val.set

\* The pages whose widgets handle the commands of a kind, once visited. The
\* shows of the user are on the home page too.
Handlers(k) ==
  visited \cap (CASE k = "tracks" -> {"SavedTracks"}
                  [] k = "albums" -> {"SavedAlbums"}
                  [] OTHER -> {"Home", "Shows"})
PageOf(k) == CASE k = "tracks" -> "SavedTracks" [] k = "albums" -> "SavedAlbums" [] OTHER -> "Shows"

\* A command is handled once by each of its handlers h: each applies Pre to
\* the promise and starts a thread for the request r.
Times(n, Op(_), p) == CASE n = 0 -> p [] n = 1 -> Op(p) [] OTHER -> Op(Op(p))
Handle(k, h, Pre(_), r) ==
  \E ts \in SUBSET {t \in Threads : threads[t] = Idle} :
    /\ Cardinality(ts) = h
    /\ threads' = [t \in Threads |-> IF t \in ts THEN r ELSE threads[t]]
    /\ saved' = [saved EXCEPT ![k] = Times(h, Pre, @)]
    /\ orderly' = (orderly /\ (h = 0 \/ Busy(k) = {}))

Spend == acts < MaxActs /\ acts' = acts + 1

Init ==
  /\ server \in [Kinds -> {SetToSeq(Items), <<>>}]
  /\ cache = [k \in Kinds |-> [o \in {} |-> 0]]
  /\ saved = [k \in Kinds |-> Empty]
  /\ visited = {"Home"}
  /\ threads = [t \in Threads |-> Idle]
  /\ alerts = {} /\ orderly = TRUE /\ acts = 0 /\ fails = 0

----------------------------------------------------------------------------
(* Commands: LOAD_*, SAVE_* and UNSAVE_*.                                   *)

Call(op, k, x) == [op |-> op, kind |-> k, item |-> x, at |-> "call", ok |-> TRUE]
NoPage == [items |-> <<>>, total |-> 0]
Loader(k) ==
  [op |-> "load", kind |-> k, at |-> "read", off |-> 0, got |-> <<>>, page |-> NoPage, ok |-> TRUE]

Load(k, h) == Handle(k, h, LAMBDA p : Deferred("list"), Loader(k))

\* The page of a kind is shown. Where nothing was asked for yet, it is loaded.
LoadRouteData(k) ==
  LET h == Cardinality(Handlers(k) \cup {PageOf(k)}) IN
  /\ visited' = visited \cup {PageOf(k)}
  /\ IF saved[k] = Empty THEN Load(k, h) ELSE UNCHANGED <<saved, threads, orderly>>
Visit(k) ==
  /\ Spend /\ LoadRouteData(k)
  /\ UNCHANGED <<server, cache, alerts, fails>>

\* The link on the error of a list. The pages of shows have none.
RetryLoad(k) ==
  /\ Spend /\ k # "shows" /\ saved[k].st = "Rejected" /\ Load(k, Cardinality(Handlers(k)))
  /\ UNCHANGED <<server, cache, visited, alerts, fails>>

\* The menus offer to save what is not in the list and to remove what is.
Save(k, x) ==
  /\ Spend /\ ~IsSaved(k, x)
  /\ Handle(k, Cardinality(Handlers(k)), LAMBDA p : ResolvedMut(p, LAMBDA c : Added(c, x)), Call("save", k, x))
  /\ UNCHANGED <<server, cache, visited, alerts, fails>>
Unsave(k, x) ==
  /\ Spend /\ IsSaved(k, x)
  /\ Handle(k, Cardinality(Handlers(k)), LAMBDA p : ResolvedMut(p, LAMBDA c : Removed(c, x)), Call("unsave", k, x))
  /\ UNCHANGED <<server, cache, visited, alerts, fails>>

SaveTrack(x) == "tracks" \in Kinds /\ Save("tracks", x)
UnsaveTrack(x) == "tracks" \in Kinds /\ Unsave("tracks", x)
SaveAlbum(x) == "albums" \in Kinds /\ Save("albums", x)
UnsaveAlbum(x) == "albums" \in Kinds /\ Unsave("albums", x)
SaveShow(x) == "shows" \in Kinds /\ Save("shows", x)
UnsaveShow(x) == "shows" \in Kinds /\ Unsave("shows", x)

----------------------------------------------------------------------------
(* The threads.                                                             *)

Set(t, r) == threads' = [threads EXCEPT ![t] = r]
Fails(t) ==
  /\ fails < MaxFails /\ fails' = fails + 1
  /\ Set(t, [threads[t] EXCEPT !.at = "answer", !.ok = FALSE])
  /\ UNCHANGED <<server, cache, saved, visited, alerts, orderly, acts>>

\* What follows a page, at its offset: another one, or the answer.
Next1(r, page) ==
  LET got == [r EXCEPT !.got = @ \o page.items, !.page = NoPage]
  IN IF page.total > r.off /\ r.off < Limit
     THEN [got EXCEPT !.at = "read", !.off = @ + PageSize]
     ELSE [got EXCEPT !.at = "answer"]

\* A page is taken from the cache, or else asked of the service ...
PageAt(k, o) ==
  [items |-> SubSeq(server[k], o + 1, IF o + PageSize < Len(server[k]) THEN o + PageSize ELSE Len(server[k])),
   total |-> Len(server[k])]
ReadPage(t) ==
  LET r == threads[t] IN
  /\ r.op = "load" /\ r.at = "read"
  /\ \/ /\ Set(t, IF r.off \in DOMAIN cache[r.kind]
                  THEN Next1(r, cache[r.kind][r.off])
                  ELSE [r EXCEPT !.at = "store", !.page = PageAt(r.kind, r.off)])
        /\ UNCHANGED <<server, cache, saved, visited, alerts, orderly, acts, fails>>
     \/ r.off \notin DOMAIN cache[r.kind] /\ Fails(t)

\* ... and then stored.
StorePage(t) ==
  LET r == threads[t] IN
  /\ r.op = "load" /\ r.at = "store"
  /\ cache' = [cache EXCEPT ![r.kind] =
                 [o \in DOMAIN @ \cup {r.off} |-> IF o = r.off THEN r.page ELSE @[o]]]
  /\ Set(t, Next1(r, r.page))
  /\ UNCHANGED <<server, saved, visited, alerts, orderly, acts, fails>>

\* The service saves or removes an item ...
Change(t) ==
  LET r == threads[t] IN
  /\ r.op \in {"save", "unsave"} /\ r.at = "call"
  /\ \/ /\ server' = [server EXCEPT ![r.kind] =
                        IF r.op = "unsave" THEN Without(@, r.item)
                        ELSE IF r.item \in Ids(@) THEN @ ELSE <<r.item>> \o @]
        /\ Set(t, [r EXCEPT !.at = "clear"])
        /\ UNCHANGED <<cache, saved, visited, alerts, orderly, acts, fails>>
     \/ Fails(t)

\* (its reply may be lost, and the change made all the same)
ReplyLost(t) ==
  LET r == threads[t] IN
  /\ r.op \in {"save", "unsave"} /\ r.at = "clear" /\ fails < MaxFails
  /\ Set(t, [r EXCEPT !.at = "answer", !.ok = FALSE])
  /\ fails' = fails + 1 /\ orderly' = FALSE
  /\ UNCHANGED <<server, cache, saved, visited, alerts, acts>>

\* A bug: the cache keeps its pages.
ClearBucketNone(t) ==
  LET r == threads[t] IN
  /\ r.op \in {"save", "unsave"} /\ r.at = "clear"
  /\ Set(t, [r EXCEPT !.at = "answer"])
  /\ UNCHANGED <<server, cache, saved, visited, alerts, orderly, acts, fails>>

\* ... and then the directory of its pages is removed.
ClearBucket(t) ==
  LET r == threads[t] IN
  /\ r.op \in {"save", "unsave"} /\ r.at = "clear"
  /\ cache' = [cache EXCEPT ![r.kind] = [o \in {} |-> 0]]
  /\ Set(t, [r EXCEPT !.at = "answer"])
  /\ UNCHANGED <<server, saved, visited, alerts, orderly, acts, fails>>

\* A bug: a failed load is not reported to its promise.
LoadAnswerOk(t) ==
  LET r == threads[t] IN
  /\ r.op = "load" /\ r.at = "answer"
  /\ saved' = IF r.ok THEN [saved EXCEPT ![r.kind] = Updated(@, "list", TRUE, New(r.got))] ELSE saved
  /\ Set(t, Idle)
  /\ UNCHANGED <<server, cache, visited, alerts, orderly, acts, fails>>

\* The answer to a load goes into the promise, that to a change to the user.
\* A change that failed is not undone in the list.
LoadAnswer(t) ==
  LET r == threads[t] IN
  /\ r.op = "load" /\ r.at = "answer"
  /\ saved' = [saved EXCEPT ![r.kind] = Updated(@, "list", r.ok, New(r.got))]
  /\ Set(t, Idle)
  /\ UNCHANGED <<server, cache, visited, alerts, orderly, acts, fails>>
ChangeAnswer(t) ==
  LET r == threads[t] IN
  /\ r.op \in {"save", "unsave"} /\ r.at = "answer"
  /\ alerts' = alerts \cup {IF r.ok THEN "info" ELSE "error"}
  /\ Set(t, Idle)
  /\ UNCHANGED <<server, cache, saved, visited, orderly, acts, fails>>

\* The program ends and is started again. Threads are cut short; the cache
\* stays. A change the cache has not heard of makes it stale for good.
Restart ==
  /\ Spend
  /\ saved' = [k \in Kinds |-> Empty] /\ visited' = {"Home"}
  /\ threads' = [t \in Threads |-> Idle] /\ alerts' = {}
  /\ orderly' = (orderly /\ \A t \in Threads : threads[t].op \notin {"idle", "load"} => threads[t].at # "clear")
  /\ UNCHANGED <<server, cache, fails>>

Work(t) == ReadPage(t) \/ StorePage(t) \/ Change(t) \/ ReplyLost(t) \/ ClearBucket(t) \/ LoadAnswer(t) \/ ChangeAnswer(t)
Next ==
  \/ Restart
  \/ \E k \in Kinds : Visit(k) \/ RetryLoad(k)
  \/ \E x \in Items : SaveTrack(x) \/ UnsaveTrack(x) \/ SaveAlbum(x) \/ UnsaveAlbum(x) \/ SaveShow(x) \/ UnsaveShow(x)
  \/ \E t \in Threads : Work(t)

\* Threads run and their requests end: the HTTP agent has a timeout of five
\* seconds.
Fairness == \A t \in Threads : WF_vars(Work(t))
Spec == Init /\ [][Next]_vars /\ Fairness

----------------------------------------------------------------------------
\* Types of the state.
TypeOK ==
  /\ \A k \in Kinds : server[k] \in Seq(Items) /\ DOMAIN cache[k] \subseteq Offsets
  /\ \A k \in Kinds : saved[k].st \in {"Empty", "Deferred", "Resolved", "Rejected"}
  /\ visited \subseteq {"Home", "SavedTracks", "SavedAlbums", "Shows"}
  /\ alerts \subseteq {"info", "error"} /\ orderly \in BOOLEAN

\* Once the threads are done, and no command overlapped another and none
\* failed, what is shown as saved is what the service has, in its order,
\* across restarts and whatever the cache held. (Where two pages handle the
\* command, as for shows, the entry is listed twice: only the set agrees.)
LibraryIsServers ==
  orderly /\ "error" \notin alerts /\ (\A t \in Threads : threads[t] = Idle) =>
    \A k \in Kinds : IsResolved(saved[k]) =>
      /\ saved[k].val.set = Ids(server[k])
      /\ k # "shows" => saved[k].val.list = server[k]

\* A list that is being loaded is shown or reported as failed in the end,
\* however commands, answers and restarts interleave.
ListSettles == \A k \in Kinds : saved[k].st = "Deferred" ~> saved[k].st # "Deferred"

\* Every "Save ... to Library" of the user is sent to the service.
EverySaveIsSent ==
  [][\A k \in Kinds, x \in Items :
       Save(k, x) => \E t \in Threads : threads[t] = Idle /\ threads'[t] = Call("save", k, x)]_vars
=============================================================================
