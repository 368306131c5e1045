------------------------------ MODULE WebCache ------------------------------
(***************************************************************************)
(* The response cache of the web client (webapi/client.rs, webapi/cache    *)
(* .rs): what each endpoint asks for, under which bucket and key its       *)
(* answers are kept, how the pages of a list are put together, and what    *)
(* threads that load, change and refresh at once find in each other's      *)
(* files. A file is written in place: between its truncation and the last  *)
(* byte, and for ever when the program is killed there, it is torn.        *)
(*                                                                         *)
(* A request is its endpoint, its arguments and, of a list, the page. Keys *)
(* that are hashes are taken to tell what they hash apart.                 *)
(***************************************************************************)
EXTENDS Integers, Sequences, TLC, Endpoints

CONSTANTS
  Callers,     \* threads
  Wants,       \* what they load: [name, arg, policy]
  Edits,       \* what they save, remove or follow
  Contents,    \* version -> what a list holds on the server
  Limit,       \* items of a page
  Paginated,   \* WebApi.paginated_limit
  ImageCache,  \* IMAGE_CACHE_SIZE
  MaxLoads,    \* bound: loads and changes begun
  MaxKills     \* bound: times the program is killed

----------------------------------------------------------------------------
\* What makes the server say something else, and the bucket that is then cleared.
Changes ==
  [save_album |-> "saved-albums", unsave_album |-> "saved-albums", save_track |-> "saved-tracks",
   unsave_track |-> "saved-tracks", save_show |-> "saved-shows", unsave_show |-> "saved-shows",
   follow_playlist |-> "playlists", unfollow_playlist |-> "playlists"]

Request(name, arg) == [name |-> name, arg |-> arg, offset |-> 0]

\* The pages of the lists that are cached page by page have keys of their own;
\* the pages of an artist's albums are asked for one by one and kept as one.
PagedByKey == {"get_saved_albums", "get_saved_tracks", "get_saved_shows", "get_show_episodes",
               "get_playlist_tracks"}
Paged == PagedByKey \cup {"get_artist_albums"}

\* Mutant: the pages of a list share a key.
KeyOfArg(r) == <<r.arg, 0>>
Key(r) == <<r.arg, IF r.name \in PagedByKey THEN r.offset ELSE 0>>
Entry(r) == <<Table[r.name].bucket, Key(r)>>

\* What is loaded are endpoints; an image is never refreshed.
CacheAssumption ==
  \A want \in Wants : want.name \in DOMAIN Table /\ (want.policy = "Refresh" => want.name # "get_image")

----------------------------------------------------------------------------
VARIABLES
  disk,     \* entry -> the file's [answer, torn, writers]
  images,   \* WebApiCache.images, the most recent first
  version,  \* of what the server holds
  caller,   \* thread -> what it is doing, and how its last load ended
  loads, kills
vars == <<disk, images, version, caller, loads, kills>>

NoAnswer == [to |-> Request("none", <<>>), ats |-> {}, items |-> <<>>, total |-> 0]
Idle ==
  [at |-> "idle",     \* idle, reading, asking, storing, writing, changing or clearing
   want |-> [name |-> "none", arg |-> <<>>, policy |-> "Use"], began |-> 0,
   ask |-> NoAnswer.to, answer |-> NoAnswer,   \* the request at hand, and its answer
   page |-> NoAnswer, \* the page whose episodes are asked for, the albums so far
   items |-> <<>>, ats |-> {},                 \* the load so far, and of what versions
   own |-> TRUE]      \* each answer was one to its request

Init ==
  /\ disk = << >> /\ images = <<>> /\ version = 1
  /\ caller = [c \in Callers |-> Idle] /\ loads = 0 /\ kills = 0

Do(c, change) == caller' = [caller EXCEPT ![c] = Joined(change, @)]
Fail(c) == caller' = [caller EXCEPT ![c] = Idle]

\* What the server says to a request now.
PageAt(v, offset) ==
  SubSeq(Contents[v], offset + 1,
         IF offset + Limit < Len(Contents[v]) THEN offset + Limit ELSE Len(Contents[v]))
Says(r) ==
  [to |-> r, ats |-> {version}, total |-> Len(Contents[version]),
   items |-> IF r.name \in Paged THEN PageAt(version, r.offset)
             ELSE IF r.name = "get_episodes" THEN r.arg ELSE <<>>]

----------------------------------------------------------------------------
(* A load: the requests it makes, one after another.                        *)

\* get_section asks where the user is first; get_recommendations makes its key of
\* the whole address, whose parameters come in any order.
First(want) ==
  CASE want.name = "get_section" -> {Request("get_user_info", <<"usrinfo">>)}
    [] want.name = "get_recommendations" -> {Request(want.name, want.arg \o <<order>>) : order \in {"one way", "the other"}}
    [] OTHER -> {Request(want.name, want.arg)}

\* get_user_info has no policy.
CachedAfterFirst(c) == IF caller[c].ask.name = caller[c].want.name THEN caller[c].want.policy ELSE "Use"
Policy(c) == IF caller[c].ask.name = "get_user_info" THEN "Use" ELSE caller[c].want.policy

\* Mutant: a last page that is not full is not asked for.
FullPages(page) == page.to.offset + 2 * Limit <= page.total

\* Whether there is a page after this one: for_all_pages_cached compares the offset of
\* the page it has, get_artist_albums and get_playlist_tracks_all that of the next.
More(page) ==
  LET offset == page.to.offset  next == page.to.offset + Limit IN
  CASE page.to.name = "get_artist_albums" ->
         page.items # <<>> /\ next < page.total /\ next < Paginated
    [] page.to.name = "get_playlist_tracks" -> next < page.total
    [] OTHER -> page.total > offset /\ offset < Paginated

Load(c, want) ==
  /\ caller[c].at = "idle" /\ loads < MaxLoads /\ loads' = loads + 1
  /\ \E r \in First(want) :
       caller' = [caller EXCEPT ![c] =
         [Idle EXCEPT !.at = "reading", !.want = want, !.ask = r, !.began = version]]
  /\ UNCHANGED <<disk, images, version, kills>>

\* What follows an answer: the section after the place, the episodes of a page of a
\* show, the next page, or nothing.
Follow(c, answer) ==
  LET ask == caller[c].ask
      page == IF ask.name = "get_episodes" THEN caller[c].page ELSE answer IN
  CASE ask.name = "get_user_info" -> Request("get_section", caller[c].want.arg \o <<ToString(answer.ats)>>)
    [] ask.name = "get_show_episodes" /\ answer.items # <<>> -> Request("get_episodes", answer.items)
    [] page.to.name \in PagedByKey /\ More(page) -> [page.to EXCEPT !.offset = @ + Limit]
    [] OTHER -> NoAnswer.to

Took(c, answer) ==
  LET me == caller[c]  ask == Follow(c, answer)  episodes == ask.name = "get_episodes" IN
  Do(c, [at |-> IF ask = NoAnswer.to THEN "idle" ELSE "reading", ask |-> ask, answer |-> NoAnswer,
         page |-> IF episodes THEN answer ELSE NoAnswer,
         items |-> IF episodes THEN me.items ELSE me.items \o answer.items,
         ats |-> IF ask.name = "get_section" THEN {} ELSE me.ats \cup answer.ats,
         own |-> me.own /\ answer.to = me.ask])

----------------------------------------------------------------------------
(* The cache.                                                               *)

Here(r) == Entry(r) \in DOMAIN disk
File(r) == disk[Entry(r)]
Without(entries) == [e \in DOMAIN disk \ entries |-> disk[e]]
Shown(r) == {i \in 1..Len(images) : r.name = "get_image" /\ images[i].to = r}
Keep(answer) ==
  LET others == SelectSeq(images, LAMBDA a : a.to # answer.to) IN
  SubSeq(<<answer>> \o others, 1, IF Len(others) < ImageCache THEN Len(others) + 1 ELSE ImageCache)

\* get_image looks into memory first.
ReadImage(c) ==
  /\ caller[c].at = "reading" /\ Shown(caller[c].ask) # {}
  /\ \E i \in Shown(caller[c].ask) : Took(c, images[i]) /\ images' = Keep(images[i])
  /\ UNCHANGED <<disk, version, loads, kills>>

\* A torn file fails a plain load; it is taken away by an rspotify load, and an image
\* that cannot be decoded is asked for.
Read(c) ==
  LET r == caller[c].ask  by == Table[r.name].by IN
  /\ caller[c].at = "reading" /\ Shown(r) = {}
  /\ \/ /\ Policy(c) = "Use" /\ Here(r) /\ ~File(r).torn
        /\ Took(c, File(r).answer) /\ UNCHANGED disk
        /\ images' = IF by = "image" THEN Keep(File(r).answer) ELSE images
     \/ /\ Policy(c) = "Use" /\ Here(r) /\ File(r).torn
        /\ IF by = "plain" THEN Fail(c) ELSE Do(c, [at |-> "asking"])
        /\ disk' = IF by = "rspotify" THEN Without({Entry(r)}) ELSE disk
        /\ UNCHANGED images
     \/ (Policy(c) = "Refresh" \/ ~Here(r)) /\ Do(c, [at |-> "asking"]) /\ UNCHANGED <<disk, images>>
  /\ UNCHANGED <<version, loads, kills>>

\* The pages of an artist's albums are gathered before they are kept.
Gathered(c) ==
  LET so_far == caller[c].page  page == Says(caller[c].ask) IN
  [page EXCEPT !.to = Request(@.name, @.arg), !.ats = @ \cup so_far.ats, !.items = so_far.items \o @]

Answered(c, ok) ==
  LET r == caller[c].ask IN
  /\ caller[c].at = "asking"
  /\ CASE ~ok -> Fail(c)
       [] ok /\ r.name # "get_artist_albums" -> Do(c, [at |-> "storing", answer |-> Says(r)])
       [] ok /\ r.name = "get_artist_albums" ->
            IF More(Says(r)) THEN Do(c, [ask |-> [r EXCEPT !.offset = @ + Limit], page |-> Gathered(c)])
            ELSE Do(c, [at |-> "storing", ask |-> Gathered(c).to, answer |-> Gathered(c), page |-> NoAnswer])
  /\ UNCHANGED <<disk, images, version, loads, kills>>

\* WebApiCache::set: the file is truncated, then written. Whoever else is writing it
\* keeps its own place in it.
Truncate(c) ==
  LET r == caller[c].ask IN
  /\ caller[c].at = "storing" /\ Do(c, [at |-> "writing"])
  /\ disk' = Joined([e \in {Entry(r)} |->
                       [answer |-> caller[c].answer, torn |-> TRUE,
                        writers |-> {c} \cup IF Here(r) THEN File(r).writers ELSE {}]], disk)
  /\ UNCHANGED <<images, version, loads, kills>>

\* Over what another wrote since, the answer may leave the end of the other's.
Write(c) ==
  LET r == caller[c].ask  a == caller[c].answer IN
  /\ caller[c].at = "writing" /\ Took(c, a)
  /\ IF Here(r) /\ c \in File(r).writers
     THEN \E torn \in IF ~File(r).torn /\ File(r).answer # a THEN BOOLEAN ELSE {FALSE} :
            disk' = [disk EXCEPT ![Entry(r)] = [answer |-> a, torn |-> torn, writers |-> @.writers \ {c}]]
     ELSE UNCHANGED disk
  /\ images' = IF r.name = "get_image" THEN Keep(a) ELSE images
  /\ UNCHANGED <<version, loads, kills>>

----------------------------------------------------------------------------
(* Changes, and the end of the program.                                     *)

\* Something is saved, removed, followed: the server changes, and when it says so
\* the answers that are stale are cleared.
Change(c, name) ==
  /\ caller[c].at = "idle" /\ loads < MaxLoads /\ loads' = loads + 1
  /\ caller' = [caller EXCEPT ![c] = [Idle EXCEPT !.at = "clearing", !.want.name = name]]
  /\ version < Len(Contents) /\ version' = version + 1
  /\ UNCHANGED <<disk, images, kills>>

ClearBucket(c) ==
  /\ caller[c].at = "clearing"
  /\ disk' = Without({e \in DOMAIN disk : e[1] = Changes[caller[c].want.name]})
  /\ Fail(c)
  /\ UNCHANGED <<images, version, loads, kills>>

\* Elsewhere, the account is used too.
Elsewhere ==
  /\ version < Len(Contents) /\ version' = version + 1
  /\ UNCHANGED <<disk, images, caller, loads, kills>>

Kill ==
  /\ kills < MaxKills /\ kills' = kills + 1
  /\ caller' = [c \in Callers |-> Idle] /\ images' = <<>>
  /\ disk' = [e \in DOMAIN disk |-> [disk[e] EXCEPT !.writers = {}]]
  /\ UNCHANGED <<version, loads>>

Next ==
  \/ \E c \in Callers :
       \/ ReadImage(c) \/ Read(c) \/ Truncate(c) \/ Write(c) \/ ClearBucket(c)
       \/ \E want \in Wants : Load(c, want)
       \/ \E name \in Edits : Change(c, name)
       \/ \E ok \in BOOLEAN : Answered(c, ok)
  \/ Elsewhere \/ Kill
Spec == Init /\ [][Next]_vars

----------------------------------------------------------------------------
(* Properties.                                                              *)

\* Whatever is found in the cache was said to the request it is found for: requests
\* that differ are kept apart, and what is left of two writes is no answer.
OwnAnswer == \A c \in Callers : caller[c].own

Done(c) == caller[c].at = "idle" /\ caller[c].ats # {}

\* A refresh shows what the server held when it was asked for or later, in every page
\* and every part of a page (refresh_show_episodes asks for the episodes anew, too).
RefreshIsFresh ==
  \A c \in Callers : Done(c) /\ caller[c].want.policy = "Refresh" =>
    \A v \in caller[c].ats : v >= caller[c].began

\* A list whose parts were all said of one and the same state of the server is the
\* beginning of the list there, and all of it up to the limit on pages: wherever
\* they came from, no page is missing, doubled or cut short.
WholeList ==
  \A c \in Callers, v \in 1..Len(Contents) :
    Done(c) /\ caller[c].want.name \in Paged /\ caller[c].ats = {v} =>
      LET items == caller[c].items IN
      /\ Len(items) <= Len(Contents[v]) /\ items = SubSeq(Contents[v], 1, Len(items))
      /\ Len(items) < Len(Contents[v]) => caller[c].want.name # "get_playlist_tracks" /\ Len(items) >= Paginated
=============================================================================
