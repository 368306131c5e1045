# Spotix: verification project

TLA+ modules, TLC model checking and TLAPS proofs for Spotix, a Spotify client in
Rust. `spotix-core` holds the session with Spotify, the decoding and the playback;
`spotix-gui` the Druid user interface and the web API client;
`librespot-playback-patch` the engine that plays by default. Paths below are relative
to `spotix-core/src` unless they begin with `spotix-gui` or `librespot`.

Contents: 1 the system, 2 the modules, 3 the runs, 4 disagreements, 5 the proofs,
6 what is not modelled, 7 the plan. `PROJECT.json` has the lines that each definition
stands for, the components, the runs, the hazards and the properties that cover them.

## 1. The system

### Threads and how they meet

| thread | code | state it owns | talks to |
|---|---|---|---|
| user interface | `spotix-gui/src/controller`, `data`, `ui` | the data model: mirror of the queue, pages, library, preferences | player: unbounded channel of `PlayerEvent`; session: `update_config`; a thread per request |
| player | `player/mod.rs` | `Player`: state, preload, queue | sink, loaders, worker mailbox, librespot engine |
| loaders | `player/item.rs`, `cdn.rs`, `metadata.rs` | none | player: `Loaded`, `Preloaded`; caches on disk |
| decoding worker, one per track | `player/worker.rs`, `actor.rs` | decoder, packet | bounded mailbox; ring buffer and two atomics shared with the source |
| stream actor and audio callback | `audio/output`, `audio/source.rs`, `DecoderSource` | the device's stream; the playing source | player: positions and ends, by `try_send` |
| servicing and download threads | `player/file.rs`, `player/storage.rs` | none | `StreamDataMap`: two locks and a condition variable shared with the decoder; `cache.rs` |
| session: dispatcher, encoder, decoder | `session/mod.rs`, `connection/` | pending callbacks; a codec each | callers by channels, TCP stream |
| librespot engine, its loaders, event forwarder | `librespot-playback-patch/src/player.rs`, `player/librespot.rs` | engine state; current item | player by the same channel; one atomic flag |
| web API callers | `spotix-gui/src/webapi` | none | request gate, tokens behind locks, cooldown file, response cache |
| logins | `oauth.rs`, `lastfm.rs`, `spotix-gui/src/ui/preferences.rs` | a listener on a fixed port | the window that asked, if it is still there |

### Components, what is hard in them, and what makes them correct

* **Play queue** (`player/queue.rs`): playlist, tracks the user queued, play order,
  position, behaviour. Sequential, but index arithmetic over an order that is
  recomputed, shuffled, wrapped and inserted into. No track is lost, repeated or
  reordered, and no index is out of range.
* **Player** (`player/mod.rs`, two engines): every answer is asynchronous, so loads
  finish after the user has moved on, ends of tracks are on their way when a new one
  starts, crossfades make two tracks sound. Player, sink, queue and user interface
  agree, and it never waits in vain.
* **Librespot engine** (`librespot-playback-patch/src/player.rs`): loads superseded by
  others, served by a preload or sought in while they load. What begins is what was
  asked for last.
* **A track's data**: the item with its restrictions, alternatives, key and URL
  (`player/item.rs`, `cdn.rs`, `cache.rs`); the streamed file, a decoder that blocks
  for what failing threads bring; the decoding worker, which keeps itself going by
  messages to itself through a bounded mailbox that others fill too. The key opens the
  file, a blocked decoder wakes up, no sample is lost, the track ends.
* **Audio output** (`audio/output`): two channels that are served in any order, one of
  which only a running stream empties. What is asked for comes to sound, every frame
  once.
* **Session** (`session/mod.rs`, `session/mercury.rs`, `connection/`): one connection
  behind a lock, replaced and shut down while others use it. Callers return, none
  leaks, codecs stay in step, each response is whole and its caller's.
* **Web API client** (`spotix-gui/src/webapi`): a hand-made semaphore, retries, a
  cooldown that all callers share and that outlives the program; tokens refreshed
  while the user logs in again; a response cache written in place by many threads.
* **Accounts**: logins that time out, come back late or are left; the account is kept
  in four places.
* **The user interface's state**: a mirror of the queue changed before the player
  changes its own; pages whose answers come late, out of order or not at all; library
  and playlists that are edited on the screen first, in the service later and in the
  cache last.

## 2. The modules

A variable has the name of the field it stands for where TLA+ allows it; an action
has the name of its function. What a function does under one lock, or between two
points where another thread can see a difference, is one step.

| module | models | state and actions |
|---|---|---|
| `QueueOps` | `Queue` | one operator per method, from a queue record to the SET of possible results: a shuffle has several, an operation that panics none. Positions count from 1 |
| `PlayOrder` | what a queue promises | played, upcoming and queued tracks, no indexes |
| `PlayQueue` | the queue under the player's handlers | refines `PlayOrder`: the order before the position is `played`, from it on `upcoming`, queued tracks not yet reached are `queued` |
| `Player` | player with the native engine | an action per handler; loaders, audio callback, crossfade; extends `QueueOps` |
| `LibrespotPlayer` | player with librespot | player, forwarder and engine, three channels and the flag `transitioning`; extends `QueueOps` |
| `Engine` | `PlayerInternal` | one turn of `poll` in three stages; a loader thread per load, its copy in the cache, `load_handles`, shutdown |
| `ItemLoad` | `PlaybackItem::load` | a loader's steps, with the caches of tracks, countries, keys, URLs and files, torn writes, restarts |
| `StreamedFile` | one streamed file | decoder, servicing thread (thread 0), downloads, cached copy |
| `DecodeWorker` | one playing track | worker, mailbox, ring buffer, source |
| `Output` | both outputs | sink, stream actor, callback, chains of sources |
| `Session` | `SessionService`, `SessionWorker` | callers, updaters, three threads per session |
| `Connect` | `SessionConnection::open` and the codec | access points and fallback, proxies, keys, login, Shannon nonces of both directions |
| `Mercury` | `MercuryDispatcher` | requests, cut and interleaved responses |
| `RequestGate` | gate, retries, cooldown | callers, clocks that count down, restarts |
| `WebTokens` | OAuth, login5 and client tokens, librespot session | a step per lock or exchange of a calling thread |
| `WebCache`, `Endpoints` | response cache | a table of the endpoints; load, store, page, clear, tear |
| `Accounts` | logging in and out | login threads, windows, configuration with its file |
| `LocalFiles` | local files | the reader through its chunks, the search, the registry of ids |
| `PlaybackView`, `QueueMirror` | playback controller of the user interface | orders to and reports from a player cut to one step an order; suggestions, snapshot, restore |
| `Pages`, `Promises` | pages and navigation | a promise per part of a page, requests in flight, history |
| `Library`, `Playlists` | saved items; playlists | what is shown, what the service has, what the cache has, a thread per command |
| `MCPlayback` ... `MCLogins` | | values of constants; several components in one model, one of which runs |
| `QueueLemmas`, `...Proofs` | | proofs, section 5 |

How they fit together. `PlayQueue`, `Player`, `LibrespotPlayer` and `PlaybackView`
share the operators of `QueueOps`. `Player` takes a load for an answer at any time,
which `ItemLoad` details; it takes from a track its positions and one end, which is
what `DecodeWorker` promises (`TrackEnds`, `NothingLost`); it takes the sink for a
source and a callback, which `Output` details. `LibrespotPlayer` takes the engine
for what it is told of it, `Engine` details that. `Session` takes a request for its
caller, `Mercury` and `Connect` are the inside of a session. `WebTokens` gives what
the calls that `RequestGate` admits carry, and `Accounts` is where its logins come
from.

Abstractions worth knowing:

* A player's channel has many senders. In `Player`, commands and results of loaders
  are taken at any time, whatever waits before them, because concurrent senders
  produce every such order; the events of the one audio callback stay in order. In
  `LibrespotPlayer` the order between the forwarder's events and the player's own
  reports matters, so `inbox` is a sequence.
* `Connect`: a secret is the set of the two public keys, a codec's key the tuple it is
  derived from; a checksum holds when key and nonce are those of the encryption. A
  failed exchange with the first access point that accepts is not retried with the
  next; an answer of another kind than welcome or failure panics; a SOCKS proxy's
  connect has no timeout.
* `ItemLoad`: a torn, empty copy of a track parses as an item without files and is
  found for ever; a torn country is a country in no list; a range answer without
  Content-Range, or an empty list of URLs, panics the loader.
* `StreamedFile` counts in blocks: a range of bytes is a set of blocks, a write is a
  block. Requests are rounded up and clipped as in the code.
* In `RequestGate` one clock stands for the monotonic and the wall clock. The file
  keeps whole seconds, so `Second` is two units and the loss of a fraction shows.
* `PlaybackView` keeps of the progress in a track only whether it is late in it, and
  chooses once whether commands wait for each other (`hasty`) and whether the web API
  answers.
* An operator whose name says a mistake (`InsertStaleIndex`, `KeyOfArg`) is wrong on
  purpose: a plausible bug in the definition after it, which a property must notice.

## 3. The runs

`tlc -config X.cfg M` in this directory. A module that models several components picks
one of them (`part`) in the initial state; the others stay in their first state, and
the fairness of each speaks of its own part. Deadlock is not checked: in every part the
user, or the server, may do nothing more, and the player runs out of bounded commands.

| run | module, parts | properties | states | what it shows |
|---|---|---|---|---|
| `playback` | `MCPlayback`: queue, view | `PlayOrderIsPermutation`, `ImplementsPlayOrder`; `MirrorKnowsPlayer`, `UpcomingAgrees`, `SnapshotIsShown`, `SuggestionsAreForWhatPlays`, `AutoplayGoesOn` | 405 k | index arithmetic implements the abstract promise; the user interface shows what the player has and will play |
| `player` | `MCPlayer`: player, output | `SinkPlaysState`, `FadesIntoQueueCurrent`, `LoadingEnds`, `QueueRunsOut`; `HeardInOrder`, `SoundsAsAsked` | 358 k | player, sink and queue agree in every order of events, seeks that fail included; what is asked for sounds |
| `audio` | `MCAudio`: load, stream, decode | `KeyOpensFile`; `BlockedWakes`, `CopyEndsWhole`; `SelfSendsNeverBlock`, `NothingLost`, `TrackGoesToItsEnd` | 647 k | from the item to the ring buffer, with failures, seeks and a death of the program |
| `session` | `MCSession`: service, connect, mercury | `NoSessionLeaks`, `CallerReturns`; `InStep`, `OpenEnds`; `ResponseIsWhole` | 245 k | one session, everyone returns; keys and nonces agree; responses are whole |
| `librespot` | `MCPlayer`: librespot, engine | `StopIsFinal`, `StopIsShown`; `SaysWhatItDoes`, `BeginsWhereAsked`, `LoadEnds` | 816 k | a stop wins; what begins is what was asked for last |
| `pages` | `MCPages`: pages, library, playlists | `DeferredIsAsked`, `PageIsOfNav`; `LibraryIsServers`; `EditsReachServer` | 1.55 M | late answers show nothing wrong and no spinner is left; edits get through |
| `web` | `MCWeb`: gate, cache, local | `NoLostWakeup`, `PauseIsKept`; `OwnAnswer`; `ReadsWhatIsWritten` | 935 k | the semaphore and the cooldown over restarts; keys of the cache; chunks of the database |
| `logins` | `MCLogins`: tokens, accounts | `LoginIsKept`, `OneLibrespotSession`; `AccountAgrees` | 1.73 M | refreshes do not undo a login; session, client and file follow the configuration, and when its credentials and token are of one account |

Four more runs each find one property violated (section 4). Further properties are
defined in the modules and hold under the same constants; `librespot_more.cfg` and
`pages_more.cfg` have some (`SinkFollows`, `QuietAgrees`, `JoinEnds`; `ShownAsServer`, `PageSettles`, `ListSettles`). Others that hold:
`CurrentTrackKept`, `OnlyEmptyLoopAllPanics` (queue), `DroppedWorkerStops` (decode),
`ShutdownReturns`, `StaleSessionIsDoomed` (service), `AnsweredResponds` (mercury),
`CallsReturn`, `PermitsCounted` (gate), `RefreshIsFresh`, `WholeList` (cache),
`CallsEnd` (tokens), `LoginEnds` (accounts), `BlockedIsServed` (`StreamedFile`).

### Bounds, and why they are enough

* queue: three tracks, four playlists (with a duplicate and an empty one), three
  entries, one queued track: a shuffle of three is the smallest with orders that are no
  rotation. All sequences of commands, however long. The theorems cover the rest.
* view: a list of three tracks of which one is an episode, a queued list of two, two
  commands, one end or failure, one restart: a drag or an edit after a skip, an answer
  after a stop, a crash after either. One track is a local file, which `save_snapshot`
  skips and for which nothing is suggested. With three commands, and no track a local
  file, the four safety properties hold too (27 M states, 20 minutes); the conditions
  `tangled` and `curated` have to cover more there than with two (section 4).
* player: two tracks of two ticks, playlist of both, crossfade 0 or 1, `LoopAll` besides
  `Sequential`, four commands, at most two audio events waiting. A preload needs a tick
  before the end, a crossfade one of its own; four commands are a load, an edit, a skip
  and a pause. `MaxFailures` is two so that the counter of failed loads can pass its
  limit within the list (it is three in the code). With three events: 458 k states, no
  difference.
* output: channels of two messages instead of sixteen, so that three calls fill one;
  three frames, which a period of two does not divide.
* load: one loader, a track whose first choice is forbidden at home and whose
  alternative lacks a format, two qualities, one death. Two loaders without a death
  hold as well (1.25 M states).
* stream: four blocks, the first two fetched on opening, two downloads at a time, a
  seek (backwards too), a failure, a limit that fits one file.
* decode: nine samples, packets of three, a ring of four, callbacks of two: no number
  divides another, so partial writes and reads happen at every offset. Two seeks and two
  more places in the mailbox are the tight case of the proof; the code has 128 places.
* service: two callers meet in `connected()` while a third thread replaces the
  configuration; two sessions and configurations suffice for a stale one.
* connect: two access points and the fallback, no proxy, SOCKS and a malformed one,
  three messages each way, one fault of the network.
* mercury: two requests, two parts of at most one symbol, three messages each: a part
  may go through three messages. Sequence numbers wrap at two.
* librespot: two tracks, three commands and an end of track; `hasty` chosen first.
  Properties that hold only without haste say `~hasty`.
* engine: a remote track and a file, two commands of nine, one fault; a load, what
  supersedes it and the loaders of both.
* pages: eight pages, two of which differ in what they highlight only; three acts and a
  failure. library, playlists: two threads, four edits, one failure; a playlist with a
  duplicate, a local track and one that is missing.
* gate: three callers and two permits (eight in the code): two exchanges in flight, whose
  answers come in either order, and a caller that waits or overtakes.
  `Retry-After` below, above and without the longest delay.
* cache: two threads over every endpoint; lists of five and three entries in pages of
  two, so that a page is full, half and beyond the end; no death in the run (with one, a
  torn file is an error and no wrong answer).
* local: one to three tracks; a title of which the length takes two bytes; chunks of
  every small size, cut anywhere.
* tokens: two threads, three refresh tokens, three librespot sessions. accounts: two
  people, two services, two attempts, three windows (the third is what a log-out opens
  from the preferences), one death, in the middle of any save too. With four windows
  `AccountAgrees` holds as well (4.4 M states).

### Fairness

Only steps of threads that the code keeps running are fair, weakly unless said; the
user never has to do anything and failures never have to happen. Where a liveness
property excepts a case that was chosen at the start (`hasty`, a web API that is never
reached) the run asks for no fairness there either, which only makes it faster.

* player: the handlers of ends and positions, each loader's result, the audio callback.
  A loader ends because its requests have timeouts. librespot: player, forwarder and the
  engine's commands; a load may take for ever. engine: the turn, each loader, the steps
  of shutdown; a loader's requests end.
* output: the sink's two sends, the stream actor, and the callback as long as the
  stream runs.
* view: reports, orders, the engine's load, the thread of suggestions.
* load: each loader's step. stream: the decoder that is woken, the servicing thread
  (whose loop has a timeout), each thread's step or failure. decode: the worker and the
  audio callback.
* service: the threads, a TCP connect (it has a timeout), a server that answers what it
  has read. The handshake has no timeout in the code and is NOT fair, so `CallerReturns`
  speaks of callers that have connected. connect: both sides, except that a peer may
  fall silent, which `OpenEnds` excepts.
* gate: the clock, and every caller's own step: requests have a timeout.
* tokens: each thread's work, strongly: it takes locks that others let go of again and
  again, and a mutex of the standard library is taken in the end. accounts: each
  attempt, whose listener has a timeout.
* pages, library, playlists: the answers; a request has a timeout.

## 4. Disagreements between the code and what it says

Four runs find their property violated; `PROJECT.json` quotes the sentence of the
source that each refutes:

| run | property | in short |
|---|---|---|
| `queue_shuffle_current` | `ShuffleKeepsCurrent` | shuffling a shuffled queue makes another track current (`player/queue.rs:113`) |
| `decode_seek_fails` | `DecodeGoesOn` | a failed seek silences the track for good (`player/worker.rs:406`) |
| `session_panic` | `ConnectedIsServiced` | after a malformed message the session stays "connected" and dead (`session/mod.rs:183`) |
| `librespot_stop_leaks` | `TransitionStopsSuppressed` | of two transitions in quick succession one internal stop leaks and clears the queue (`player/librespot.rs:136`) |

More properties that a comment or a text of the interface states and the models
violate. The first three have a configuration of their own; for the others, give the
property to the module named, with its part alone:

| module, part | property | in short |
|---|---|---|
| `MCAudio` (`load_url.cfg`) | `UrlIsLive` | `cdn.rs:272` takes seconds since the epoch for a duration in milliseconds: a URL is kept after it has expired |
| `MCWeb` (`local_ids.cfg`) | `OnePathOneId` | the map from paths to ids is never filled: a file has a new id at each registration (`item_id.rs:22-39`) |
| `MCPages` (`playlist_rename.cfg`) | `RenamedAsTold` | renaming a playlist is reported as done and never sent |
| `MCPlayback`, queue | `QueuedTrackAlwaysPlaysNext` | a track queued on an empty queue is skipped over |
| `MCPlayer`, player | `LoadSuccessPlays` | a pause while loading loses the state; the loaded track is dropped |
| | `EndOfTrackEndsPlayedTrack` | an old end of track skips the new track |
| | `EndOfTrackOnEmptyQueueStops` | with `LoopAll` on an empty queue the player thread panics |
| | `EndedTrackIsReported` | after a crossfade an end may be swallowed: silence until the user acts |
| | `PreloadedIsNextInQueue` | with queued tracks the preloaded one is not the next |
| `MCPlayer`, output | `NeverStuck` | volume changes while paused fill the channel and block the player (`audio/output/cpal.rs:93`) |
| | `HeardInOrder`, `Chains` = stereo | the stereo adapter claims what it has not written |
| `MCAudio`, decode | `PositionIsPlayHead` | around a seek, old samples are counted at the new position |
| `StreamedFile` | `NoMoreRequests` | seeks after an idle second ask a thread that no longer listens |
| | `DownloadedIsRequested` | a failed range un-requests the blocks that arrived |
| | `OpenedIsComplete` | a half-written copy is taken for the file |
| | `LimitHolds` | a download thread's copy is not held to the limit |
| `MCSession`, connect | `GivesUp` | a silent peer in the handshake holds the lock for ever |
| `MCPlayer`, engine | `NeverInvalid` | a sink that fails to start twice ends the program with "Invalid PlayerState" |
| `MCLogins`, accounts | `LastfmKeyIsItsSession` | the key that is kept need not be the one of the session |
| `MCPages`, pages | `MenuGoesWhereItSays` | the history menu goes back too far |
| | `LyricsOfPlaying` | lyrics of an earlier track are shown for the one that plays |
| `MCPages`, library | `EverySaveIsSent` | saving a track is dropped when its page was never visited |
| `MCPages`, playlists | `ShownSorted` | newest first, loading more puts older pages at the wrong end |

Met while modelling, with no property of their own; each is a behaviour of a model:

* Playback view. A queued track "plays immediately on the next skip", but the panel
  lists it last. A behaviour selected after a track was put next orders the player's
  list anew, and the panel no longer lists what comes. A late Resuming of an earlier
  track shows the wrong track as playing. Suggestions that come between the player's end and the interface's
  Stopped leave silence; those that come after a stop of the user start playback again.
  A queued track that has played is forgotten by the mirror, and Previous brings it back
  unlisted. Restarting the player for a new equalizer applies the progress to the NEXT
  track and drops queued tracks that stay listed. The last position is saved as 0 unless
  paused. A failed restore of an episode removes a newer snapshot. A drag keeps an index
  that may be stale. Playing the list that plays resumes it and forgets autoplay. A late
  Pausing after Stopped shows "Paused".
* Pages. A link that fails overrides a newer search, and Retry then searches for the
  link's id; one that succeeds navigates although the user has moved on. Sliders of the
  recommendations are lost on refresh. A late answer of a load settles a refresh. Some
  sections of the home page are never loaded, or cannot be retried.
* Library and playlists. Optimistic changes are never rolled back; both widgets of the
  shows handle one save; failed loads of shows are never retried; mixed local and remote
  removals use positions from before the removal; an answer to "load more" ignores its
  link; pages in the cache never expire, and stale ones are stored after a clear.
* Accounts. A login whose access point refuses leaves the session with one account and the
  web client with another. A rotated refresh token is not written to the file; a torn configuration
  makes every later start panic (`spotix-gui/src/data/config.rs:289`); the profile and
  library of the earlier account come from the cache after a switch; leaving the window
  drops the answer of a login. The code of one attempt may be exchanged with the
  verifier of another.
* Web API. The key of recommendations hashes a request built from a map of random order;
  a torn entry is an error for ever in one of the two loaders; a list is asked for one
  page beyond its end; images that cannot be decoded are kept. "connected" can be set for
  a session that was replaced. A challenge that answers a challenge is not counted.
* Player. A seek that fails while the ring is full ends decoding: the track stands still
  and the queue does not run out (`Sought`; the run `decode_seek_fails` has the worker).
* Engine. A preload that fails sends Unavailable with the preload's track and the current
  request's id while the current track goes on (`TellMissed`); `player/librespot.rs:261`
  would take it for an end of the current track, but nothing in Spotix asks the engine for
  a preload. A packet error sends an end of track at every turn while playing; a failing
  seek drops a preloaded track silently; a key failure evicts a good copy; a copy that
  cannot be removed is loaded again for ever.
* Output. `ResampledSource` does not end when its block is no multiple of the channels.

## 5. The proofs

`tlapm M.tla` for each module below. The theorems hold for every value of the constants
that meets the named assumptions of the modules (`...Assumption`), which only say that
sizes and bounds are numbers, lists are sequences of items, and model values differ from
what they stand beside; TLC evaluates them in the runs. The invariants were checked by
TLC under the constants of the runs before they were proved. All modules of proofs
extend the MC module of their run, so that a theorem there is about the very property
that the run checks; what it says of the other parts of that run (`V!Spec`, `C!Spec`,
`M!Spec`, `L!Spec`, `E!Spec`, `O!Spec`, `A!Spec`) holds for every value of the constants
that the `.cfg` gives.

**The queue** (`QueueLemmas`, `PlayQueueProofs`).
`TypeCorrect`, `PlayOrderStaysPermutation`, `PositionStaysInPlayOrder`,
`PanicsOnlyOnEmptyLoopAll`. Inductive invariant `Inv`: the queue is `WellFormed` (its
type, and the play order is a permutation of the playlist) and `Placed` (position inside
the order, or 1 in an empty queue). Neither part is inductive alone: recomputing the
order indexes it by the position, and an insertion shifts indexes by the length of the
order. Between the skip and the test for a current item the position may be one past the
end, so `QueueLemmas` proves each operation for `WellFormed` queues, and `OrStoppedGood`
that the handlers' stop restores `Placed`. The core is `InsertAtPermutation`: a new
greatest index put anywhere into a permutation gives a permutation.
`QueueImplementsPlayOrder`: the refinement of `PlayOrder`, `Promise!Spec` with
`CommandsKeepPromise`, which says more: which of the promise's steps each handler makes.
It needs `Taken`, that the queued tracks taken are not more than there are. For each
operation a lemma relates the three parts of the queue before and after (`Advances`,
`Enqueues`, `PlaysNext`, ...); `RelationsAreSteps` turns these into steps of the promise.
The hard parts are the insertion of a queued track, which shifts half of the order
(`InsertedParts`), the wrap-around (`Wrapped`), and that a shuffle keeps the bag of
tracks (`SameBag`).

**The playback view** (`PlayQueueProofs`, too).
`MirrorIsKnown`: what the player has, the interface lists. Orders overtake what the
player does with earlier ones, so the invariant is about the future: of the orders under
way, those after the last one that starts the queue anew, and the queue itself if none
does, bring nothing that the lists do not have (`QueueListed`, `OrdersListed`). Four
lemmas say what keeps this: to send an order that starts anew, to send more, to send
none, and to take the first. `SnapshotOfShown`: the snapshot is of the track that is
shown, unless that is a local file or none: `save_snapshot` returns early for a local
track and leaves the earlier snapshot on disk (`NothingIsNotLocal`, `SaveKeepsShown`).
`ShownInv` is inductive with the shapes of the records; the steps that write
the file, the state or the shown track are those of reports, of the stop and of a new
process, and the others leave all three alone (`StepKeepsShown`).

**The native player** (`PlayerProofs`).
`TypeCorrect`; `SinkPlaysWhatIsSaid`, that the newest source of the sink is the current
track, audible exactly while the player says Playing; `LoadsArePending`, that a loading
player has a thread whose result it will accept; `NoticesShowTheState`, that the last
notification names the state; `FadesIntoCurrent`, an action property. For any playlists,
lengths, numbers of commands and events. `Inv` has five parts. `Agreed` ties state, sink
and notice; it needs that a second source exists exactly while a fade runs, or a pause
amid a crossfade would leave the wrong source newest. `Waits` needs, besides
`LoadIsPending`, that what is preloaded is never what is loaded, or one result would be
taken for both. `WellFormed(queue)` comes from `QueueLemmas`; `FollowingBecomesCurrent`
says that the track the queue names before a skip is the current one after it, which is
why the two computations at `player/mod.rs:635` agree.

**The player with the librespot engine** (`PlayerProofs`, too; `L`).
`LibrespotTypeCorrect`, and `StopStaysFinal`: once the user has stopped, nothing plays
before the next command. A stop is an order to the engine like any other, and events of
what played before may still wait in the player's inbox, so `StopStays` says both halves:
until the next command the queue is empty, whatever the player takes from its inbox
(`NothingLeft`), and the last order that loads or stops is a stop, or the engine has
stopped (`StopsIn`). The operations on the queue are those of `QueueLemmas`
(`SameOperations`).

**The librespot engine** (`PlayerProofs`, too; `E`).
`ListenersAreToldRight` and `BeginsRightly`, for any commands and any number of loaders.
The handlers of the engine call each other, so there is a lemma for each operator, from
the sink upwards: which fields of the record it leaves alone (`Frame`), and that it keeps
what is `Good` of it. `Says` holds in the middle of every handler but between a change
of state and its event, which is why `StartPlayback`, that tells last, needs nothing of
it. What begins is what was asked for because the loader that the engine waits for loads
just that (`Coming`, up to the end of the track: `Fits`), and the loader of a preload
begins at the beginning (`OnItsWay`), which is what lets it be taken over. Both need that
a loader which is waited for is not given away: with each command at most one loader is
taken, so a free one is left (`FreeLoader`), and only loaders that nobody waits for are
forgotten (`GoodAfter`).

**The output** (`PlayerProofs`, too; `O`).
`FramesInTurn`: what is heard of a source is heard in its turn, for any sizes of the
device's period, of the resampler's block (a period is at most two of them:
`OutputAssumption`) and of the channels. The stereo adapter is excepted, for which it is
false (section 4). The core of `OutInv` is `Follows`: what is left of the source in the
resampler goes on after the frame that was heard last, and what it decodes next goes on
after that. `ListenOn` says that two sequences are listened to one after the other, so a
block that is cut at the device's period is heard like the whole (`WritesResampled`).
`Numbered` says that what is still on its way was asked for later than what is played:
a source is never replaced by itself, which would begin again where it was.

**The decoding worker** (`DecodeWorkerProofs`).
`WorkerNeverBlocksOnItself`: messages in the mailbox and the one in hand are at most one,
plus one for each seek, plus one for the stop; so a mailbox with two places more than
there are seeks always has room. With the 128 places of the code, 126 seeks that wait at
once are safe; the proof covers no more. `NothingIsLost`: the samples heard, in the ring
and in the packet are the decodable samples in their order. `Flows` says that the ring
followed by the packet is a sequence of whole packets before `input` (`Queued`), that
what was counted and what is in the ring add up to what was written (`Accounted`), that
decoding stands at a boundary of packets and that an end is only announced when all is
decoded. The arithmetic of packets is in `Multiple`, `Quotient` and `NextMultiple`.
`KeysOpenFiles` is about the load of an item (`L`, an instance of `ItemLoad`): for any
items with any files, rules and alternatives, any number of loaders and of deaths, what
is loaded has the key of its own file. `KeysMatchFiles` adds what the disk must keep: a
cached key is torn or that of the file in its name, and a loader past the key holds the
key of the file that it chose, although the quality may have changed since.

**The session service** (`SessionProofs`).
`TypeCorrect`, `NoSessionIsLeaked`, `StaleSessionsAreDoomed`. `Safe` adds that who opens a
session, or waits for one to end, holds the lock, and that who opens found none running:
without it an opener could overwrite a session that nobody would shut down. `Aged` is
what a worker's threads may do to a session that they do not own: it only ever ends.
`EndsStayInStep` is about a session's connection (`C`, an instance of `Connect`), for
any access points, proxies and number of messages. `AgreeUndamaged` says that while the
network has damaged nothing, the frames on their way in one direction are numbered from
the nonce that the decoder expects to the last that was encoded, without a gap (`RunOf`),
with the key of one handshake; and how far `open()` has come says what is on its way
before that (`OursKept`, `UpKept`, `DownKept`).
`ResponsesAreWhole` and `AnswersArrive` are about the Mercury requests (`M`, an instance
of `Mercury`), for any parts and cuts, and sequence numbers that are used again. The
invariant `Answering` says of each number that is open that the results of `aggregate`
so far, followed by what the server has left with the kept part `Glued` in front, are
the response promised to the latest request of that number (`Underway`); and that a
latest request whose number is no longer open has its response. What `AddMessage` and
`AddMessages` compute is proved by induction (`AddMessageIs`, `PartsJoined`,
`AddMessagesOn`); `UnderwayGoesOn` is the step: a cut anywhere leaves the whole as it was.

**The gate** (`RequestGateProofs`).
`GateCounts`, `GateLosesNoWakeup`: the counter is the number of callers at a point where
they hold a permit and at most the limit, and while a caller waits, permits in use and
notified callers together reach the limit. The second conjunct is the reason why one
notification per permit is enough although newcomers overtake. `GateKeepsPauses`: for any
number of permits no request is sent before the pause is over, whatever the delays and
however often the program restarts. `Paced` says that the clock in memory, the one in the
file and that of each sleeper all cover what was announced, but for the fraction of a
second that the file loses. Three things the code does are named in the property, since
without them it is false: a caller that looked at the cooldown before the 429 came does
not look again (`early`); a death between the truncation and the write of the file loses
the pause (`unreadable`, until the next 429 or success); and a success, also of a request
sent before the 429, lifts it (`ClearRateLimit`), as a shorter pause replaces it.

**The cache of the answers** (`RequestGateProofs`, too; `C`).
`AnswersAreOwn`: what is found was said to the request it is found for. `CacheInv` says
what a thread may ask for and what a readable file holds; the core is `EntriesApart`:
requests that may be looked up and have the same bucket and key are the same, because
no two endpoints share a bucket (`BucketsApart`, over the whole table) and only lists
that are cached page by page have an offset, which is then in the key.
`RefreshesAreFresh`: `FreshInv` says that what a refresh has put together, and what it
is about to add, was said after it began; images in memory and the answer to where the
user is are the only ones a refresh may take from before, and it keeps neither.

**The tokens** (`WebTokensProofs`).
`TheLoginIsKept`, `TheSessionInUse`. `Kept` adds that who refreshes holds the lock of the
token and that there is one (`RefreshersHold`), and that tokens are ordered by the logins
that gave them: a late refresh is then of the token in use, or its result is not stored.
`One` adds that a session which a thread was given has been made, so that a replaced one
is not opened again. Steps that touch neither token nor session are proved together
(`Aside`). `OneAccount` is about the logins (`A`, an instance of `Accounts`): the
session and the client follow the configuration, the file holds it, and its credentials
and token are of one account, for any people, services, attempts, windows and deaths. The
exception is the history variable `halved`: a login that was answered without credentials
(the access point refused it) stores its token beside the credentials of whoever was
logged in, and so does a death between the two saves of `SPOTIFY_RESPONSE`; the next whole
login or log-out mends it. `AttemptsOwned` says that the credentials a thread will answer
with are of the account of its token, `FileAgrees` carries the relation over a restart;
beside them the records need the fields that they should have (`AttemptsShaped`,
`AccountShape`).

**The pages** (`PagesProofs`).
`SpinnersAreAwaited`, `PagesShowTheirNav`. `Awaited`: what is deferred has a request in
flight whose answer it will accept. `Agree`: the parts of one page were asked for the
same argument, which makes it safe that a page is loaded or not by the look of one part
only. `OfNav`: the page that is shown was asked for.
`LibraryAgrees` is about the saved lists (`L`, an instance of `Library`), for any finite
sets of items and threads, any page size, number of commands and failures. Its one
hypothesis beside the types is that the list fits the limit of the paging
(`Cardinality(Savable) <= LibraryLimit`): a longer list is cut off, so the property would
not hold. `LibraryInv` has, per kind: items are listed once by the service (`Alike`); the
cached pages are those of the service, unless a change is between the service and the
removal of its pages (`CachedRight`); what a load has put together are the first pages of
the list (`LoadedRight`); a change still to be made, or made but not answered, explains
the difference between the two lists (`ChangedRight`); and no thread at work means no
difference (`ShownRight`). What `Without` returns is proved by induction.

Only model-checked:

* All liveness, and ENABLED: outside the prover's reach.
* What most recursive computations return for every input: the library's theorems of
  induction take an operator, which the provers cannot instantiate. Over the naturals
  `QueueLemmas` derives induction, and that recursive functions exist, from the
  well-foundedness of `<` (`LeastOf`, `Induction`, `Recursion`); `Without`, `TakeAll`,
  `ListenTo` and the aggregation of `Mercury` are proved that way. Not proved yet:
  `EditsReachServer` of `Playlists` and `ReadsWhatIsWritten` of `LocalFiles`, which need
  what folds, `SelectSeq` or a reader do to sequences of any length.
* `UpcomingAgrees` and `SuggestionsAreForWhatPlays` of `PlaybackView`.

## 6. What is not modelled, and why

* Signal processing, cryptography, framing, protocol buffers, ids in base 62:
  transformations of data with no control state between calls.
* Widgets, layout, menus, windows that keep no state of a request: the state they show is
  in the data model.
* Vendored forks, but for the engine in `librespot-playback-patch/src/player.rs`.
* Inside the modelled parts: volume in `Player`, keep-alive pings, preloading by the
  librespot engine on behalf of the player (nothing asks for it), connect-only commands
  of the engine, a cache on a full disk, choosing an output device, Last.fm scrobbling,
  media keys, the challenges inside one exchange of a token.
* The stereo adapter in the runs and in `FramesInTurn`: `HeardInOrder` is false for it.
* Queued tracks in `FadesIntoQueueCurrent`; crossfades, and tracks whose decoding a failed
  seek has ended, in `QueueRunsOut`; a stuck player in `SoundsAsAsked`; a silent peer in
  `OpenEnds`; overlapping or failing edits in `LibraryIsServers` and `EditsReachServer`;
  files read while they are written in `OwnAnswer`. The code goes wrong there, or nothing
  is said; section 4 and the notes of the hazards name each.

## 7. The plan

1. Proofs: `SuggestionsAreForWhatPlays` (what is announced, shown and awaited name one
   track), `SinkFollows` of the engine.
2. The refinement of `LibrespotPlayer`'s engine by `Engine`: commands and events map to
   the three stages of a turn.
3. The composition of `Session` and `Mercury`: callbacks of partial responses when the
   session ends.
