---------------------------- MODULE StreamedFile ----------------------------
(***************************************************************************)
(* One audio file streamed from the CDN: the storage of player/storage.rs  *)
(* that the decoder reads (and blocks on) while download threads fill it,  *)
(* the servicing thread of player/file.rs that spawns those threads, and   *)
(* the file's copy in the audio cache (cache.rs).                          *)
(*                                                                         *)
(* The file is a sequence of blocks 0..Blocks-1; a range of bytes is a set *)
(* of consecutive blocks.  The thread 0 is the servicing thread, the other *)
(* threads are downloads.  What a handler does under one lock is one step. *)
(***************************************************************************)
EXTENDS Naturals, FiniteSets, Sequences, SequencesExt, FiniteSetsExt

CONSTANTS
  Blocks,       \* length of the file
  Initial,      \* INITIAL_REQUEST_LENGTH
  Prefetch,     \* PREFETCH_READ_LENGTH
  MinRequest,   \* MINIMUM_READ_LENGTH
  Limit,        \* audio_cache_limit
  OldSize,      \* size of an older file that is already cached
  MaxThreads,   \* bound: downloads at one time
  MaxSeeks,     \* bound: seeks of the decoder
  MaxFailures,  \* bound: downloads, or URLs, that fail while serving
  NoFile        \* no file at a path of the cache

StreamedFileAssumption ==
  /\ Blocks \in Nat \ {0} /\ Initial \in 1..Blocks
  /\ Prefetch \in Nat \ {0} /\ MinRequest \in 1..Prefetch
  /\ Limit \in Nat \ {0} /\ OldSize \in Nat
  /\ MaxThreads \in Nat \ {0} /\ MaxSeeks \in Nat /\ MaxFailures \in Nat
  /\ \A s \in SUBSET (0..Blocks) : NoFile # s

VARIABLES
  requested,   \* StreamDataMap.requested
  downloaded,  \* StreamDataMap.downloaded
  requests,    \* Preload requests the servicing thread has not received
  head,        \* the decoder's place in the file
  reader,      \* "idle", "waiting": in wait_for(); "dead": the process died
  thread,      \* per thread: where it is, its range, and the blocks left of it
  cached,      \* blocks of the file in the audio cache, or NoFile
  old,         \* is the older file cached?
  seeks, failures

vars == <<requested, downloaded, requests, head, reader, thread, cached, old,
          seeks, failures>>

All == 0..(Blocks - 1)
Service == 0
Threads == 0..MaxThreads
Downloads == 1..MaxThreads

\* "serve": in the servicing loop; "load": in load_range(); "mark": between the
\* two locks of mark_as_downloaded(); "check": about to look whether the file is
\* complete and not cached; "truncate", "copy": in fs::copy(); "enforce": about to
\* enforce the limit; "done": ended, or not started; "failed": finish_and_cache()
\* has returned an error.
Places ==
  {"serve", "load", "mark", "check", "truncate", "copy", "enforce", "done", "failed"}

\* Ranges may reach beyond the end of the file.
Ranges == 0..(Blocks + Prefetch)

TypeOK ==
  /\ requested \subseteq Ranges /\ downloaded \subseteq All
  /\ requests \in Seq(SUBSET Ranges)
  /\ head \in 0..Blocks /\ reader \in {"idle", "waiting", "dead"}
  /\ thread \in [Threads -> [at : Places, range : SUBSET Ranges, left : SUBSET All]]
  /\ cached = NoFile \/ cached \subseteq All
  /\ old \in BOOLEAN
  /\ seeks \in 0..MaxSeeks /\ failures \in 0..MaxFailures

\* MediaFile::open() of a file that is not cached: the first request is part of it.
Init ==
  /\ requested = 0..(Initial - 1) /\ downloaded = 0..(Initial - 1)
  /\ requests = <<>> /\ head = 0 /\ reader = "idle"
  /\ thread = [t \in Threads |-> [at |-> IF t = Service THEN "serve" ELSE "done",
                                  range |-> {}, left |-> {}]]
  /\ cached = NoFile /\ old = TRUE
  /\ seeks = 0 /\ failures = 0

\* RangeSet::gaps(): the runs of consecutive blocks of a set.
Run(b, missing) ==
  {c \in missing : b..c \subseteq missing /\ c..b \subseteq missing}
Runs(missing) == {Run(b, missing) : b \in missing}
InOrder(runs) == SetToSortSeq(runs, LAMBDA a, b : Min(a) < Min(b))
-----------------------------------------------------------------------------
(***************************************************************************)
(* The reader: StreamReader::read(), in the decoding worker.               *)
(***************************************************************************)
NotYetRequested(from, length) == Runs((from..(from + length - 1)) \ requested)

Rounded(run) == Min(run)..(Min(run) + Max({Cardinality(run), MinRequest}) - 1)

BeginRead ==
  /\ reader = "idle" /\ head < Blocks
  /\ LET missing == NotYetRequested(head, Min({Prefetch, Blocks - head}))
         new == {Rounded(run) : run \in missing}
     IN /\ requested' = requested \cup UNION new
        /\ requests' = requests \o InOrder(new)
  /\ reader' = "waiting"
  /\ UNCHANGED <<downloaded, head, thread, cached, old, seeks, failures>>

\* wait_for() returns once the block is there; a buffer takes one block.
EndRead ==
  /\ reader = "waiting" /\ head \in downloaded
  /\ reader' = "idle" /\ head' = head + 1
  /\ UNCHANGED <<requested, downloaded, requests, thread, cached, old,
                 seeks, failures>>

Seek(b) ==
  /\ reader = "idle" /\ seeks < MaxSeeks /\ b # head
  /\ head' = b /\ seeks' = seeks + 1
  /\ UNCHANGED <<requested, downloaded, requests, reader, thread, cached, old,
                 failures>>
-----------------------------------------------------------------------------
(***************************************************************************)
(* The servicing thread.                                                   *)
(***************************************************************************)
Move(t, place) == thread' = [thread EXCEPT ![t].at = place]

\* Mutant of Serve: a range that reaches beyond the end is loaded as it is.
ServePastTheEnd ==
  /\ thread[Service].at = "serve" /\ requests # <<>>
  /\ requests' = Tail(requests)
  /\ \E t \in Downloads :
       /\ thread[t].at = "done"
       /\ \A u \in Downloads : u < t => thread[u].at # "done"
       /\ thread' = [thread EXCEPT ![t] =
            [at |-> "load", range |-> Head(requests), left |-> Head(requests)]]
  /\ UNCHANGED <<requested, downloaded, head, reader, cached, old, seeks,
                 failures>>

\* A request spawns a download; a URL that cannot be resolved is only logged.
Serve ==
  /\ thread[Service].at = "serve" /\ requests # <<>>
  /\ requests' = Tail(requests)
  /\ \/ \E t \in Downloads :
          /\ thread[t].at = "done"
          /\ \A u \in Downloads : u < t => thread[u].at # "done"
          /\ thread' = [thread EXCEPT ![t] =
               [at |-> "load", range |-> Head(requests),
                left |-> Head(requests) \cap All]]
          /\ UNCHANGED failures
     \/ /\ failures < MaxFailures /\ failures' = failures + 1
        /\ UNCHANGED thread
  /\ UNCHANGED <<requested, downloaded, head, reader, cached, old, seeks>>

\* Mutants of Idle: the thread ends without finish_and_cache(); it fetches what was
\* not requested, not what was not downloaded.
IdleEnds ==
  /\ thread[Service].at = "serve" /\ requests = <<>>
  /\ Move(Service, "done")
  /\ UNCHANGED <<requested, downloaded, requests, head, reader, cached, old,
                 seeks, failures>>

IdleUnrequested ==
  /\ thread[Service].at = "serve" /\ requests = <<>>
  /\ LET gaps == All \ requested
     IN thread' = [thread EXCEPT ![Service] =
          [at |-> "load", range |-> gaps, left |-> gaps]]
  /\ UNCHANGED <<requested, downloaded, requests, head, reader, cached, old,
                 seeks, failures>>

\* After 500 ms without a request finish_and_cache() lists the gaps and fetches
\* them one after the other.
Idle ==
  /\ thread[Service].at = "serve" /\ requests = <<>>
  /\ LET gaps == All \ downloaded
     IN thread' = [thread EXCEPT ![Service] =
          [at |-> "load", range |-> gaps, left |-> gaps]]
  /\ UNCHANGED <<requested, downloaded, requests, head, reader, cached, old,
                 seeks, failures>>

\* finish_and_cache() returns at the first range, or URL, that fails.
FinishFailed ==
  /\ thread[Service].at = "load" /\ thread[Service].left # {}
  /\ Move(Service, "failed")
  /\ UNCHANGED <<requested, downloaded, requests, head, reader, cached, old,
                 seeks, failures>>
-----------------------------------------------------------------------------
(***************************************************************************)
(* Loading ranges, in any thread.                                          *)
(***************************************************************************)
\* io::copy() into StreamWriter::write(): what is written is marked as downloaded,
\* which a reader may see at once,
LoadBlock(t) ==
  /\ thread[t].at = "load" /\ thread[t].left # {}
  /\ downloaded' = downloaded \cup {Min(thread[t].left)}
  /\ Move(t, "mark")
  /\ UNCHANGED <<requested, requests, head, reader, cached, old, seeks, failures>>

\* Mutant of MarkRequested: requested is not kept in sync.
MarkNothing(t) ==
  /\ thread[t].at = "mark"
  /\ thread' = [thread EXCEPT ![t].at = "load", ![t].left = @ \ {Min(@)}]
  /\ UNCHANGED <<requested, downloaded, requests, head, reader, cached, old, seeks,
                 failures>>

\* and, under the second lock, as requested.
MarkRequested(t) ==
  /\ thread[t].at = "mark"
  /\ requested' = requested \cup {Min(thread[t].left)}
  /\ thread' = [thread EXCEPT ![t].at = "load", ![t].left = @ \ {Min(@)}]
  /\ UNCHANGED <<downloaded, requests, head, reader, cached, old, seeks, failures>>

Loaded(t) ==
  /\ thread[t].at = "load" /\ thread[t].left = {}
  /\ Move(t, "check")
  /\ UNCHANGED <<requested, downloaded, requests, head, reader, cached, old,
                 seeks, failures>>

\* A range that failed to download is removed from the requested set.
LoadFailed(t) ==
  /\ t # Service /\ thread[t].at = "load" /\ failures < MaxFailures
  /\ failures' = failures + 1
  /\ requested' = requested \ thread[t].range
  /\ Move(t, "done")
  /\ UNCHANGED <<downloaded, requests, head, reader, cached, old, seeks>>
-----------------------------------------------------------------------------
(***************************************************************************)
(* The audio cache.                                                        *)
(***************************************************************************)
CheckComplete(t) ==
  /\ thread[t].at = "check"
  /\ Move(t, IF downloaded = All /\ cached = NoFile THEN "truncate" ELSE "done")
  /\ UNCHANGED <<requested, downloaded, requests, head, reader, cached, old,
                 seeks, failures>>

\* fs::copy() creates or truncates the destination,
TruncateCached(t) ==
  /\ thread[t].at = "truncate"
  /\ cached' = {}
  /\ thread' = [thread EXCEPT ![t].at = "copy", ![t].left = All]
  /\ UNCHANGED <<requested, downloaded, requests, head, reader, old,
                 seeks, failures>>

\* Mutant of CopyBlock: the last block is not copied.
CopyButLast(t) ==
  /\ thread[t].at = "copy"
  /\ LET b == Min(thread[t].left)
     IN /\ cached' = IF b = Blocks - 1 THEN cached ELSE cached \cup {b}
        /\ thread' = [thread EXCEPT
             ![t].left = @ \ {b},
             ![t].at = IF b < Blocks - 1 THEN "copy"
                       ELSE IF t = Service THEN "enforce" ELSE "done"]
  /\ UNCHANGED <<requested, downloaded, requests, head, reader, old,
                 seeks, failures>>

\* and then writes it from the start.
CopyBlock(t) ==
  /\ thread[t].at = "copy"
  /\ LET b == Min(thread[t].left)
     IN /\ cached' = cached \cup {b}
        /\ thread' = [thread EXCEPT
             ![t].left = @ \ {b},
             ![t].at = IF b < Blocks - 1 THEN "copy"
                       ELSE IF t = Service THEN "enforce" ELSE "done"]
  /\ UNCHANGED <<requested, downloaded, requests, head, reader, old,
                 seeks, failures>>

\* The length of the file, which enforce_audio_limit() adds up: the older file is
\* removed first, then this one.
CachedSize == IF cached = NoFile \/ cached = {} THEN 0 ELSE Max(cached) + 1
TotalCached == (IF old THEN OldSize ELSE 0) + CachedSize

\* A thread that still copies this one goes on with a file nobody can open.
Enforce ==
  /\ thread[Service].at = "enforce"
  /\ old' = (old /\ TotalCached <= Limit)
  /\ cached' = IF CachedSize > Limit THEN NoFile ELSE cached
  /\ thread' = [t \in Threads |->
       IF t = Service \/ (thread[t].at = "copy" /\ CachedSize > Limit)
         THEN [thread[t] EXCEPT !.at = "done"] ELSE thread[t]]
  /\ UNCHANGED <<requested, downloaded, requests, head, reader, seeks,
                 failures>>

\* The process dies; only the cache stays.
Crash ==
  /\ reader # "dead"
  /\ reader' = "dead"
  /\ requested' = {} /\ downloaded' = {} /\ requests' = <<>>
  /\ thread' = [t \in Threads |-> [at |-> "done", range |-> {}, left |-> {}]]
  /\ UNCHANGED <<head, cached, old, seeks, failures>>
-----------------------------------------------------------------------------
ThreadStep(t) ==
  \/ LoadBlock(t) \/ MarkRequested(t) \/ Loaded(t) \/ CheckComplete(t)
  \/ TruncateCached(t) \/ CopyBlock(t)

ServiceStep == Serve \/ Idle \/ Enforce

Next ==
  \/ BeginRead \/ EndRead \/ \E b \in 0..Blocks : Seek(b)
  \/ ServiceStep \/ FinishFailed
  \/ \E t \in Threads : ThreadStep(t) \/ LoadFailed(t)
  \/ Crash

Spec == Init /\ [][Next]_vars

\* Threads run on, transfers end, and the servicing loop times out in the end
\* when no request comes; the decoder that has what it waits for goes on.
FairSpec ==
  /\ Spec
  /\ WF_vars(EndRead) /\ WF_vars(ServiceStep)
  /\ \A t \in Threads : WF_vars(ThreadStep(t) \/ LoadFailed(t))
-----------------------------------------------------------------------------
\* finish_and_cache() gives up at its first error, and nobody retries.
GaveUp == thread[Service].at = "failed"

\* A decoder blocked in wait_for() is always about to be served, also when the
\* download it waits for has failed or never started: some thread still has the
\* block before it, or the servicing thread has not listed the gaps yet.
BlockedIsServed ==
  (reader = "waiting" /\ head \notin downloaded /\ ~GaveUp) =>
    \/ thread[Service].at = "serve"
    \/ \E t \in Threads : thread[t].at \in {"load", "mark"} /\ head \in thread[t].left

\* It wakes up in the end.
BlockedWakes == reader = "waiting" ~> (reader # "waiting" \/ GaveUp)

\* What is downloaded stays marked as requested, but for the moment between the two
\* locks, so that it is not downloaded twice, as long as no download of a range fails.
Marking == {Min(thread[t].left) : t \in {u \in Threads : thread[u].at = "mark"}}
DownloadedIsRequested == downloaded \subseteq requested \cup Marking
CleanDownloadsAreRequested == failures = 0 => DownloadedIsRequested

\* The cached copy, which several threads may write at once, ends up whole, within
\* the limit or not at all.
CopyEndsWhole ==
  <>[](\/ cached = All \/ (cached = NoFile /\ Blocks > Limit)
       \/ GaveUp \/ reader = "dead")
-----------------------------------------------------------------------------
\* file.rs:317: "No more requests are coming" once the servicing loop was idle.
NoMoreRequests == thread[Service].at # "serve" => requests = <<>>

\* storage.rs:69: a file that exists in the cache is taken for "complete" by
\* MediaFile::open(), also while it is copied, or after a crash in the copy.
OpenedIsComplete == cached # NoFile => cached = All

\* cache.rs:139: the cache "stays under `limit_bytes`": once every thread has ended,
\* in any case.
LimitHolds ==
  (\A t \in Threads : thread[t].at \in {"done", "failed"}) => TotalCached <= Limit
=============================================================================
