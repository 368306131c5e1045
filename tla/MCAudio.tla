------------------------------ MODULE MCAudio ------------------------------
(***************************************************************************)
(* The way of a track from the servers to the ring buffer of the output:   *)
(* its item is loaded, its file is streamed and decoded.  TLC picks the    *)
(* part that runs; the others stay as they began.                          *)
(***************************************************************************)
EXTENDS DecodeWorker

CONSTANTS
  Parts,   \* of {"load", "stream", "decode"}
  Loaders, Items, Metadata, Home, Bitrates, MaxAttempts, MaxCrashes, MaxTime,
  Limit, MaxReaderSeeks, MaxFailures, NoCopy

VARIABLES
  part,
  loader, disk, crashes, now,
  requested, downloaded, requests, head, reader, thread, cached, old, reader_seeks, failures

L == INSTANCE ItemLoad

S == INSTANCE StreamedFile WITH
  Blocks <- 4, Initial <- 2, Prefetch <- 2, MinRequest <- 2, OldSize <- 2, MaxThreads <- 2,
  MaxSeeks <- MaxReaderSeeks, seeks <- reader_seeks, NoFile <- NoCopy

\* A track that is forbidden at home, with an alternative that is there in one
\* format only.
TrackAndAlternative ==
  [track |-> [files |-> {160, 320}, rule |-> "forbidden", countries |-> {"home"},
              alternatives |-> <<"alternative">>, episode |-> FALSE],
   alternative |-> [files |-> {160}, rule |-> "allowed", countries |-> {"home"},
                    alternatives |-> <<>>, episode |-> FALSE]]

ASSUME StreamAssumption == S!StreamedFileAssumption
ASSUME LoadAssumption == L!ItemLoadAssumption

loadVars == <<loader, disk, crashes, now>>
streamVars == <<requested, downloaded, requests, head, reader, thread, cached, old,
                reader_seeks, failures>>
allVars == <<part, vars, loadVars, streamVars>>

MCInit == part \in Parts /\ Init /\ L!Init /\ S!Init

MCNext ==
  \/ part = "load" /\ L!Next /\ UNCHANGED <<part, vars, streamVars>>
  \/ part = "stream" /\ S!Next /\ UNCHANGED <<part, vars, loadVars>>
  \/ part = "decode" /\ Next /\ UNCHANGED <<part, loadVars, streamVars>>

MCSpec ==
  /\ MCInit /\ [][MCNext]_allVars
  /\ \A l \in Loaders : WF_loadVars(part = "load" /\ L!LoadStep(l))
  /\ WF_streamVars(part = "stream" /\ S!EndRead)
  /\ WF_streamVars(part = "stream" /\ S!ServiceStep)
  /\ \A t \in 0..2 : WF_streamVars(part = "stream" /\ (S!ThreadStep(t) \/ S!LoadFailed(t)))
  /\ WF_vars(part = "decode" /\ Worker) /\ WF_vars(part = "decode" /\ Callback)
-----------------------------------------------------------------------------
\* What is loaded is decrypted with the key of its own file, through changes of
\* the audio quality, alternatives and restarts amid a write; see ItemLoad.
KeyOpensFile == L!KeyOpensFile

\* The load of an item ends, whatever the servers answer; see ItemLoad.
ItemLoadEnds == L!LoadEnds

\* cdn.rs:194: a URL that is not taken for expired is live; see ItemLoad.
UrlIsLive == L!UrlIsLive

\* A decoder that waits for a part of the file wakes up in the end, unless the
\* servicing thread has given up; see StreamedFile.
BlockedWakes == S!BlockedWakes

\* The cached copy, which several threads may write at once, ends up whole,
\* within the limit or not at all; see StreamedFile.
CopyEndsWhole == part = "stream" => S!CopyEndsWhole

\* The track ends, unless its source is dropped first; see DecodeWorker.
TrackGoesToItsEnd == part = "decode" => TrackEnds
=============================================================================
