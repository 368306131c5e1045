------------------------------ MODULE LocalFiles ------------------------------
(***************************************************************************)
(* Local music files: the reader of the official client's database         *)
(* (webapi/local.rs), which load_local_tracks() runs once, before the      *)
(* window opens; the search for a local track of a playlist's page; and    *)
(* the registry that gives a file its item id (core item_id.rs).           *)
(*                                                                         *)
(* A byte is a number.  A database is a header and chunks, each with the   *)
(* length it announces; chunks end anywhere, within a string, too.         *)
(***************************************************************************)
EXTENDS Naturals, Sequences, SequencesExt

CONSTANTS
  Libraries,   \* sequences of [title, artist, album, path, trailer], bytes each
  ChunkSizes,  \* lengths of a full chunk
  Cuts,        \* bytes that may be missing at the end of the database
  Wanted,      \* tracks of playlists: [title, artist, album], the last two in sets
  MaxFinds     \* bound: tracks searched for

VARIABLES
  database,  \* the library written, and the file: its marks and its chunks
  reader,    \* LocalTracksReader: the rest of its chunk, and of the file
  loading,   \* load_tracks_for_user(): where it is, entries to read and the tracks
  registry   \* LocalItemRegistry.id_to_path: the path of id i at position i

vars == <<database, reader, loading, registry>>

ARRAY_SIGNATURE == 96
STRING_SIGNATURE == 9
TRAILER_END == <<120, 4>>
-----------------------------------------------------------------------------
(***************************************************************************)
(* The database as the official client writes it.                          *)
(***************************************************************************)
UVarint(n) == IF n < 128 THEN <<n>> ELSE <<128 + (n % 128), n \div 128>>
StringBytes(string) == <<STRING_SIGNATURE>> \o UVarint(Len(string)) \o string
TrackBytes(t) ==
  StringBytes(t.title) \o StringBytes(t.artist) \o StringBytes(t.album)
    \o StringBytes(t.path) \o t.trailer \o TRAILER_END
ArrayBytes(library) ==
  <<ARRAY_SIGNATURE>> \o UVarint(Len(library))
    \o (IF library = <<>> THEN <<>> ELSE <<148, 0>>)
    \o FlattenSeq([i \in DOMAIN library |-> TrackBytes(library[i])]) \o <<0, 0>>

\* Chunks of the given size, and a rest; the last cut bytes are missing.
Chunked(bytes, size, cut) ==
  LET count == (Len(bytes) + size - 1) \div size
      End(i) == IF i * size < Len(bytes) THEN i * size ELSE Len(bytes)
      Present(i) == IF End(i) < Len(bytes) - cut THEN End(i) ELSE Len(bytes) - cut
  IN [i \in 1..count |-> [size |-> End(i) - (i - 1) * size,
                          data |-> SubSeq(bytes, (i - 1) * size + 1, Present(i))]]

Init ==
  /\ \E library \in Libraries, size \in ChunkSizes, cut \in Cuts, magic \in BOOLEAN :
       /\ cut < Len(ArrayBytes(library))
       /\ database = [library |-> library, cut |-> cut, magic |-> magic,
                      chunks |-> Chunked(ArrayBytes(library), size, cut)]
  /\ reader = [chunk |-> <<>>, inner |-> <<>>]
  /\ loading = [at |-> "start", left |-> 0, tracks |-> <<>>]
  /\ registry = <<>>
-----------------------------------------------------------------------------
(***************************************************************************)
(* Reading.  Each operator's value is what it read, whether it could, and  *)
(* the reader after it.                                                    *)
(***************************************************************************)
Readers == [chunk : Seq(Nat), inner : Seq([size : Nat, data : Seq(Nat)])]
Done(r, bytes) == [ok |-> TRUE, bytes |-> bytes, reader |-> r]
Failed(r) == [ok |-> FALSE, bytes |-> <<>>, reader |-> r]

\* Mutant of Read: a read ends with the chunk it began in.
ReadInChunk(from, count) ==
  LET ReadBytes[r \in Readers, n \in Nat] ==
        CASE n <= Len(r.chunk) ->
               Done([r EXCEPT !.chunk = SubSeq(@, n + 1, Len(@))], SubSeq(r.chunk, 1, n))
          [] n > Len(r.chunk) /\ r.chunk # <<>> -> Failed(r)
          [] OTHER ->
               IF r.inner = <<>> \/ Len(Head(r.inner).data) < Head(r.inner).size THEN Failed(r)
               ELSE ReadBytes[[chunk |-> Head(r.inner).data, inner |-> Tail(r.inner)], n]
  IN ReadBytes[from, count]

\* read_exact() of a ChunkedReader: what the chunk lacks comes from the next one; a
\* chunk shorter than its length is an error.
Read(from, count) ==
  LET ReadBytes[r \in Readers, n \in Nat] ==
        IF n <= Len(r.chunk)
          THEN Done([r EXCEPT !.chunk = SubSeq(@, n + 1, Len(@))], SubSeq(r.chunk, 1, n))
        ELSE IF r.inner = <<>> \/ Len(Head(r.inner).data) < Head(r.inner).size THEN Failed(r)
        ELSE LET more == ReadBytes[[chunk |-> Head(r.inner).data, inner |-> Tail(r.inner)],
                                   n - Len(r.chunk)]
             IN [more EXCEPT !.bytes = r.chunk \o @]
  IN ReadBytes[from, count]

\* The value, instead of the bytes, of a varint.
ReadUVarint(from) ==
  LET ReadRest[r \in Readers, weight \in Nat] ==
        LET first == Read(r, 1)
            rest == ReadRest[first.reader, weight * 128]
        IN IF ~first.ok THEN Failed(r)
           ELSE IF first.bytes[1] < 128 THEN Done(first.reader, first.bytes[1] * weight)
           ELSE IF rest.ok THEN [rest EXCEPT !.bytes = @ + (first.bytes[1] - 128) * weight]
           ELSE rest
  IN ReadRest[from, 1]

ReadSigned(r, signature) ==
  LET mark == Read(r, 1)
  IN IF mark.ok /\ mark.bytes = <<signature>> THEN ReadUVarint(mark.reader)
     ELSE Failed(mark.reader)

ReadString(r) ==
  LET size == ReadSigned(r, STRING_SIGNATURE)
  IN IF size.ok THEN Read(size.reader, size.bytes) ELSE size

\* Up to and with the mark.
AdvanceUntil(from, mark) ==
  LET Advance[r \in Readers, i \in Nat] ==
        IF i = Len(mark) THEN Done(r, <<>>)
        ELSE LET next == Read(r, 1)
             IN IF ~next.ok THEN next
                ELSE Advance[next.reader,
                             CASE next.bytes[1] = mark[i + 1] -> i + 1
                               [] next.bytes[1] # mark[i + 1] /\ next.bytes[1] = mark[1] -> 1
                               [] OTHER -> 0]
  IN Advance[from, 0]
-----------------------------------------------------------------------------
(***************************************************************************)
(* load_tracks_for_user(), an entry at a time.                             *)
(***************************************************************************)
Fails == loading' = [loading EXCEPT !.at = "failed"] /\ UNCHANGED reader

\* The magic and the type of the file precede its chunks.
ReadHeader ==
  /\ loading.at = "start"
  /\ \/ /\ database.magic
        /\ reader' = [chunk |-> <<>>, inner |-> database.chunks]
        /\ loading' = [loading EXCEPT !.at = "array"]
     \/ ~database.magic /\ Fails
  /\ UNCHANGED <<database, registry>>

\* Two bytes follow the length of an array that is not empty.
ReadArray ==
  /\ loading.at = "array"
  /\ LET size == ReadSigned(reader, ARRAY_SIGNATURE)
         skipped == IF size.bytes > 0 THEN Read(size.reader, 2) ELSE size
     IN IF ~size.ok THEN Fails
        ELSE IF ~skipped.ok THEN Fails
        ELSE /\ reader' = skipped.reader
             /\ loading' = [at |-> "tracks", left |-> size.bytes, tracks |-> <<>>]
  /\ UNCHANGED <<database, registry>>

\* The entry's four strings and its trailer; without the trailer, it is the last.
ReadTrack ==
  /\ loading.at = "tracks" /\ loading.left > 0
  /\ LET title == ReadString(reader)
         artist == ReadString(title.reader)
         album == ReadString(artist.reader)
         path == ReadString(album.reader)
         trailer == AdvanceUntil(path.reader, TRAILER_END)
         track == [title |-> title.bytes, artist |-> artist.bytes,
                   album |-> album.bytes, path |-> path.bytes]
     IN IF ~(title.ok /\ artist.ok /\ album.ok /\ path.ok) THEN Fails
        ELSE /\ reader' = trailer.reader
             /\ loading' = [loading EXCEPT
                  !.left = IF trailer.ok THEN @ - 1 ELSE 0,
                  !.tracks = Append(@, track)]
  /\ UNCHANGED <<database, registry>>

Loaded ==
  /\ loading.at = "tracks" /\ loading.left = 0
  /\ loading' = [loading EXCEPT !.at = "loaded"]
  /\ UNCHANGED <<database, reader, registry>>
-----------------------------------------------------------------------------
(***************************************************************************)
(* find_local_track() and the id of the file it finds.                     *)
(***************************************************************************)
\* An artist or an album of the playlist's track has to be the file's.
Matches(track, wanted) ==
  /\ track.title = wanted.title
  /\ \A artist \in wanted.artist : artist = track.artist
  /\ \A album \in wanted.album : album = track.album

\* get_or_insert() looks a path up in path_to_id, into which nothing is ever put.
GetOrInsert(path) == registry' = Append(registry, path)

\* The first entry that matches and whose file still exists.
FindLocalTrack ==
  /\ loading.at \in {"loaded", "failed"} /\ Len(registry) < MaxFinds
  /\ \E wanted \in Wanted, gone \in SUBSET {t.path : t \in ToSet(loading.tracks)} :
       LET found == SelectSeq(loading.tracks,
                      LAMBDA t : Matches(t, wanted) /\ t.path \notin gone)
       IN found # <<>> /\ GetOrInsert(Head(found).path)
  /\ UNCHANGED <<database, reader, loading>>
-----------------------------------------------------------------------------
Next == ReadHeader \/ ReadArray \/ ReadTrack \/ Loaded \/ FindLocalTrack

Spec == Init /\ [][Next]_vars
-----------------------------------------------------------------------------
(***************************************************************************)
(* Properties.                                                             *)
(***************************************************************************)
Entry(t) == [title |-> t.title, artist |-> t.artist, album |-> t.album, path |-> t.path]

\* The tracks are the entries of the database, in their order: all of them when the
\* file is whole and can be read, however it is cut into chunks and whatever is in the
\* trailers; never an entry that was not written when its end is missing.
ReadsWhatIsWritten ==
  LET written == [i \in DOMAIN database.library |-> Entry(database.library[i])]
  IN /\ IsPrefix(loading.tracks, written)
     /\ database.cut = 0 /\ database.magic =>
          /\ loading.at # "failed"
          /\ loading.at = "loaded" => loading.tracks = written

\* Of item_id.rs:22-23: the lookup of a path "is helpful to avoid registering the same
\* path under multiple IDs".
OnePathOneId ==
  \A i, j \in DOMAIN registry : registry[i] = registry[j] => i = j
==============================================================================
