------------------------------ MODULE ItemLoad ------------------------------
(***************************************************************************)
(* PlaybackItem::load (player/item.rs), as the player's loading threads run *)
(* it side by side: the media path of a track, of an alternative to a      *)
(* restricted track or of an episode (metadata.rs), the key of its file,   *)
(* and the file itself, from the disk or by a URL of the CDN (cdn.rs,      *)
(* player/file.rs); with the caches of all of these (cache.rs), which are  *)
(* written in place and outlive the program.                               *)
(*                                                                         *)
(* Time passes in half days and counts in milliseconds where cdn.rs does.  *)
(***************************************************************************)
EXTENDS Integers, Sequences

CONSTANTS
  Loaders,      \* the threads that load, one for each load of a run of the program
  Items,        \* tracks and episodes
  Metadata,     \* of each: [files, rule, countries, alternatives, episode]
  Home,         \* the user's country
  Bitrates,     \* of {96, 160, 320}: the settings of the audio quality
  MaxAttempts,  \* MAX_ATTEMPTS
  MaxCrashes,   \* bound: restarts
  MaxTime       \* bound: half days that pass

VARIABLES
  loader,   \* each thread's load: where it is, what it asked for and found
  disk,     \* the caches: what is there, and whether it is whole or torn
  crashes,  \* restarts so far
  now       \* half days since the start

vars == <<loader, disk, crashes, now>>

\* The other versions of a track are tracks.
ItemLoadAssumption ==
  \A i \in Items : \A n \in DOMAIN Metadata[i].alternatives :
    Metadata[i].alternatives[n] \in Items

None == "none"
Files == UNION {{<<i, b>> : b \in Metadata[i].files} : i \in Items}
NoFile == <<>>

\* A torn key has not a key's length, and is as good as none.
KeyOf(file) == [whole |-> TRUE, of |-> file]
NoKey == [whole |-> FALSE, of |-> NoFile]

Idle == [at |-> "idle", rate |-> 0, asked |-> None, item |-> None, country |-> None, file |-> NoFile,
         key |-> NoKey, attempts |-> 0, resolved |-> 0, expires |-> 0]

Ended == {"loaded", "failed", "panicked"}

Init ==
  /\ loader = [l \in Loaders |-> Idle]
  /\ disk = [track |-> [i \in Items |-> None], country |-> None,
             key |-> [p \in Items \X Files |-> NoKey], audio |-> {}]
  /\ crashes = 0 /\ now = 0

Goes(l, place) == loader' = [loader EXCEPT ![l].at = place]
Ends(l, place) == loader' = [loader EXCEPT ![l] = [Idle EXCEPT !.at = place]]
-----------------------------------------------------------------------------
(***************************************************************************)
(* metadata.rs.                                                            *)
(***************************************************************************)
\* A list of allowed or of forbidden countries; a torn code is in no list.
Restricted(item, country) ==
  \/ Metadata[item].rule = "allowed" /\ country \notin Metadata[item].countries
  \/ Metadata[item].rule = "forbidden" /\ country \in Metadata[item].countries

\* supported_audio_formats_for_bitrate()
Preferred(rate) ==
  CASE rate = 96 -> <<96, 160, 320>>
    [] rate = 160 -> <<160, 320, 96>>
    [] rate = 320 -> <<320, 160, 96>>

\* The first of a list that is in a set, if there is one.
FirstOf(list, set) ==
  {list[n] : n \in {k \in DOMAIN list : list[k] \in set /\ \A j \in 1..(k - 1) : list[j] \notin set}}

\* select_preferred_file(): the first format that is there.
MediaPath(item, rate) == {item} \X FirstOf(Preferred(rate), Metadata[item].files)

Allowed(item, country) ==
  FirstOf(Metadata[item].alternatives, {i \in Items : ~Restricted(i, country)})
-----------------------------------------------------------------------------
(***************************************************************************)
(* The media path.                                                         *)
(***************************************************************************)
Load(l) ==
  /\ loader[l].at = "idle"
  /\ \E item \in Items, rate \in Bitrates :
       loader' = [loader EXCEPT ![l] =
                    [Idle EXCEPT !.at = "track", !.rate = rate, !.asked = item, !.item = item]]
  /\ UNCHANGED <<disk, crashes, now>>

\* load_track(), load_episode(): an empty copy parses, as an item with no file; the
\* answer of the server may fail to come.
GetTrack(l) ==
  /\ loader[l].at = "track"
  /\ LET copy == disk.track[loader[l].item]
     IN \/ copy = "whole" /\ Goes(l, "country")
        \/ copy = "torn" /\ Ends(l, "failed")
        \/ copy # "whole" /\ Ends(l, "failed")
        \/ copy # "whole" /\ Goes(l, "save track")
  /\ UNCHANGED <<disk, crashes, now>>

\* fs::write() empties the file first; the disk may be full, which is only logged.
SaveTrack(l) ==
  /\ loader[l].at \in {"save track", "write track"}
  /\ \/ /\ loader[l].at = "save track"
        /\ disk' = [disk EXCEPT !.track[loader[l].item] = "torn"]
        /\ Goes(l, "write track")
     \/ /\ loader[l].at = "write track"
        /\ disk' = [disk EXCEPT !.track[loader[l].item] = "whole"]
        /\ Goes(l, "country")
     \/ Goes(l, "country") /\ UNCHANGED disk
  /\ UNCHANGED <<crashes, now>>

\* get_country_code(): without one, nothing counts as restricted.  A torn code is one.
GetCountry(l) ==
  /\ loader[l].at = "country"
  /\ \/ /\ disk.country # None
        /\ loader' = [loader EXCEPT ![l].at = "path", ![l].country =
                        IF disk.country = "whole" THEN Home ELSE "torn"]
     \/ disk.country = None /\ Goes(l, "path")
     \/ /\ disk.country = None
        /\ loader' = [loader EXCEPT ![l].at = "save country", ![l].country = Home]
  /\ UNCHANGED <<disk, crashes, now>>

SaveCountry(l) ==
  /\ loader[l].at \in {"save country", "write country"}
  /\ \/ /\ loader[l].at = "save country"
        /\ disk' = [disk EXCEPT !.country = "torn"] /\ Goes(l, "write country")
     \/ /\ loader[l].at = "write country"
        /\ disk' = [disk EXCEPT !.country = "whole"] /\ Goes(l, "path")
     \/ Goes(l, "path") /\ UNCHANGED disk
  /\ UNCHANGED <<crashes, now>>

\* A restricted episode is not found; of a restricted track the first alternative that is
\* allowed is loaded in its place, and goes by its id.
FindPath(l) ==
  /\ loader[l].at = "path"
  /\ LET me == loader[l]
         restricted == me.country # None /\ me.item = me.asked
                         /\ Restricted(me.item, me.country)
         allowed == Allowed(me.item, me.country)
         path == MediaPath(me.item, me.rate)
     IN \/ ~restricted /\ path = {} /\ Ends(l, "failed")
        \/ /\ ~restricted
           /\ \E file \in path : loader' = [loader EXCEPT ![l].at = "key", ![l].file = file]
        \/ restricted /\ (Metadata[me.item].episode \/ allowed = {}) /\ Ends(l, "failed")
        \/ /\ restricted /\ ~Metadata[me.item].episode
           /\ \E other \in allowed :
                loader' = [loader EXCEPT ![l].at = "track", ![l].item = other]
  /\ UNCHANGED <<disk, crashes, now>>
-----------------------------------------------------------------------------
(***************************************************************************)
(* The key.                                                                *)
(***************************************************************************)
\* Mutant of KeyPath: the item's part of the name alone.
KeyPathOfItem(item, file) == <<item, CHOOSE f \in Files : TRUE>>
\* audio_key_path(): the id asked for and the file's.
KeyPath(item, file) == <<item, file>>

\* load_audio_key(): for the id asked for, of an alternative's file, too.
GetKey(l) ==
  /\ loader[l].at = "key"
  /\ LET copy == disk.key[KeyPath(loader[l].asked, loader[l].file)]
     IN \/ /\ copy.whole
           /\ loader' = [loader EXCEPT ![l].at = "open", ![l].key = copy]
        \/ ~copy.whole /\ Ends(l, "failed")
        \/ /\ ~copy.whole
           /\ loader' = [loader EXCEPT ![l].at = "save key", ![l].key = KeyOf(loader[l].file)]
  /\ UNCHANGED <<disk, crashes, now>>

SaveKey(l) ==
  /\ loader[l].at \in {"save key", "write key"}
  /\ LET path == KeyPath(loader[l].asked, loader[l].file)
     IN \/ /\ loader[l].at = "save key"
           /\ disk' = [disk EXCEPT !.key[path] = NoKey] /\ Goes(l, "write key")
        \/ /\ loader[l].at = "write key"
           /\ disk' = [disk EXCEPT !.key[path] = loader[l].key] /\ Goes(l, "open")
        \/ Goes(l, "open") /\ UNCHANGED disk
  /\ UNCHANGED <<crashes, now>>
-----------------------------------------------------------------------------
(***************************************************************************)
(* The file.                                                               *)
(***************************************************************************)
\* MediaFile::open(): a cached copy, which is taken to be whole, or the CDN's file, for
\* which an access token is needed.
OpenFile(l) ==
  /\ loader[l].at = "open"
  /\ IF loader[l].file \in disk.audio THEN Goes(l, "loaded")
     ELSE \/ loader' = [loader EXCEPT ![l].at = "resolve", ![l].attempts = 0]
          \/ Ends(l, "failed")
  /\ UNCHANGED <<disk, crashes, now>>

\* URLs that live for a day, and the number in them: the second they expire at.
Life == 2
HalfDay == 43200
Epoch == 1735689600
ExpiresAt(t) == Epoch + (t + Life) * HalfDay

\* parse_expiration(): the number is taken for milliseconds from now on.
ExpiresIn(t) == ExpiresAt(t) \div 1000

\* Mutant of Resolve: the attempts are counted anew after a wait.
ResolveAnew(l) ==
  /\ loader[l].at = "resolve"
  /\ \/ loader' = [loader EXCEPT ![l].at = "fetch", ![l].resolved = now,
                     ![l].expires = now * HalfDay + ExpiresIn(now)]
     \/ /\ loader[l].attempts < MaxAttempts
        /\ \E n \in {0, loader[l].attempts + 1} : loader' = [loader EXCEPT ![l].attempts = n]
  /\ UNCHANGED <<disk, crashes, now>>

\* resolve_audio_file_url(): 429, 408, 504 and the server's errors are tried again, up to
\* MAX_ATTEMPTS times; every other error is final, and an empty list of URLs a panic.
Resolve(l) ==
  /\ loader[l].at = "resolve"
  /\ \/ loader' = [loader EXCEPT ![l].at = "fetch", ![l].resolved = now,
                     ![l].expires = now * HalfDay + ExpiresIn(now)]
     \/ /\ loader[l].attempts < MaxAttempts
        /\ loader' = [loader EXCEPT ![l].attempts = @ + 1]
     \/ \E place \in {"failed", "panicked"} : Ends(l, place)
  /\ UNCHANGED <<disk, crashes, now>>

\* The first range; an answer without Content-Range is a panic.
FetchStart(l) ==
  /\ loader[l].at = "fetch"
  /\ Goes(l, "loaded") \/ \E place \in {"failed", "panicked"} : Ends(l, place)
  /\ UNCHANGED <<disk, crashes, now>>

\* is_expired(): five seconds before the URL's own time.
IsExpired(me) == me.expires - now * HalfDay < 5

\* service_streaming(): a later range, by a fresh URL if the last one has expired; with
\* the last range the file is copied to the cache.
FetchMore(l) ==
  /\ loader[l].at = "loaded" /\ loader[l].file \notin disk.audio
  /\ IF IsExpired(loader[l])
       THEN /\ loader' = [loader EXCEPT ![l].resolved = now,
                            ![l].expires = now * HalfDay + ExpiresIn(now)]
            /\ UNCHANGED disk
       ELSE /\ \/ disk' = [disk EXCEPT !.audio = @ \cup {loader[l].file}]
               \/ UNCHANGED disk
            /\ UNCHANGED loader
  /\ UNCHANGED <<crashes, now>>

\* A crash amid a write leaves the file as it is.
Restart ==
  /\ crashes < MaxCrashes
  /\ loader' = [l \in Loaders |-> Idle]
  /\ crashes' = crashes + 1
  /\ UNCHANGED <<disk, now>>

Tick ==
  /\ now < MaxTime /\ now' = now + 1
  /\ UNCHANGED <<loader, disk, crashes>>
-----------------------------------------------------------------------------
LoadStep(l) ==
  \/ GetTrack(l) \/ SaveTrack(l) \/ GetCountry(l) \/ SaveCountry(l) \/ FindPath(l)
  \/ GetKey(l) \/ SaveKey(l) \/ OpenFile(l) \/ Resolve(l) \/ FetchStart(l)

Next ==
  \/ \E l \in Loaders : Load(l) \/ LoadStep(l) \/ FetchMore(l)
  \/ Restart \/ Tick

Spec == Init /\ [][Next]_vars

\* A thread goes on: every request of a load has a timeout.
FairSpec == Spec /\ \A l \in Loaders : WF_vars(LoadStep(l))
-----------------------------------------------------------------------------
(***************************************************************************)
(* Properties.                                                             *)
(***************************************************************************)
\* What is loaded is decrypted with the key of its own file, through changes of the audio
\* quality, alternatives that go by another track's id, and restarts amid a write.
KeyOpensFile ==
  \A l \in Loaders : loader[l].at = "loaded" => loader[l].key = KeyOf(loader[l].file)

\* Each load ends, whatever the servers answer.
LoadEnds == \A l \in Loaders : loader[l].at = "track" ~> loader[l].at \in Ended \cup {"idle"}

\* Of cdn.rs:194: "Consider URL expired even before the official expiration time."
UrlIsLive ==
  \A l \in Loaders : loader[l].at = "loaded" /\ ~IsExpired(loader[l]) =>
    now < loader[l].resolved + Life
==============================================================================
