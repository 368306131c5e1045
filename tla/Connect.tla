------------------------------- MODULE Connect -------------------------------
(***************************************************************************)
(* SessionConnection::open (session/mod.rs) and what it calls              *)
(* (connection/mod.rs): the list of access points, the connection to the   *)
(* first that accepts, the exchange of keys and the login; then the Shannon *)
(* codec of the session, whose encoder and decoder run in threads of their *)
(* own on clones of the stream.                                            *)
(*                                                                         *)
(* The secret of a Diffie-Hellman exchange is the set of the two public    *)
(* keys; a key of the codec is the tuple it is derived from; a message's   *)
(* checksum holds when key and nonce are those it was encrypted with.      *)
(***************************************************************************)
EXTENDS Naturals, Sequences, FiniteSets

CONSTANTS
  Aps,          \* names of access points the resolver may return
  Fallback,     \* AP_FALLBACK
  Proxies,      \* the proxies the configuration may name: of {"none", "socks", "bad"}
  MayBeSilent,  \* may an access point or a proxy accept and never answer?
  MaxMessages,  \* bound: messages each side encodes
  MaxFaults     \* bound: packets the network damages

VARIABLES
  opener,   \* open(): where it is, the access points left, the proxy
  stream,   \* packets on their way, to the access point (up) and from it (down)
  ours,     \* this side's packets of the handshake, its codec and what it decoded
  ap,       \* the same of the access point, and whether it still speaks
  faults    \* packets damaged so far

vars == <<opener, stream, ours, ap, faults>>

Ended == {"open", "error", "panicked"}
NoKeys == [send |-> <<>>, recv |-> <<>>]
NoStream == [up |-> <<>>, down |-> <<>>]
Codec == [keys |-> NoKeys, sent |-> 0, nonce |-> 0, got |-> 0, mac |-> "good"]

\* The packets of the handshake; a packet is whole until the network damages it.
Hello(key) == [kind |-> "hello", prefix |-> <<0, 4>>, key |-> key]
Answer(kind, key) == [kind |-> kind, key |-> key, whole |-> TRUE]

Init ==
  /\ \E proxy \in Proxies : opener = [at |-> "resolve", left |-> <<>>, proxy |-> proxy]
  /\ stream = NoStream
  /\ ours = Codec
  /\ ap = [codec |-> Codec, at |-> "none"]
  /\ faults = 0

Opens(place) == opener' = [opener EXCEPT !.at = place]
-----------------------------------------------------------------------------
(***************************************************************************)
(* open() up to a stream.                                                  *)
(***************************************************************************)
\* The lists a resolver answers with; an empty one is an error.
Lists == {list \in UNION {[1..n -> Aps] : n \in 1..Cardinality(Aps)} :
            \A i, j \in DOMAIN list : list[i] = list[j] => i = j}

ResolveApWithFallback ==
  /\ opener.at = "resolve"
  /\ \E list \in Lists \cup {<<Fallback>>} :
       opener' = [opener EXCEPT !.at = "dial", !.left = list]
  /\ UNCHANGED <<stream, ours, ap, faults>>

\* Mutant of Unreachable: the access points are tried again, and again.
UnreachableRetried ==
  /\ opener.at = "dial" /\ opener.left # <<>>
  /\ opener' = [opener EXCEPT !.left = Append(Tail(@), Head(@))]
  /\ UNCHANGED <<stream, ours, ap, faults>>

\* An access point that cannot be reached is skipped; so is every one when the
\* proxy's URL is bad.
Unreachable ==
  /\ opener.at = "dial" /\ opener.left # <<>>
  /\ opener' = [opener EXCEPT !.left = Tail(@)]
  /\ UNCHANGED <<stream, ours, ap, faults>>

\* The first that accepts is kept: its failure later on is the failure of open().
Reached ==
  /\ opener.at = "dial" /\ opener.left # <<>> /\ opener.proxy # "bad"
  /\ Opens("hello")
  /\ ap' = [codec |-> Codec, at |-> "accepted"]
  /\ UNCHANGED <<stream, ours, faults>>

\* Connecting directly has a timeout, connecting through a proxy has none.
ProxyIsSilent ==
  /\ MayBeSilent /\ opener.at = "dial" /\ opener.left # <<>>
  /\ opener.proxy = "socks"
  /\ Opens("stuck")
  /\ UNCHANGED <<stream, ours, ap, faults>>

NoneReached ==
  /\ opener.at = "dial" /\ opener.left = <<>>
  /\ Opens("error")
  /\ UNCHANGED <<stream, ours, ap, faults>>
-----------------------------------------------------------------------------
(***************************************************************************)
(* exchange_keys().                                                        *)
(***************************************************************************)
Secret(a, b) == {a, b}

\* compute_keys(): what is sent with, and what is received with.
ComputeKeys(secret, hello, answer) ==
  [send |-> <<secret, hello, answer, "20..52">>, recv |-> <<secret, hello, answer, "52..84">>]

SendHello ==
  /\ opener.at = "hello"
  /\ \/ /\ stream' = [stream EXCEPT !.up = Append(@, Hello("gc"))]
        /\ Opens("answer")
     \/ ap.at = "closed" /\ Opens("error") /\ UNCHANGED stream
  /\ UNCHANGED <<ours, ap, faults>>

\* The packet may be shorter than its own length field, not parse, or lack the
\* challenge.
ReadAnswer ==
  /\ opener.at = "answer"
  /\ \/ /\ stream.down # <<>>
        /\ LET packet == Head(stream.down)
           IN \/ /\ packet.kind = "answer"
                 /\ ours' = [ours EXCEPT !.keys =
                      ComputeKeys(Secret("gc", packet.key), Hello("gc"), packet)]
                 /\ Opens("respond")
              \/ /\ ~packet.whole
                 /\ Opens("error") /\ UNCHANGED ours
              \/ /\ ~packet.whole \/ packet.kind = "refusal"
                 /\ Opens("panicked") /\ UNCHANGED ours
        /\ stream' = [stream EXCEPT !.down = Tail(@)]
     \/ ap.at = "closed" /\ stream.down = <<>> /\ Opens("error") /\ UNCHANGED <<stream, ours>>
  /\ UNCHANGED <<ap, faults>>

\* The challenge's digest proves the keys.
Respond ==
  /\ opener.at = "respond"
  /\ \/ /\ stream' = [stream EXCEPT !.up = Append(@, [kind |-> "response", of |-> ours.keys])]
        /\ Opens("login")
     \/ ap.at = "closed" /\ Opens("error") /\ UNCHANGED stream
  /\ UNCHANGED <<ours, ap, faults>>
-----------------------------------------------------------------------------
(***************************************************************************)
(* The codec: each message has the next nonce.                             *)
(***************************************************************************)
\* Mutant of Encoded: the nonce is not rotated.
EncodedAlike(codec, cmd) ==
  [frame |-> [cmd |-> cmd, key |-> codec.keys.send, nonce |-> 0, whole |-> TRUE],
   codec |-> [codec EXCEPT !.sent = @ + 1]]

Encoded(codec, cmd) ==
  [frame |-> [cmd |-> cmd, key |-> codec.keys.send, nonce |-> codec.sent, whole |-> TRUE],
   codec |-> [codec EXCEPT !.sent = @ + 1]]

\* The codec that has read the frame; a bad checksum is an error of decode().
Decoded(codec, frame) ==
  IF frame.whole /\ frame.key = codec.keys.recv /\ frame.nonce = codec.nonce
    THEN [codec EXCEPT !.nonce = @ + 1, !.got = @ + 1]
    ELSE [codec EXCEPT !.nonce = @ + 1, !.mac = "bad"]

\* authenticate(): the login, and then its answer, through the codec.
SendLogin ==
  /\ opener.at = "login"
  /\ \/ LET sent == Encoded(ours, "LOGIN")
        IN /\ ours' = sent.codec
           /\ stream' = [stream EXCEPT !.up = Append(@, sent.frame)]
           /\ Opens("welcome")
     \/ ap.at = "closed" /\ Opens("error") /\ UNCHANGED <<stream, ours>>
  /\ UNCHANGED <<ap, faults>>

\* Any other message than a welcome or a refusal is taken to be impossible.
ReadWelcome ==
  /\ opener.at = "welcome"
  /\ \/ /\ stream.down # <<>>
        /\ ours' = Decoded(ours, Head(stream.down))
        /\ stream' = [stream EXCEPT !.down = Tail(@)]
        /\ Opens(IF ours'.mac = "bad" THEN "error"
                 ELSE CASE Head(stream.down).cmd = "AP_WELCOME" -> "open"
                        [] Head(stream.down).cmd = "AUTH_FAILURE" -> "error"
                        [] OTHER -> "panicked")
     \/ ap.at = "closed" /\ stream.down = <<>> /\ Opens("error") /\ UNCHANGED <<stream, ours>>
  /\ UNCHANGED <<ap, faults>>

\* The threads of the session.
Encode ==
  /\ opener.at = "open" /\ ours.sent < MaxMessages
  /\ LET sent == Encoded(ours, "MERCURY_REQ")
     IN /\ ours' = sent.codec
        /\ stream' = [stream EXCEPT !.up = Append(@, sent.frame)]
  /\ UNCHANGED <<opener, ap, faults>>

\* decode() returns with an error after which nothing more is decoded.
Decode ==
  /\ opener.at = "open" /\ ours.mac = "good" /\ stream.down # <<>>
  /\ ours' = Decoded(ours, Head(stream.down))
  /\ stream' = [stream EXCEPT !.down = Tail(@)]
  /\ UNCHANGED <<opener, ap, faults>>
-----------------------------------------------------------------------------
(***************************************************************************)
(* The access point, and the network.                                      *)
(***************************************************************************)
\* It answers a hello with its own key, or refuses, and checks the response.
ApAnswers ==
  /\ ap.at = "accepted" /\ stream.up # <<>>
  /\ \/ LET answer == Answer("answer", "gs")
            keys == ComputeKeys(Secret(Head(stream.up).key, "gs"), Head(stream.up), answer)
        IN /\ ap' = [ap EXCEPT !.at = "challenged", !.codec.keys =
                       [send |-> <<keys.send[1], keys.send[2], keys.send[3], "52..84">>,
                        recv |-> <<keys.send[1], keys.send[2], keys.send[3], "20..52">>]]
           /\ stream' = [up |-> Tail(stream.up), down |-> Append(stream.down, answer)]
     \/ /\ ap' = [ap EXCEPT !.at = "closed"]
        /\ stream' = [up |-> Tail(stream.up),
                      down |-> Append(stream.down, Answer("refusal", "none"))]
  /\ UNCHANGED <<opener, ours, faults>>

\* A response with other keys is refused.
ApChecks ==
  /\ ap.at = "challenged" /\ stream.up # <<>>
  /\ LET of == Head(stream.up).of
         same == {of.send, of.recv} = {ap.codec.keys.send, ap.codec.keys.recv}
     IN ap' = [ap EXCEPT !.at = IF same THEN "secured" ELSE "closed"]
  /\ stream' = [stream EXCEPT !.up = Tail(@)]
  /\ UNCHANGED <<opener, ours, faults>>

ApDecodes ==
  /\ ap.at = "secured" /\ stream.up # <<>>
  /\ LET read == Decoded(ap.codec, Head(stream.up))
     IN ap' = [codec |-> read, at |-> IF read.mac = "bad" THEN "closed" ELSE ap.at]
  /\ stream' = [stream EXCEPT !.up = Tail(@)]
  /\ UNCHANGED <<opener, ours, faults>>

\* The answer to a login comes first; "PING" stands for every other message.
ApEncodes ==
  /\ ap.at = "secured" /\ ap.codec.got > 0 /\ ap.codec.sent < MaxMessages
  /\ \E cmd \in IF ap.codec.sent = 0 THEN {"AP_WELCOME", "AUTH_FAILURE", "PING"} ELSE {"PING"} :
       LET sent == Encoded(ap.codec, cmd)
       IN /\ ap' = [ap EXCEPT !.codec = sent.codec]
          /\ stream' = [stream EXCEPT !.down = Append(@, sent.frame)]
  /\ UNCHANGED <<opener, ours, faults>>

ApCloses ==
  /\ ap.at \notin {"none", "closed"}
  /\ ap' = [ap EXCEPT !.at = "closed"]
  /\ UNCHANGED <<opener, stream, ours, faults>>

ApFallsSilent ==
  /\ MayBeSilent /\ ap.at \notin {"none", "closed", "silent"}
  /\ ap' = [ap EXCEPT !.at = "silent"]
  /\ UNCHANGED <<opener, stream, ours, faults>>

Damage ==
  /\ faults < MaxFaults /\ stream.down # <<>>
  /\ stream' = [stream EXCEPT !.down[Len(stream.down)].whole = FALSE]
  /\ faults' = faults + 1
  /\ UNCHANGED <<opener, ours, ap>>
-----------------------------------------------------------------------------
OpenStep ==
  \/ ResolveApWithFallback \/ Unreachable \/ Reached \/ NoneReached
  \/ SendHello \/ ReadAnswer \/ Respond \/ SendLogin \/ ReadWelcome

ApStep == ApAnswers \/ ApChecks \/ ApDecodes \/ ApEncodes

Next ==
  \/ OpenStep \/ ProxyIsSilent \/ Encode \/ Decode
  \/ ApStep \/ ApCloses \/ ApFallsSilent \/ Damage

Spec == Init /\ [][Next]_vars

\* A thread goes on, and an access point that is not silent answers.
FairSpec == Spec /\ WF_vars(OpenStep) /\ WF_vars(ApStep)
-----------------------------------------------------------------------------
(***************************************************************************)
(* Properties.                                                             *)
(***************************************************************************)
\* A checksum fails only on what the network damaged: the two sides derive the same
\* keys from the handshake and count the messages of each direction alike, however
\* the encoder's and the decoder's threads interleave.
InStep == ours.mac = "bad" \/ ap.codec.mac = "bad" => faults > 0

\* open() ends, with a session, an error or a panic, however far the handshake comes,
\* unless the proxy or the access point falls silent.
OpenEnds == <>(opener.at \in Ended \cup {"stuck"} \/ ap.at = "silent")

\* session/mod.rs:96-98 says so of silent ones too: SessionConnection::open "has an
\* internal timeout, and should give up in a timely manner".
GivesUp == <>(opener.at \in Ended)
==============================================================================
