------------------------------ MODULE Mercury -------------------------------
(***************************************************************************)
(* Requests and responses of MercuryDispatcher (session/mercury.rs).  The  *)
(* server answers a request with a list of parts, which it may cut into    *)
(* several messages: every message but the last is PARTIAL and its last    *)
(* part is continued by the first part of the next.  Messages of several   *)
(* requests interleave.  A part is a sequence of symbols; the first part   *)
(* is the header.                                                          *)
(***************************************************************************)
EXTENDS Naturals, FiniteSets, Sequences

CONSTANTS
  Symbols,     \* what parts consist of
  MaxParts, MaxLength,  \* bounds: parts of a response, symbols of a part
  MaxMessages, \* bound: messages a response is cut into
  MaxRequests, \* bound: requests made
  SeqSize      \* sequence numbers wrap at this size (2^64)

MercuryAssumption ==
  /\ MaxParts \in Nat \ {0} /\ MaxLength \in Nat /\ MaxMessages \in Nat \ {0}
  /\ MaxRequests \in Nat /\ SeqSize \in Nat \ {0}

VARIABLES
  sequence,   \* the next sequence number
  pending,    \* sequence number -> messages received so far
  server,     \* sequence number -> the response left to send, and messages so far
  responses,  \* number of request -> parts its callback has received
  asked,      \* number of request -> its sequence number
  promised    \* number of request -> the parts the server answers

vars == <<sequence, pending, server, responses, asked, promised>>

PARTIAL == "partial"
FINAL == "final"

Part == UNION {[1..n -> Symbols] : n \in 0..MaxLength}
Response == UNION {[1..n -> Part] : n \in 1..MaxParts}
Message == [flags : {PARTIAL, FINAL}, parts : Seq(Part)]

TypeOK ==
  /\ sequence \in 0..(SeqSize - 1)
  /\ DOMAIN pending \subseteq 0..(SeqSize - 1)
  /\ \A n \in DOMAIN pending : pending[n] \in Seq(Message)
  /\ DOMAIN server \subseteq 0..(SeqSize - 1)
  /\ DOMAIN responses \subseteq 1..MaxRequests
  /\ asked \in Seq(0..(SeqSize - 1)) /\ promised \in Seq(Response)
  /\ Len(asked) = Len(promised) /\ Len(asked) <= MaxRequests

Empty == [n \in {} |-> <<>>]

Init ==
  /\ sequence = 0 /\ pending = Empty /\ server = Empty
  /\ responses = Empty /\ asked = <<>> /\ promised = <<>>

Put(f, n, v) == [m \in DOMAIN f \cup {n} |-> IF m = n THEN v ELSE f[m]]
Removed(f, n) == [m \in DOMAIN f \ {n} |-> f[m]]
-----------------------------------------------------------------------------
(***************************************************************************)
(* Msg::aggregate(): the parts of the messages, where the last part of a   *)
(* PARTIAL message is kept for the first part of what follows.             *)
(***************************************************************************)
\* Mutant of Joined: the part that was kept stays a part of its own.
JoinedNever(s, part, keep) ==
  LET before == s.results \o (IF s.kept = <<>> THEN <<>> ELSE <<s.kept>>)
  IN [results |-> IF keep THEN before ELSE Append(before, part),
      kept |-> IF keep THEN part ELSE <<>>]

\* s.kept is the part that was kept; nothing kept is what an empty part kept is, as it
\* goes in front of the next part.
Joined(s, part, keep) ==
  LET whole == s.kept \o part
  IN [results |-> IF keep THEN s.results ELSE Append(s.results, whole),
      kept |-> IF keep THEN whole ELSE <<>>]

AddMessage(s, msg) ==
  LET joined[i \in 0..Len(msg.parts)] ==
        IF i = 0 THEN s
        ELSE Joined(joined[i - 1], msg.parts[i], msg.flags = PARTIAL /\ i = Len(msg.parts))
  IN joined[Len(msg.parts)]

AddMessages(msgs) ==
  LET added[k \in 0..Len(msgs)] ==
        IF k = 0 THEN [results |-> <<>>, kept |-> <<>>]
        ELSE AddMessage(added[k - 1], msgs[k])
  IN added[Len(msgs)]

Aggregate(msgs) == AddMessages(msgs).results
-----------------------------------------------------------------------------
\* enqueue_request(): Sequence::advance() wraps around.
Enqueue(response) ==
  /\ Len(asked) < MaxRequests
  /\ sequence' = (sequence + 1) % SeqSize
  /\ pending' = Put(pending, sequence, <<>>)
  /\ server' = Put(server, sequence, [left |-> response, sent |-> 0])
  /\ asked' = Append(asked, sequence) /\ promised' = Append(promised, response)
  /\ UNCHANGED responses

\* The callback of a sequence number is that of the latest request with it.
Callback(n) ==
  CHOOSE r \in DOMAIN asked : asked[r] = n /\ \A q \in DOMAIN asked : q > r => asked[q] # n

\* Mutant of HandleMercuryReq: a partial message is not put back.
HandleAndForget(n, msg) ==
  \/ n \notin DOMAIN pending /\ UNCHANGED <<pending, responses>>
  \/ /\ n \in DOMAIN pending /\ msg.flags = FINAL
     /\ pending' = Removed(pending, n)
     /\ responses' = Put(responses, Callback(n), Aggregate(Append(pending[n], msg)))
  \/ /\ n \in DOMAIN pending /\ msg.flags # FINAL
     /\ pending' = Removed(pending, n)
     /\ UNCHANGED responses

\* handle_mercury_req(): a final message completes the response.
HandleMercuryReq(n, msg) ==
  \/ n \notin DOMAIN pending /\ UNCHANGED <<pending, responses>>
  \/ /\ n \in DOMAIN pending /\ msg.flags = FINAL
     /\ pending' = Removed(pending, n)
     /\ responses' = Put(responses, Callback(n), Aggregate(Append(pending[n], msg)))
  \/ /\ n \in DOMAIN pending /\ msg.flags # FINAL
     /\ pending' = [pending EXCEPT ![n] = Append(@, msg)]
     /\ UNCHANGED responses

\* External, the server's next message about n: all that is left, or some of it, cut within
\* part k after its first l symbols.
SendFinal(n) ==
  /\ HandleMercuryReq(n, [flags |-> FINAL, parts |-> server[n].left])
  /\ server' = Removed(server, n)
  /\ UNCHANGED <<sequence, asked, promised>>

SendPartial(n) ==
  /\ server[n].sent < MaxMessages - 1
  /\ \E k \in DOMAIN server[n].left :
     \E l \in 0..Len(server[n].left[k]) :
       LET left == server[n].left
       IN /\ HandleMercuryReq(n,
               [flags |-> PARTIAL,
                parts |-> SubSeq(left, 1, k - 1) \o <<SubSeq(left[k], 1, l)>>])
          /\ server' = [server EXCEPT ![n] =
               [left |-> <<SubSeq(left[k], l + 1, Len(left[k]))>>
                           \o SubSeq(left, k + 1, Len(left)),
                sent |-> @.sent + 1]]
  /\ UNCHANGED <<sequence, asked, promised>>

Next ==
  \/ \E response \in Response : Enqueue(response)
  \/ \E n \in DOMAIN server : SendFinal(n) \/ SendPartial(n)

Spec == Init /\ [][Next]_vars
-----------------------------------------------------------------------------
\* Whatever the server's cuts and the order of its messages, the caller of each
\* request receives the parts that the server sent for that request.
ResponseIsWhole == \A r \in DOMAIN responses : responses[r] = promised[r]

\* No caller that the server has answered is left without its response, as long as
\* fewer requests are open than there are sequence numbers.
AnsweredResponds ==
  \A r \in DOMAIN asked :
    (asked[r] \notin DOMAIN server /\ \A q \in DOMAIN asked : q > r => asked[q] # asked[r])
      => r \in DOMAIN responses
=============================================================================
