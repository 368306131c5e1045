------------------------------ MODULE Promises ------------------------------
(***************************************************************************)
(* What a page of the user interface knows of something it asked for:      *)
(* nothing, that it was asked for, its value or that it failed             *)
(* (spotix-gui/src/data/promise.rs). All but the first carry the argument  *)
(* of the request, by which late answers are told from current ones.       *)
(***************************************************************************)

Empty == [st |-> "Empty"]
Deferred(d) == [st |-> "Deferred", def |-> d]
Resolved(d, v) == [st |-> "Resolved", def |-> d, val |-> v]
Rejected(d) == [st |-> "Rejected", def |-> d]

IsResolved(p) == p.st = "Resolved"

\* The promise p waits for the answer to d.
IsDeferred(p, d) == p.st = "Deferred" /\ p.def = d

\* What was last asked for is d: the promise waits for it, has it, or failed
\* to get it.
AskedFor(p, d) == p.st # "Empty" /\ p.def = d

\* The answer to d arrives: v if ok. A promise that no longer waits for d
\* ignores it.
Updated(p, d, ok, v) ==
  IF IsDeferred(p, d) THEN IF ok THEN Resolved(d, v) ELSE Rejected(d) ELSE p

\* An operation on the value, where there is one.
ResolvedMut(p, Op(_)) == IF IsResolved(p) THEN Resolved(p.def, Op(p.val)) ELSE p
=============================================================================
