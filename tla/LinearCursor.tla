---------------------------- MODULE LinearCursor ----------------------------
(***************************************************************************)
(* What a cursor over a range of the image promises its callers, the       *)
(* readers of extended attributes: a read returns the next bytes, a skip   *)
(* moves past them, a comparison says whether they are the given ones and  *)
(* if not how many it passed, whatever blocks the range is cut into.       *)
(***************************************************************************)
EXTENDS Integers

CONSTANTS
  Base,     \* address of the first byte of the range
  Length,   \* length of the range
  Lengths   \* lengths a caller may ask for

VARIABLES
  phase,    \* closed, empty, open, failed
  pos,      \* bytes of the range that are behind the cursor
  op,       \* the call in progress, or NoOp
  result    \* of the last call

(* A comparison's argument agrees with the image on its first m bytes.     *)
NoOp == [kind |-> "none", n |-> 0, m |-> 0]

Ops ==
  {[kind |-> k, n |-> n, m |-> 0] : k \in {"read", "skip"}, n \in Lengths}
    \cup {o \in [kind: {"cmp"}, n: Lengths, m: Lengths] : o.m <= o.n}

NoResult == [kind |-> "none"]
Bytes(b) == [kind |-> "bytes", bytes |-> b]
Done     == [kind |-> "done"]
Equal    == [kind |-> "equal"]
NotEqual(k) == [kind |-> "differ", used |-> k]

Init == phase = "closed" /\ pos = 0 /\ op = NoOp /\ result = NoResult

Open ==
  /\ phase = "closed"
  /\ phase' = IF Length = 0 THEN "empty" ELSE "open"
  /\ UNCHANGED <<pos, op, result>>

(* Callers only ask for what is there: the lengths are in the entries. *)
Begin(o) ==
  /\ phase = "open" /\ op = NoOp
  /\ pos + o.n <= Length
  /\ op' = o
  /\ UNCHANGED <<phase, pos, result>>

Finish(k, r) ==
  /\ phase = "open"
  /\ pos' = pos + k /\ result' = r
  /\ op' = NoOp
  /\ UNCHANGED phase

Read ==
  /\ op.kind = "read"
  /\ Finish(op.n, Bytes([j \in 0 .. op.n - 1 |-> Base + pos + j]))

Skip == op.kind = "skip" /\ Finish(op.n, Done)

Compare ==
  /\ op.kind = "cmp"
  /\ IF op.m = op.n
       THEN Finish(op.n, Equal)
       ELSE \E k \in op.m + 1 .. op.n : Finish(k, NotEqual(k))

(* The backend failed; the caller drops the cursor. *)
Fail ==
  /\ phase' = "failed" /\ pos' = 0 /\ op' = NoOp
  /\ UNCHANGED result

Next == Open \/ (\E o \in Ops : Begin(o)) \/ Read \/ Skip \/ Compare \/ Fail

vars == <<phase, pos, op, result>>

Spec == Init /\ [][Next]_vars
=============================================================================
