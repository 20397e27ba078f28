----------------------------- MODULE SkipCursor -----------------------------
(***************************************************************************)
(* `SkippableContinuousIter` over a `ContinuousTempBufferIter` (or         *)
(* `ContinuousRefIter`, which cuts the range the same way): the cursor     *)
(* holds one buffer, a piece of the range that ends at a block boundary,   *)
(* and asks the iterator for the next when a call needs more.  Every step  *)
(* is one call to the backend; the backend may fail at each.               *)
(***************************************************************************)
EXTENDS ErofsGeometry

CONSTANTS
  Base,     \* address of the first byte of the range
  Length,   \* length of the range
  Lengths   \* lengths a caller may ask for

ASSUME CursorAssumption ==
  Base \in Nat /\ Length \in Nat /\ Lengths \subseteq Nat

VARIABLES
  mode,     \* closed, empty, idle, called, loop, failed, panicked
  off, len, \* the iterator: offset and len, what it has still to yield
  start,    \* address of the first byte of the buffer in hand
  blen,     \* data.content().len()
  cur,      \* the cursor inside the buffer
  op,       \* the call in progress, or NoOp
  bcur,     \* bytes of the caller's buffer done
  buf,      \* those bytes, as the addresses they were copied from
  result    \* of the last call

Window == <<off, len, start, blen>>
vars == <<mode, off, len, start, blen, cur, op, bcur, buf, result>>

(* The position in the range is that of the buffer plus the cursor; inside *)
(* the loops, which have used up the buffer, it is what the call started   *)
(* with.                                                                   *)
Pos ==
  CASE mode \in {"failed", "panicked"} -> 0
    [] mode = "loop" -> off - Base - bcur
    [] OTHER -> start + cur - Base

Phase ==
  CASE mode \in {"idle", "called", "loop"} -> "open"
    [] mode = "panicked" -> "failed"
    [] OTHER -> mode

Cursor == INSTANCE LinearCursor WITH
            phase <- Phase, pos <- Pos

NoOp == Cursor!NoOp

Init ==
  /\ mode = "closed"
  /\ off = Base /\ len = Length
  /\ start = Base /\ blen = 0 /\ cur = 0
  /\ op = NoOp /\ bcur = 0 /\ buf = <<>> /\ result = Cursor!NoResult

-----------------------------------------------------------------------------
(* The iterator. *)

(* next(): a buffer up to the end of the block or of the range.            *)
TakeBuffer(o, l) ==
  LET n == Lesser(l, BlkAccess(o).len)
  IN  /\ start' = o /\ blen' = n
      /\ off' = o + n /\ len' = l - n

-----------------------------------------------------------------------------
(* The cursor. *)

(* try_new: nothing to hold when the range is empty. *)
TryNew ==
  /\ mode = "closed"
  /\ IF len = 0
       THEN mode' = "empty" /\ UNCHANGED Window
       ELSE mode' = "idle" /\ TakeBuffer(off, len)
  /\ UNCHANGED <<cur, op, bcur, buf, result>>

(* A caller asks for what an entry header says, whatever that is. *)
Call(o) ==
  /\ mode = "idle"
  /\ mode' = "called"
  /\ op' = o /\ bcur' = 0 /\ buf' = <<>>
  /\ UNCHANGED <<Window, cur, result>>

Return(r) ==
  /\ mode' = "idle"
  /\ result' = r
  /\ op' = NoOp /\ bcur' = 0 /\ buf' = <<>>

Dlen == blen - cur

(* skip: inside the buffer the cursor moves; otherwise it goes to the      *)
(* start of a new buffer, after the iterator was moved on by dlen.         *)
SkipInBuffer ==     \* a mutant: what is behind the cursor is not subtracted
  /\ mode = "called" /\ op.kind = "skip"
  /\ op.n <= blen
  /\ cur' = cur + op.n
  /\ Return(Cursor!Done)
  /\ UNCHANGED Window

SkipWithin ==
  /\ mode = "called" /\ op.kind = "skip"
  /\ op.n <= Dlen
  /\ cur' = cur + op.n
  /\ Return(Cursor!Done)
  /\ UNCHANGED Window

SkipAcross ==
  /\ mode = "called" /\ op.kind = "skip"
  /\ op.n > Dlen
  /\ cur' = 0
  /\ IF Dlen < len
       THEN TakeBuffer(off + Dlen, len - Dlen) /\ Return(Cursor!Done)
       ELSE /\ mode' = "panicked" /\ op' = NoOp
            /\ UNCHANGED <<Window, bcur, buf, result>>

(* A mutant of Copied: the source is indexed like the destination. *)
CopiedInStep(a, n) ==
  [ j \in 0 .. bcur + n - 1 |-> IF j < bcur THEN buf[j] ELSE a + j ]

(* Copy n bytes from address a on to the caller's buffer. *)
Copied(a, n) ==
  [ j \in 0 .. bcur + n - 1 |-> IF j < bcur THEN buf[j] ELSE a + (j - bcur) ]

(* read: what the buffer has, then whole buffers until there is enough.    *)
ReadHere ==
  /\ mode = "called" /\ op.kind = "read"
  /\ IF Dlen >= op.n
       THEN /\ cur' = cur + op.n
            /\ Return(Cursor!Bytes(Copied(start + cur, op.n)))
       ELSE /\ mode' = "loop"
            /\ bcur' = Dlen /\ buf' = Copied(start + cur, Dlen)
            /\ UNCHANGED <<cur, op, result>>
  /\ UNCHANGED Window

ReadOnPast ==       \* a mutant: a buffer that is just enough is not
  /\ mode = "loop" /\ op.kind = "read"
  /\ len # 0
  /\ TakeBuffer(off, len)
  /\ IF blen' > op.n - bcur
       THEN /\ cur' = op.n - bcur
            /\ Return(Cursor!Bytes(Copied(off, op.n - bcur)))
       ELSE /\ cur' = 0
            /\ bcur' = bcur + blen' /\ buf' = Copied(off, blen')
            /\ UNCHANGED <<mode, op, result>>

ReadOn ==
  /\ mode = "loop" /\ op.kind = "read"
  /\ len # 0
  /\ TakeBuffer(off, len)
  /\ IF blen' >= op.n - bcur
       THEN /\ cur' = op.n - bcur
            /\ Return(Cursor!Bytes(Copied(off, op.n - bcur)))
       ELSE /\ cur' = 0
            /\ bcur' = bcur + blen' /\ buf' = Copied(off, blen')
            /\ UNCHANGED <<mode, op, result>>

(* A mutant of Compared: the count leaves the chunk that differs out.      *)
ComparedShort(n) ==
  IF op.m < bcur + n THEN Return(Cursor!NotEqual(bcur))
  ELSE IF bcur + n = op.n THEN Return(Cursor!Equal)
  ELSE mode' = "loop" /\ bcur' = bcur + n /\ UNCHANGED <<op, buf, result>>

(* try_cmp: a chunk of n bytes of the argument, the next after bcur, is    *)
(* compared and passed; the first chunk that differs ends the call.        *)
Compared(n) ==
  IF op.m < bcur + n THEN Return(Cursor!NotEqual(bcur + n))
  ELSE IF bcur + n = op.n THEN Return(Cursor!Equal)
  ELSE mode' = "loop" /\ bcur' = bcur + n /\ UNCHANGED <<op, buf, result>>

CmpHere ==
  /\ mode = "called" /\ op.kind = "cmp"
  /\ LET n == Lesser(Dlen, op.n) IN cur' = cur + n /\ Compared(n)
  /\ UNCHANGED Window

CmpOn ==
  /\ mode = "loop" /\ op.kind = "cmp"
  /\ len # 0
  /\ TakeBuffer(off, len)
  /\ LET n == Lesser(blen', op.n - bcur) IN cur' = n /\ Compared(n)

(* A loop that asks an exhausted iterator for more unwraps a None. *)
Unwrap ==
  /\ mode = "loop" /\ len = 0
  /\ mode' = "panicked" /\ cur' = 0 /\ op' = NoOp
  /\ UNCHANGED <<Window, bcur, buf, result>>

(* A fill fails where an action above takes a buffer.  The error goes up   *)
(* to get_xattr or list_xattrs, which drops the cursor.                    *)
BackendFails ==
  /\ len # 0
  /\ \/ mode \in {"closed", "loop"} /\ UNCHANGED <<off, len>>
     \/ /\ mode = "called" /\ op.kind = "skip" /\ op.n > Dlen /\ Dlen < len
        /\ off' = off + Dlen /\ len' = len - Dlen
  /\ mode' = "failed" /\ cur' = 0 /\ op' = NoOp
  /\ UNCHANGED <<start, blen, bcur, buf, result>>

(* A mutant of Eof: the buffer in hand is forgotten. *)
IterEof == len = 0

(* eof() *)
Eof == Dlen = 0 /\ len = 0

-----------------------------------------------------------------------------
Body == SkipWithin \/ ReadHere \/ ReadOn \/ CmpHere \/ CmpOn \/ Unwrap

Next ==
  TryNew \/ (\E o \in Cursor!Ops : Call(o)) \/ Body \/ SkipAcross \/ BackendFails

Spec == Init /\ [][Next]_vars

(* Callers that ask only for what the range still has and never skip past  *)
(* the buffer in hand: a restriction of the images that are read, not of   *)
(* the cursor.                                                             *)
CallLocal(o) ==
  /\ Call(o)
  /\ Pos + o.n <= Length
  /\ o.kind = "skip" => o.n <= Dlen

NextLocal ==
  TryNew \/ (\E o \in Cursor!Ops : CallLocal(o)) \/ Body \/ BackendFails

LocalSpec == Init /\ [][NextLocal]_vars

(* A call runs to its end: it is a function of the caller's thread.        *)
FairLocalSpec == LocalSpec /\ WF_vars(Body)

-----------------------------------------------------------------------------
(* Properties. *)

(* The calls' own data, and the window: the buffer in hand ends where the  *)
(* iterator goes on, and the iterator ends where the range does.           *)
TypeOK ==
  /\ mode \in {"closed", "empty", "idle", "called", "loop", "failed", "panicked"}
  /\ off \in Nat /\ len \in Nat /\ start \in Nat /\ blen \in Nat
  /\ cur \in 0 .. blen
  /\ op \in Cursor!Ops \cup {NoOp}
  /\ op = NoOp <=> mode \notin {"called", "loop"}
  /\ bcur \in Nat
  /\ mode = "called" => bcur = 0
  /\ mode = "loop" /\ op.kind = "read" => buf \in [0 .. bcur - 1 -> Nat]

(* Whatever lengths the entries claim, what a read returns is a run of     *)
(* consecutive bytes of the range: no byte outside it, none twice.         *)
StaysInRange ==
  result.kind = "bytes" =>
    \A j \in DOMAIN result.bytes :
      /\ result.bytes[j] = result.bytes[0] + j
      /\ result.bytes[j] \in Base .. Base + Length - 1

(* The cursor keeps its promise whatever the alignment of the range and    *)
(* the length of the calls: reads and comparisons that span buffers pass   *)
(* exactly the bytes they are asked for, the count a failed comparison     *)
(* returns is what it passed, and a call stops only on a backend error.    *)
ImplementsCursor == Cursor!Spec

(* The scan loops of get_xattr and list_xattrs stop on eof(): it holds     *)
(* exactly when the range is used up, never in the middle of an entry and  *)
(* never too late.                                                         *)
EofAtTheEnd == mode = "idle" => (Eof <=> Pos = Length)

(* A caller that asks only for what the range still has never makes the    *)
(* cursor unwrap an exhausted iterator.                                    *)
NeverUnwraps == mode # "panicked"

(* A call ends: every turn of its loop gets a buffer that is not empty.    *)
CallEnds == mode = "called" ~> mode \in {"idle", "failed"}

(* A skip moves the cursor forward by what it is asked to, also when the   *)
(* next byte wanted is in another buffer (raw_iters.rs:11-12 and           *)
(* traits.rs:10-11 say that the iterator is skippable and that its cursor  *)
(* moves forward; skip_xattr_value relies on it).                          *)
SkipMovesForward ==
  [][op.kind = "skip" /\ mode' = "idle" => Pos' = Pos + op.n]_vars
=============================================================================
