-------------------------- MODULE SkipCursorProofs --------------------------
(***************************************************************************)
(* Proofs about the cursor over extended attributes, for every range,      *)
(* every block size and every set of lengths a caller may ask for.         *)
(***************************************************************************)
EXTENDS SkipCursor, TLAPS

(* A call of the cursor has lengths that are numbers. *)
LEMMA OpsFacts ==
  ASSUME NEW o \in Cursor!Ops
  PROVE  /\ o.kind \in {"read", "skip", "cmp"} /\ o # NoOp
         /\ o.n \in Lengths /\ o.n \in Nat
         /\ o.kind = "cmp" => o.m \in Nat /\ o.m <= o.n
<1>1. CASE o \in { [kind |-> k, n |-> n, m |-> 0] : k \in {"read", "skip"}, n \in Lengths }
  BY <1>1, CursorAssumption DEF NoOp, Cursor!NoOp
<1>2. CASE o \in { p \in [kind: {"cmp"}, n: Lengths, m: Lengths] : p.m <= p.n }
  <2>1. o \in [kind: {"cmp"}, n: Lengths, m: Lengths] /\ o.m <= o.n
    BY <1>2
  <2>2. o.kind = "cmp" /\ o.n \in Lengths /\ o.m \in Lengths
    BY <2>1
  <2>3. NoOp.kind = "none"
    BY DEF NoOp, Cursor!NoOp
  <2> QED BY <2>1, <2>2, <2>3, CursorAssumption
<1> QED BY <1>1, <1>2 DEF Cursor!Ops

(* The run of n bytes from address a on. *)
Run(a, n) == [ j \in 0 .. n - 1 |-> a + j ]

(* The invariant, over any range: the buffer in hand is a piece of it and  *)
(* ends where the iterator goes on; what a loop has copied is the run that *)
(* ends there; what a read returned is a run of the range.  The range is a *)
(* parameter since a cursor may be one of several over the same image.     *)
Window1(first, extent) ==
  /\ first <= start /\ off + len = first + extent
  /\ mode \in {"closed", "idle", "called", "loop"} => off = start + blen
  /\ mode = "closed" => blen = 0

Loop(first) ==
  mode = "loop" =>
    /\ bcur < op.n
    /\ first <= off - bcur
    /\ op.kind \in {"read", "cmp"}
    /\ op.kind = "read" => buf = Run(off - bcur, bcur)

Results(first, extent) ==
  result.kind = "bytes" =>
    \E a, n \in Nat :
      first <= a /\ a + n <= first + extent /\ result.bytes = Run(a, n)

InvIn(first, extent) ==
  TypeOK /\ Window1(first, extent) /\ Loop(first) /\ Results(first, extent)

Inv == InvIn(Base, Length)

(* A buffer is not empty, stays in its block and in what is left.          *)
LEMMA BufferLength ==
  ASSUME NEW o \in Nat, NEW l \in Nat, l # 0
  PROVE  LET n == Lesser(l, BlkAccess(o).len) IN n \in Nat /\ n > 0 /\ n <= l
<1>1. BlkSz \in Nat /\ BlkSz > 0
  BY GeometryAssumption
<1>2. o % BlkSz \in 0 .. BlkSz - 1
  BY <1>1
<1>3. BlkAccess(o).len = BlkSz - (o % BlkSz)
  BY DEF BlkAccess, Accessor
<1> QED BY <1>1, <1>2, <1>3 DEF Lesser

(* Taking a buffer moves the window on, whatever is left of it.            *)
LEMMA TakeBufferWindow ==
  ASSUME NEW first \in Nat, NEW extent \in Nat, NEW o \in Nat, NEW l \in Nat, l # 0,
         first <= o, o + l = first + extent, TakeBuffer(o, l)
  PROVE  /\ off' \in Nat /\ len' \in Nat /\ start' \in Nat /\ blen' \in Nat
         /\ start' = o /\ off' = o + blen' /\ blen' > 0 /\ len' = l - blen'
         /\ first <= start' /\ off' + len' = first + extent
<1> DEFINE n == Lesser(l, BlkAccess(o).len)
<1>1. n \in Nat /\ n > 0 /\ n <= l
  BY BufferLength
<1>2. start' = o /\ blen' = n /\ off' = o + n /\ len' = l - n
  BY DEF TakeBuffer
<1> QED BY <1>1, <1>2

(* The bytes of a call that goes on in a new buffer continue its run.      *)
LEMMA CopiedOn ==
  ASSUME NEW a \in Nat, NEW n \in Nat, bcur \in Nat, bcur <= a,
         buf = Run(a - bcur, bcur)
  PROVE  Copied(a, n) = Run(a - bcur, bcur + n)
BY DEF Copied, Run

(* A call that starts has copied nothing yet.                              *)
LEMMA CopiedFirst ==
  ASSUME NEW a \in Nat, NEW n \in Nat, bcur = 0
  PROVE  Copied(a, n) = Run(a, n)
BY DEF Copied, Run

(* What a step that ends a call leaves for the invariant to say.           *)
LEMMA ReturnInv ==
  ASSUME NEW first \in Nat, NEW extent \in Nat,
         InvIn(first, extent), NEW r, Return(r), Window' = Window \/ off' = start' + blen',
         mode \in {"called", "loop"},
         off' \in Nat, len' \in Nat, start' \in Nat, blen' \in Nat,
         cur' \in 0 .. blen',
         first <= start', off' + len' = first + extent,
         r.kind = "bytes" =>
           \E a, n \in Nat : first <= a /\ a + n <= first + extent /\ r.bytes = Run(a, n)
  PROVE  InvIn(first, extent)'
<1>1. mode' = "idle" /\ result' = r /\ op' = NoOp /\ bcur' = 0
  BY DEF Return
<1>2. off' = start' + blen'
  BY DEF InvIn, Window1, Window
<1>3. TypeOK'
  BY <1>1 DEF TypeOK
<1>4. Window1(first, extent)' /\ Loop(first)'
  BY <1>1, <1>2 DEF Window1, Loop
<1>5. Results(first, extent)'
  BY <1>1 DEF Results
<1> QED BY <1>3, <1>4, <1>5 DEF InvIn

LEMMA TryNewInv ==
  ASSUME NEW first \in Nat, NEW extent \in Nat, InvIn(first, extent), TryNew
  PROVE  InvIn(first, extent)'
<1>1. mode = "closed" /\ UNCHANGED <<cur, op, bcur, buf, result>>
  BY DEF TryNew
<1>2. CASE len = 0
  <2>1. mode' = "empty" /\ UNCHANGED <<off, len, start, blen>>
    BY <1>2 DEF TryNew, Window
  <2> QED BY <1>1, <2>1 DEF InvIn, TypeOK, Window1, Loop, Results
<1>3. CASE len # 0
  <2>1. mode' = "idle" /\ TakeBuffer(off, len)
    BY <1>3 DEF TryNew
  <2>2. off \in Nat /\ len \in Nat /\ first <= off /\ off + len = first + extent
    BY <1>1 DEF InvIn, TypeOK, Window1
  <2>3. cur = 0
    BY <1>1 DEF InvIn, TypeOK, Window1
  <2>4. /\ off' \in Nat /\ len' \in Nat /\ start' \in Nat /\ blen' \in Nat
        /\ off' = start' + blen' /\ first <= start' /\ off' + len' = first + extent
    BY <1>3, <2>1, <2>2, TakeBufferWindow
  <2>5. op = NoOp /\ bcur \in Nat
    BY <1>1 DEF InvIn, TypeOK
  <2>6. TypeOK'
    <3>1. mode' = "idle" /\ op' = NoOp /\ cur' = 0 /\ bcur' \in Nat
      BY <1>1, <2>1, <2>3, <2>5
    <3>2. cur' \in 0 .. blen'
      BY <2>4, <3>1
    <3> QED BY <2>4, <3>1, <3>2 DEF TypeOK
  <2>7. Window1(first, extent)' /\ Loop(first)'
    BY <2>1, <2>4 DEF Window1, Loop
  <2>8. Results(first, extent)'
    BY <1>1 DEF InvIn, Results
  <2> QED BY <2>6, <2>7, <2>8 DEF InvIn
<1> QED BY <1>2, <1>3

LEMMA CallInv ==
  ASSUME NEW first \in Nat, NEW extent \in Nat, NEW o \in Cursor!Ops, InvIn(first, extent), Call(o)
  PROVE  InvIn(first, extent)'
<1>1. /\ mode = "idle" /\ mode' = "called" /\ op' = o /\ bcur' = 0
      /\ UNCHANGED <<off, len, start, blen, cur, result>>
  BY DEF Call, Window
<1>2. o # NoOp
  BY OpsFacts
<1>3. TypeOK'
  BY <1>1, <1>2 DEF InvIn, TypeOK
<1>4. Window1(first, extent)' /\ Loop(first)' /\ Results(first, extent)'
  BY <1>1 DEF InvIn, Window1, Loop, Results
<1> QED BY <1>3, <1>4 DEF InvIn

LEMMA SkipWithinInv ==
  ASSUME NEW first \in Nat, NEW extent \in Nat, InvIn(first, extent), SkipWithin
  PROVE  InvIn(first, extent)'
<1>1. /\ mode = "called" /\ op \in Cursor!Ops /\ op.n <= Dlen
      /\ cur' = cur + op.n /\ Return(Cursor!Done)
      /\ UNCHANGED <<off, len, start, blen>>
  BY DEF SkipWithin, InvIn, TypeOK, Window
<1>2. op.n \in Nat
  BY <1>1, OpsFacts
<1>3. cur' \in 0 .. blen'
  BY <1>1, <1>2 DEF Dlen, InvIn, TypeOK
<1>4. Cursor!Done.kind # "bytes"
  BY DEF Cursor!Done
<1> QED BY <1>1, <1>3, <1>4, ReturnInv DEF InvIn, TypeOK, Window1, Window

LEMMA SkipAcrossInv ==
  ASSUME NEW first \in Nat, NEW extent \in Nat, InvIn(first, extent), SkipAcross
  PROVE  InvIn(first, extent)'
<1>1. /\ mode = "called" /\ cur' = 0
      /\ off \in Nat /\ len \in Nat /\ start \in Nat /\ blen \in Nat
      /\ Dlen \in Nat /\ first <= off /\ off + len = first + extent
      /\ first <= start
  BY DEF SkipAcross, InvIn, TypeOK, Window1, Dlen
<1>2. CASE Dlen < len
  <2>1. TakeBuffer(off + Dlen, len - Dlen) /\ Return(Cursor!Done)
    BY <1>2 DEF SkipAcross
  <2>2. /\ off + Dlen \in Nat /\ len - Dlen \in Nat /\ len - Dlen # 0
        /\ first <= off + Dlen /\ (off + Dlen) + (len - Dlen) = first + extent
    BY <1>1, <1>2
  <2>3. /\ off' \in Nat /\ len' \in Nat /\ start' \in Nat /\ blen' \in Nat
        /\ off' = start' + blen' /\ first <= start' /\ off' + len' = first + extent
    BY <2>1, <2>2, TakeBufferWindow
  <2>4. Cursor!Done.kind # "bytes"
    BY DEF Cursor!Done
  <2>5. cur' \in 0 .. blen'
    BY <1>1, <2>3
  <2> QED BY <1>1, <2>1, <2>3, <2>4, <2>5, ReturnInv
<1>3. CASE ~(Dlen < len)
  <2>1. /\ mode' = "panicked" /\ op' = NoOp
        /\ UNCHANGED <<off, len, start, blen, bcur, buf, result>>
    BY <1>3 DEF SkipAcross, Window
  <2>2. TypeOK'
    BY <1>1, <2>1 DEF InvIn, TypeOK
  <2> QED BY <1>1, <2>1, <2>2 DEF InvIn, Window1, Loop, Results
<1> QED BY <1>2, <1>3

(* A loop that has to go on: its share of the window is left to say.       *)
LEMMA ReadHereInv ==
  ASSUME NEW first \in Nat, NEW extent \in Nat, InvIn(first, extent), ReadHere
  PROVE  InvIn(first, extent)'
<1>1. /\ mode = "called" /\ op \in Cursor!Ops /\ bcur = 0 /\ op.kind = "read"
      /\ UNCHANGED <<off, len, start, blen>>
  BY DEF ReadHere, InvIn, TypeOK, Window
<1>2. /\ off \in Nat /\ len \in Nat /\ start \in Nat /\ blen \in Nat /\ cur \in 0 .. blen
      /\ off = start + blen /\ first <= start /\ off + len = first + extent
  BY <1>1 DEF InvIn, TypeOK, Window1
<1>3. op.n \in Nat /\ op # NoOp
  BY <1>1, OpsFacts
<1>4. CASE Dlen >= op.n
  <2>1. cur' = cur + op.n /\ Return(Cursor!Bytes(Copied(start + cur, op.n)))
    BY <1>4 DEF ReadHere
  <2>2. Copied(start + cur, op.n) = Run(start + cur, op.n)
    BY <1>1, <1>2, <1>3, CopiedFirst
  <2>3. cur' \in 0 .. blen'
    BY <1>1, <1>2, <1>3, <1>4, <2>1 DEF Dlen
  <2>4. /\ start + cur \in Nat /\ first <= start + cur
        /\ start + cur + op.n <= first + extent
    BY <1>2, <1>3, <1>4 DEF Dlen
  <2>5. Cursor!Bytes(Copied(start + cur, op.n)).bytes = Run(start + cur, op.n)
    BY <2>2 DEF Cursor!Bytes
  <2> QED BY <1>1, <1>2, <1>3, <2>1, <2>3, <2>4, <2>5, ReturnInv DEF Window
<1>5. CASE ~(Dlen >= op.n)
  <2>1. /\ mode' = "loop" /\ bcur' = Dlen /\ buf' = Copied(start + cur, Dlen)
        /\ UNCHANGED <<cur, op, result>>
    BY <1>5 DEF ReadHere
  <2>2. Dlen \in Nat /\ Dlen < op.n /\ start + cur = off - Dlen /\ start + cur \in Nat
    BY <1>2, <1>3, <1>5 DEF Dlen
  <2>3. buf' = Run(off' - bcur', bcur')
    BY <1>1, <2>1, <2>2, CopiedFirst
  <2>4. buf' \in [0 .. bcur' - 1 -> Nat]
    BY <1>1, <1>2, <2>1, <2>2, <2>3 DEF Run
  <2>5. TypeOK'
    BY <1>1, <1>2, <1>3, <2>1, <2>2, <2>4 DEF TypeOK
  <2>6. Window1(first, extent)' /\ Results(first, extent)'
    BY <1>1, <1>2, <2>1 DEF InvIn, Window1, Results
  <2>7. Loop(first)'
    BY <1>1, <1>2, <2>1, <2>2, <2>3 DEF Loop
  <2> QED BY <2>5, <2>6, <2>7 DEF InvIn
<1> QED BY <1>4, <1>5

(* A loop goes on in a buffer it takes where the last one ended.           *)
LEMMA RangeBuffer ==
  ASSUME NEW first \in Nat, NEW extent \in Nat,
         InvIn(first, extent), mode = "loop", len # 0, TakeBuffer(off, len)
  PROVE  /\ op \in Cursor!Ops /\ op # NoOp /\ op.n \in Nat /\ bcur \in Nat /\ bcur < op.n
         /\ off \in Nat /\ first <= off - bcur /\ first <= off /\ bcur <= off
         /\ off' \in Nat /\ len' \in Nat /\ start' \in Nat /\ blen' \in Nat
         /\ start' = off /\ off' = off + blen' /\ blen' > 0
         /\ off' = start' + blen' /\ first <= start' /\ off' + len' = first + extent
<1>1. op \in Cursor!Ops /\ bcur \in Nat /\ off \in Nat /\ len \in Nat /\ op # NoOp
  BY DEF InvIn, TypeOK
<1>2. op.n \in Nat /\ bcur < op.n /\ first <= off - bcur
  BY <1>1, OpsFacts DEF InvIn, Loop
<1>3. first <= off /\ bcur <= off
  BY <1>1, <1>2
<1>4. off + len = first + extent
  BY DEF InvIn, Window1
<1> QED BY <1>1, <1>2, <1>3, <1>4, TakeBufferWindow

(* The run of b bytes that ends at o starts at the same place when another  *)
(* x bytes are added to it.                                                *)
LEMMA RunStart ==
  ASSUME NEW o \in Nat, NEW b \in Nat, NEW x \in Nat, b <= o, NEW n \in Nat
  PROVE  /\ o - b \in Nat /\ b + x \in Nat /\ (o + x) - (b + x) = o - b
         /\ ~(x >= n - b) => b + x < n
OBVIOUS

LEMMA RunKept ==
  ASSUME NEW o \in Nat, NEW b \in Nat, NEW x \in Nat
  PROVE  (o + x) - (b + x) = o - b
OBVIOUS

LEMMA ReadOnInv ==
  ASSUME NEW first \in Nat, NEW extent \in Nat, InvIn(first, extent), ReadOn
  PROVE  InvIn(first, extent)'
<1>1. mode = "loop" /\ op.kind = "read" /\ len # 0 /\ TakeBuffer(off, len)
  BY DEF ReadOn
<1>2. /\ op \in Cursor!Ops /\ op # NoOp /\ op.n \in Nat /\ bcur \in Nat /\ bcur < op.n
      /\ off \in Nat /\ first <= off - bcur /\ first <= off /\ bcur <= off
      /\ off' \in Nat /\ len' \in Nat /\ start' \in Nat /\ blen' \in Nat
      /\ start' = off /\ off' = off + blen' /\ blen' > 0
      /\ off' = start' + blen' /\ first <= start' /\ off' + len' = first + extent
  BY <1>1, RangeBuffer
<1>3. buf = Run(off - bcur, bcur)
  BY <1>1 DEF InvIn, Loop
<1>4. CASE blen' >= op.n - bcur
  <2>1. cur' = op.n - bcur /\ Return(Cursor!Bytes(Copied(off, op.n - bcur)))
    BY <1>1, <1>4 DEF ReadOn
  <2>2. op.n - bcur \in Nat /\ bcur + (op.n - bcur) = op.n
    BY <1>2
  <2>3. Copied(off, op.n - bcur) = Run(off - bcur, op.n)
    BY <1>2, <1>3, <2>2, CopiedOn
  <2>4. /\ off - bcur \in Nat /\ first <= off - bcur
        /\ (off - bcur) + op.n <= first + extent
    <3>1. off + blen' \in Nat /\ len' \in Nat /\ (off + blen') + len' = first + extent
      BY <1>2
    <3>2. off + blen' <= first + extent
      BY <3>1
    <3>3. off \in Nat /\ bcur \in Nat /\ blen' \in Nat /\ bcur <= off /\ op.n \in Nat
      BY <1>2
    <3>4. op.n <= bcur + blen'
      BY <1>4, <3>3
    <3>5. (off - bcur) + op.n <= off + blen'
      BY <3>3, <3>4
    <3>6. off - bcur \in Nat /\ first <= off - bcur
      BY <1>2
    <3>7. \A x, y, z \in Int : x <= y /\ y <= z => x <= z
      OBVIOUS
    <3>8. (off - bcur) + op.n \in Int /\ off + blen' \in Int /\ first + extent \in Int
      BY <3>3
    <3> QED BY <3>2, <3>5, <3>6, <3>7, <3>8, Zenon
  <2>5. Cursor!Bytes(Copied(off, op.n - bcur)).bytes = Run(off - bcur, op.n)
    BY <2>3 DEF Cursor!Bytes
  <2>6. cur' \in 0 .. blen'
    BY <1>2, <1>4, <2>1
  <2> QED BY <1>1, <1>2, <2>1, <2>4, <2>5, <2>6, ReturnInv
<1>5. CASE ~(blen' >= op.n - bcur)
  <2>1. /\ cur' = 0 /\ bcur' = bcur + blen' /\ buf' = Copied(off, blen')
        /\ mode' = "loop" /\ UNCHANGED <<op, result>>
    BY <1>1, <1>5 DEF ReadOn
  <2>2. /\ bcur' \in Nat /\ bcur' < op.n
        /\ off' - bcur' = off - bcur /\ off' - bcur' \in Nat
    <3>1. off \in Nat /\ bcur \in Nat /\ blen' \in Nat /\ bcur <= off /\ op.n \in Nat
      BY <1>2
    <3>2. /\ off - bcur \in Nat /\ bcur + blen' \in Nat
          /\ (off + blen') - (bcur + blen') = off - bcur
          /\ bcur + blen' < op.n
      BY <1>5, <3>1, RunStart
    <3>3. off' = off + blen' /\ bcur' = bcur + blen'
      BY <1>2, <2>1
    <3> QED BY <3>2, <3>3
  <2>3. buf' = Run(off' - bcur', bcur')
    BY <1>2, <1>3, <2>1, <2>2, CopiedOn
  <2>4. \A a, n \in Nat : Run(a, n) \in [0 .. n - 1 -> Nat]
    BY DEF Run
  <2>5. buf' \in [0 .. bcur' - 1 -> Nat]
    BY <2>2, <2>3, <2>4
  <2>6. cur' \in 0 .. blen'
    BY <1>2, <2>1
  <2>7. TypeOK'
    BY <1>2, <2>1, <2>2, <2>5, <2>6 DEF TypeOK
  <2>8. Window1(first, extent)' /\ Results(first, extent)'
    BY <1>2, <2>1 DEF InvIn, Window1, Results
  <2>9. Loop(first)'
    BY <1>1, <1>2, <2>1, <2>2, <2>3 DEF Loop
  <2> QED BY <2>7, <2>8, <2>9 DEF InvIn
<1> QED BY <1>4, <1>5

(* A comparison: n more bytes of the argument are behind the cursor, which *)
(* is in the buffer that is in hand after the step.                        *)
LEMMA ComparedInv ==
  ASSUME NEW first \in Nat, NEW extent \in Nat,
         InvIn(first, extent), mode \in {"called", "loop"}, op.kind = "cmp",
         op \in Cursor!Ops, op # NoOp,
         NEW n \in Nat, Compared(n), bcur + n <= op.n,
         first <= off' - (bcur + n) \/ bcur + n = op.n,
         off' \in Nat, len' \in Nat, start' \in Nat, blen' \in Nat,
         cur' \in 0 .. blen', off' = start' + blen',
         first <= start', off' + len' = first + extent
  PROVE  InvIn(first, extent)'
<1>1. op.n \in Nat /\ op.m \in Nat /\ bcur \in Nat
  BY OpsFacts DEF InvIn, TypeOK
<1>2. Cursor!Equal.kind # "bytes" /\ Cursor!NotEqual(bcur + n).kind # "bytes"
  BY DEF Cursor!Equal, Cursor!NotEqual
<1>3. CASE op.m < bcur + n
  BY <1>2, <1>3, ReturnInv DEF Compared
<1>4. CASE ~(op.m < bcur + n) /\ bcur + n = op.n
  BY <1>2, <1>4, ReturnInv DEF Compared
<1>5. CASE ~(op.m < bcur + n) /\ bcur + n # op.n
  <2>1. mode' = "loop" /\ bcur' = bcur + n /\ UNCHANGED <<op, buf, result>>
    BY <1>5 DEF Compared
  <2>2. TypeOK'
    <3>1. bcur' \in Nat /\ op' \in Cursor!Ops /\ op' # NoOp /\ op'.kind # "read"
      BY <1>1, <2>1
    <3> QED BY <2>1, <3>1 DEF TypeOK
  <2>3. Window1(first, extent)' /\ Results(first, extent)'
    BY <2>1 DEF InvIn, Window1, Results
  <2>4. Loop(first)'
    <3>1. bcur + n \in Nat /\ bcur + n # op.n
      BY <1>1, <1>5
    <3>2. first <= off' - (bcur + n)
      BY <3>1
    <3>3. bcur + n < op.n
      BY <1>1, <3>1
    <3> QED BY <2>1, <3>2, <3>3 DEF Loop
  <2> QED BY <2>2, <2>3, <2>4 DEF InvIn
<1> QED BY <1>3, <1>4, <1>5

LEMMA CmpHereInv ==
  ASSUME NEW first \in Nat, NEW extent \in Nat, InvIn(first, extent), CmpHere
  PROVE  InvIn(first, extent)'
<1> DEFINE n == Lesser(Dlen, op.n)
<1>1. /\ mode = "called" /\ op \in Cursor!Ops /\ op # NoOp /\ bcur = 0 /\ op.kind = "cmp"
      /\ cur' = cur + n /\ Compared(n)
      /\ UNCHANGED <<off, len, start, blen>>
  BY DEF CmpHere, InvIn, TypeOK, Window
<1>2. /\ off \in Nat /\ len \in Nat /\ start \in Nat /\ blen \in Nat /\ cur \in 0 .. blen
      /\ off = start + blen /\ first <= start /\ off + len = first + extent
  BY <1>1 DEF InvIn, TypeOK, Window1
<1>3. op.n \in Nat
  BY <1>1, OpsFacts
<1>4. n \in Nat /\ n <= op.n /\ n <= blen - cur
  BY <1>2, <1>3 DEF Lesser, Dlen
<1>5. cur' \in 0 .. blen' /\ first <= off' - (bcur + n) /\ bcur + n <= op.n
  BY <1>1, <1>2, <1>3, <1>4
<1> HIDE DEF n
<1> QED BY <1>1, <1>2, <1>4, <1>5, ComparedInv

LEMMA CmpOnInv ==
  ASSUME NEW first \in Nat, NEW extent \in Nat, InvIn(first, extent), CmpOn
  PROVE  InvIn(first, extent)'
<1> DEFINE n == Lesser(blen', op.n - bcur)
<1>1. /\ mode = "loop" /\ op.kind = "cmp" /\ len # 0 /\ TakeBuffer(off, len)
      /\ cur' = n /\ Compared(n)
  BY DEF CmpOn
<1>2. /\ op \in Cursor!Ops /\ op # NoOp /\ op.n \in Nat /\ bcur \in Nat /\ bcur < op.n
      /\ off \in Nat /\ first <= off - bcur /\ first <= off /\ bcur <= off
      /\ off' \in Nat /\ len' \in Nat /\ start' \in Nat /\ blen' \in Nat
      /\ start' = off /\ off' = off + blen' /\ blen' > 0
      /\ off' = start' + blen' /\ first <= start' /\ off' + len' = first + extent
  BY <1>1, RangeBuffer
<1>3. n \in Nat /\ n <= blen' /\ bcur + n <= op.n
  BY <1>2 DEF Lesser
<1>4. cur' \in 0 .. blen' /\ first <= off' - (bcur + n)
  BY <1>1, <1>2, <1>3
<1> HIDE DEF n
<1> QED BY <1>1, <1>2, <1>3, <1>4, ComparedInv

LEMMA UnwrapInv ==
  ASSUME NEW first \in Nat, NEW extent \in Nat, InvIn(first, extent), Unwrap
  PROVE  InvIn(first, extent)'
<1>1. /\ mode' = "panicked" /\ cur' = 0 /\ op' = NoOp
      /\ UNCHANGED <<off, len, start, blen, bcur, buf, result>>
  BY DEF Unwrap, Window
<1>2. TypeOK'
  BY <1>1 DEF InvIn, TypeOK
<1>3. Window1(first, extent)' /\ Loop(first)' /\ Results(first, extent)'
  BY <1>1 DEF InvIn, Window1, Loop, Results
<1> QED BY <1>2, <1>3 DEF InvIn

LEMMA BackendFailsInv ==
  ASSUME NEW first \in Nat, NEW extent \in Nat, InvIn(first, extent), BackendFails
  PROVE  InvIn(first, extent)'
<1>1. /\ mode' = "failed" /\ cur' = 0 /\ op' = NoOp
      /\ UNCHANGED <<start, blen, bcur, buf, result>>
  BY DEF BackendFails
<1>2. off' \in Nat /\ len' \in Nat /\ off' + len' = first + extent
  <2>1. off \in Nat /\ len \in Nat /\ Dlen \in Nat /\ off + len = first + extent
    BY DEF InvIn, TypeOK, Window1, Dlen
  <2>2. CASE UNCHANGED <<off, len>>
    BY <2>1, <2>2
  <2>3. CASE Dlen < len /\ off' = off + Dlen /\ len' = len - Dlen
    BY <2>1, <2>3
  <2> QED BY <2>2, <2>3 DEF BackendFails
<1>3. TypeOK'
  BY <1>1, <1>2 DEF InvIn, TypeOK
<1>4. Window1(first, extent)' /\ Loop(first)' /\ Results(first, extent)'
  BY <1>1, <1>2 DEF InvIn, Window1, Loop, Results
<1> QED BY <1>3, <1>4 DEF InvIn

LEMMA RangeNext ==
  ASSUME NEW first \in Nat, NEW extent \in Nat, InvIn(first, extent), [Next]_vars
  PROVE  InvIn(first, extent)'
<1>1. CASE TryNew
  BY <1>1, TryNewInv
<1>2. CASE \E o \in Cursor!Ops : Call(o)
  BY <1>2, CallInv
<1>3. CASE Body
  BY <1>3, SkipWithinInv, ReadHereInv, ReadOnInv, CmpHereInv, CmpOnInv, UnwrapInv DEF Body
<1>4. CASE SkipAcross
  BY <1>4, SkipAcrossInv
<1>5. CASE BackendFails
  BY <1>5, BackendFailsInv
<1>6. CASE UNCHANGED vars
  BY <1>6 DEF vars, InvIn, TypeOK, Window1, Loop, Results, Run
<1> QED BY <1>1, <1>2, <1>3, <1>4, <1>5, <1>6 DEF Next

(* What a call that ends hands its caller: a read all the bytes it was      *)
(* asked for, a comparison whether they are the given ones, and if not how *)
(* many it has passed, never more than it was given.                       *)
LEMMA Outcome ==
  ASSUME NEW first \in Nat, NEW extent \in Nat, InvIn(first, extent), Body, mode' = "idle"
  PROVE  /\ op.kind = "read" =>
              result'.kind = "bytes" /\ result'.bytes \in [0 .. op.n - 1 -> Nat]
         /\ op.kind = "cmp" =>
              \/ result'.kind = "equal"
              \/ result'.kind = "differ" /\ result'.used \in 0 .. op.n
<1>1. CASE SkipWithin
  BY <1>1 DEF SkipWithin
<1>2. CASE ReadHere
  <2>1. /\ mode = "called" /\ op.kind = "read" /\ bcur = 0 /\ op.n \in Nat
        /\ start + cur \in Nat
    BY <1>2, OpsFacts DEF ReadHere, InvIn, TypeOK
  <2>2. result' = Cursor!Bytes(Copied(start + cur, op.n))
    BY <1>2 DEF ReadHere, Return
  <2> QED BY <2>1, <2>2 DEF Copied, Cursor!Bytes
<1>3. CASE ReadOn
  <2>1. mode = "loop" /\ op.kind = "read" /\ len # 0 /\ TakeBuffer(off, len)
    BY <1>3 DEF ReadOn
  <2>2. op.n \in Nat /\ bcur \in Nat /\ off \in Nat /\ buf \in [0 .. bcur - 1 -> Nat]
    BY <2>1, RangeBuffer DEF InvIn, TypeOK
  <2>3. bcur + (op.n - bcur) - 1 = op.n - 1
    BY <2>2
  <2>4. result' = Cursor!Bytes(Copied(off, op.n - bcur))
    BY <1>3, <2>1 DEF ReadOn, Return
  <2>5. Copied(off, op.n - bcur) =
          [j \in 0 .. op.n - 1 |-> IF j < bcur THEN buf[j] ELSE off + (j - bcur)]
    BY <2>3 DEF Copied
  <2>6. \A j \in 0 .. op.n - 1 : (IF j < bcur THEN buf[j] ELSE off + (j - bcur)) \in Nat
    BY <2>2
  <2>7. Copied(off, op.n - bcur) \in [0 .. op.n - 1 -> Nat]
    BY <2>5, <2>6
  <2> QED BY <2>1, <2>4, <2>7 DEF Cursor!Bytes
<1>4. ASSUME NEW n \in Nat, Compared(n), bcur + n <= op.n, op.n \in Nat, bcur \in Nat,
             op.kind = "cmp"
      PROVE  \/ result'.kind = "equal"
             \/ result'.kind = "differ" /\ result'.used \in 0 .. op.n
  <2>1. result' = Cursor!NotEqual(bcur + n) \/ result' = Cursor!Equal
    BY <1>4 DEF Compared, Return
  <2>2. bcur + n \in 0 .. op.n
    BY <1>4
  <2> QED BY <2>1, <2>2 DEF Cursor!NotEqual, Cursor!Equal
<1>5. CASE CmpHere
  <2>1. /\ mode = "called" /\ op.kind = "cmp" /\ bcur = 0 /\ op.n \in Nat
        /\ blen \in Nat /\ cur \in 0 .. blen /\ Compared(Lesser(Dlen, op.n))
    BY <1>5, OpsFacts DEF CmpHere, InvIn, TypeOK
  <2>2. Lesser(Dlen, op.n) \in Nat /\ Lesser(Dlen, op.n) <= op.n
    BY <2>1 DEF Lesser, Dlen
  <2>3. bcur + Lesser(Dlen, op.n) <= op.n
    BY <2>1, <2>2
  <2> QED BY <1>4, <2>1, <2>2, <2>3
<1>6. CASE CmpOn
  <2>1. /\ mode = "loop" /\ op.kind = "cmp" /\ len # 0 /\ TakeBuffer(off, len)
        /\ Compared(Lesser(blen', op.n - bcur))
    BY <1>6 DEF CmpOn
  <2>2. op.n \in Nat /\ bcur \in Nat /\ bcur < op.n /\ blen' \in Nat
    BY <2>1, RangeBuffer
  <2>3. Lesser(blen', op.n - bcur) \in Nat /\ bcur + Lesser(blen', op.n - bcur) <= op.n
    BY <2>2 DEF Lesser
  <2> QED BY <1>4, <2>1, <2>2, <2>3
<1>7. CASE Unwrap
  BY <1>7 DEF Unwrap
<1> QED BY <1>1, <1>2, <1>3, <1>5, <1>6, <1>7 DEF Body

(* A buffer that is taken lies in one block, and is in hand until the next. *)
InBlock == mode \in {"idle", "called", "loop"} => (start % BlkSz) + blen <= BlkSz

LEMMA TakenInBlock ==
  ASSUME NEW o \in Nat, NEW l \in Nat, TakeBuffer(o, l)
  PROVE  (start' % BlkSz) + blen' <= BlkSz
<1>1. BlkSz \in Nat \ {0} /\ o % BlkSz \in 0 .. BlkSz - 1
  BY GeometryAssumption
<1>2. start' = o /\ blen' = Lesser(l, BlkSz - (o % BlkSz))
  BY DEF TakeBuffer, BlkAccess, Accessor
<1> QED BY <1>1, <1>2 DEF Lesser

LEMMA InBlockNext ==
  ASSUME TypeOK, InBlock, TryNew \/ Body \/ SkipAcross
  PROVE  InBlock'
<1>1. CASE UNCHANGED Window /\ mode \in {"idle", "called", "loop"}
  BY <1>1 DEF InBlock, Window
<1>2. CASE mode' \in {"empty", "panicked"}
  BY <1>2 DEF InBlock
<1>3. CASE TakeBuffer(off, len)
  BY <1>3, TakenInBlock DEF TypeOK, InBlock
<1>4. CASE Dlen < len /\ TakeBuffer(off + Dlen, len - Dlen)
  <2>1. off + Dlen \in Nat /\ len - Dlen \in Nat
    BY <1>4 DEF TypeOK, Dlen
  <2> QED BY <1>4, <2>1, TakenInBlock DEF InBlock
<1> QED BY <1>1, <1>2, <1>3, <1>4
    DEF TryNew, Body, SkipWithin, SkipAcross, ReadHere, ReadOn, CmpHere, CmpOn, Unwrap

(* A call that goes on is the same call. *)
LEMMA SameCall ==
  ASSUME Body \/ SkipAcross
  PROVE  /\ mode \in {"called", "loop"} /\ mode' \in {"idle", "loop", "panicked"}
         /\ mode' = "loop" => op' = op
BY DEF Body, SkipWithin, SkipAcross, ReadHere, ReadOn, CmpHere, CmpOn, Compared, Unwrap, Return

-----------------------------------------------------------------------------
(* Where the cursor is: behind the bytes of the call that are done, or     *)
(* where the call in progress has started.                                 *)
Place == IF mode = "loop" THEN off - bcur ELSE start + cur

LEMMA PlaceKept ==
  ASSUME TypeOK, TryNew \/ (\E o : Call(o)),
         mode = "closed" => off = start + blen /\ blen = 0
  PROVE  Place' = Place
<1>1. CASE \E o : Call(o)
  BY <1>1 DEF Call, Window, Place
<1>2. CASE TryNew
  <2>1. mode = "closed" /\ cur' = cur /\ off = start /\ cur = 0 /\ start \in Nat
    BY <1>2 DEF TryNew, TypeOK
  <2>2. mode' # "loop" /\ start' = start
    BY <1>2, <2>1 DEF TryNew, TakeBuffer, Window
  <2> QED BY <2>1, <2>2 DEF Place
<1> QED BY <1>1, <1>2

(* A read passes what it was asked for and returns it. *)
LEMMA MovedRead ==
  ASSUME NEW first \in Nat, NEW extent \in Nat, InvIn(first, extent), ReadHere \/ ReadOn
  PROVE  /\ mode' \in {"loop", "idle"}
         /\ mode' = "loop" => Place' = Place
         /\ mode' = "idle" =>
              /\ Place' = Place + op.n
              /\ result' = Cursor!Bytes(Run(Place, op.n))
              /\ cur > 0 \/ op.n > 0 => cur' > 0
<1>1. CASE ReadHere
  <2>1. /\ mode = "called" /\ bcur = 0 /\ off = start + blen /\ op.n \in Nat
        /\ start \in Nat /\ blen \in Nat /\ cur \in 0 .. blen
        /\ UNCHANGED <<off, start, blen>>
    BY <1>1, OpsFacts DEF ReadHere, Window, InvIn, TypeOK, Window1
  <2>2. Place = start + cur /\ Place \in Nat
    BY <2>1 DEF Place
  <2>3. CASE Dlen >= op.n
    <3>1. mode' = "idle" /\ cur' = cur + op.n /\ result' = Cursor!Bytes(Copied(start + cur, op.n))
      BY <1>1, <2>3 DEF ReadHere, Return
    <3>2. Copied(start + cur, op.n) = Run(Place, op.n)
      BY <2>1, <2>2, CopiedFirst
    <3>3. Place' = start + (cur + op.n)
      BY <2>1, <3>1 DEF Place
    <3> QED BY <2>1, <2>2, <3>1, <3>2, <3>3
  <2>4. CASE ~(Dlen >= op.n)
    <3>1. mode' = "loop" /\ bcur' = blen - cur
      BY <1>1, <2>4 DEF ReadHere, Dlen
    <3>2. Place' = (start + blen) - (blen - cur)
      BY <2>1, <3>1 DEF Place
    <3> QED BY <2>1, <2>2, <3>1, <3>2
  <2> QED BY <2>3, <2>4
<1>2. CASE ReadOn
  <2>1. mode = "loop" /\ op.kind = "read" /\ len # 0 /\ TakeBuffer(off, len)
    BY <1>2 DEF ReadOn
  <2>2. /\ op.n \in Nat /\ bcur \in Nat /\ bcur < op.n /\ off \in Nat /\ bcur <= off
        /\ blen' \in Nat /\ start' = off /\ off' = off + blen' /\ blen' > 0
    BY <2>1, RangeBuffer
  <2>3. Place = off - bcur /\ buf = Run(off - bcur, bcur)
    BY <2>1 DEF Place, InvIn, Loop
  <2>4. CASE blen' >= op.n - bcur
    <3>1. mode' = "idle" /\ cur' = op.n - bcur /\ result' = Cursor!Bytes(Copied(off, op.n - bcur))
      BY <2>1, <2>4, <1>2 DEF ReadOn, Return
    <3>2. op.n - bcur \in Nat /\ bcur + (op.n - bcur) = op.n /\ op.n - bcur > 0
      BY <2>2
    <3>3. Copied(off, op.n - bcur) = Run(Place, op.n)
      BY <2>2, <2>3, <3>2, CopiedOn
    <3>4. Place' = off + (op.n - bcur)
      BY <2>2, <3>1 DEF Place
    <3>5. Place' = Place + op.n
      BY <2>2, <2>3, <3>4
    <3> QED BY <3>1, <3>2, <3>3, <3>5
  <2>5. CASE ~(blen' >= op.n - bcur)
    <3>1. mode' = "loop" /\ bcur' = bcur + blen'
      BY <2>1, <2>5, <1>2 DEF ReadOn
    <3>2. Place' = (off + blen') - (bcur + blen')
      BY <2>2, <3>1 DEF Place
    <3> QED BY <2>2, <2>3, <3>1, <3>2, RunKept
  <2> QED BY <2>4, <2>5
<1> QED BY <1>1, <1>2

(* What a comparison passes; one that fails has met a byte that differs,   *)
(* and passes the whole name or what was left of a buffer.                 *)
Passed ==
  \/ result' = Cursor!Equal /\ op.n <= op.m /\ Place' = Place + op.n
  \/ \E k \in 0 .. op.n :
       /\ result' = Cursor!NotEqual(k) /\ op.m < k /\ Place' = Place + k
       /\ k = op.n \/ Place' = off'

LEMMA MovedCmp ==
  ASSUME NEW first \in Nat, NEW extent \in Nat, InvIn(first, extent), CmpHere \/ CmpOn
  PROVE  /\ mode' \in {"loop", "idle"}
         /\ mode' = "loop" => Place' = Place
         /\ mode' = "idle" => Passed
         /\ mode = "loop" \/ cur > 0 => cur' > 0
<1>1. op.n \in Nat /\ op.m \in Nat /\ op.m <= op.n /\ bcur \in Nat /\ mode \in {"called", "loop"}
  <2>1. op.kind = "cmp" /\ mode \in {"called", "loop"}
    BY DEF CmpHere, CmpOn
  <2> QED BY <2>1, OpsFacts DEF InvIn, TypeOK
<1>2. ASSUME NEW n \in Nat, Compared(n), bcur + n <= op.n, Place \in Int,
             mode' = "idle" => Place' = Place + (bcur + n),
             mode' = "loop" => Place' = Place,
             bcur + n = op.n \/ (mode' = "idle" => Place' = off')
      PROVE  /\ mode' \in {"loop", "idle"}
             /\ mode' = "loop" => Place' = Place
             /\ mode' = "idle" => Passed
  <2>1. CASE op.m < bcur + n
    <3>1. mode' = "idle" /\ result' = Cursor!NotEqual(bcur + n)
      BY <2>1, <1>2 DEF Compared, Return
    <3>2. bcur + n \in 0 .. op.n
      BY <1>1, <1>2
    <3> QED BY <1>2, <2>1, <3>1, <3>2 DEF Passed
  <2>2. CASE ~(op.m < bcur + n) /\ bcur + n = op.n
    <3>1. mode' = "idle" /\ result' = Cursor!Equal
      BY <2>2, <1>2 DEF Compared, Return
    <3> QED BY <1>1, <1>2, <2>2, <3>1 DEF Passed
  <2>3. CASE ~(op.m < bcur + n) /\ bcur + n # op.n
    BY <2>3, <1>2 DEF Compared
  <2> QED BY <2>1, <2>2, <2>3
<1>3. CASE CmpHere
  <2> DEFINE n == Lesser(Dlen, op.n)
  <2>1. /\ mode = "called" /\ bcur = 0 /\ off = start + blen
        /\ start \in Nat /\ blen \in Nat /\ cur \in 0 .. blen
        /\ UNCHANGED <<off, start, blen>> /\ cur' = cur + n /\ Compared(n)
    BY <1>3 DEF CmpHere, Window, InvIn, TypeOK, Window1
  <2>2. n \in Nat /\ bcur + n <= op.n /\ (n = blen - cur \/ n = op.n)
    BY <1>1, <2>1 DEF Lesser, Dlen
  <2> HIDE DEF n
  <2>3. Place = start + cur /\ Place \in Int
    BY <2>1 DEF Place
  <2>4. mode' = "idle" => Place' = start + (cur + n)
    BY <2>1 DEF Place
  <2>5. mode' = "loop" => bcur' = bcur + n /\ bcur + n # op.n
    BY <2>1 DEF Compared, Return
  <2>6. mode' = "loop" => Place' = (start + blen) - (blen - cur)
    BY <1>1, <2>1, <2>2, <2>5 DEF Place
  <2>7. mode' = "loop" => Place' = Place
    BY <2>1, <2>3, <2>6
  <2>8. mode' = "idle" => Place' = Place + (bcur + n)
    BY <2>1, <2>2, <2>3, <2>4
  <2>9. bcur + n = op.n \/ (mode' = "idle" => Place' = off')
    BY <1>1, <2>1, <2>2, <2>4
  <2>10. mode = "loop" \/ cur > 0 => cur' > 0
    BY <2>1, <2>2
  <2> QED BY <1>2, <2>1, <2>2, <2>3, <2>7, <2>8, <2>9, <2>10
<1>4. CASE CmpOn
  <2> DEFINE n == Lesser(blen', op.n - bcur)
  <2>1. mode = "loop" /\ len # 0 /\ TakeBuffer(off, len) /\ Compared(n) /\ cur' = n
    BY <1>4 DEF CmpOn
  <2>2. /\ bcur < op.n /\ off \in Nat /\ bcur <= off
        /\ blen' \in Nat /\ start' = off /\ off' = off + blen' /\ blen' > 0
    BY <2>1, RangeBuffer
  <2>3. n \in Nat /\ bcur + n <= op.n /\ (n = blen' \/ bcur + n = op.n) /\ n > 0
    BY <1>1, <2>2 DEF Lesser
  <2> HIDE DEF n
  <2>4. Place = off - bcur /\ Place \in Int
    BY <1>1, <2>1, <2>2 DEF Place
  <2>5. mode' = "idle" => Place' = off + n
    BY <2>1, <2>2 DEF Place
  <2>6. mode' = "loop" => bcur' = bcur + n /\ bcur + n # op.n
    BY <2>1 DEF Compared, Return
  <2>7. mode' = "loop" => Place' = (off + blen') - (bcur + blen')
    BY <2>2, <2>3, <2>6 DEF Place
  <2>8. mode' = "loop" => Place' = Place
    BY <1>1, <2>2, <2>4, <2>7, RunKept
  <2>9. mode' = "idle" => Place' = Place + (bcur + n)
    BY <1>1, <2>2, <2>3, <2>4, <2>5
  <2>10. bcur + n = op.n \/ (mode' = "idle" => Place' = off')
    BY <2>2, <2>3, <2>5
  <2> QED BY <1>2, <2>1, <2>3, <2>4, <2>8, <2>9, <2>10
<1> QED BY <1>3, <1>4

LEMMA MovedSkip ==
  ASSUME NEW first \in Nat, NEW extent \in Nat, InvIn(first, extent), SkipWithin
  PROVE  mode' = "idle" /\ Place' = Place + op.n
<1>1. /\ mode = "called" /\ start \in Nat /\ cur \in Nat /\ op.n \in Nat
      /\ mode' = "idle" /\ start' = start /\ cur' = cur + op.n
  BY OpsFacts DEF SkipWithin, Return, Window, InvIn, TypeOK
<1> QED BY <1>1 DEF Place

(* Only a call for more than the range has makes the cursor unwrap an      *)
(* exhausted iterator.                                                     *)
LEMMA UnwrapPast ==
  ASSUME NEW first \in Nat, NEW extent \in Nat, InvIn(first, extent), Unwrap
  PROVE  ~(Place + op.n <= first + extent)
<1>1. /\ mode = "loop" /\ len = 0 /\ off \in Nat /\ bcur \in Nat
      /\ off + len = first + extent /\ op.n \in Nat /\ bcur < op.n
  BY OpsFacts DEF Unwrap, InvIn, TypeOK, Window1, Loop
<1>2. Place = off - bcur /\ off = first + extent
  BY <1>1 DEF Place
<1> QED BY <1>1, <1>2

(* A turn of a call for what the range has.                                *)
LEMMA Moved ==
  ASSUME NEW first \in Nat, NEW extent \in Nat, InvIn(first, extent), Body,
         Place + op.n <= first + extent
  PROVE  /\ mode' \in {"loop", "idle"}
         /\ mode' = "loop" => Place' = Place /\ op' = op
         /\ mode' = "idle" =>
              /\ op.kind = "read" =>
                   /\ Place' = Place + op.n
                   /\ result' = Cursor!Bytes(Run(Place, op.n))
                   /\ cur > 0 \/ op.n > 0 => cur' > 0
              /\ op.kind = "cmp" => Passed
              /\ op.kind = "skip" => Place' = Place + op.n
         /\ op.kind = "cmp" /\ (mode = "loop" \/ cur > 0) => cur' > 0
<1>1. mode' = "loop" => op' = op
  BY SameCall
<1>2. CASE SkipWithin
  <2>1. op.kind = "skip"
    BY <1>2 DEF SkipWithin
  <2> QED BY <1>2, <2>1, MovedSkip
<1>3. CASE ReadHere \/ ReadOn
  <2>1. op.kind = "read"
    BY <1>3 DEF ReadHere, ReadOn
  <2> QED BY <1>1, <1>3, <2>1, MovedRead
<1>4. CASE CmpHere \/ CmpOn
  <2>1. op.kind = "cmp"
    BY <1>4 DEF CmpHere, CmpOn
  <2> QED BY <1>1, <1>4, <2>1, MovedCmp
<1>5. CASE Unwrap
  BY <1>5, UnwrapPast
<1> QED BY <1>2, <1>3, <1>4, <1>5 DEF Body

(* A buffer ends where its block does, or with the range. *)
Edge == mode \in {"idle", "called", "loop"} => off % BlkSz = 0 \/ len = 0

LEMMA TakenToEdge ==
  ASSUME NEW o \in Nat, NEW l \in Nat, TakeBuffer(o, l)
  PROVE  off' % BlkSz = 0 \/ len' = 0
<1> DEFINE q == o \div BlkSz
           r == o % BlkSz
<1>1. BlkSz \in Nat /\ BlkSz > 0
  BY GeometryAssumption
<1>2. o = (BlkSz * q) + r /\ r \in 0 .. BlkSz - 1 /\ q \in Nat
  BY <1>1
<1>3. LET n == Lesser(l, BlkSz - r) IN off' = o + n /\ len' = l - n
  BY DEF TakeBuffer, BlkAccess, Accessor
<1> HIDE DEF q, r
<1>4. CASE l <= BlkSz - r
  BY <1>3, <1>4 DEF Lesser
<1>5. CASE ~(l <= BlkSz - r)
  <2>1. off' = o + (BlkSz - r)
    BY <1>3, <1>5 DEF Lesser
  <2>2. off' = (BlkSz * q) + BlkSz
    BY <1>1, <1>2, <2>1
  <2>3. off' = BlkSz * (q + 1)
    BY <1>1, <1>2, <2>2
  <2>4. \A b \in Nat : b > 0 => \A x \in Nat : (b * x) % b = 0
    OBVIOUS
  <2> QED BY <1>1, <1>2, <2>3, <2>4
<1> QED BY <1>4, <1>5

LEMMA EdgeNext ==
  ASSUME TypeOK, Edge, TryNew \/ Body \/ SkipAcross
  PROVE  Edge'
<1>1. CASE UNCHANGED Window /\ mode \in {"idle", "called", "loop"}
  BY <1>1 DEF Edge, Window
<1>2. CASE mode' \in {"empty", "panicked"}
  BY <1>2 DEF Edge
<1>3. CASE TakeBuffer(off, len)
  BY <1>3, TakenToEdge DEF TypeOK, Edge
<1>4. CASE Dlen < len /\ TakeBuffer(off + Dlen, len - Dlen)
  <2>1. off + Dlen \in Nat /\ len - Dlen \in Nat
    BY <1>4 DEF TypeOK, Dlen
  <2> QED BY <1>4, <2>1, TakenToEdge DEF Edge
<1> QED BY <1>1, <1>2, <1>3, <1>4
    DEF TryNew, Body, SkipWithin, SkipAcross, ReadHere, ReadOn, CmpHere, CmpOn, Unwrap

(* From behind the first byte of a buffer, what lies in the block of the   *)
(* byte before and in the range is in the buffer.                          *)
LEMMA RestOfBlock ==
  ASSUME NEW first \in Nat, NEW extent \in Nat, InvIn(first, extent), InBlock, Edge,
         mode = "idle", cur > 0, NEW q \in Nat, q <= first + extent,
         (Place - 1) \div BlkSz = (q - 1) \div BlkSz, Place <= q
  PROVE  q <= off
<1>1. /\ off \in Nat /\ len \in Nat /\ start \in Nat /\ blen \in Nat /\ cur \in 1 .. blen
      /\ off = start + blen /\ off + len = first + extent /\ Place = start + cur
      /\ (start % BlkSz) + blen <= BlkSz /\ (off % BlkSz = 0 \/ len = 0)
  BY DEF InvIn, TypeOK, Window1, InBlock, Edge, Place
<1>2. CASE len = 0
  BY <1>1, <1>2
<1>3. CASE off % BlkSz = 0
  <2> DEFINE b == BlkSz
             k == off \div b
  <2>1. b \in Nat /\ b > 0
    BY GeometryAssumption
  <2>2. off = b * k /\ k \in Nat
    BY <1>1, <1>3, <2>1
  <2> SUFFICES ASSUME q > off PROVE FALSE
    BY <1>1
  <2>3. \A x, y \in Nat : x < b * y => x \div b < y
    BY <2>1
  <2>4. \A x, y \in Nat : b * y <= x => y <= x \div b
    BY <2>1
  <2> HIDE DEF b, k
  <2>5. Place - 1 \in Nat /\ Place - 1 < b * k
    BY <1>1, <2>2
  <2>6. q - 1 \in Nat /\ b * k <= q - 1
    BY <1>1, <2>2
  <2>7. (Place - 1) \div b < k /\ k <= (q - 1) \div b
    BY <2>2, <2>3, <2>4, <2>5, <2>6
  <2>8. (Place - 1) \div b \in Int /\ (q - 1) \div b \in Int
    BY <2>1, <2>5, <2>6 DEF b
  <2> QED BY <2>2, <2>7, <2>8 DEF b
<1> QED BY <1>1, <1>2, <1>3

-----------------------------------------------------------------------------
LEMMA InitInv == Init => Inv
<1> SUFFICES ASSUME Init PROVE Inv
  OBVIOUS
<1>1. op = NoOp /\ NoOp.kind = "none" /\ result.kind = "none"
  BY DEF Init, NoOp, Cursor!NoOp, Cursor!NoResult
<1> QED BY <1>1, CursorAssumption DEF Init, Inv, InvIn, TypeOK, Window1, Loop, Results

LEMMA InvNext == Inv /\ [Next]_vars => Inv'
<1>1. Base \in Nat /\ Length \in Nat
  BY CursorAssumption
<1> QED BY <1>1, RangeNext DEF Inv

LEMMA LoopBuffer ==
  ASSUME Inv, mode = "loop", len # 0, TakeBuffer(off, len)
  PROVE  /\ op \in Cursor!Ops /\ op # NoOp /\ op.n \in Nat /\ bcur \in Nat /\ bcur < op.n
         /\ off \in Nat /\ Base <= off - bcur /\ Base <= off /\ bcur <= off
         /\ off' \in Nat /\ len' \in Nat /\ start' \in Nat /\ blen' \in Nat
         /\ start' = off /\ off' = off + blen' /\ blen' > 0
         /\ off' = start' + blen' /\ Base <= start' /\ off' + len' = Base + Length
<1>1. Base \in Nat /\ Length \in Nat
  BY CursorAssumption
<1> QED BY <1>1, RangeBuffer DEF Inv

(* The cursor's variables keep their types, whatever callers ask for.      *)
THEOREM TypeCorrect == Spec => []TypeOK
<1>1. Inv => TypeOK
  BY DEF Inv, InvIn
<1> QED BY <1>1, InitInv, InvNext, PTL DEF Spec

(* What a read returns is always a run of consecutive bytes of the range,  *)
(* whatever lengths the entries claim.                                     *)
THEOREM RangeCorrect == Spec => []StaysInRange
<1>1. Inv => StaysInRange
  <2> SUFFICES ASSUME Inv, result.kind = "bytes", NEW j \in DOMAIN result.bytes
               PROVE  /\ result.bytes[j] = result.bytes[0] + j
                      /\ result.bytes[j] \in Base .. Base + Length - 1
    BY DEF StaysInRange
  <2>1. PICK a \in Nat, n \in Nat :
          Base <= a /\ a + n <= Base + Length /\ result.bytes = Run(a, n)
    BY DEF Inv, InvIn, Results
  <2>2. j \in 0 .. n - 1 /\ result.bytes[j] = a + j /\ result.bytes[0] = a
    BY <2>1 DEF Run
  <2> QED BY <2>1, <2>2, CursorAssumption
<1> QED BY <1>1, InitInv, InvNext, PTL DEF Spec

(* eof() holds between two calls exactly when the range is used up.        *)
THEOREM EofCorrect == Spec => []EofAtTheEnd
<1>1. Inv => EofAtTheEnd
  <2> SUFFICES ASSUME Inv, mode = "idle" PROVE Eof <=> Pos = Length
    BY DEF EofAtTheEnd
  <2>1. /\ off \in Nat /\ len \in Nat /\ start \in Nat /\ blen \in Nat /\ cur \in 0 .. blen
        /\ off = start + blen /\ off + len = Base + Length
    BY DEF Inv, InvIn, TypeOK, Window1
  <2>2. Pos = start + cur - Base
    BY DEF Pos
  <2> QED BY <2>1, <2>2, CursorAssumption DEF Eof, Dlen
<1> QED BY <1>1, InitInv, InvNext, PTL DEF Spec

-----------------------------------------------------------------------------
(* Callers that ask only for what the range still has: the call in progress *)
(* ends in the range, so its loop never finds the iterator exhausted.       *)
Asked ==
  /\ mode = "called" => start + cur + op.n <= Base + Length
  /\ mode = "loop" => (off - bcur) + op.n <= Base + Length
  /\ mode # "panicked"

LEMMA InvNextLocal == Inv /\ [NextLocal]_vars => Inv'
<1>1. NextLocal => Next
  BY DEF NextLocal, Next, CallLocal
<1> QED BY <1>1, InvNext

LEMMA AskedReadHere == Inv /\ Asked /\ ReadHere => Asked'
<1> SUFFICES ASSUME Inv, Asked, ReadHere PROVE Asked'
  OBVIOUS
<1>1. CASE Dlen >= op.n
  BY <1>1 DEF ReadHere, Return, Asked
<1>2. CASE ~(Dlen >= op.n)
  <2>1. /\ mode = "called" /\ mode' = "loop" /\ bcur' = blen - cur
        /\ off' = off /\ op' = op
    BY <1>2 DEF ReadHere, Window, Dlen
  <2>2. start \in Nat /\ blen \in Nat /\ cur \in Nat /\ off = start + blen
    BY <2>1 DEF Inv, InvIn, TypeOK, Window1
  <2>3. off - (blen - cur) = start + cur
    BY <2>2
  <2>4. off' - bcur' = start + cur
    BY <2>1, <2>3
  <2> QED BY <2>1, <2>4 DEF Asked
<1> QED BY <1>1, <1>2

LEMMA AskedReadOn == Inv /\ Asked /\ ReadOn => Asked'
<1> SUFFICES ASSUME Inv, Asked, ReadOn PROVE Asked'
  OBVIOUS
<1>1. mode = "loop" /\ len # 0 /\ TakeBuffer(off, len)
  BY DEF ReadOn
<1>2. CASE blen' >= op.n - bcur
  BY <1>2 DEF ReadOn, Return, Asked
<1>3. CASE ~(blen' >= op.n - bcur)
  <2>1. mode' = "loop" /\ bcur' = bcur + blen' /\ op' = op
    BY <1>1, <1>3 DEF ReadOn
  <2>2. off \in Nat /\ bcur \in Nat /\ blen' \in Nat /\ bcur <= off /\ off' = off + blen'
    BY <1>1, LoopBuffer
  <2>3. (off + blen') - (bcur + blen') = off - bcur
    BY <2>2, RunStart
  <2>4. off' - bcur' = off - bcur
    BY <2>1, <2>2, <2>3
  <2> QED BY <1>1, <2>1, <2>4 DEF Asked
<1> QED BY <1>2, <1>3

LEMMA AskedCmpHere == Inv /\ Asked /\ CmpHere => Asked'
<1> SUFFICES ASSUME Inv, Asked, CmpHere PROVE Asked'
  OBVIOUS
<1> DEFINE n == Lesser(Dlen, op.n)
<1>1. /\ mode = "called" /\ op \in Cursor!Ops /\ bcur = 0 /\ Compared(n)
      /\ off' = off
  BY DEF CmpHere, Inv, InvIn, TypeOK, Window
<1>2. start \in Nat /\ blen \in Nat /\ cur \in Nat /\ off = start + blen /\ op.n \in Nat
  BY <1>1, OpsFacts DEF Inv, InvIn, TypeOK, Window1
<1>3. CASE op.m < bcur + n \/ bcur + n = op.n
  BY <1>1, <1>3 DEF Compared, Return, Asked, Cursor!Equal, Cursor!NotEqual
<1>4. CASE ~(op.m < bcur + n \/ bcur + n = op.n)
  <2>1. mode' = "loop" /\ bcur' = bcur + n /\ op' = op
    BY <1>1, <1>4 DEF Compared
  <2>2. n = blen - cur \/ n = op.n
    BY DEF Lesser, Dlen
  <2>3. n # op.n
    BY <1>1, <1>2, <1>4
  <2>4. off' - bcur' = start + cur
    <3>1. bcur' = blen - cur
      BY <1>1, <1>2, <2>1, <2>2, <2>3
    <3>2. off - (blen - cur) = start + cur
      BY <1>2
    <3> QED BY <1>1, <3>1, <3>2
  <2> QED BY <1>1, <2>1, <2>4 DEF Asked
<1> QED BY <1>3, <1>4

LEMMA AskedCmpOn == Inv /\ Asked /\ CmpOn => Asked'
<1> SUFFICES ASSUME Inv, Asked, CmpOn PROVE Asked'
  OBVIOUS
<1> DEFINE n == Lesser(blen', op.n - bcur)
<1>1. mode = "loop" /\ len # 0 /\ TakeBuffer(off, len) /\ Compared(n)
  BY DEF CmpOn
<1>2. /\ off \in Nat /\ bcur \in Nat /\ blen' \in Nat /\ op.n \in Nat
      /\ bcur <= off /\ off' = off + blen'
  BY <1>1, LoopBuffer
<1>3. CASE op.m < bcur + n \/ bcur + n = op.n
  BY <1>1, <1>3 DEF Compared, Return, Asked
<1>4. CASE ~(op.m < bcur + n \/ bcur + n = op.n)
  <2>1. mode' = "loop" /\ bcur' = bcur + n /\ op' = op
    BY <1>1, <1>4 DEF Compared
  <2>2. n = blen' \/ n = op.n - bcur
    BY DEF Lesser
  <2>3. bcur + (op.n - bcur) = op.n
    BY <1>2
  <2>4. n = blen'
    BY <1>4, <2>2, <2>3
  <2>5. (off + blen') - (bcur + blen') = off - bcur
    BY <1>2, RunKept
  <2>6. off' - bcur' = off - bcur
    BY <1>2, <2>1, <2>4, <2>5
  <2> QED BY <1>1, <2>1, <2>6 DEF Asked
<1> QED BY <1>3, <1>4

LEMMA AskedNoUnwrap == Inv /\ Asked => ~Unwrap
<1> SUFFICES ASSUME Inv, Asked, Unwrap PROVE FALSE
  OBVIOUS
<1>1. mode = "loop" /\ len = 0
  BY DEF Unwrap
<1>2. off \in Nat /\ bcur \in Nat /\ op \in Cursor!Ops /\ off + len = Base + Length
  BY <1>1 DEF Inv, InvIn, TypeOK, Window1
<1>3. op.n \in Nat /\ bcur < op.n
  BY <1>1, <1>2, OpsFacts DEF Inv, InvIn, Loop
<1>4. (off - bcur) + op.n <= Base + Length
  BY <1>1 DEF Asked
<1>5. off = Base + Length
  BY <1>1, <1>2
<1>6. (off - bcur) + op.n <= off
  BY <1>4, <1>5
<1> QED BY <1>2, <1>3, <1>6

LEMMA AskedNext == Inv /\ Asked /\ [NextLocal]_vars => Asked'
<1> SUFFICES ASSUME Inv, Asked, [NextLocal]_vars PROVE Asked'
  OBVIOUS
<1>1. CASE TryNew
  BY <1>1 DEF TryNew, Asked
<1>2. CASE \E o \in Cursor!Ops : CallLocal(o)
  <2>1. PICK o \in Cursor!Ops : CallLocal(o)
    BY <1>2
  <2>2. /\ mode = "idle" /\ mode' = "called" /\ op' = o
        /\ start' = start /\ cur' = cur /\ Pos + o.n <= Length
    BY <2>1 DEF CallLocal, Call, Window
  <2>3. Pos = start + cur - Base
    BY <2>2 DEF Pos
  <2>4. start \in Nat /\ cur \in Nat /\ o.n \in Nat
    BY OpsFacts DEF Inv, InvIn, TypeOK
  <2>5. start + cur + o.n <= Base + Length
    BY <2>2, <2>3, <2>4, CursorAssumption
  <2> QED BY <2>2, <2>5 DEF Asked
<1>3. CASE SkipWithin
  BY <1>3 DEF SkipWithin, Return, Asked
<1>4. CASE ReadHere \/ ReadOn \/ CmpHere \/ CmpOn
  BY <1>4, AskedReadHere, AskedReadOn, AskedCmpHere, AskedCmpOn
<1>5. CASE Unwrap
  BY <1>5, AskedNoUnwrap
<1>6. CASE BackendFails
  BY <1>6 DEF BackendFails, Asked
<1>7. CASE UNCHANGED vars
  BY <1>7 DEF vars, Asked
<1> QED BY <1>1, <1>2, <1>3, <1>4, <1>5, <1>6, <1>7 DEF NextLocal, Body

(* A caller that asks only for what the range still has never makes the    *)
(* cursor unwrap an exhausted iterator, wherever the buffers end.          *)
THEOREM UnwrapUnreached == LocalSpec => []NeverUnwraps
<1>1. Init => Asked
  BY DEF Init, Asked
<1>2. Asked => NeverUnwraps
  BY DEF Asked, NeverUnwraps
<1>3. Init /\ [][NextLocal]_vars => []Inv
  BY InitInv, InvNextLocal, PTL
<1> QED BY <1>1, <1>2, <1>3, AskedNext, PTL DEF LocalSpec

-----------------------------------------------------------------------------
(* The cursor of such a caller is a linear one.  A new cursor starts at the *)
(* beginning of the range, and a comparison that goes on has not met a      *)
(* byte that differs.                                                       *)
Fresh == mode = "closed" => off = Base /\ len = Length

SoFarEqual == mode = "loop" /\ op.kind = "cmp" => bcur <= op.m

Local == Inv /\ Asked /\ Fresh /\ SoFarEqual

LEMMA InitLocal == Init => Local
<1> SUFFICES ASSUME Init PROVE Local
  OBVIOUS
<1>1. Asked /\ Fresh /\ SoFarEqual
  BY DEF Init, Asked, Fresh, SoFarEqual
<1> QED BY <1>1, InitInv DEF Local

(* A comparison goes on only behind a chunk that was equal. *)
LEMMA ComparedSoFar ==
  ASSUME NEW n \in Nat, Compared(n), bcur \in Nat, op.m \in Nat
  PROVE  mode' = "loop" => op' = op /\ bcur' <= op'.m
<1>1. CASE op.m < bcur + n \/ bcur + n = op.n
  BY <1>1 DEF Compared, Return
<1>2. CASE ~(op.m < bcur + n \/ bcur + n = op.n)
  BY <1>2 DEF Compared
<1> QED BY <1>1, <1>2

LEMMA LocalNext == Local /\ [NextLocal]_vars => Local'
<1> SUFFICES ASSUME Local, [NextLocal]_vars PROVE Local'
  OBVIOUS
<1>1. Inv' /\ Asked'
  BY InvNextLocal, AskedNext DEF Local
<1>2. Fresh'
  <2>1. CASE UNCHANGED vars
    BY <2>1 DEF vars, Local, Fresh
  <2>2. CASE NextLocal
    <3>1. mode' # "closed"
      BY <2>2 DEF NextLocal, TryNew, CallLocal, Call, Body, SkipWithin, ReadHere, ReadOn, CmpHere,
                  CmpOn, Compared, Return, Unwrap, BackendFails, Local, Inv, TypeOK
    <3> QED BY <3>1 DEF Fresh
  <2> QED BY <2>1, <2>2
<1>3. SoFarEqual'
  <2>1. CASE UNCHANGED vars
    BY <2>1 DEF vars, Local, SoFarEqual
  <2>2. CASE CmpHere
    <3>1. mode = "called" /\ op.kind = "cmp" /\ Compared(Lesser(Dlen, op.n))
      BY <2>2 DEF CmpHere
    <3>2. op.m \in Nat /\ op.n \in Nat /\ bcur \in Nat /\ Dlen \in Nat
      BY <3>1, OpsFacts DEF Local, Inv, InvIn, TypeOK, Dlen
    <3>3. Lesser(Dlen, op.n) \in Nat
      BY <3>2 DEF Lesser
    <3> QED BY <3>1, <3>2, <3>3, ComparedSoFar DEF SoFarEqual
  <2>5. CASE CmpOn
    <3>1. /\ mode = "loop" /\ op.kind = "cmp" /\ Compared(Lesser(blen', op.n - bcur))
          /\ len # 0 /\ TakeBuffer(off, len)
      BY <2>5 DEF CmpOn
    <3>2. op.m \in Nat /\ op.n \in Nat /\ bcur \in Nat /\ bcur < op.n /\ blen' \in Nat
      BY <3>1, OpsFacts, LoopBuffer DEF Local
    <3>3. Lesser(blen', op.n - bcur) \in Nat
      BY <3>2 DEF Lesser
    <3> QED BY <3>1, <3>2, <3>3, ComparedSoFar DEF SoFarEqual
  <2>3. CASE TryNew \/ (\E o \in Cursor!Ops : CallLocal(o)) \/ SkipWithin \/ Unwrap \/ BackendFails
    <3>1. mode' # "loop"
      BY <2>3 DEF TryNew, CallLocal, Call, SkipWithin, Return, Unwrap, BackendFails, Local,
                     Inv, InvIn, TypeOK
    <3> QED BY <3>1 DEF SoFarEqual
  <2>4. CASE ReadHere \/ ReadOn
    BY <2>4 DEF ReadHere, ReadOn, Return, SoFarEqual, NoOp, Cursor!NoOp
  <2> QED BY <2>1, <2>2, <2>3, <2>4, <2>5 DEF NextLocal, Body
<1> QED BY <1>1, <1>2, <1>3 DEF Local

(* A step that ends a call finishes the linear call, k bytes further.      *)
LEMMA FinishStep ==
  ASSUME mode \in {"called", "loop"}, NEW r, Return(r), NEW k, Pos' = Pos + k
  PROVE  Cursor!Finish(k, r)
<1>1. mode' = "idle" /\ result' = r /\ op' = NoOp
  BY DEF Return
<1>2. Phase = "open" /\ Phase' = "open"
  BY <1>1 DEF Phase
<1> QED BY <1>1, <1>2 DEF Cursor!Finish, NoOp

LEMMA TryNewStep == Local /\ TryNew => Cursor!Open
<1> SUFFICES ASSUME Local, TryNew PROVE Cursor!Open
  OBVIOUS
<1>1. /\ mode = "closed" /\ off = Base /\ len = Length /\ cur = 0 /\ start = Base
      /\ UNCHANGED <<cur, op, result>>
  <2>1. mode = "closed" /\ off = Base /\ len = Length /\ UNCHANGED <<cur, op, result>>
    BY DEF TryNew, Local, Fresh
  <2>2. blen = 0 /\ cur \in 0 .. blen /\ off = start + blen /\ start \in Nat
    BY <2>1 DEF Local, Inv, InvIn, TypeOK, Window1
  <2> QED BY <2>1, <2>2
<1>2. Pos = 0 /\ Phase = "closed"
  BY <1>1, CursorAssumption DEF Pos, Phase
<1>3. CASE Length = 0
  <2>1. mode' = "empty" /\ start' = start
    BY <1>1, <1>3 DEF TryNew, Window
  <2> QED BY <1>1, <1>2, <1>3, <2>1, CursorAssumption DEF Cursor!Open, Pos, Phase
<1>4. CASE Length # 0
  <2>1. mode' = "idle" /\ start' = Base
    BY <1>1, <1>4 DEF TryNew, TakeBuffer
  <2> QED BY <1>1, <1>2, <1>4, <2>1, CursorAssumption DEF Cursor!Open, Pos, Phase
<1> QED BY <1>3, <1>4

LEMMA CallStep ==
  ASSUME NEW o \in Cursor!Ops, Local, CallLocal(o)
  PROVE  Cursor!Begin(o)
<1>1. /\ mode = "idle" /\ mode' = "called" /\ op' = o /\ UNCHANGED <<start, cur, result>>
      /\ Pos + o.n <= Length
  BY DEF CallLocal, Call, Window
<1>2. op = NoOp
  BY <1>1 DEF Local, Inv, InvIn, TypeOK
<1>3. Pos' = Pos /\ Phase = "open" /\ Phase' = "open"
  BY <1>1 DEF Pos, Phase
<1> QED BY <1>1, <1>2, <1>3 DEF Cursor!Begin, NoOp

(* What a call that is in progress knows. *)
LEMMA CalledFacts ==
  ASSUME Local, mode = "called"
  PROVE  /\ start \in Nat /\ blen \in Nat /\ cur \in Nat /\ cur <= blen /\ bcur = 0
         /\ off = start + blen /\ op \in Cursor!Ops /\ op.n \in Nat
         /\ Pos = start + cur - Base
BY OpsFacts DEF Local, Inv, InvIn, TypeOK, Window1, Pos

LEMMA SkipStep == Local /\ SkipWithin => Cursor!Skip
<1> SUFFICES ASSUME Local, SkipWithin PROVE Cursor!Skip
  OBVIOUS
<1>1. /\ mode = "called" /\ op.kind = "skip" /\ cur' = cur + op.n /\ start' = start
      /\ Return(Cursor!Done) /\ mode' = "idle"
  BY DEF SkipWithin, Window, Return
<1>2. Pos' = start + (cur + op.n) - Base
  BY <1>1 DEF Pos
<1>3. Pos' = Pos + op.n
  BY <1>1, <1>2, CalledFacts, CursorAssumption
<1> QED BY <1>1, <1>3, FinishStep DEF Cursor!Skip

(* The bytes a read returns are the next of the range. *)
LEMMA BytesStep ==
  ASSUME mode \in {"called", "loop"}, op.kind = "read", NEW a \in Int, a = Base + Pos, Pos \in Int,
         Return(Cursor!Bytes(Run(a, op.n))), Pos' = Pos + op.n
  PROVE  Cursor!Read
<1>1. Run(a, op.n) = [j \in 0 .. op.n - 1 |-> Base + Pos + j]
  BY DEF Run
<1>2. Cursor!Finish(op.n, Cursor!Bytes(Run(a, op.n)))
  BY FinishStep
<1> QED BY <1>1, <1>2 DEF Cursor!Read

(* A loop counts what it adds to both ends. *)
LEMMA BothEnds ==
  ASSUME NEW o \in Nat, NEW b \in Nat, NEW x \in Nat
  PROVE  (o + x) - Base - (b + x) = o - Base - b
BY CursorAssumption

(* The position does not move while a call goes on. *)
LEMMA GoesOn ==
  ASSUME mode \in {"called", "loop"}, mode' = "loop", op' = op, result' = result, Pos' = Pos
  PROVE  UNCHANGED Cursor!vars
BY DEF Cursor!vars, Phase

LEMMA ReadHereStep == Local /\ ReadHere => Cursor!Read \/ UNCHANGED Cursor!vars
<1> SUFFICES ASSUME Local, ReadHere PROVE Cursor!Read \/ UNCHANGED Cursor!vars
  OBVIOUS
<1>1. mode = "called" /\ op.kind = "read" /\ UNCHANGED <<start, off>>
  BY DEF ReadHere, Window
<1>2. CASE Dlen >= op.n
  <2>1. /\ cur' = cur + op.n /\ Return(Cursor!Bytes(Copied(start + cur, op.n)))
        /\ mode' = "idle"
    BY <1>2 DEF ReadHere, Return
  <2>2. Copied(start + cur, op.n) = Run(start + cur, op.n)
    BY <1>1, CalledFacts, CopiedFirst
  <2>3. Pos' = start + (cur + op.n) - Base
    BY <1>1, <2>1 DEF Pos
  <2>4. Pos' = Pos + op.n /\ Pos \in Int /\ start + cur \in Int /\ start + cur = Base + Pos
    BY <1>1, <2>3, CalledFacts, CursorAssumption
  <2> QED BY <1>1, <2>1, <2>2, <2>4, BytesStep
<1>3. CASE ~(Dlen >= op.n)
  <2>1. mode' = "loop" /\ bcur' = blen - cur /\ op' = op /\ result' = result
    BY <1>3 DEF ReadHere, Dlen
  <2>2. Pos' = off - Base - (blen - cur)
    BY <1>1, <2>1 DEF Pos
  <2>3. Pos' = Pos
    BY <1>1, <2>2, CalledFacts, CursorAssumption
  <2> QED BY <1>1, <2>1, <2>3, GoesOn
<1> QED BY <1>2, <1>3

LEMMA ReadOnStep == Local /\ ReadOn => Cursor!Read \/ UNCHANGED Cursor!vars
<1> SUFFICES ASSUME Local, ReadOn PROVE Cursor!Read \/ UNCHANGED Cursor!vars
  OBVIOUS
<1>1. mode = "loop" /\ op.kind = "read" /\ len # 0 /\ TakeBuffer(off, len)
  BY DEF ReadOn
<1>2. /\ op.n \in Nat /\ bcur \in Nat /\ bcur < op.n /\ off \in Nat /\ bcur <= off
      /\ blen' \in Nat /\ start' = off /\ off' = off + blen'
  BY <1>1, LoopBuffer DEF Local
<1>3. buf = Run(off - bcur, bcur) /\ Pos = off - Base - bcur
  BY <1>1 DEF Local, Inv, InvIn, Loop, Pos
<1>4. CASE blen' >= op.n - bcur
  <2>1. /\ cur' = op.n - bcur /\ Return(Cursor!Bytes(Copied(off, op.n - bcur)))
        /\ mode' = "idle"
    BY <1>1, <1>4 DEF ReadOn, Return
  <2>2. op.n - bcur \in Nat /\ bcur + (op.n - bcur) = op.n
    BY <1>2
  <2>3. Copied(off, op.n - bcur) = Run(off - bcur, op.n)
    BY <1>2, <1>3, <2>2, CopiedOn
  <2>4. Pos' = off + (op.n - bcur) - Base
    BY <1>2, <2>1 DEF Pos
  <2>5. Pos' = Pos + op.n /\ Pos \in Int /\ off - bcur \in Int /\ off - bcur = Base + Pos
    BY <1>2, <1>3, <2>4, CursorAssumption
  <2> QED BY <1>1, <2>1, <2>3, <2>5, BytesStep
<1>5. CASE ~(blen' >= op.n - bcur)
  <2>1. mode' = "loop" /\ bcur' = bcur + blen' /\ op' = op /\ result' = result
    BY <1>1, <1>5 DEF ReadOn
  <2>2. Pos' = (off + blen') - Base - (bcur + blen')
    BY <1>2, <2>1 DEF Pos
  <2>3. Pos' = Pos
    BY <1>2, <1>3, <2>2, BothEnds
  <2> QED BY <1>1, <2>1, <2>3, GoesOn
<1> QED BY <1>4, <1>5

(* A comparison that has passed k bytes of its argument in the end.        *)
LEMMA ComparedStep ==
  ASSUME mode \in {"called", "loop"}, op.kind = "cmp", op \in Cursor!Ops,
         bcur \in Nat, NEW n \in Nat, Compared(n), bcur <= op.m, bcur + n <= op.n,
         mode' = "idle" => Pos' = Pos + (bcur + n),
         mode' = "loop" => Pos' = Pos
  PROVE  Cursor!Compare \/ UNCHANGED Cursor!vars
<1>1. op.n \in Nat /\ op.m \in Nat /\ op.m <= op.n
  BY OpsFacts
<1>2. CASE op.m < bcur + n
  <2>1. Return(Cursor!NotEqual(bcur + n)) /\ mode' = "idle"
    BY <1>2 DEF Compared, Return
  <2>2. Cursor!Finish(bcur + n, Cursor!NotEqual(bcur + n))
    BY <2>1, FinishStep
  <2>3. op.m # op.n /\ bcur + n \in op.m + 1 .. op.n
    BY <1>1, <1>2
  <2> QED BY <2>2, <2>3 DEF Cursor!Compare
<1>3. CASE ~(op.m < bcur + n) /\ bcur + n = op.n
  <2>1. Return(Cursor!Equal) /\ mode' = "idle"
    BY <1>3 DEF Compared, Return
  <2>2. Cursor!Finish(op.n, Cursor!Equal)
    BY <1>3, <2>1, FinishStep
  <2>3. op.m = op.n
    BY <1>1, <1>3
  <2> QED BY <2>2, <2>3 DEF Cursor!Compare
<1>4. CASE ~(op.m < bcur + n) /\ bcur + n # op.n
  <2>1. mode' = "loop" /\ op' = op /\ result' = result
    BY <1>4 DEF Compared
  <2> QED BY <2>1, GoesOn
<1> QED BY <1>2, <1>3, <1>4

LEMMA CmpHereStep == Local /\ CmpHere => Cursor!Compare \/ UNCHANGED Cursor!vars
<1> SUFFICES ASSUME Local, CmpHere PROVE Cursor!Compare \/ UNCHANGED Cursor!vars
  OBVIOUS
<1> DEFINE n == Lesser(Dlen, op.n)
<1>1. /\ mode = "called" /\ op.kind = "cmp" /\ Compared(n) /\ cur' = cur + n
      /\ UNCHANGED <<start, off>>
  BY DEF CmpHere, Window
<1>2. op.m \in Nat /\ n \in Nat /\ n <= op.n /\ (n = blen - cur \/ n = op.n)
  BY <1>1, CalledFacts, OpsFacts DEF Lesser, Dlen
<1> HIDE DEF n
<1>3. mode' = "idle" => Pos' = Pos + (bcur + n)
  <2>1. SUFFICES ASSUME mode' = "idle" PROVE Pos' = Pos + (bcur + n)
    OBVIOUS
  <2>2. Pos' = start + (cur + n) - Base
    BY <1>1, <2>1 DEF Pos
  <2> QED BY <1>1, <1>2, <2>2, CalledFacts, CursorAssumption
<1>4. mode' = "loop" => Pos' = Pos
  <2>1. SUFFICES ASSUME mode' = "loop" PROVE Pos' = Pos
    OBVIOUS
  <2>2. bcur' = bcur + n /\ bcur + n # op.n
    BY <1>1, <2>1 DEF Compared, Return
  <2>3. n = blen - cur /\ bcur' = blen - cur
    BY <1>1, <1>2, <2>2, CalledFacts
  <2>4. Pos' = off - Base - (blen - cur)
    BY <1>1, <2>1, <2>3 DEF Pos
  <2> QED BY <1>1, <2>4, CalledFacts, CursorAssumption
<1>5. bcur = 0 /\ bcur + n <= op.n /\ bcur <= op.m /\ bcur \in Nat /\ op \in Cursor!Ops
  BY <1>1, <1>2, CalledFacts
<1> QED BY <1>1, <1>2, <1>3, <1>4, <1>5, ComparedStep

LEMMA CmpOnStep == Local /\ CmpOn => Cursor!Compare \/ UNCHANGED Cursor!vars
<1> SUFFICES ASSUME Local, CmpOn PROVE Cursor!Compare \/ UNCHANGED Cursor!vars
  OBVIOUS
<1> DEFINE n == Lesser(blen', op.n - bcur)
<1>1. /\ mode = "loop" /\ op.kind = "cmp" /\ Compared(n) /\ cur' = n
      /\ len # 0 /\ TakeBuffer(off, len)
  BY DEF CmpOn
<1>2. /\ op \in Cursor!Ops /\ op.n \in Nat /\ bcur \in Nat /\ bcur < op.n /\ off \in Nat
      /\ bcur <= off /\ blen' \in Nat /\ start' = off /\ off' = off + blen'
  BY <1>1, LoopBuffer DEF Local
<1>3. n \in Nat /\ bcur + n <= op.n /\ (n = blen' \/ bcur + n = op.n)
  BY <1>2 DEF Lesser
<1> HIDE DEF n
<1>4. Pos = off - Base - bcur
  BY <1>1 DEF Pos
<1>5. mode' = "idle" => Pos' = Pos + (bcur + n)
  <2>1. SUFFICES ASSUME mode' = "idle" PROVE Pos' = Pos + (bcur + n)
    OBVIOUS
  <2>2. Pos' = off + n - Base
    BY <1>1, <1>2, <2>1 DEF Pos
  <2> QED BY <1>2, <1>3, <1>4, <2>2, CursorAssumption
<1>6. mode' = "loop" => Pos' = Pos
  <2>1. SUFFICES ASSUME mode' = "loop" PROVE Pos' = Pos
    OBVIOUS
  <2>2. bcur' = bcur + n /\ bcur + n # op.n
    BY <1>1, <2>1 DEF Compared, Return
  <2>3. Pos' = (off + blen') - Base - (bcur + blen')
    BY <1>2, <1>3, <2>1, <2>2 DEF Pos
  <2> QED BY <1>2, <1>4, <2>3, BothEnds
<1>7. bcur <= op.m
  BY <1>1 DEF Local, SoFarEqual
<1> QED BY <1>1, <1>2, <1>3, <1>5, <1>6, <1>7, ComparedStep

LEMMA LocalStep == Local /\ [NextLocal]_vars => [Cursor!Next]_(Cursor!vars)
<1> SUFFICES ASSUME Local, [NextLocal]_vars PROVE [Cursor!Next]_(Cursor!vars)
  OBVIOUS
<1>1. CASE TryNew
  BY <1>1, TryNewStep DEF Cursor!Next
<1>2. CASE \E o \in Cursor!Ops : CallLocal(o)
  BY <1>2, CallStep DEF Cursor!Next
<1>3. CASE SkipWithin
  BY <1>3, SkipStep DEF Cursor!Next
<1>4. CASE ReadHere \/ ReadOn
  BY <1>4, ReadHereStep, ReadOnStep DEF Cursor!Next
<1>5. CASE CmpHere \/ CmpOn
  BY <1>5, CmpHereStep, CmpOnStep DEF Cursor!Next
<1>6. CASE Unwrap
  BY <1>6, AskedNoUnwrap DEF Local
<1>7. CASE BackendFails
  <2>1. Cursor!Fail
    BY <1>7 DEF BackendFails, Cursor!Fail, Pos, Phase, NoOp
  <2> QED BY <2>1 DEF Cursor!Next
<1>8. CASE UNCHANGED vars
  BY <1>8 DEF vars, Cursor!vars, Pos, Phase
<1> QED BY <1>1, <1>2, <1>3, <1>4, <1>5, <1>6, <1>7, <1>8 DEF NextLocal, Body

(* Callers that ask for what the range still has and skip inside the buffer *)
(* have a cursor that does not know of blocks: reads and comparisons over   *)
(* any number of buffers pass exactly the bytes they are asked for          *)
(* (SkippableContinuousIter).                                               *)
THEOREM LocalImplementsCursor == LocalSpec => ImplementsCursor
<1>1. Init => Cursor!Init
  BY CursorAssumption DEF Init, Cursor!Init, Pos, Phase, NoOp
<1> QED BY <1>1, InitLocal, LocalNext, LocalStep, PTL DEF LocalSpec, ImplementsCursor, Cursor!Spec
=============================================================================
