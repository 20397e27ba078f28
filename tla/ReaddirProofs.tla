--------------------------- MODULE ReaddirProofs ---------------------------
(***************************************************************************)
(* The buffers fill_dentries gets, the entries it emits and the listings   *)
(* its clients put together from them, for every block size and every set  *)
(* of directories, offsets and clients.                                    *)
(***************************************************************************)
EXTENDS Readdir, LayoutProofs

-----------------------------------------------------------------------------
LEMMA DirsStored ==
  \A d \in Dirs : WellStored(d) /\ IsDirectory(d)
BY ReaddirAssumption DEF WellStored

LEMMA RoundDownWhole ==
  ASSUME NEW n \in Nat
  PROVE  /\ RoundDown(n, BlkSz) \in Nat
         /\ RoundDown(n, BlkSz) <= n
         /\ Whole(RoundDown(n, BlkSz), BlkSz)
<1> DEFINE q == n \div BlkSz
<1>1. BlkSz \in Nat \ {0}
  BY GeometryAssumption
<1>2. n = (BlkSz * q) + (n % BlkSz) /\ n % BlkSz \in 0 .. BlkSz - 1 /\ q \in Nat
  BY <1>1, DivMod
<1>3. RoundDown(n, BlkSz) = BlkPos(q)
  BY DEF RoundDown, BlkPos
<1> HIDE DEF q
<1>4. BlkPos(q) = BlkSz * q
  BY <1>1, <1>2 DEF BlkPos
<1>5. BlkPos(q) \in Nat /\ Whole(BlkPos(q), BlkSz)
  BY <1>2, WholeBlock
<1> QED BY <1>1, <1>2, <1>3, <1>4, <1>5

-----------------------------------------------------------------------------
(* The invariant: the types and the buffers rest on each other, since the  *)
(* entries in hand are those of the block the buffer starts.               *)

Inv == TypeOK /\ WholeBlocks

LEMMA InvInit == Init => Inv
<1> SUFFICES ASSUME Init PROVE Inv
  OBVIOUS
<1>1. dir \in Dirs /\ Size \in Nat \ {0} /\ MaxCalls \in Nat
  BY DirsStored, BlockTypes, ReaddirAssumption DEF Init, Size
<1>2. buf \in 0 .. Size - 1 /\ it \in 0 .. Size
  BY <1>1 DEF Init
<1>3. Total(dir, Blk) \in Nat
  BY <1>1, <1>2, DirsStored, BlockTypes DEF Size, Blk
<1>4. batch \in Seq([name : Names, pos : Nat, cookie : Nat])
  BY DEF Init
<1>5. idx \in 0 .. Total(dir, Blk) /\ calls \in 0 .. MaxCalls
  BY <1>1, <1>3 DEF Init
<1>6. /\ client \in Clients /\ status = "asking" /\ refused \in BOOLEAN
      /\ offset \in Nat /\ skipents \in Nat /\ cnt \in Nat /\ pos \in Nat /\ resume \in Nat
  BY DEF Init
<1>7. TypeOK
  BY <1>1, <1>2, <1>4, <1>5, <1>6 DEF TypeOK
<1> QED BY <1>6, <1>7 DEF Inv, WholeBlocks

(* A buffer that is filled, at the start of a block, is that block.        *)
LEMMA BufferStep ==
  ASSUME Inv, dir' = dir, NEW o \in Nat, o < Size, Whole(o, BlkSz), MapOk(o), NextBuffer(o)
  PROVE  /\ buf' \in 0 .. Size - 1 /\ buf' % BlkSz = 0
         /\ it' = Lesser(buf' + BlkSz, Size) /\ it' \in 0 .. Size
         /\ Total(dir, buf' \div BlkSz) \in Nat
<1>1. dir \in Dirs /\ BlkSz \in Nat \ {0} /\ Size \in Nat \ {0}
  BY DirsStored, BlockTypes DEF Inv, TypeOK, Size
<1>2. buf' = o /\ buf' \in 0 .. Size - 1
  BY <1>1 DEF NextBuffer
<1>3. it' = Lesser(o + BlkSz, Size)
  BY <1>1, DirsStored, BlockStep DEF NextBuffer, MapOk, BlockOf, Size
<1>4. it' \in 0 .. Size
  BY <1>1, <1>3 DEF Lesser
<1>5. o % BlkSz = 0
  BY <1>1, WholeExact
<1>6. Total(dir, buf' \div BlkSz) \in Nat
  BY <1>1, <1>2, DirsStored, BlockTypes DEF Size
<1> QED BY <1>2, <1>3, <1>4, <1>5, <1>6

(* Where the second and later buffers start. *)
LEMMA NextIsWhole ==
  ASSUME Inv, status = "scanning", it < Size
  PROVE  it \in Nat /\ Whole(it, BlkSz)
<1>1. dir \in Dirs /\ BlkSz \in Nat \ {0} /\ Size \in Nat \ {0} /\ buf \in 0 .. Size - 1
  BY DirsStored, BlockTypes DEF Inv, TypeOK, Size
<1>2. it = buf + BlkSz /\ buf % BlkSz = 0
  BY <1>1 DEF Inv, WholeBlocks, Lesser
<1>3. Whole(buf, BlkSz) /\ Whole(BlkSz, BlkSz)
  <2>1. BlkSz = BlkSz * 1
    BY <1>1
  <2>2. Whole(BlkSz, BlkSz)
    BY <2>1 DEF Whole
  <2>3. Whole(buf, BlkSz)
    <3>1. buf \in Nat
      BY <1>1
    <3> QED BY <1>1, <1>2, <3>1, WholeExact
  <2> QED BY <2>2, <2>3
<1> QED BY <1>1, <1>2, <1>3, WholeSum

(* Rounding up keeps a number a number. *)
LEMMA RoundUpNat ==
  ASSUME NEW n \in Nat, NEW u \in Nat \ {0}
  PROVE  RoundUp(n, u) \in Nat
<1>1. n + u - 1 \in Nat
  OBVIOUS
<1>2. (n + u - 1) \div u \in Nat
  BY <1>1, DivMod
<1> QED BY <1>2 DEF RoundUp

(* The entry in hand. *)
LEMMA EntryInHand ==
  ASSUME Inv, Left
  PROVE  /\ Entry(dir, Blk, idx) \in Names
         /\ Total(dir, Blk) \in Nat /\ idx \in Nat /\ idx + 1 \in 0 .. Total(dir, Blk)
<1>1. dir \in Dirs /\ buf \in 0 .. Size - 1 /\ idx \in 0 .. Total(dir, Blk)
  BY DEF Inv, TypeOK
<1>2. Blk \in 0 .. Len(dir.blocks) - 1 /\ Total(dir, Blk) \in Nat
  BY <1>1, DirsStored, BlockTypes DEF Size, Blk
<1>3. idx \in 0 .. Total(dir, Blk) - 1 /\ idx + 1 \in 0 .. Total(dir, Blk) /\ idx \in Nat
  BY <1>1, <1>2 DEF Left
<1>4. Entry(dir, Blk, idx) \in { Entry(dir, Blk, k) : k \in 0 .. Total(dir, Blk) - 1 }
  BY <1>3
<1>5. Entry(dir, Blk, idx) \in Names
  BY <1>2, <1>4, Zenon DEF Names, NamesOf
<1> QED BY <1>2, <1>3, <1>5

LEMMA InvNext == Inv /\ [Next]_vars => Inv'
<1> SUFFICES ASSUME Inv, [Next]_vars PROVE Inv'
  OBVIOUS
<1> DEFINE Batches == Seq([name : Names, pos : Nat, cookie : Nat])
<1>0. /\ dir \in Dirs /\ BlkSz \in Nat \ {0} /\ Size \in Nat \ {0}
      /\ offset \in Nat /\ skipents \in Nat /\ cnt \in Nat /\ pos \in Nat /\ resume \in Nat
      /\ batch \in Batches
  BY DirsStored, BlockTypes DEF Inv, TypeOK, Size
<1>1. CASE Ask
  <2>1. /\ UNCHANGED <<dir, client, seen, resume>>
        /\ status' = "called" /\ it' = 0 /\ buf' = 0 /\ idx' = 0 /\ cnt' = 0 /\ pos' = 0
        /\ batch' = <<>> /\ refused' = FALSE /\ calls' = calls + 1 /\ calls < MaxCalls
    BY <1>1 DEF Ask
  <2>2. offset' \in Nat /\ skipents' \in Nat
    BY <1>0, <1>1, ReaddirAssumption DEF Ask, Arguments
  <2>3. buf' \in 0 .. Size - 1 /\ Total(dir, buf' \div BlkSz) \in Nat
    <3>1. buf' \in 0 .. Size - 1
      BY <1>0, <2>1
    <3> QED BY <1>0, <3>1, DirsStored, BlockTypes DEF Size
  <2>4. calls' \in 0 .. MaxCalls
    BY <2>1, ReaddirAssumption DEF Inv, TypeOK
  <2>5. batch' \in Batches'
    BY <2>1
  <2>6. Size' = Size
    BY <2>1 DEF Size
  <2>7. idx' \in 0 .. Total(dir', Blk') /\ it' \in 0 .. Size' /\ buf' \in 0 .. Size' - 1
    <3>1. Total(dir', Blk') = Total(dir, buf' \div BlkSz)
      BY <2>1 DEF Blk
    <3> HIDE DEF Batches
    <3> QED BY <1>0, <2>1, <2>3, <2>6, <3>1
  <2>8. cnt' \in Nat /\ pos' \in Nat /\ refused' \in BOOLEAN /\ resume' \in Nat
    BY <1>0, <2>1
  <2>9. TypeOK'
    BY <2>1, <2>2, <2>4, <2>5, <2>7, <2>8 DEF Inv, TypeOK
  <2> QED BY <2>1, <2>9 DEF Inv, WholeBlocks
<1>2. CASE TakeReply
  <2>1. /\ status' \in {"ended", "asking"}
        /\ UNCHANGED <<dir, client, offset, skipents, it, buf, idx, cnt, pos, batch, refused, calls>>
    BY <1>2 DEF TakeReply, callVars
  <2>2. resume' \in Nat
    <3>1. CASE LastReply \/ client = "library"
      BY <1>0, <1>2, <3>1 DEF TakeReply
    <3>2. CASE ~(LastReply \/ client = "library") /\ client = "fuse"
      <4>1. resume' = batch[Len(batch)].cookie /\ batch # <<>>
        BY <1>2, <3>2 DEF TakeReply, LastReply
      <4> DEFINE R == [name : Names, pos : Nat, cookie : Nat]
      <4>2. batch \in Seq(R)
        BY <1>0
      <4> HIDE DEF R
      <4>3. batch[Len(batch)] \in R
        BY <4>1, <4>2
      <4> QED BY <4>1, <4>3 DEF R
    <3>3. CASE ~(LastReply \/ client = "library") /\ client # "fuse"
      BY <1>0, <1>2, <3>3 DEF TakeReply
    <3> QED BY <3>1, <3>2, <3>3
  <2>3. Size' = Size /\ Blk' = Blk /\ Names' = Names
    BY <2>1 DEF Size, Blk, Names
  <2>4. Total(dir', Blk') = Total(dir, Blk)
    BY <2>1, <2>3
  <2>5. TypeOK'
    BY <2>1, <2>2, <2>3, <2>4 DEF Inv, TypeOK
  <2> QED BY <2>1, <2>5 DEF Inv, WholeBlocks
<1>3. CASE OutOfRange \/ NoBuffer \/ MapFails \/ BufferFails
  <2>1. /\ status' \in {"failed", "panicked"}
        /\ UNCHANGED <<callVars, fixed>>
    BY <1>3 DEF OutOfRange, NoBuffer, MapFails, BufferFails
  <2> QED BY <2>1 DEF callVars, fixed, Inv, TypeOK, WholeBlocks, Size, Blk, Names
<1>4. CASE FirstBuffer
  <2> DEFINE o == RoundDown(offset, BlkSz)
  <2>1. /\ o < Size /\ MapOk(o) /\ NextBuffer(o)
        /\ status' = "scanning" /\ UNCHANGED <<batch, refused, fixed>> /\ cnt' = 0
        /\ pos' = o + BlkOffset
    BY <1>4 DEF FirstBuffer
  <2>2. o \in Nat /\ Whole(o, BlkSz)
    BY <1>0, RoundDownWhole
  <2>3. dir' = dir
    BY <2>1 DEF fixed
  <2> HIDE DEF o
  <2>4. /\ buf' \in 0 .. Size - 1 /\ buf' % BlkSz = 0
        /\ it' = Lesser(buf' + BlkSz, Size) /\ it' \in 0 .. Size
        /\ Total(dir, buf' \div BlkSz) \in Nat
    BY <2>1, <2>2, <2>3, BufferStep
  <2>5. BlkOffset \in Nat /\ BlkOffset \div DescSize \in Nat
    <3>1. BlkAccess(offset).off \in Nat
      BY <1>0, DivMod DEF BlkAccess, Accessor
    <3>2. BlkOffset \in Nat
      BY <3>1, RoundUpNat DEF BlkOffset, DescSize
    <3> QED BY <3>2 DEF DescSize
  <2>6. idx' \in 0 .. Total(dir, buf' \div BlkSz)
    BY <1>4, <2>4, <2>5 DEF FirstBuffer
  <2>7. pos' \in Nat
    BY <2>1, <2>2, <2>5
  <2> QED BY <2>1, <2>3, <2>4, <2>6, <2>7
          DEF fixed, Inv, TypeOK, WholeBlocks, Size, Blk, Names
<1>5. CASE SkipEntry
  <2>1. /\ Left /\ status' = status /\ UNCHANGED <<it, buf, batch, refused, fixed>>
        /\ cnt' = cnt + 1 /\ pos' = pos + DescSize /\ idx' = idx + 1
    BY <1>5 DEF SkipEntry, Advanced
  <2>2. idx + 1 \in 0 .. Total(dir, Blk) /\ cnt' \in Nat /\ pos' \in Nat
    BY <1>0, <2>1, EntryInHand DEF DescSize
  <2> QED BY <2>1, <2>2 DEF fixed, Inv, TypeOK, WholeBlocks, Size, Blk, Names
<1>6. CASE Emit
  <2>1. /\ Left /\ status' = status /\ UNCHANGED <<it, buf, refused, fixed>>
        /\ cnt' = cnt + 1 /\ pos' = pos + DescSize /\ idx' = idx + 1
        /\ batch' = Append(batch, Emitted)
    BY <1>6 DEF Emit, Advanced
  <2>2. /\ idx + 1 \in 0 .. Total(dir, Blk) /\ cnt' \in Nat /\ pos' \in Nat
        /\ Entry(dir, Blk, idx) \in Names
    BY <1>0, <2>1, EntryInHand DEF DescSize
  <2>3. Emitted \in [name : Names, pos : Nat, cookie : Nat]
    <3>1. Len(batch) + 2 \in Nat
      BY <1>0
    <3> QED BY <1>0, <2>2, <3>1 DEF Emitted
  <2>4. batch' \in Batches
    BY <1>0, <2>1, <2>3
  <2>5. Size' = Size /\ Blk' = Blk /\ Names' = Names
    BY <2>1 DEF fixed, Size, Blk, Names
  <2>6. Total(dir', Blk') = Total(dir, Blk)
    BY <2>1, <2>5 DEF fixed
  <2>7. batch' \in Batches'
    BY <2>4, <2>5
  <2>8. TypeOK'
    BY <2>1, <2>2, <2>5, <2>6, <2>7 DEF fixed, Inv, TypeOK
  <2> QED BY <2>1, <2>5, <2>8 DEF fixed, Inv, WholeBlocks
<1>7. CASE EmitterStops
  <2>1. /\ status' = "returned" /\ refused' = TRUE
        /\ UNCHANGED <<it, buf, idx, cnt, pos, batch, fixed>>
    BY <1>7 DEF EmitterStops, Return
  <2> QED BY <2>1 DEF fixed, Inv, TypeOK, WholeBlocks, Size, Blk, Names
<1>8. CASE NextBlock
  <2>1. /\ status = "scanning" /\ it < Size /\ MapOk(it) /\ NextBuffer(it) /\ idx' = 0
        /\ pos' = RoundUp(pos, BlkSz) /\ UNCHANGED <<status, cnt, batch, refused, fixed>>
    BY <1>8 DEF NextBlock
  <2>2. it \in Nat /\ Whole(it, BlkSz)
    BY <2>1, NextIsWhole
  <2>3. dir' = dir
    BY <2>1 DEF fixed
  <2>4. /\ buf' \in 0 .. Size - 1 /\ buf' % BlkSz = 0
        /\ it' = Lesser(buf' + BlkSz, Size) /\ it' \in 0 .. Size
        /\ Total(dir, buf' \div BlkSz) \in Nat
    BY <2>1, <2>2, <2>3, BufferStep
  <2>5. pos' \in Nat
    BY <1>0, <2>1, RoundUpNat
  <2> QED BY <2>1, <2>3, <2>4, <2>5 DEF fixed, Inv, TypeOK, WholeBlocks, Size, Blk, Names
<1>9. CASE LastBlock
  <2>1. /\ status' = "returned" /\ pos' \in Nat
        /\ UNCHANGED <<it, buf, idx, cnt, batch, refused, fixed>>
    BY <1>0, <1>9, RoundUpNat DEF LastBlock, Return
  <2> QED BY <2>1 DEF fixed, Inv, TypeOK, WholeBlocks, Size, Blk, Names
<1>10. CASE UNCHANGED vars
  BY <1>10 DEF vars, callVars, Inv, TypeOK, WholeBlocks, Size, Blk, Names
<1> QED BY <1>1, <1>2, <1>3, <1>4, <1>5, <1>6, <1>7, <1>8, <1>9, <1>10
        DEF Next, FillDentries

(* Types and whole blocks hold in every state of every listing.            *)
THEOREM Invariance == Spec => []Inv
BY InvInit, InvNext, PTL DEF Spec

(* For every block size and every set of directories, offsets and replies, *)
(* the variables of fill_dentries keep their types: the entry it looks at  *)
(* is one of the buffer's, and what it emits are entries of the directory. *)
THEOREM TypeCorrect == Spec => []TypeOK
<1>1. Inv => TypeOK
  BY DEF Inv
<1> QED BY <1>1, Invariance, PTL

(* For every block size and every layout, chunk size and place of the      *)
(* tail, each buffer DirCollection parses is one block of the directory,   *)
(* whole, and the iterator stands behind it.                               *)
THEOREM BlocksCorrect == Spec => []WholeBlocks
<1>1. Inv => WholeBlocks
  BY DEF Inv
<1> QED BY <1>1, Invariance, PTL
-----------------------------------------------------------------------------
(* The entries of a directory, block after block. *)

(* The recursive function in EntriesOf, by its name: the entries of the    *)
(* blocks below b.                                                         *)
Entries(d, b) ==
  (CHOOSE upTo :
     upTo = [k \in 0 .. Len(d.blocks) |->
               IF k = 0 THEN <<>> ELSE upTo[k - 1] \o BlockEntries(d, k - 1)])[b]

Base(d, b) == Len(Entries(d, b))

(* A list of entries: names with positions. *)
Listed == Seq(STRING \X Nat)

LEMMA BlockList ==
  ASSUME NEW d \in Dirs, NEW b \in 0 .. Len(d.blocks) - 1
  PROVE  BlockEntries(d, b) \in Listed /\ Len(BlockEntries(d, b)) = Total(d, b)
<1>1. /\ Total(d, b) \in Nat
      /\ \A k \in 0 .. Total(d, b) - 1 : Entry(d, b, k) \in STRING
      /\ b \in Nat
  BY DirsStored, BlockShape
<1>2. ASSUME NEW k \in 1 .. Total(d, b)
      PROVE  <<Entry(d, b, k - 1), Position(b, k - 1)>> \in STRING \X Nat
  <2>1. k - 1 \in 0 .. Total(d, b) - 1
    BY <1>1
  <2>2. BlkPos(b) \in Nat
    BY <1>1, WholeBlock
  <2>3. Position(b, k - 1) \in Nat
    BY <2>1, <2>2 DEF Position, DescSize
  <2> QED BY <1>1, <2>1, <2>3
<1> QED BY <1>1, <1>2 DEF BlockEntries, Listed

(* There is such a function. *)
LEMMA EntriesStep ==
  ASSUME NEW d \in Dirs
  PROVE  /\ Entries(d, 0) = <<>>
         /\ \A b \in 0 .. Len(d.blocks) - 1 :
              Entries(d, b + 1) = Entries(d, b) \o BlockEntries(d, b)
         /\ EntriesOf(d) = Entries(d, Len(d.blocks))
<1> DEFINE N == Len(d.blocks)
           Sums(f, n) == f = [k \in 0 .. n |->
                                IF k = 0 THEN <<>> ELSE f[k - 1] \o BlockEntries(d, k - 1)]
           S == {n \in Nat : \E f : Sums(f, n)}
           U == CHOOSE f : Sums(f, N)
<1>1. N \in Nat
  BY DirsStored DEF IsDirectory
<1>2. 0 \in S
  <2> DEFINE f == [k \in 0 .. 0 |-> <<>>]
  <2>1. f = [k \in 0 .. 0 |-> IF k = 0 THEN <<>> ELSE f[k - 1] \o BlockEntries(d, k - 1)]
    OBVIOUS
  <2>2. Sums(f, 0)
    BY <2>1
  <2> HIDE DEF f, Sums
  <2> QED BY <2>2
<1>3. ASSUME NEW n \in Nat, n \in S PROVE n + 1 \in S
  <2>1. PICK f : Sums(f, n)
    BY <1>3
  <2> DEFINE g == [k \in 0 .. n + 1 |->
                     IF k = n + 1 THEN f[n] \o BlockEntries(d, n) ELSE f[k]]
  <2>2. ASSUME NEW k \in 0 .. n + 1
        PROVE  g[k] = IF k = 0 THEN <<>> ELSE g[k - 1] \o BlockEntries(d, k - 1)
    <3>1. CASE k = n + 1
      <4>1. g[k] = f[n] \o BlockEntries(d, n) /\ g[n] = f[n] /\ k # 0 /\ k - 1 = n
        BY <3>1
      <4> QED BY <4>1
    <3>2. CASE k # n + 1 /\ k # 0
      <4>1. k \in 0 .. n /\ g[k] = f[k] /\ k - 1 \in 0 .. n + 1 /\ k - 1 # n + 1
        BY <3>2
      <4>2. g[k - 1] = f[k - 1]
        BY <4>1
      <4>3. f[k] = f[k - 1] \o BlockEntries(d, k - 1)
        BY <2>1, <3>2, <4>1
      <4> HIDE DEF g
      <4> QED BY <3>2, <4>1, <4>2, <4>3
    <3>3. CASE k = 0
      <4>1. 0 \in 0 .. n /\ g[0] = f[0]
        OBVIOUS
      <4>2. f[0] = <<>>
        BY <2>1, <4>1
      <4> QED BY <3>3, <4>1, <4>2
    <3> QED BY <3>1, <3>2, <3>3
  <2>3. Sums(g, n + 1)
    BY <2>2
  <2> HIDE DEF g, Sums
  <2> QED BY <2>3
<1>4. N \in S
  <2> HIDE DEF S
  <2> QED BY <1>1, <1>2, <1>3, SetInduction
<1>5. Sums(U, N)
  <2> HIDE DEF Sums
  <2> QED BY <1>4
<1>6. \A b : Entries(d, b) = U[b]
  BY DEF Entries
<1>7. EntriesOf(d) = Entries(d, N)
  BY DEF EntriesOf, Entries
<1> HIDE DEF U
<1>8. U[0] = <<>>
  <2>1. 0 \in 0 .. N
    BY <1>1
  <2> QED BY <1>5, <2>1
<1>9. ASSUME NEW b \in 0 .. N - 1 PROVE U[b + 1] = U[b] \o BlockEntries(d, b)
  <2>1. b + 1 \in 0 .. N /\ b + 1 # 0 /\ (b + 1) - 1 = b
    BY <1>1
  <2> QED BY <1>5, <2>1
<1> QED BY <1>6, <1>7, <1>8, <1>9

(* Two lists one after the other. *)
LEMMA Concatenated ==
  ASSUME NEW T, NEW s \in Seq(T), NEW t \in Seq(T)
  PROVE  /\ s \o t \in Seq(T)
         /\ Len(s) \in Nat /\ Len(s \o t) = Len(s) + Len(t)
         /\ \A k \in 1 .. Len(s) : (s \o t)[k] = s[k]
         /\ \A k \in 1 .. Len(t) : (s \o t)[Len(s) + k] = t[k]
         /\ <<>> \in Seq(T)
OBVIOUS

LEMMA EntriesListed ==
  ASSUME NEW d \in Dirs, NEW b \in 0 .. Len(d.blocks)
  PROVE  Entries(d, b) \in Listed
<1> DEFINE S == {n \in Nat : n <= Len(d.blocks) => Entries(d, n) \in Listed}
<1>1. Len(d.blocks) \in Nat
  BY DirsStored DEF IsDirectory
<1>2. 0 \in S
  <2>1. <<>> \in Listed
    BY Concatenated DEF Listed
  <2> QED BY <2>1, EntriesStep
<1>3. ASSUME NEW n \in Nat, n \in S PROVE n + 1 \in S
  <2> SUFFICES ASSUME n + 1 <= Len(d.blocks) PROVE Entries(d, n + 1) \in Listed
    OBVIOUS
  <2>1. n \in 0 .. Len(d.blocks) - 1 /\ Entries(d, n) \in Listed
    BY <1>1, <1>3
  <2>2. BlockEntries(d, n) \in Listed /\ Entries(d, n + 1) = Entries(d, n) \o BlockEntries(d, n)
    BY <2>1, BlockList, EntriesStep
  <2>3. Entries(d, n) \o BlockEntries(d, n) \in Listed
    <3> DEFINE T == STRING \X Nat
               s == Entries(d, n)
               t == BlockEntries(d, n)
    <3>1. s \in Seq(T) /\ t \in Seq(T)
      BY <2>1, <2>2 DEF Listed
    <3> HIDE DEF T, s, t
    <3>2. s \o t \in Seq(T)
      BY <3>1
    <3> QED BY <3>2 DEF Listed, T, s, t
  <2> QED BY <2>2, <2>3
<1> HIDE DEF S
<1>4. Nat \subseteq S
  BY <1>2, <1>3, SetInduction
<1> QED BY <1>1, <1>4 DEF S

(* One block more. *)
LEMMA OneBlock ==
  ASSUME NEW d \in Dirs, NEW b \in 0 .. Len(d.blocks) - 1
  PROVE  /\ Base(d, b) \in Nat /\ Total(d, b) \in Nat \ {0}
         /\ Base(d, b + 1) = Base(d, b) + Total(d, b)
         /\ \A k \in 1 .. Base(d, b) : Entries(d, b + 1)[k] = Entries(d, b)[k]
         /\ \A k \in 0 .. Total(d, b) - 1 :
              Entries(d, b + 1)[Base(d, b) + k + 1] = <<Entry(d, b, k), Position(b, k)>>
<1> DEFINE s == Entries(d, b)
           t == BlockEntries(d, b)
           n == Total(d, b)
<1>1. b \in 0 .. Len(d.blocks)
  OBVIOUS
<1>2. s \in Listed /\ t \in Listed /\ Len(t) = n /\ n \in Nat \ {0}
  BY <1>1, EntriesListed, BlockList, DirsStored, BlockShape
<1>3. Entries(d, b + 1) = s \o t
  BY EntriesStep
<1>4. ASSUME NEW k \in 0 .. n - 1
      PROVE  t[k + 1] = <<Entry(d, b, k), Position(b, k)>>
  <2>1. k + 1 \in 1 .. n /\ (k + 1) - 1 = k
    BY <1>2
  <2> QED BY <2>1 DEF BlockEntries
<1> HIDE DEF s, t, n
<1>5. /\ Len(s) \in Nat /\ Len(s \o t) = Len(s) + n
      /\ \A k \in 1 .. Len(s) : (s \o t)[k] = s[k]
      /\ \A k \in 1 .. n : (s \o t)[Len(s) + k] = t[k]
  <2> DEFINE T == STRING \X Nat
  <2>1. s \in Seq(T) /\ t \in Seq(T)
    BY <1>2 DEF Listed
  <2> HIDE DEF T
  <2>2. /\ Len(s) \in Nat /\ Len(s \o t) = Len(s) + Len(t)
        /\ \A k \in 1 .. Len(s) : (s \o t)[k] = s[k]
        /\ \A k \in 1 .. Len(t) : (s \o t)[Len(s) + k] = t[k]
    BY <2>1
  <2> QED BY <1>2, <2>2, Zenon
<1>6. ASSUME NEW k \in 0 .. n - 1
      PROVE  (s \o t)[Len(s) + k + 1] = t[k + 1]
  <2>1. k + 1 \in 1 .. n /\ Len(s) + (k + 1) = Len(s) + k + 1
    BY <1>2, <1>5
  <2> DEFINE j == k + 1
  <2>2. j \in 1 .. n /\ Len(s) + k + 1 = Len(s) + j
    BY <2>1
  <2> HIDE DEF j
  <2>3. (s \o t)[Len(s) + j] = t[j]
    BY <1>5, <2>2
  <2> QED BY <2>2, <2>3 DEF j
<1> QED BY <1>2, <1>3, <1>4, <1>5, <1>6 DEF Base, s, n

(* The entries of the blocks below b come first in any longer list.        *)
LEMMA EntriesPrefix ==
  ASSUME NEW d \in Dirs, NEW b \in 0 .. Len(d.blocks), NEW c \in b .. Len(d.blocks)
  PROVE  /\ Base(d, b) \in Nat /\ Base(d, c) \in Nat /\ Base(d, b) <= Base(d, c)
         /\ \A k \in 1 .. Base(d, b) : Entries(d, c)[k] = Entries(d, b)[k]
<1> DEFINE P(n) == /\ Base(d, b) <= Base(d, n)
                   /\ \A k \in 1 .. Base(d, b) : Entries(d, n)[k] = Entries(d, b)[k]
           S == {n \in Nat : b + n <= Len(d.blocks) => P(b + n)}
<1>1. Len(d.blocks) \in Nat
  BY DirsStored DEF IsDirectory
<1>2. \A n \in 0 .. Len(d.blocks) : Base(d, n) \in Nat
  BY EntriesListed DEF Base, Listed
<1>3. 0 \in S
  <2>1. b + 0 = b /\ Base(d, b) <= Base(d, b)
    BY <1>1, <1>2
  <2> QED BY <2>1
<1>4. ASSUME NEW n \in Nat, n \in S PROVE n + 1 \in S
  <2> SUFFICES ASSUME b + (n + 1) <= Len(d.blocks) PROVE P(b + (n + 1))
    OBVIOUS
  <2> DEFINE m == b + n
  <2>1. m \in 0 .. Len(d.blocks) - 1 /\ m + 1 = b + (n + 1) /\ P(m)
    BY <1>1, <1>4
  <2> HIDE DEF m
  <2>2. /\ Base(d, m) \in Nat /\ Total(d, m) \in Nat
        /\ Base(d, m + 1) = Base(d, m) + Total(d, m)
        /\ \A k \in 1 .. Base(d, m) : Entries(d, m + 1)[k] = Entries(d, m)[k]
    BY <2>1, OneBlock
  <2>3. Base(d, b) \in Nat /\ Base(d, b) <= Base(d, m)
    BY <1>2, <2>1
  <2>4. Base(d, b) <= Base(d, m + 1)
    BY <2>2, <2>3
  <2>5. ASSUME NEW k \in 1 .. Base(d, b) PROVE Entries(d, m + 1)[k] = Entries(d, b)[k]
    <3>1. k \in 1 .. Base(d, m)
      BY <2>2, <2>3
    <3> QED BY <2>1, <2>2, <3>1
  <2> QED BY <2>1, <2>4, <2>5
<1>5. c - b \in S
  <2> HIDE DEF S
  <2>1. Nat \subseteq S /\ c - b \in Nat
    BY <1>1, <1>3, <1>4, SetInduction
  <2> QED BY <2>1
<1>6. P(c)
  <2>1. b + (c - b) = c /\ c <= Len(d.blocks)
    BY <1>1
  <2> HIDE DEF P
  <2> QED BY <1>5, <2>1
<1> QED BY <1>2, <1>6

(* Positions grow along the entries, and stay in the blocks.               *)
LEMMA Sorted ==
  ASSUME NEW d \in Dirs, NEW b \in 0 .. Len(d.blocks)
  PROVE  /\ \A k \in 1 .. Base(d, b) : Entries(d, b)[k][2] \in Nat /\ Entries(d, b)[k][2] < BlkPos(b)
         /\ \A j, k \in 1 .. Base(d, b) :
              j < k => Entries(d, b)[j][2] < Entries(d, b)[k][2]
<1> DEFINE P(n) == /\ \A k \in 1 .. Base(d, n) : Entries(d, n)[k][2] \in Nat /\ Entries(d, n)[k][2] < BlkPos(n)
                   /\ \A j, k \in 1 .. Base(d, n) :
                        j < k => Entries(d, n)[j][2] < Entries(d, n)[k][2]
           S == {n \in Nat : n <= Len(d.blocks) => P(n)}
<1>1. Len(d.blocks) \in Nat /\ BlkSz \in Nat \ {0}
  BY DirsStored, GeometryAssumption DEF IsDirectory
<1>2. 0 \in S
  <2>1. Base(d, 0) = 0
    BY EntriesStep DEF Base
  <2> QED BY <2>1
<1>3. ASSUME NEW n \in Nat, n \in S PROVE n + 1 \in S
  <2> SUFFICES ASSUME n + 1 <= Len(d.blocks) PROVE P(n + 1)
    OBVIOUS
  <2> DEFINE base == Base(d, n)
             total == Total(d, n)
             s == Entries(d, n)
             t == Entries(d, n + 1)
  <2>1. n \in 0 .. Len(d.blocks) - 1 /\ P(n)
    BY <1>1, <1>3
  <2>2. /\ base \in Nat /\ total \in Nat \ {0}
        /\ Base(d, n + 1) = base + total
        /\ \A k \in 1 .. base : t[k] = s[k]
        /\ \A k \in 0 .. total - 1 : t[base + k + 1] = <<Entry(d, n, k), Position(n, k)>>
    BY <2>1, OneBlock
  <2>3. DescSize * total < BlkSz
    BY <2>1, DirsStored, BlockShape
  <2>4. BlkPos(n) \in Nat /\ BlkPos(n + 1) = BlkPos(n) + BlkSz
    <3>1. BlkPos(n) \in Nat
      BY WholeBlock
    <3> QED BY <1>1, <3>1 DEF BlkPos
  <2>5. \A k \in 1 .. base : s[k][2] \in Nat /\ s[k][2] < BlkPos(n)
    BY <2>1
  <2>6. \A j, k \in 1 .. base : j < k => s[j][2] < s[k][2]
    BY <2>1
  <2> HIDE DEF base, total, s, t, P
  <2>7. \A k \in 1 .. base : t[k][2] \in Nat /\ t[k][2] < BlkPos(n)
    BY <2>2, <2>5
  <2>8. ASSUME NEW k \in base + 1 .. base + total
        PROVE  t[k][2] = BlkPos(n) + (DescSize * (k - base - 1))
    <3>1. k - base - 1 \in 0 .. total - 1 /\ base + (k - base - 1) + 1 = k
      BY <2>2
    <3>2. t[k][2] = Position(n, k - base - 1)
      BY <2>2, <3>1
    <3> QED BY <3>2 DEF Position
  <2>9. ASSUME NEW k \in base + 1 .. base + total
        PROVE  t[k][2] \in Nat /\ t[k][2] < BlkPos(n + 1)
    <3> DEFINE x == k - base - 1
    <3>1. t[k][2] = BlkPos(n) + (DescSize * x)
      BY <2>8
    <3>2. x \in Nat /\ x < total
      BY <2>2
    <3> HIDE DEF x
    <3>3. DescSize * x < DescSize * total /\ DescSize * x \in Nat /\ DescSize * total \in Nat
      BY <2>2, <3>2 DEF DescSize
    <3> QED BY <1>1, <2>3, <2>4, <3>1, <3>3
  <2>10. \A k \in 1 .. base + total : t[k][2] \in Nat /\ t[k][2] < BlkPos(n + 1)
    <3> SUFFICES ASSUME NEW k \in 1 .. base + total
                 PROVE  t[k][2] \in Nat /\ t[k][2] < BlkPos(n + 1)
      OBVIOUS
    <3>1. CASE k \in 1 .. base
      <4>1. t[k][2] \in Nat /\ t[k][2] < BlkPos(n)
        BY <2>7, <3>1
      <4> QED BY <1>1, <2>4, <4>1
    <3>2. CASE k \in base + 1 .. base + total
      BY <2>9, <3>2
    <3> QED BY <2>2, <3>1, <3>2
  <2>11. ASSUME NEW j \in 1 .. base + total, NEW k \in 1 .. base + total, j < k
         PROVE  t[j][2] < t[k][2]
    <3>1. CASE k \in 1 .. base
      <4>1. j \in 1 .. base
        BY <2>2, <2>11, <3>1
      <4> QED BY <2>2, <2>6, <2>11, <3>1, <4>1
    <3>2. CASE k \in base + 1 .. base + total /\ j \in 1 .. base
      <4>1. t[j][2] \in Nat /\ t[j][2] < BlkPos(n)
        BY <2>7, <3>2
      <4>2. t[k][2] = BlkPos(n) + (DescSize * (k - base - 1)) /\ k - base - 1 \in Nat
        BY <2>2, <2>8, <3>2
      <4> QED BY <2>4, <4>1, <4>2 DEF DescSize
    <3>3. CASE k \in base + 1 .. base + total /\ j \in base + 1 .. base + total
      <4>1. t[k][2] = BlkPos(n) + (DescSize * (k - base - 1))
        BY <2>8, <3>3
      <4>2. t[j][2] = BlkPos(n) + (DescSize * (j - base - 1))
        BY <2>8, <3>3
      <4> QED BY <2>2, <2>4, <2>11, <3>3, <4>1, <4>2 DEF DescSize
    <3> QED BY <2>2, <3>1, <3>2, <3>3
  <2> QED BY <2>2, <2>10, <2>11 DEF P, base, t, total
<1>4. Nat \subseteq S
  <2> HIDE DEF S
  <2> QED BY <1>2, <1>3, SetInduction
<1> QED BY <1>1, <1>4

(* The kth entry of a block, in the list of all. *)
LEMMA EntryAt ==
  ASSUME NEW d \in Dirs, NEW b \in 0 .. Len(d.blocks) - 1
  PROVE  /\ Base(d, b) \in Nat /\ Total(d, b) \in Nat \ {0} /\ Len(EntriesOf(d)) \in Nat
         /\ Base(d, b + 1) = Base(d, b) + Total(d, b)
         /\ Base(d, b + 1) <= Len(EntriesOf(d))
         /\ b + 1 = Len(d.blocks) => Base(d, b + 1) = Len(EntriesOf(d))
         /\ \A k \in 0 .. Total(d, b) - 1 :
              EntriesOf(d)[Base(d, b) + k + 1] = <<Entry(d, b, k), Position(b, k)>>
<1>1. Len(d.blocks) \in Nat /\ EntriesOf(d) = Entries(d, Len(d.blocks))
  BY EntriesStep, DirsStored, BlockShape
<1>2. /\ Base(d, b) \in Nat /\ Total(d, b) \in Nat \ {0}
      /\ Base(d, b + 1) = Base(d, b) + Total(d, b)
      /\ \A k \in 0 .. Total(d, b) - 1 :
           Entries(d, b + 1)[Base(d, b) + k + 1] = <<Entry(d, b, k), Position(b, k)>>
  BY OneBlock
<1>3. b + 1 \in 0 .. Len(d.blocks) /\ Len(d.blocks) \in b + 1 .. Len(d.blocks)
  BY <1>1
<1>4. /\ Base(d, Len(d.blocks)) \in Nat /\ Base(d, b + 1) <= Base(d, Len(d.blocks))
      /\ \A k \in 1 .. Base(d, b + 1) : Entries(d, Len(d.blocks))[k] = Entries(d, b + 1)[k]
  BY <1>3, EntriesPrefix
<1>5. Base(d, Len(d.blocks)) = Len(EntriesOf(d))
  BY <1>1 DEF Base
<1>6. ASSUME NEW k \in 0 .. Total(d, b) - 1
      PROVE  EntriesOf(d)[Base(d, b) + k + 1] = <<Entry(d, b, k), Position(b, k)>>
  <2>1. Base(d, b) + k + 1 \in 1 .. Base(d, b + 1)
    BY <1>2
  <2> QED BY <1>1, <1>2, <1>4, <2>1
<1> QED BY <1>2, <1>4, <1>5, <1>6

(* All entries: a list, with growing positions. *)
LEMMA AllEntries ==
  ASSUME NEW d \in Dirs
  PROVE  /\ EntriesOf(d) \in Listed
         /\ Len(EntriesOf(d)) \in Nat \ {0}
         /\ DOMAIN EntriesOf(d) = 1 .. Len(EntriesOf(d))
         /\ \A k \in 1 .. Len(EntriesOf(d)) : EntriesOf(d)[k][2] \in Nat
         /\ \A j, k \in 1 .. Len(EntriesOf(d)) : j < k => EntriesOf(d)[j][2] < EntriesOf(d)[k][2]
<1>1. Len(d.blocks) \in Nat \ {0}
  <2>1. IsDirectory(d)
    BY DirsStored
  <2>2. d.inode.size \in Nat \ {0} /\ BlkSz \in Nat \ {0} /\ Len(d.blocks) = BlkRoundUp(d.inode.size)
    BY <2>1, GeometryAssumption DEF IsDirectory, IsInode
  <2>3. Len(d.blocks) = ((d.inode.size - 1) \div BlkSz) + 1
    BY <2>2, RoundUpBlocks DEF BlkRoundUp
  <2>4. (d.inode.size - 1) \in Nat
    BY <2>2
  <2>5. (d.inode.size - 1) \div BlkSz \in Nat
    BY <2>2, <2>4, DivMod
  <2> QED BY <2>3, <2>5
<1>2. EntriesOf(d) = Entries(d, Len(d.blocks)) /\ Len(d.blocks) \in 0 .. Len(d.blocks)
  BY <1>1, EntriesStep
<1>3. EntriesOf(d) \in Listed
  BY <1>2, EntriesListed
<1>4. Len(EntriesOf(d)) \in Nat \ {0}
  <2>1. 0 \in 0 .. Len(d.blocks) - 1
    BY <1>1
  <2>2. /\ Base(d, 0) \in Nat /\ Total(d, 0) \in Nat \ {0} /\ Len(EntriesOf(d)) \in Nat
        /\ Base(d, 0 + 1) = Base(d, 0) + Total(d, 0)
        /\ Base(d, 0 + 1) <= Len(EntriesOf(d))
    BY <2>1, EntryAt
  <2> QED BY <2>2
<1>5. DOMAIN EntriesOf(d) = 1 .. Len(EntriesOf(d))
  <2> DEFINE T == STRING \X Nat
  <2>1. EntriesOf(d) \in Seq(T)
    BY <1>3 DEF Listed
  <2> HIDE DEF T
  <2> QED BY <2>1
<1>6. Base(d, Len(d.blocks)) = Len(EntriesOf(d))
  BY <1>2 DEF Base
<1> QED BY <1>2, <1>3, <1>4, <1>5, <1>6, Sorted

(* A number that parts the entries at an offset is the number of those     *)
(* before it.                                                              *)
LEMMA PartedAt ==
  ASSUME NEW d \in Dirs, NEW o \in Nat, NEW m \in 0 .. Len(EntriesOf(d)),
         m = 0 \/ EntriesOf(d)[m][2] < o,
         m = Len(EntriesOf(d)) \/ o <= EntriesOf(d)[m + 1][2]
  PROVE  EntriesBefore(d, o) = m
<1> DEFINE E == EntriesOf(d)
           N == Len(E)
           p == [k \in 1 .. N |-> E[k][2]]
           P(n) == \A k \in DOMAIN E : E[k][2] < o <=> k <= n
           n == CHOOSE i \in 0 .. N : P(i)
<1>1. /\ N \in Nat \ {0} /\ DOMAIN E = 1 .. N
      /\ \A k \in 1 .. N : E[k][2] = p[k] /\ p[k] \in Nat
      /\ \A j, k \in 1 .. N : j < k => p[j] < p[k]
  BY AllEntries
<1>2. EntriesBefore(d, o) = n
  BY DEF EntriesBefore
<1>3. m \in 0 .. N
  OBVIOUS
<1>4. (m = 0 \/ E[m][2] < o) /\ (m = N \/ o <= E[m + 1][2])
  OBVIOUS
<1> HIDE DEF E, N, p
<1>5. (m = 0 \/ p[m] < o) /\ (m = N \/ o <= p[m + 1])
  <2>1. m # 0 => m \in 1 .. N
    BY <1>1, <1>3
  <2>2. m # N => m + 1 \in 1 .. N
    BY <1>1, <1>3
  <2>3. m = 0 \/ p[m] < o
    BY <1>1, <1>4, <2>1
  <2>4. m = N \/ o <= p[m + 1]
    <3> SUFFICES ASSUME m # N PROVE o <= p[m + 1]
      OBVIOUS
    <3>1. E[m + 1][2] = p[m + 1]
      BY <1>1, <2>2
    <3> QED BY <1>4, <3>1
  <2> QED BY <2>3, <2>4
<1>6. ASSUME NEW k \in 1 .. N PROVE p[k] < o <=> k <= m
  <2>1. k \in Nat /\ m \in Nat /\ p[k] \in Nat
    BY <1>1, <1>3
  <2>2. CASE k <= m
    <3>1. m \in 1 .. N /\ p[m] \in Nat /\ p[m] < o
      BY <1>1, <1>3, <1>5, <2>1, <2>2
    <3>2. k = m \/ p[k] < p[m]
      BY <1>1, <2>1, <2>2, <3>1
    <3> QED BY <2>1, <2>2, <3>1, <3>2
  <2>3. CASE m < k
    <3>1. m + 1 \in 1 .. N /\ m # N
      BY <1>1, <1>3, <2>1, <2>3
    <3>2. p[m + 1] \in Nat /\ o <= p[m + 1]
      BY <1>1, <1>5, <3>1
    <3>3. k = m + 1 \/ p[m + 1] < p[k]
      BY <1>1, <2>1, <2>3, <3>1
    <3> QED BY <2>1, <2>3, <3>2, <3>3
  <2> QED BY <2>1, <2>2, <2>3
<1>7. P(m)
  BY <1>1, <1>6
<1>8. n \in 0 .. N /\ P(n)
  <2> HIDE DEF P
  <2> QED BY <1>3, <1>7
<1> HIDE DEF n
<1>9. \A k \in 1 .. N : k <= n <=> k <= m
  BY <1>1, <1>6, <1>8
<1>10. n = m
  BY <1>1, <1>3, <1>8, <1>9
<1> QED BY <1>2, <1>10

(* Where fill_dentries starts in the first buffer: behind the entries      *)
(* before the offset.                                                      *)
LEMMA StartsAtOffset ==
  ASSUME NEW d \in Dirs, NEW o \in Nat,
         NEW q \in 0 .. Len(d.blocks) - 1, NEW r \in 0 .. BlkSz - 1, o = BlkPos(q) + r,
         NEW t \in Nat, r <= DescSize * t, t = 0 \/ DescSize * (t - 1) < r,
         NEW i, i = IF t <= Total(d, q) THEN t ELSE Total(d, q)
  PROVE  /\ EntriesBefore(d, o) = Base(d, q) + i
         /\ i \in 0 .. Total(d, q)
<1> DEFINE E == EntriesOf(d)
           n == Total(d, q)
           base == Base(d, q)
           m == base + i
<1>1. /\ base \in Nat /\ n \in Nat \ {0} /\ Len(E) \in Nat
      /\ Base(d, q + 1) = base + n /\ base + n <= Len(E)
      /\ q + 1 = Len(d.blocks) => base + n = Len(E)
      /\ \A k \in 0 .. n - 1 : E[base + k + 1] = <<Entry(d, q, k), Position(q, k)>>
  BY EntryAt
<1>2. i \in 0 .. n /\ (i < n => i = t) /\ i <= t
  BY <1>1
<1>3. /\ q \in Nat /\ Len(d.blocks) \in Nat /\ BlkSz \in Nat \ {0}
      /\ BlkPos(q) \in Nat /\ BlkPos(q + 1) = BlkPos(q) + BlkSz
  <2>1. q \in Nat /\ Len(d.blocks) \in Nat /\ BlkSz \in Nat \ {0}
    BY DirsStored, BlockShape, GeometryAssumption
  <2>2. BlkPos(q) \in Nat
    BY <2>1, WholeBlock
  <2> QED BY <2>1, <2>2 DEF BlkPos
<1>4. m = 0 \/ E[m][2] < o
  <2>1. CASE i = 0 /\ base # 0
    <3>1. base \in 1 .. Base(d, q)
      BY <1>1, <2>1
    <3>2. q \in 0 .. Len(d.blocks) /\ Len(d.blocks) \in q .. Len(d.blocks)
      BY <1>3
    <3>3. Entries(d, q)[base][2] \in Nat /\ Entries(d, q)[base][2] < BlkPos(q)
      BY <3>1, <3>2, Sorted
    <3>4. E[base] = Entries(d, q)[base]
      BY <3>1, <3>2, EntriesPrefix, EntriesStep
    <3>5. m = base
      BY <1>1, <2>1
    <3> HIDE DEF E, m, base
    <3> QED BY <1>3, <3>3, <3>4, <3>5
  <2>2. CASE i # 0
    <3>1. i - 1 \in 0 .. n - 1 /\ base + (i - 1) + 1 = m
      BY <1>1, <1>2, <2>2
    <3>2. E[m] = <<Entry(d, q, i - 1), Position(q, i - 1)>>
      BY <1>1, <3>1
    <3>3. DescSize * (i - 1) < r
      BY <1>2, <2>2 DEF DescSize
    <3>4. Position(q, i - 1) < o
      BY <1>2, <1>3, <3>3 DEF Position, DescSize
    <3> QED BY <3>2, <3>4
  <2> QED BY <1>1, <2>1, <2>2
<1>5. m = Len(E) \/ o <= E[m + 1][2]
  <2>1. CASE i < n
    <3>1. i \in 0 .. n - 1 /\ base + i + 1 = m + 1
      BY <1>1, <1>2, <2>1
    <3>2. E[m + 1] = <<Entry(d, q, i), Position(q, i)>>
      BY <1>1, <3>1
    <3>3. o <= Position(q, i)
      BY <1>2, <1>3, <2>1 DEF Position, DescSize
    <3> QED BY <3>2, <3>3
  <2>2. CASE i = n /\ q + 1 # Len(d.blocks)
    <3>1. q + 1 \in 0 .. Len(d.blocks) - 1
      BY <1>3, <2>2
    <3>2. /\ Total(d, q + 1) \in Nat \ {0}
          /\ \A k \in 0 .. Total(d, q + 1) - 1 :
               E[Base(d, q + 1) + k + 1] = <<Entry(d, q + 1, k), Position(q + 1, k)>>
      BY <3>1, EntryAt
    <3>3. 0 \in 0 .. Total(d, q + 1) - 1 /\ Base(d, q + 1) + 0 + 1 = m + 1
      BY <1>1, <2>2, <3>2
    <3>4. E[m + 1] = <<Entry(d, q + 1, 0), Position(q + 1, 0)>>
      BY <3>2, <3>3
    <3>5. o <= Position(q + 1, 0)
      BY <1>3 DEF Position, DescSize
    <3> QED BY <3>4, <3>5
  <2>3. CASE i = n /\ q + 1 = Len(d.blocks)
    BY <1>1, <2>3
  <2> QED BY <1>1, <1>2, <2>1, <2>2, <2>3
<1>6. m \in 0 .. Len(E)
  BY <1>1, <1>2
<1> HIDE DEF m
<1>7. EntriesBefore(d, o) = m
  BY <1>4, <1>5, <1>6, PartedAt
<1> QED BY <1>2, <1>7 DEF m

-----------------------------------------------------------------------------
(* What fill_dentries has emitted, and where it is. *)

All == EntriesOf(dir)
From == EntriesBefore(dir, offset)

(* The number of entries before the one to come. *)
Front == Base(dir, Blk) + idx

(* The position is that of the entry to come, or lies behind the block's   *)
(* descriptors, up to its end.                                             *)
AtEntry == InTheGap \/ pos = Position(Blk, idx)
BehindEntries == InTheGap \/ (BlkPos(Blk) < pos /\ pos <= BlkPos(Blk) + BlkSz)

(* An entry of a reply. *)
IsEntry(e, n) ==
  /\ e.name = All[n][1]
  /\ InTheGap \/ e.pos = All[n][2]

Counted ==
  status \in {"scanning", "returned"} =>
    /\ From \in Nat /\ Front = From + cnt
    /\ Len(batch) = IF cnt <= skipents THEN 0 ELSE cnt - skipents
    /\ \A j \in 1 .. Len(batch) : IsEntry(batch[j], From + skipents + j)
    /\ \A j \in 1 .. Len(batch) : batch[j].cookie = j + 1

Placed ==
  /\ status = "called" => batch = <<>> /\ ~refused /\ cnt = 0
  /\ status = "scanning" =>
       /\ ~refused
       /\ Left => AtEntry
       /\ ~Left => BehindEntries
  /\ status = "returned" /\ refused => client \in SmallReplies /\ Left /\ AtEntry
  /\ status = "returned" /\ ~refused => Front = Len(All)

Filled == Inv /\ Counted /\ Placed

(* The entry in hand is the next one of all. *)
LEMMA EntryToCome ==
  ASSUME Inv
  PROVE  /\ dir \in Dirs /\ Blk \in 0 .. Len(dir.blocks) - 1 /\ Blk \in Nat
         /\ Base(dir, Blk) \in Nat /\ Total(dir, Blk) \in Nat \ {0} /\ idx \in 0 .. Total(dir, Blk)
         /\ Len(All) \in Nat /\ Front \in 0 .. Len(All)
         /\ DescSize * Total(dir, Blk) < BlkSz
         /\ Left => /\ idx < Total(dir, Blk)
                    /\ Front + 1 \in 1 .. Len(All)
                    /\ All[Front + 1] = <<Entry(dir, Blk, idx), Position(Blk, idx)>>
<1>1. dir \in Dirs /\ buf \in 0 .. Size - 1 /\ idx \in 0 .. Total(dir, Blk)
  BY DEF Inv, TypeOK
<1>2. Blk \in 0 .. Len(dir.blocks) - 1
  BY <1>1, DirsStored, BlockTypes DEF Size, Blk
<1> DEFINE b == Blk
           n == Total(dir, b)
           base == Base(dir, b)
<1>3. /\ base \in Nat /\ n \in Nat \ {0} /\ Len(All) \in Nat
      /\ Base(dir, b + 1) = base + n
      /\ Base(dir, b + 1) <= Len(All)
      /\ \A k \in 0 .. n - 1 : All[base + k + 1] = <<Entry(dir, b, k), Position(b, k)>>
  BY <1>1, <1>2, EntryAt DEF All
<1>4. DescSize * n < BlkSz
  BY <1>1, <1>2, DirsStored, BlockShape
<1>5. b \in Nat
  BY <1>2
<1>6. Front = base + idx /\ (Left => idx < n)
  BY DEF Front, Left
<1>7. idx \in 0 .. n
  BY <1>1
<1>8. Front \in 0 .. Len(All)
  <2> HIDE DEF base, n
  <2> QED BY <1>3, <1>6, <1>7
<1>9. ASSUME Left
      PROVE  /\ Front + 1 \in 1 .. Len(All)
             /\ All[Front + 1] = <<Entry(dir, b, idx), Position(b, idx)>>
  <2> HIDE DEF base, n, b
  <2>1. idx \in 0 .. n - 1 /\ Front + 1 = base + idx + 1
    BY <1>3, <1>6, <1>7, <1>9
  <2>2. All[base + idx + 1] = <<Entry(dir, b, idx), Position(b, idx)>>
    BY <1>3, <2>1
  <2>3. Front + 1 \in 1 .. Len(All)
    BY <1>3, <1>6, <1>7, <1>9
  <2> QED BY <2>1, <2>2, <2>3, Zenon
<1> QED BY <1>1, <1>2, <1>3, <1>4, <1>5, <1>6, <1>7, <1>8, <1>9

(* What does not change, as long as the call and the block do not.         *)
LEMMA SameCall ==
  ASSUME UNCHANGED <<dir, offset>>
  PROVE  /\ All' = All /\ From' = From /\ (InTheGap <=> InTheGap') /\ Size' = Size
         /\ BlkOffset' = BlkOffset
BY DEF All, From, InTheGap, BlkOffset, Size

LEMMA FirstBufferFills ==
  ASSUME Filled, FirstBuffer, Inv'
  PROVE  Counted' /\ Placed'
<1> DEFINE q == offset \div BlkSz
           r == offset % BlkSz
           t == BlkOffset \div DescSize
           n == Total(dir, q)
<1>1. /\ status = "called" /\ status' = "scanning"
      /\ UNCHANGED <<batch, refused, dir, client, offset, skipents>>
      /\ cnt' = 0
      /\ buf' = RoundDown(offset, BlkSz)
      /\ pos' = RoundDown(offset, BlkSz) + BlkOffset
      /\ idx' = IF t <= Total(dir, buf' \div BlkSz) THEN t ELSE Total(dir, buf' \div BlkSz)
  BY DEF FirstBuffer, NextBuffer, fixed
<1>2. BlkSz \in Nat \ {0} /\ offset \in Nat /\ dir \in Dirs /\ skipents \in Nat
  BY DirsStored, BlockTypes DEF Filled, Inv, TypeOK
<1>3. offset = (BlkSz * q) + r /\ r \in 0 .. BlkSz - 1 /\ q \in Nat
  BY <1>2, DivMod
<1>4. BlkPos(q) = BlkSz * q /\ BlkPos(q) \in Nat /\ RoundDown(offset, BlkSz) = BlkPos(q)
  <2>1. RoundDown(offset, BlkSz) = BlkPos(q)
    BY DEF RoundDown, BlkPos
  <2> HIDE DEF q
  <2> QED BY <1>2, <1>3, <2>1 DEF BlkPos
<1>5. BlkAccess(offset).off = r
  BY DEF BlkAccess, Accessor
<1>6. /\ t \in Nat /\ BlkOffset = DescSize * t
      /\ r <= DescSize * t /\ (t = 0 \/ DescSize * (t - 1) < r)
  <2>1. BlkOffset = ((r + 12 - 1) \div 12) * 12
    BY <1>5 DEF BlkOffset, RoundUp, DescSize
  <2>2. r \in Nat
    BY <1>3
  <2> HIDE DEF r
  <2> QED BY <2>1, <2>2 DEF DescSize
<1> HIDE DEF q, r, t
<1>7. Blk' = q
  <2>1. buf' = (BlkSz * q) + 0 /\ 0 \in 0 .. BlkSz - 1 /\ buf' \in Nat
    BY <1>1, <1>2, <1>3, <1>4
  <2>2. q = buf' \div BlkSz
    BY <1>2, <1>3, <2>1, DivModUnique
  <2> QED BY <2>2 DEF Blk
<1>8. q \in 0 .. Len(dir.blocks) - 1
  <2>1. (Blk \in 0 .. Len(dir.blocks) - 1)'
    <3>1. (dir \in Dirs /\ buf \in 0 .. Size - 1)'
      BY DEF Inv, TypeOK
    <3>2. /\ dir' \in Dirs /\ buf' \in 0 .. dir'.inode.size - 1
      BY <3>1 DEF Size
    <3>3. buf' \div BlkSz \in 0 .. Len(dir'.blocks) - 1
      BY <3>2, DirsStored, BlockTypes
    <3> QED BY <3>3 DEF Blk
  <2> QED BY <1>1, <1>7, <2>1
<1>9. idx' = IF t <= n THEN t ELSE n
  BY <1>1, <1>7 DEF Blk
<1>10. n \in Nat \ {0}
  BY <1>2, <1>8, DirsStored, BlockShape
<1> HIDE DEF n
<1>11. From = Base(dir, q) + idx'
  <2> DEFINE i == IF t <= Total(dir, q) THEN t ELSE Total(dir, q)
  <2>1. i = idx'
    BY <1>9 DEF n
  <2>2. offset = BlkPos(q) + r
    BY <1>3, <1>4
  <2> HIDE DEF i
  <2>3. i = IF t <= Total(dir, q) THEN t ELSE Total(dir, q)
    BY DEF i
  <2>4. EntriesBefore(dir, offset) = Base(dir, q) + i
    BY <1>2, <1>3, <1>6, <1>8, <2>2, <2>3, StartsAtOffset
  <2> QED BY <2>1, <2>4 DEF From
<1>12. /\ All' = All /\ From' = From /\ (InTheGap <=> InTheGap') /\ BlkOffset' = BlkOffset
  BY <1>1, SameCall
<1>13. Base(dir, q) \in Nat
  BY <1>2, <1>8, EntryAt
<1>14. Front' = From /\ From \in Nat
  BY <1>1, <1>6, <1>7, <1>9, <1>10, <1>11, <1>13 DEF Front
<1>15. batch' = <<>> /\ ~refused'
  BY <1>1 DEF Filled, Placed
<1>16. Counted'
  BY <1>1, <1>2, <1>12, <1>14, <1>15 DEF Counted
<1>17. Left' <=> idx' < n
  BY <1>1, <1>7 DEF Left, n
<1>18. ASSUME Left' PROVE AtEntry'
  <2>1. idx' = t
    BY <1>6, <1>9, <1>10, <1>17, <1>18
  <2>2. pos' = Position(Blk', idx')
    BY <1>1, <1>4, <1>6, <1>7, <2>1 DEF Position
  <2> QED BY <2>2 DEF AtEntry
<1>19. ASSUME ~Left' PROVE BehindEntries'
  <2>1. t # 0
    BY <1>6, <1>9, <1>10, <1>17, <1>19
  <2>2. pos' = BlkPos(q) + (DescSize * t)
    BY <1>1, <1>4, <1>6
  <2>3. BlkPos(q) < pos'
    BY <1>4, <1>6, <2>1, <2>2 DEF DescSize
  <2>4. InTheGap \/ pos' <= BlkPos(q) + BlkSz
    BY <1>2, <1>4, <1>6, <2>2 DEF InTheGap, DescSize
  <2> QED BY <1>7, <1>12, <2>3, <2>4 DEF BehindEntries
<1>20. Placed'
  BY <1>1, <1>15, <1>18, <1>19 DEF Placed
<1> QED BY <1>16, <1>20

(* One entry further in the block. *)
LEMMA AdvancedInBlock ==
  ASSUME Filled, status = "scanning", Left, Advanced, UNCHANGED <<dir, offset, buf>>
  PROVE  /\ Front' = Front + 1 /\ Front \in Nat /\ cnt \in Nat
         /\ Left' => AtEntry'
         /\ ~Left' => BehindEntries'
<1>1. /\ cnt' = cnt + 1 /\ pos' = pos + DescSize /\ idx' = idx + 1 /\ cnt \in Nat /\ pos \in Nat
  BY DEF Advanced, Filled, Inv, TypeOK
<1>2. /\ dir \in Dirs /\ Blk \in Nat
      /\ Base(dir, Blk) \in Nat /\ Total(dir, Blk) \in Nat \ {0} /\ idx \in 0 .. Total(dir, Blk)
      /\ DescSize * Total(dir, Blk) < BlkSz
      /\ idx < Total(dir, Blk)
  BY EntryToCome DEF Filled
<1>3. Blk' = Blk /\ (InTheGap <=> InTheGap') /\ Total(dir', Blk') = Total(dir, Blk)
  BY SameCall DEF Blk
<1>4. Front' = Front + 1 /\ Front \in Nat
  <2>1. Front' = Base(dir, Blk) + (idx + 1)
    BY <1>1, <1>3 DEF Front
  <2> QED BY <1>2, <2>1 DEF Front
<1>5. BlkPos(Blk) \in Nat /\ BlkSz \in Nat
  BY <1>2, WholeBlock, GeometryAssumption
<1>6. InTheGap \/ pos = Position(Blk, idx)
  BY DEF Filled, Placed, AtEntry
<1> DEFINE n == Total(dir, Blk)
<1> HIDE DEF n
<1>7. InTheGap \/ pos' = BlkPos(Blk) + (DescSize * (idx + 1))
  <2>1. idx \in Nat
    BY <1>2
  <2> QED BY <1>1, <1>5, <1>6, <2>1 DEF Position, DescSize
<1>8. AtEntry'
  BY <1>1, <1>3, <1>7 DEF AtEntry, Position
<1>9. ASSUME ~Left' PROVE BehindEntries'
  <2>1. idx + 1 = n
    BY <1>1, <1>2, <1>3, <1>9 DEF Left, n
  <2>2. n \in Nat \ {0} /\ DescSize * n < BlkSz
    BY <1>2 DEF n
  <2>3. InTheGap \/ (BlkPos(Blk) < pos' /\ pos' <= BlkPos(Blk) + BlkSz)
    BY <1>5, <1>7, <2>1, <2>2 DEF DescSize
  <2> QED BY <1>3, <2>3 DEF BehindEntries
<1> QED BY <1>1, <1>4, <1>8, <1>9

LEMMA SkipEntryFills ==
  ASSUME Filled, SkipEntry
  PROVE  Counted' /\ Placed'
<1>1. /\ status = "scanning" /\ Left /\ cnt < skipents /\ Advanced
      /\ UNCHANGED <<status, buf, batch, refused, dir, client, offset, skipents>>
  BY DEF SkipEntry, fixed
<1>2. /\ Front' = Front + 1 /\ Front \in Nat /\ cnt \in Nat
      /\ (Left' => AtEntry') /\ (~Left' => BehindEntries')
  BY <1>1, AdvancedInBlock
<1>3. All' = All /\ From' = From /\ (InTheGap <=> InTheGap')
  BY <1>1, SameCall
<1>4. cnt' = cnt + 1 /\ skipents \in Nat
  BY <1>1 DEF Advanced, Filled, Inv, TypeOK
<1>5. /\ From \in Nat /\ Front = From + cnt
      /\ Len(batch) = IF cnt <= skipents THEN 0 ELSE cnt - skipents
  BY <1>1 DEF Filled, Counted
<1>6. Len(batch') = 0 /\ cnt' <= skipents'
  BY <1>1, <1>2, <1>4, <1>5
<1>7. Front' = From' + cnt' /\ From' \in Nat
  BY <1>2, <1>3, <1>4, <1>5
<1>8. \A j \in 1 .. Len(batch') : FALSE
  BY <1>6
<1>9. Counted'
  BY <1>6, <1>7, <1>8 DEF Counted
<1>10. Placed'
  BY <1>1, <1>2 DEF Filled, Placed
<1> QED BY <1>9, <1>10

LEMMA EmitFills ==
  ASSUME Filled, Emit
  PROVE  Counted' /\ Placed'
<1>1. /\ status = "scanning" /\ Left /\ cnt >= skipents /\ Advanced
      /\ UNCHANGED <<status, buf, refused, dir, client, offset, skipents>>
      /\ batch' = Append(batch, Emitted)
  BY DEF Emit, fixed
<1>2. /\ Front' = Front + 1 /\ Front \in Nat /\ cnt \in Nat
      /\ (Left' => AtEntry') /\ (~Left' => BehindEntries')
  BY <1>1, AdvancedInBlock
<1>3. All' = All /\ From' = From /\ (InTheGap <=> InTheGap')
  BY <1>1, SameCall
<1>4. cnt' = cnt + 1 /\ skipents \in Nat
  BY <1>1 DEF Advanced, Filled, Inv, TypeOK
<1>5. /\ From \in Nat /\ Front = From + cnt
      /\ Len(batch) = IF cnt <= skipents THEN 0 ELSE cnt - skipents
      /\ \A j \in 1 .. Len(batch) : IsEntry(batch[j], From + skipents + j)
      /\ \A j \in 1 .. Len(batch) : batch[j].cookie = j + 1
  BY <1>1 DEF Filled, Counted
<1>6. Len(batch) = cnt - skipents /\ Len(batch) \in Nat
  BY <1>1, <1>2, <1>4, <1>5
<1>7. /\ Len(batch') = Len(batch) + 1
      /\ batch'[Len(batch) + 1] = Emitted
      /\ \A j \in 1 .. Len(batch) : batch'[j] = batch[j]
  <2> DEFINE R == [name : Names, pos : Nat, cookie : Nat]
  <2>1. batch \in Seq(R)
    BY DEF Filled, Inv, TypeOK
  <2> HIDE DEF R
  <2> QED BY <1>1, <2>1
<1>8. All[Front + 1] = <<Entry(dir, Blk, idx), Position(Blk, idx)>>
  BY <1>1, EntryToCome DEF Filled
<1>9. /\ Emitted.name = Entry(dir, Blk, idx) /\ Emitted.pos = pos /\ Emitted.cookie = Len(batch) + 2
  BY DEF Emitted
<1>10. IsEntry(Emitted, Front + 1)
  BY <1>1, <1>8, <1>9 DEF IsEntry, Filled, Placed, AtEntry
<1>11. ASSUME NEW j \in 1 .. Len(batch')
       PROVE  /\ IsEntry(batch'[j], From + skipents + j)
              /\ batch'[j].cookie = j + 1
  <2>1. CASE j \in 1 .. Len(batch)
    BY <1>5, <1>7, <2>1
  <2>2. CASE j = Len(batch) + 1
    <3>1. From + skipents + j = Front + 1
      BY <1>2, <1>4, <1>5, <1>6, <2>2
    <3>2. Emitted.cookie = j + 1
      BY <1>6, <1>9, <2>2
    <3> QED BY <1>7, <1>10, <2>2, <3>1, <3>2
  <2> QED BY <1>6, <1>7, <1>11, <2>1, <2>2
<1>12. Counted'
  <2>1. Len(batch') = IF cnt' <= skipents' THEN 0 ELSE cnt' - skipents'
    BY <1>1, <1>2, <1>4, <1>6, <1>7
  <2>2. Front' = From' + cnt' /\ From' \in Nat
    BY <1>2, <1>3, <1>4, <1>5
  <2>3. \A j \in 1 .. Len(batch') : IsEntry(batch[j], From + skipents + j)'
    <3> SUFFICES ASSUME NEW j \in 1 .. Len(batch')
                 PROVE  IsEntry(batch[j], From + skipents + j)'
      OBVIOUS
    <3>1. IsEntry(batch'[j], From + skipents + j)
      BY <1>11
    <3> QED BY <1>1, <1>3, <3>1 DEF IsEntry
  <2> QED BY <1>11, <2>1, <2>2, <2>3 DEF Counted
<1>13. Placed'
  BY <1>1, <1>2 DEF Filled, Placed
<1> QED BY <1>12, <1>13

(* The buffer in hand starts where its block does. *)
LEMMA BufferStart ==
  ASSUME Inv, status = "scanning"
  PROVE  /\ BlkSz \in Nat \ {0} /\ Blk \in Nat /\ buf = BlkSz * Blk /\ buf = BlkPos(Blk)
         /\ Size \in Nat \ {0} /\ buf < Size
         /\ it = Lesser(buf + BlkSz, Size)
<1>1. dir \in Dirs /\ BlkSz \in Nat \ {0} /\ Size \in Nat \ {0} /\ buf \in 0 .. Size - 1
  BY DirsStored, BlockTypes DEF Inv, TypeOK, Size
<1>2. buf % BlkSz = 0 /\ it = Lesser(buf + BlkSz, Size)
  BY DEF Inv, WholeBlocks
<1>3. buf \in Nat /\ buf < Size
  BY <1>1
<1>4. buf = (BlkSz * (buf \div BlkSz)) + (buf % BlkSz) /\ buf \div BlkSz \in Nat
  BY <1>1, <1>3, DivMod
<1> DEFINE b == buf \div BlkSz
<1> HIDE DEF b
<1>5. buf = BlkSz * b /\ b \in Nat
  BY <1>1, <1>2, <1>4 DEF b
<1>6. buf = BlkPos(b)
  BY <1>1, <1>5 DEF BlkPos
<1> QED BY <1>1, <1>2, <1>3, <1>5, <1>6 DEF b, Blk

LEMMA NextBlockFills ==
  ASSUME Filled, NextBlock, Inv'
  PROVE  Counted' /\ Placed'
<1>1. /\ status = "scanning" /\ status' = status /\ ~Left /\ it < Size
      /\ buf' = it /\ idx' = 0 /\ pos' = RoundUp(pos, BlkSz)
      /\ UNCHANGED <<cnt, batch, refused, dir, client, offset, skipents>>
  BY DEF NextBlock, NextBuffer, fixed
<1>2. Inv
  BY DEF Filled
<1>3. /\ BlkSz \in Nat \ {0} /\ Blk \in Nat /\ buf = BlkSz * Blk /\ buf = BlkPos(Blk)
      /\ Size \in Nat \ {0} /\ it = Lesser(buf + BlkSz, Size)
  BY <1>1, <1>2, BufferStart
<1>4. /\ dir \in Dirs /\ Blk \in 0 .. Len(dir.blocks) - 1
      /\ Base(dir, Blk) \in Nat /\ Total(dir, Blk) \in Nat \ {0} /\ idx \in 0 .. Total(dir, Blk)
  BY <1>2, EntryToCome
<1>5. pos \in Nat /\ cnt \in Nat
  BY <1>2 DEF Inv, TypeOK
<1> DEFINE b == Blk
           n == Total(dir, b)
<1>6. buf' = BlkSz * (b + 1)
  <2>1. it = buf + BlkSz
    BY <1>1, <1>3 DEF Lesser
  <2> HIDE DEF b
  <2> QED BY <1>1, <1>3, <2>1 DEF b
<1>7. Blk' = b + 1
  <2> HIDE DEF b
  <2>1. b \in Nat
    BY <1>3 DEF b
  <2>2. buf' = (BlkSz * (b + 1)) + 0 /\ buf' \in Nat /\ 0 \in 0 .. BlkSz - 1 /\ b + 1 \in Int
    BY <1>3, <1>6, <2>1
  <2>3. b + 1 = buf' \div BlkSz
    BY <1>3, <2>2, DivModUnique
  <2> QED BY <2>3 DEF Blk
<1>8. idx = n
  BY <1>1, <1>4 DEF Left
<1>9. Base(dir, b + 1) = Base(dir, b) + n
  BY <1>4, EntryAt
<1>10. Front' = Front
  <2>1. Front = Base(dir, b + 1)
    BY <1>8, <1>9 DEF Front
  <2>2. Front' = Base(dir, b + 1) + 0
    BY <1>1, <1>7 DEF Front
  <2>3. Base(dir, b + 1) \in Nat
    BY <1>4, <1>9
  <2> QED BY <2>1, <2>2, <2>3
<1>11. All' = All /\ From' = From /\ (InTheGap <=> InTheGap')
  BY <1>1, SameCall
<1>12. Counted'
  BY <1>1, <1>10, <1>11 DEF Filled, Counted, IsEntry
<1>13. AtEntry'
  <2> SUFFICES ASSUME ~InTheGap PROVE pos' = Position(Blk', idx')
    BY <1>11 DEF AtEntry
  <2>1. BlkPos(b) < pos /\ pos <= BlkPos(b) + BlkSz
    BY <1>1 DEF Filled, Placed, BehindEntries
  <2> DEFINE r == pos - 1 - BlkPos(b)
  <2> HIDE DEF b
  <2>2. b \in Nat /\ BlkPos(b) = BlkSz * b /\ BlkPos(b) \in Nat
    BY <1>3, WholeBlock DEF b
  <2>3. r \in 0 .. BlkSz - 1
    BY <1>3, <1>5, <2>1, <2>2
  <2>4. pos + BlkSz - 1 = (BlkSz * (b + 1)) + r
    BY <1>3, <1>5, <2>2
  <2>5. pos + BlkSz - 1 \in Nat /\ b + 1 \in Int
    BY <1>3, <1>5, <2>2
  <2> HIDE DEF r
  <2>6. b + 1 = (pos + BlkSz - 1) \div BlkSz
    BY <1>3, <2>3, <2>4, <2>5, DivModUnique
  <2>7. pos' = BlkPos(b + 1)
    BY <1>1, <2>6 DEF RoundUp, BlkPos
  <2>8. BlkPos(b + 1) \in Nat
    BY <2>2, WholeBlock
  <2> QED BY <1>1, <1>7, <2>7, <2>8 DEF Position, DescSize
<1>14. Left'
  <2>1. (dir \in Dirs /\ Total(dir, Blk) \in Nat \ {0})'
    <3>1. (buf \in 0 .. Size - 1)' /\ dir' \in Dirs
      BY <1>1, <1>4 DEF Inv, TypeOK
    <3>2. buf' \div BlkSz \in 0 .. Len(dir'.blocks) - 1
      <4>1. buf' \in 0 .. dir'.inode.size - 1
        BY <3>1 DEF Size
      <4> QED BY <3>1, <4>1, DirsStored, BlockTypes
    <3>3. Total(dir', buf' \div BlkSz) \in Nat \ {0}
      BY <3>1, <3>2, DirsStored, BlockShape
    <3> QED BY <3>1, <3>3 DEF Blk
  <2>2. (Total(dir, Blk))' > 0
    BY <2>1
  <2> QED BY <1>1, <2>2 DEF Left
<1>15. Placed'
  BY <1>1, <1>13, <1>14 DEF Filled, Placed
<1> QED BY <1>12, <1>15

LEMMA LastBlockFills ==
  ASSUME Filled, LastBlock
  PROVE  Counted' /\ Placed'
<1>1. /\ status = "scanning" /\ status' = "returned" /\ ~Left /\ it >= Size
      /\ UNCHANGED <<it, buf, idx, cnt, batch, refused, dir, client, offset, skipents>>
  BY DEF LastBlock, Return, fixed
<1>2. Inv /\ ~refused
  BY <1>1 DEF Filled, Placed
<1>3. /\ BlkSz \in Nat \ {0} /\ Blk \in Nat /\ buf = BlkSz * Blk
      /\ Size \in Nat \ {0} /\ buf < Size /\ it = Lesser(buf + BlkSz, Size)
  BY <1>1, <1>2, BufferStart
<1>4. /\ dir \in Dirs /\ Blk \in 0 .. Len(dir.blocks) - 1
      /\ Total(dir, Blk) \in Nat \ {0} /\ idx \in 0 .. Total(dir, Blk)
  BY <1>2, EntryToCome
<1> DEFINE b == Blk
<1>5. b + 1 = Len(dir.blocks)
  <2>1. BlkSz * b < dir.inode.size /\ dir.inode.size <= (BlkSz * b) + BlkSz /\ b \in Nat
    BY <1>1, <1>3 DEF Lesser, Size
  <2> QED BY <1>4, <2>1, DirsStored, EndBlock
<1>6. Front = Len(All)
  <2>1. idx = Total(dir, b)
    BY <1>1, <1>4 DEF Left
  <2>2. Base(dir, b + 1) = Base(dir, b) + Total(dir, b) /\ Base(dir, b + 1) = Len(EntriesOf(dir))
    BY <1>4, <1>5, EntryAt
  <2> QED BY <2>1, <2>2 DEF Front, All
<1>7. All' = All /\ From' = From /\ (InTheGap <=> InTheGap')
  BY <1>1, SameCall
<1>8. Front' = Front
  BY <1>1 DEF Front, Blk
<1>9. Counted'
  BY <1>1, <1>7, <1>8 DEF Filled, Counted, IsEntry
<1>10. Placed'
  BY <1>1, <1>2, <1>6, <1>7, <1>8 DEF Placed
<1> QED BY <1>9, <1>10

LEMMA EmitterStopsFills ==
  ASSUME Filled, EmitterStops
  PROVE  Counted' /\ Placed'
<1>1. /\ status = "scanning" /\ status' = "returned" /\ Left /\ refused' = TRUE
      /\ client \in SmallReplies
      /\ UNCHANGED <<it, buf, idx, cnt, pos, batch, dir, client, offset, skipents>>
  BY DEF EmitterStops, Return, fixed
<1>2. All' = All /\ From' = From /\ (InTheGap <=> InTheGap')
  BY <1>1, SameCall
<1>3. Front' = Front /\ Blk' = Blk /\ (Left <=> Left')
  BY <1>1 DEF Front, Blk, Left
<1>4. Counted'
  BY <1>1, <1>2, <1>3 DEF Filled, Counted, IsEntry
<1>5. AtEntry'
  BY <1>1, <1>2, <1>3 DEF Filled, Placed, AtEntry
<1> QED BY <1>1, <1>3, <1>4, <1>5 DEF Placed

LEMMA FilledInit == Init => Filled
BY InvInit DEF Init, Filled, Counted, Placed

LEMMA FilledNext == Filled /\ [Next]_vars => Filled'
<1> SUFFICES ASSUME Filled, [Next]_vars PROVE Filled'
  OBVIOUS
<1>1. Inv'
  BY InvNext DEF Filled
<1>2. CASE Ask
  <2>1. status' = "called" /\ batch' = <<>> /\ ~refused' /\ cnt' = 0
    BY <1>2 DEF Ask
  <2> QED BY <1>1, <2>1 DEF Filled, Counted, Placed
<1>3. CASE TakeReply
  <2>1. status' \in {"ended", "asking"}
    BY <1>3 DEF TakeReply
  <2> QED BY <1>1, <2>1 DEF Filled, Counted, Placed
<1>4. CASE OutOfRange \/ NoBuffer \/ MapFails \/ BufferFails
  <2>1. status' \in {"failed", "panicked"}
    BY <1>4 DEF OutOfRange, NoBuffer, MapFails, BufferFails
  <2> QED BY <1>1, <2>1 DEF Filled, Counted, Placed
<1>5. CASE UNCHANGED vars
  <2>1. UNCHANGED <<status, dir, client, offset, skipents, buf, idx, cnt, pos, batch, refused>>
    BY <1>5 DEF vars, callVars
  <2>2. All' = All /\ From' = From /\ (InTheGap <=> InTheGap')
    BY <2>1, SameCall
  <2>3. Front' = Front /\ Blk' = Blk /\ (Left <=> Left')
    BY <2>1 DEF Front, Blk, Left
  <2>4. Counted'
    BY <2>1, <2>2, <2>3 DEF Filled, Counted, IsEntry
  <2>5. Placed'
    BY <2>1, <2>2, <2>3 DEF Filled, Placed, AtEntry, BehindEntries
  <2> QED BY <1>1, <2>4, <2>5 DEF Filled
<1> QED BY <1>1, <1>2, <1>3, <1>4, <1>5, FirstBufferFills, SkipEntryFills, EmitFills,
           EmitterStopsFills, NextBlockFills, LastBlockFills
        DEF Next, FillDentries, Filled

THEOREM FilledInvariance == Spec => []Filled
BY FilledInit, FilledNext, PTL DEF Spec

(* What fill_dentries has to emit is what comes behind the entries before  *)
(* the offset and those to skip.                                           *)
LEMMA DueEntries ==
  ASSUME dir \in Dirs, From \in 0 .. Len(All), skipents \in Nat
  PROVE  /\ Len(Due) = IF From + skipents <= Len(All) THEN Len(All) - From - skipents ELSE 0
         /\ \A j \in 1 .. Len(Due) : Due[j] = All[From + skipents + j]
<1> DEFINE T == STRING \X Nat
           rest == SubSeq(All, From + 1, Len(All))
<1>1. All \in Seq(T) /\ Len(All) \in Nat
  BY AllEntries DEF All, Listed
<1>2. Due = SubSeq(rest, skipents + 1, Len(rest))
  BY DEF Due, EntriesFrom, From, All
<1> HIDE DEF T, rest
<1>3. /\ rest \in Seq(T) /\ Len(rest) = Len(All) - From
      /\ \A j \in 1 .. Len(rest) : rest[j] = All[From + j]
  BY <1>1 DEF rest
<1>4. /\ Len(Due) = IF skipents <= Len(rest) THEN Len(rest) - skipents ELSE 0
      /\ \A j \in 1 .. Len(Due) : Due[j] = rest[skipents + j]
  BY <1>1, <1>2, <1>3
<1>5. ASSUME NEW j \in 1 .. Len(Due) PROVE Due[j] = All[From + skipents + j]
  <2>1. Due[j] = rest[skipents + j] /\ skipents + j \in 1 .. Len(rest)
    BY <1>1, <1>3, <1>4
  <2>2. rest[skipents + j] = All[From + (skipents + j)]
    BY <1>3, <2>1
  <2>3. From + (skipents + j) = From + skipents + j
    BY <1>1, <1>4
  <2> QED BY <2>1, <2>2, <2>3
<1> QED BY <1>1, <1>3, <1>4, <1>5

(* For every directory, layout and block size, every offset and number of  *)
(* entries to skip: fill_dentries emits the entries due, in order, each    *)
(* with its own position, and all of them when none is refused.            *)
THEOREM FillCorrect == Spec => []FillExact
<1>1. ASSUME Filled, status \in {"scanning", "returned"}
      PROVE  /\ Len(batch) <= Len(Due)
             /\ \A j \in DOMAIN batch :
                  /\ batch[j].name = Due[j][1]
                  /\ InTheGap \/ batch[j].pos = Due[j][2]
             /\ status = "returned" /\ ~refused => Len(batch) = Len(Due)
  <2>1. Inv /\ skipents \in Nat /\ cnt \in Nat
    BY <1>1 DEF Filled, Inv, TypeOK
  <2>2. dir \in Dirs /\ Len(All) \in Nat /\ Front \in 0 .. Len(All)
    BY <2>1, EntryToCome
  <2>3. /\ From \in Nat /\ Front = From + cnt
        /\ Len(batch) = IF cnt <= skipents THEN 0 ELSE cnt - skipents
        /\ \A j \in 1 .. Len(batch) : IsEntry(batch[j], From + skipents + j)
    BY <1>1 DEF Filled, Counted
  <2>4. From \in 0 .. Len(All)
    BY <2>1, <2>2, <2>3
  <2>5. /\ Len(Due) = IF From + skipents <= Len(All) THEN Len(All) - From - skipents ELSE 0
        /\ \A j \in 1 .. Len(Due) : Due[j] = All[From + skipents + j]
    BY <2>1, <2>2, <2>4, DueEntries
  <2>6. Len(batch) <= Len(Due) /\ Len(batch) \in Nat /\ Len(Due) \in Nat
    BY <2>1, <2>2, <2>3, <2>4, <2>5
  <2>7. DOMAIN batch = 1 .. Len(batch)
    <3> DEFINE R == [name : Names, pos : Nat, cookie : Nat]
    <3>1. batch \in Seq(R)
      BY <2>1 DEF Inv, TypeOK
    <3> HIDE DEF R
    <3> QED BY <3>1
  <2>8. ASSUME NEW j \in DOMAIN batch
        PROVE  batch[j].name = Due[j][1] /\ (InTheGap \/ batch[j].pos = Due[j][2])
    <3>1. j \in 1 .. Len(batch) /\ j \in 1 .. Len(Due)
      BY <2>6, <2>7
    <3> QED BY <2>3, <2>5, <3>1 DEF IsEntry
  <2>9. ASSUME status = "returned" /\ ~refused PROVE Len(batch) = Len(Due)
    <3>1. Front = Len(All)
      BY <1>1, <2>9 DEF Filled, Placed
    <3> QED BY <2>1, <2>2, <2>3, <2>4, <2>5, <3>1
  <2> QED BY <2>6, <2>8, <2>9
<1>2. Filled => FillExact
  BY <1>1 DEF FillExact
<1> QED BY <1>2, FilledInvariance, PTL

-----------------------------------------------------------------------------
(* A client that lists the directory, over many calls: it has received     *)
(* what comes before the place it goes on from.                            *)

Busy == {"called", "scanning", "returned"}

(* A position of an entry, the first included. *)
EntryPosition(o) ==
  \E b \in 0 .. Len(dir.blocks) - 1 : \E k \in 0 .. Total(dir, b) - 1 : o = Position(b, k)

ByPosition ==
  client = "position" =>
    /\ EntryPosition(resume)
    /\ status \in Busy \cup {"asking"} => seen = SubSeq(All, 1, EntriesBefore(dir, resume))
    /\ status \in Busy => offset = resume /\ skipents = 0

(* A reply to the kernel holds all entries, and the next one none. *)
ByCookie ==
  client = "fuse" =>
    /\ status \in Busy \cup {"asking"} =>
         \/ resume = 0 /\ seen = <<>>
         \/ resume = Len(All) + 1 /\ seen = All
    /\ status \in Busy => offset = 0 /\ skipents = resume

Listing == Filled /\ ByPosition /\ ByCookie /\ EndsComplete

(* The entries before that of a position, which is not in the gap.         *)
LEMMA AtPosition ==
  ASSUME NEW d \in Dirs, NEW b \in 0 .. Len(d.blocks) - 1, NEW k \in 0 .. Total(d, b) - 1
  PROVE  /\ Position(b, k) \in Nat
         /\ EntriesBefore(d, Position(b, k)) = Base(d, b) + k
         /\ RoundUp(BlkAccess(Position(b, k)).off, DescSize) <= BlkSz
<1> DEFINE E == EntriesOf(d)
           o == Position(b, k)
           n == Total(d, b)
           m == Base(d, b) + k
<1>0. E[m + 1] = <<Entry(d, b, k), o>>
  <2>1. \A j \in 0 .. Total(d, b) - 1 :
          EntriesOf(d)[Base(d, b) + j + 1] = <<Entry(d, b, j), Position(b, j)>>
    BY EntryAt
  <2> QED BY <2>1
<1>1. /\ Base(d, b) \in Nat /\ n \in Nat \ {0} /\ Len(E) \in Nat
      /\ Base(d, b + 1) = Base(d, b) + n /\ Base(d, b + 1) <= Len(E)
  BY EntryAt
<1>2. \A i, j \in 1 .. Len(E) : i < j => E[i][2] < E[j][2]
  BY AllEntries
<1>3. BlkSz \in Nat \ {0} /\ b \in Nat /\ k \in Nat /\ DescSize * n < BlkSz /\ k < n
  BY <1>1, DirsStored, BlockShape, GeometryAssumption
<1>4. BlkPos(b) \in Nat /\ BlkPos(b) = BlkSz * b
  BY <1>3, WholeBlock DEF BlkPos
<1>5. o = BlkPos(b) + (DescSize * k)
  BY DEF Position
<1> HIDE DEF n, o
<1>6. o \in Nat /\ DescSize * k \in 0 .. BlkSz - 1
  BY <1>1, <1>3, <1>4, <1>5 DEF DescSize
<1>7. EntriesBefore(d, o) = m
  <2>1. m \in 0 .. Len(E) /\ m + 1 \in 1 .. Len(E)
    BY <1>1, <1>3
  <2>2. o = E[m + 1][2]
    BY <1>0
  <2>3. o <= E[m + 1][2]
    BY <1>6, <2>2
  <2>4. m = 0 \/ E[m][2] < o
    <3> SUFFICES ASSUME m # 0 PROVE E[m][2] < E[m + 1][2]
      BY <2>2
    <3> HIDE DEF m, E
    <3>1. m \in 1 .. Len(E) /\ m < m + 1
      BY <1>1, <2>1
    <3> QED BY <1>2, <2>1, <3>1
  <2> HIDE DEF m
  <2> QED BY <1>6, <2>1, <2>3, <2>4, PartedAt
<1>8. BlkAccess(o).off = DescSize * k
  <2> DEFINE r == DescSize * k
  <2>1. r \in 0 .. BlkSz - 1 /\ o = (BlkSz * b) + r
    BY <1>4, <1>5, <1>6
  <2> HIDE DEF r
  <2>2. b \in Int
    BY <1>3
  <2>3. r = o % BlkSz
    BY <1>3, <1>6, <2>1, <2>2, DivModUnique
  <2> QED BY <2>3 DEF BlkAccess, Accessor, r
<1>9. RoundUp(DescSize * k, DescSize) = DescSize * k
  BY <1>3 DEF RoundUp, DescSize
<1>10. RoundUp(BlkAccess(o).off, DescSize) <= BlkSz
  BY <1>3, <1>6, <1>8, <1>9
<1> QED BY <1>6, <1>7, <1>10 DEF o

(* The first entry is at the start of the directory. *)
LEMMA FirstEntry ==
  ASSUME NEW d \in Dirs
  PROVE  /\ 0 \in 0 .. Len(d.blocks) - 1 /\ 0 \in 0 .. Total(d, 0) - 1
         /\ Position(0, 0) = 0 /\ Base(d, 0) = 0
         /\ EntriesBefore(d, 0) = 0
<1>1. d.inode.size \in Nat \ {0} /\ BlkSz \in Nat \ {0}
  BY DirsStored, BlockTypes
<1>2. 0 \in 0 .. d.inode.size - 1 /\ 0 \div BlkSz = 0
  BY <1>1
<1>3. 0 \in 0 .. Len(d.blocks) - 1
  <2>1. 0 \div BlkSz \in 0 .. Len(d.blocks) - 1
    BY <1>2, DirsStored, BlockTypes
  <2> QED BY <1>2, <2>1
<1>4. 0 \in 0 .. Total(d, 0) - 1
  <2>1. Total(d, 0) \in Nat \ {0}
    BY <1>3, DirsStored, BlockShape
  <2> QED BY <2>1
<1>5. Position(0, 0) = 0 /\ Base(d, 0) = 0
  BY <1>1, EntriesStep DEF Position, BlkPos, DescSize, Base
<1>6. EntriesBefore(d, Position(0, 0)) = Base(d, 0) + 0
  BY <1>3, <1>4, AtPosition
<1> QED BY <1>3, <1>4, <1>5, <1>6

LEMMA SameSequence ==
  ASSUME NEW T, NEW s \in Seq(T), NEW t \in Seq(T), Len(s) = Len(t),
         \A j \in 1 .. Len(s) : s[j] = t[j]
  PROVE  s = t
OBVIOUS

(* What follows a beginning of a sequence makes a longer one. *)
LEMMA LongerBeginning ==
  ASSUME NEW T, NEW s \in Seq(T), NEW m \in Nat, NEW r \in Seq(T), m + Len(r) <= Len(s),
         \A j \in 1 .. Len(r) : r[j] = s[m + j]
  PROVE  SubSeq(s, 1, m) \o r = SubSeq(s, 1, m + Len(r))
<1> DEFINE a == SubSeq(s, 1, m)
           b == SubSeq(s, 1, m + Len(r))
<1>1. a \in Seq(T) /\ Len(a) = m /\ \A j \in 1 .. m : a[j] = s[j]
  OBVIOUS
<1>2. /\ b \in Seq(T) /\ Len(b) = m + Len(r)
      /\ \A j \in 1 .. m + Len(r) : b[j] = s[j]
  OBVIOUS
<1> HIDE DEF a, b
<1> DEFINE n == Len(r)
<1>3. n \in Nat
  OBVIOUS
<1>4. a \o r \in Seq(T) /\ Len(a \o r) = m + n
  <2>1. a \o r \in Seq(T) /\ Len(a \o r) = Len(a) + Len(r)
    BY <1>1, Concatenated
  <2> QED BY <1>1, <2>1
<1> HIDE DEF n
<1>5. ASSUME NEW j \in 1 .. m + n PROVE (a \o r)[j] = b[j]
  <2>1. CASE j <= m
    <3>1. (a \o r)[j] = a[j]
      BY <1>1, <1>3, <2>1 DEF n
    <3> QED BY <1>1, <1>2, <1>3, <2>1, <3>1 DEF n
  <2>2. CASE m < j
    <3>1. (a \o r)[j] = r[j - m]
      BY <1>1, <1>3, <2>2 DEF n
    <3>2. j - m \in 1 .. n /\ m + (j - m) = j
      BY <1>3, <2>2
    <3>3. r[j - m] = s[j]
      BY <3>2 DEF n
    <3>4. b[j] = s[j]
      BY <1>2, <1>5 DEF n
    <3> QED BY <3>1, <3>3, <3>4
  <2>3. j <= m \/ m < j
    BY <1>3
  <2> QED BY <2>1, <2>2, <2>3, Zenon
<1>6. a \o r = b
  <2>1. b \in Seq(T) /\ Len(b) = m + n
    BY <1>2 DEF n
  <2> QED BY <1>3, <1>4, <1>5, <2>1, SameSequence
<1> QED BY <1>6 DEF a, b

(* A reply is the next entries: what the client has is longer by it.       *)
LEMMA ReplyFollows ==
  ASSUME Filled, status = "returned", ~InTheGap, skipents = 0
  PROVE  /\ SubSeq(All, 1, From) \o Received = SubSeq(All, 1, Front)
         /\ Len(batch) = cnt /\ From \in 0 .. Len(All)
<1> DEFINE T == STRING \X Nat
           R == [name : Names, pos : Nat, cookie : Nat]
<1>1. dir \in Dirs /\ batch \in Seq(R) /\ cnt \in Nat
  BY DEF Filled, Inv, TypeOK
<1>2. All \in Seq(T) /\ Len(All) \in Nat
  BY <1>1, AllEntries DEF All, Listed
<1>3. /\ From \in Nat /\ Front = From + cnt
      /\ Len(batch) = IF cnt <= skipents THEN 0 ELSE cnt - skipents
      /\ \A j \in 1 .. Len(batch) : IsEntry(batch[j], From + skipents + j)
  BY DEF Filled, Counted
<1>4. Len(batch) = cnt
  BY <1>1, <1>3
<1>5. Front \in 0 .. Len(All)
  BY EntryToCome DEF Filled
<1> HIDE DEF R
<1>6. DOMAIN batch = 1 .. cnt
  BY <1>1, <1>4
<1>7. ASSUME NEW j \in 1 .. cnt
      PROVE  /\ <<batch[j].name, batch[j].pos>> = All[From + j]
             /\ All[From + j] \in T
  <2>1. batch[j].name = All[From + skipents + j][1] /\ batch[j].pos = All[From + skipents + j][2]
    BY <1>3, <1>4 DEF IsEntry
  <2>2. From + skipents + j = From + j /\ From + j \in 1 .. Len(All)
    BY <1>1, <1>2, <1>3, <1>5
  <2>3. All[From + j] \in T
    <3> HIDE DEF T
    <3> QED BY <1>2, <2>2
  <2>4. All[From + j] = <<All[From + j][1], All[From + j][2]>>
    BY <2>3
  <2> QED BY <2>1, <2>2, <2>3, <2>4
<1> HIDE DEF T
<1>8. /\ Received \in Seq(T) /\ Len(Received) = cnt
      /\ \A j \in 1 .. cnt : Received[j] = All[From + j]
  <2>1. Received = [j \in 1 .. cnt |-> <<batch[j].name, batch[j].pos>>]
    BY <1>6 DEF Received
  <2>2. \A j \in 1 .. cnt : Received[j] = All[From + j] /\ Received[j] \in T
    BY <1>7, <2>1
  <2>3. Received = [j \in 1 .. cnt |-> Received[j]]
    BY <2>1
  <2> QED BY <1>1, <2>2, <2>3
<1>9. SubSeq(All, 1, From) \o Received = SubSeq(All, 1, From + Len(Received))
  <2>1. From + Len(Received) <= Len(All)
    BY <1>1, <1>2, <1>3, <1>5, <1>8
  <2>2. \A j \in 1 .. Len(Received) : Received[j] = All[From + j]
    BY <1>8
  <2> QED BY <1>2, <1>3, <1>8, <2>1, <2>2, LongerBeginning
<1> QED BY <1>1, <1>2, <1>3, <1>4, <1>5, <1>8, <1>9

LEMMA AskLists ==
  ASSUME Listing, Ask
  PROVE  ByPosition' /\ ByCookie' /\ EndsComplete'
<1>1. /\ status = "asking" /\ status' = "called"
      /\ UNCHANGED <<dir, client, seen, resume>>
      /\ client = "position" => offset' = resume /\ skipents' = 0
      /\ client = "fuse" => offset' = 0 /\ skipents' = resume
  BY DEF Ask, Arguments
<1>2. All' = All /\ EntriesBefore(dir, resume)' = EntriesBefore(dir, resume)
        /\ (EntryPosition(resume) <=> EntryPosition(resume)')
  BY <1>1 DEF All, EntryPosition
<1>3. ByPosition'
  BY <1>1, <1>2 DEF Listing, ByPosition, Busy
<1>4. ByCookie'
  BY <1>1, <1>2 DEF Listing, ByCookie, Busy
<1> QED BY <1>1, <1>3, <1>4 DEF EndsComplete

(* The steps of a call keep what it was asked for. *)
LEMMA CallLists ==
  ASSUME Listing, UNCHANGED fixed,
         \/ status \in Busy /\ status' \in Busy \cup {"failed", "panicked"}
         \/ status' = status
  PROVE  ByPosition' /\ ByCookie' /\ EndsComplete'
<1>1. UNCHANGED <<dir, client, offset, skipents, seen, resume>>
  BY DEF fixed
<1>2. All' = All /\ EntriesBefore(dir, resume)' = EntriesBefore(dir, resume)
        /\ (EntryPosition(resume) <=> EntryPosition(resume)')
  BY <1>1 DEF All, EntryPosition
<1>3. ByPosition'
  BY <1>1, <1>2 DEF Listing, ByPosition, Busy
<1>4. ByCookie'
  BY <1>1, <1>2 DEF Listing, ByCookie, Busy
<1>5. EndsComplete'
  BY <1>1 DEF Listing, EndsComplete, Busy
<1> QED BY <1>3, <1>4, <1>5

(* A whole reply: what the client has is all.                              *)
LEMMA WholeBeginning ==
  ASSUME NEW d \in Dirs
  PROVE  /\ SubSeq(EntriesOf(d), 1, Len(EntriesOf(d))) = EntriesOf(d)
         /\ SubSeq(EntriesOf(d), 1, 0) = <<>>
<1> DEFINE T == STRING \X Nat
           s == EntriesOf(d)
<1>1. s \in Seq(T)
  BY AllEntries DEF Listed
<1> HIDE DEF T, s
<1>2. Len(s) \in Nat
  BY <1>1
<1>3. /\ SubSeq(s, 1, Len(s)) \in Seq(T) /\ Len(SubSeq(s, 1, Len(s))) = Len(s)
      /\ \A j \in 1 .. Len(s) : SubSeq(s, 1, Len(s))[j] = s[j]
  BY <1>1
<1>4. SubSeq(s, 1, Len(s)) = s
  BY <1>1, <1>3, SameSequence
<1>5. SubSeq(s, 1, 0) = <<>>
  BY <1>1
<1> QED BY <1>4, <1>5 DEF s

LEMMA TakeByPosition ==
  ASSUME Listing, TakeReply, client = "position"
  PROVE  ByPosition' /\ ByCookie' /\ EndsComplete'
<1>1. /\ status = "returned" /\ seen' = seen \o Received
      /\ UNCHANGED <<dir, client>>
      /\ refused => status' = "asking" /\ resume' = pos
      /\ ~refused => status' = "ended" /\ resume' = resume
  BY DEF TakeReply, LastReply
<1>2. /\ EntryPosition(resume) /\ seen = SubSeq(All, 1, EntriesBefore(dir, resume))
      /\ offset = resume /\ skipents = 0
  BY <1>1 DEF Listing, ByPosition, Busy
<1>3. Filled /\ dir \in Dirs
  BY DEF Listing, Filled, Inv, TypeOK
<1>4. ~InTheGap
  <2>1. PICK b \in 0 .. Len(dir.blocks) - 1 : \E k \in 0 .. Total(dir, b) - 1 : resume = Position(b, k)
    BY <1>2 DEF EntryPosition
  <2>2. PICK k \in 0 .. Total(dir, b) - 1 : resume = Position(b, k)
    BY <2>1
  <2>3. BlkOffset <= BlkSz
    BY <1>2, <1>3, <2>2, AtPosition DEF BlkOffset
  <2>4. BlkOffset \in Nat /\ BlkSz \in Nat
    <3>1. offset \in Nat /\ BlkSz \in Nat \ {0}
      BY <1>3, GeometryAssumption DEF Filled, Inv, TypeOK
    <3>2. BlkAccess(offset).off \in Nat
      BY <3>1, DivMod DEF BlkAccess, Accessor
    <3>3. DescSize \in Nat \ {0}
      BY DEF DescSize
    <3> QED BY <3>1, <3>2, <3>3, RoundUpNat DEF BlkOffset
  <2> QED BY <2>3, <2>4 DEF InTheGap
<1>5. seen' = SubSeq(All, 1, Front)
  BY <1>1, <1>2, <1>3, <1>4, ReplyFollows DEF From
<1>6. All' = All
  BY <1>1 DEF All
<1>7. CASE refused
  <2>1. Left /\ pos = Position(Blk, idx)
    BY <1>1, <1>3, <1>4, <1>7 DEF Filled, Placed, AtEntry
  <2>2. /\ Blk \in 0 .. Len(dir.blocks) - 1 /\ idx \in 0 .. Total(dir, Blk)
        /\ idx < Total(dir, Blk) /\ Total(dir, Blk) \in Nat
    BY <1>3, <2>1, EntryToCome DEF Filled
  <2>3. idx \in 0 .. Total(dir, Blk) - 1
    BY <2>2
  <2>4. EntryPosition(pos)
    BY <2>1, <2>2, <2>3 DEF EntryPosition
  <2>5. EntriesBefore(dir, pos) = Front
    BY <1>3, <2>1, <2>2, <2>3, AtPosition DEF Front
  <2>6. (EntryPosition(resume))'
    BY <1>1, <1>7, <2>4 DEF EntryPosition
  <2>7. seen' = SubSeq(All', 1, EntriesBefore(dir', resume'))
    BY <1>1, <1>5, <1>6, <1>7, <2>5
  <2> QED BY <1>1, <1>7, <2>6, <2>7 DEF ByPosition, ByCookie, EndsComplete, Busy
<1>8. CASE ~refused
  <2>1. Front = Len(All)
    BY <1>1, <1>3, <1>8 DEF Filled, Placed
  <2>2. seen' = All
    BY <1>3, <1>5, <2>1, WholeBeginning DEF All
  <2>3. (EntryPosition(resume))'
    BY <1>1, <1>2, <1>8 DEF EntryPosition
  <2>4. client' = "position" /\ status' = "ended"
    BY <1>1, <1>8
  <2>5. EndsComplete'
    BY <1>6, <2>2 DEF EndsComplete, All
  <2> QED BY <2>3, <2>4, <2>5 DEF ByPosition, ByCookie, Busy
<1> QED BY <1>7, <1>8

(* The kernel has room for the whole directory: one reply holds it, and    *)
(* the next is empty.                                                      *)
LEMMA TakeByCookie ==
  ASSUME Listing, TakeReply, client = "fuse", "fuse" \notin SmallReplies
  PROVE  ByPosition' /\ ByCookie' /\ EndsComplete'
<1>1. /\ status = "returned" /\ seen' = seen \o Received
      /\ UNCHANGED <<dir, client>>
      /\ batch # <<>> => status' = "asking" /\ resume' = batch[Len(batch)].cookie
      /\ batch = <<>> => status' = "ended"
  BY DEF TakeReply, LastReply
<1>2. /\ (resume = 0 /\ seen = <<>>) \/ (resume = Len(All) + 1 /\ seen = All)
      /\ offset = 0 /\ skipents = resume
  BY <1>1 DEF Listing, ByCookie, Busy
<1>3. Filled /\ dir \in Dirs /\ cnt \in Nat
  BY DEF Listing, Filled, Inv, TypeOK
<1>4. ~refused /\ Front = Len(All)
  BY <1>1, <1>3 DEF Filled, Placed
<1>5. From = 0
  BY <1>2, <1>3, FirstEntry DEF From
<1>6. Len(All) \in Nat \ {0}
  BY <1>3, AllEntries DEF All
<1>7. /\ cnt = Len(All)
      /\ Len(batch) = IF cnt <= skipents THEN 0 ELSE cnt - skipents
      /\ \A j \in 1 .. Len(batch) : batch[j].cookie = j + 1
  BY <1>1, <1>3, <1>4, <1>5, <1>6 DEF Filled, Counted
<1>8. ~InTheGap
  <2>1. BlkSz \in Nat \ {0}
    BY GeometryAssumption
  <2>2. BlkAccess(offset).off = 0
    BY <1>2, <2>1 DEF BlkAccess, Accessor
  <2> QED BY <2>1, <2>2 DEF InTheGap, BlkOffset, RoundUp, DescSize
<1>9. All' = All
  BY <1>1 DEF All
<1>10. CASE resume = 0
  <2>1. seen = <<>> /\ skipents = 0
    BY <1>2, <1>6, <1>10
  <2>2. SubSeq(All, 1, From) \o Received = SubSeq(All, 1, Front)
    BY <1>1, <1>3, <1>8, <2>1, ReplyFollows
  <2>3. seen' = All
    BY <1>1, <1>3, <1>4, <1>5, <2>1, <2>2, WholeBeginning DEF All
  <2>4. Len(batch) = Len(All)
    BY <1>6, <1>7, <2>1
  <2>5. batch # <<>>
    BY <1>6, <2>4
  <2>6. resume' = Len(All) + 1
    BY <1>1, <1>6, <1>7, <2>4, <2>5
  <2> QED BY <1>1, <1>9, <2>3, <2>5, <2>6 DEF ByPosition, ByCookie, EndsComplete, Busy
<1>11. CASE resume # 0
  <2>1. seen = All /\ skipents = Len(All) + 1
    BY <1>2, <1>11
  <2>2. Len(batch) = 0
    BY <1>6, <1>7, <2>1
  <2>3. batch = <<>>
    <3> DEFINE R == [name : Names, pos : Nat, cookie : Nat]
    <3>1. batch \in Seq(R)
      BY <1>3 DEF Filled, Inv, TypeOK
    <3> HIDE DEF R
    <3> QED BY <2>2, <3>1
  <2>4. Received = <<>>
    BY <2>3 DEF Received
  <2>5. seen' = All
    <3> DEFINE T == STRING \X Nat
    <3>1. All \in Seq(T)
      BY <1>3, AllEntries DEF All, Listed
    <3> HIDE DEF T
    <3> QED BY <1>1, <2>1, <2>4, <3>1
  <2> QED BY <1>1, <1>9, <2>3, <2>5 DEF ByPosition, ByCookie, EndsComplete, Busy, All
<1> QED BY <1>10, <1>11

LEMMA ListingInit == Init => Listing
<1> SUFFICES ASSUME Init PROVE Listing
  OBVIOUS
<1>1. /\ dir \in Dirs /\ status = "asking" /\ resume = 0 /\ seen = <<>>
  BY DEF Init
<1>2. EntryPosition(resume)
  BY <1>1, FirstEntry DEF EntryPosition
<1>3. seen = SubSeq(All, 1, EntriesBefore(dir, resume))
  BY <1>1, FirstEntry, WholeBeginning DEF All
<1> QED BY <1>1, <1>2, <1>3, FilledInit DEF Listing, ByPosition, ByCookie, EndsComplete, Busy

LEMMA ListingNext ==
  ASSUME "fuse" \notin SmallReplies
  PROVE  Listing /\ [Next]_vars => Listing'
<1> SUFFICES ASSUME Listing, [Next]_vars PROVE Listing'
  OBVIOUS
<1>1. Filled'
  BY FilledNext DEF Listing
<1>2. CASE Ask
  BY <1>1, <1>2, AskLists DEF Listing
<1>3. CASE TakeReply
  <2>1. CASE client = "position"
    BY <1>1, <1>3, <2>1, TakeByPosition DEF Listing
  <2>2. CASE client = "fuse"
    BY <1>1, <1>3, <2>2, TakeByCookie DEF Listing
  <2>3. CASE client \notin {"position", "fuse"}
    <3>1. client' = client
      BY <1>3 DEF TakeReply
    <3>2. client = "library"
      BY <2>3, ReaddirAssumption DEF Listing, Filled, Inv, TypeOK
    <3> QED BY <1>1, <2>3, <3>1, <3>2 DEF Listing, ByPosition, ByCookie, EndsComplete
  <2> QED BY <2>1, <2>2, <2>3
<1>4. CASE FillDentries \/ BufferFails
  <2>1. /\ UNCHANGED fixed
        /\ \/ status \in Busy /\ status' \in Busy \cup {"failed", "panicked"}
           \/ status' = status
    <3>1. CASE OutOfRange
      BY <3>1 DEF OutOfRange, Busy
    <3>2. CASE NoBuffer
      BY <3>2 DEF NoBuffer, Busy
    <3>3. CASE FirstBuffer
      BY <3>3 DEF FirstBuffer, Busy
    <3>4. CASE SkipEntry \/ Emit \/ NextBlock
      BY <3>4 DEF SkipEntry, Emit, NextBlock
    <3>5. CASE EmitterStops
      BY <3>5 DEF EmitterStops, Return, Busy
    <3>6. CASE LastBlock
      BY <3>6 DEF LastBlock, Return, Busy
    <3>7. CASE MapFails \/ BufferFails
      BY <3>7 DEF MapFails, BufferFails, Wanted, Busy
    <3> QED BY <1>4, <3>1, <3>2, <3>3, <3>4, <3>5, <3>6, <3>7 DEF FillDentries
  <2> QED BY <1>1, <2>1, CallLists DEF Listing
<1>5. CASE UNCHANGED vars
  <2>1. UNCHANGED fixed /\ status' = status
    BY <1>5 DEF vars, fixed
  <2> QED BY <1>1, <2>1, CallLists DEF Listing
<1> QED BY <1>2, <1>3, <1>4, <1>5 DEF Next

(* For every directory, and every client that resumes where it was         *)
(* stopped: a listing that has ended shows every entry once and in order,  *)
(* over however many replies. The kernel's client is one of them as long   *)
(* as its reply has room for the directory; otherwise it is not, as the    *)
(* run readdir_replies shows.                                              *)
THEOREM ListingComplete ==
  ASSUME "fuse" \notin SmallReplies
  PROVE  Spec => []EndsComplete
<1>1. Init => Listing
  BY ListingInit
<1>2. Listing /\ [Next]_vars => Listing'
  BY ListingNext
<1>3. Listing => EndsComplete
  BY DEF Listing
<1> QED BY <1>1, <1>2, <1>3, PTL DEF Spec

=============================================================================
