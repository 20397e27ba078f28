-------------------------- MODULE XattrScanProofs ---------------------------
(***************************************************************************)
(* Proofs about XattrScan.  The first part is about every image, well      *)
(* formed or not, every block size, and every sequence of requests: where  *)
(* the scan may look, and what its variables may be.  The second part is   *)
(* about the answers of a request that is Plain: the entries lie where the *)
(* scan looks for them, so that it comes to each of them (Way), and what   *)
(* it has passed or listed is what the image has up to there.              *)
(***************************************************************************)
EXTENDS XattrScan, LayoutProofs

(* What is known of the cursor, wherever its range is. *)
P == INSTANCE SkipCursorProofs WITH Base <- 0, Length <- 0, Lengths <- Nat

-----------------------------------------------------------------------------
(* The bytes of the image. *)

LEMMA OctetTypes ==
  /\ Octets \subseteq Nat
  /\ \A s \in Seq(Octets) :
       s \in Seq(Nat) /\ Len(s) \in Nat /\ \A k \in 1 .. Len(s) : s[k] \in Octets
<1>1. Octets \subseteq Nat
  BY DEF Octets
<1>2. ASSUME NEW S, S \subseteq Nat, NEW s \in Seq(S)
      PROVE  s \in Seq(Nat) /\ Len(s) \in Nat /\ \A k \in 1 .. Len(s) : s[k] \in S
  <2>1. Len(s) \in Nat /\ s \in [1 .. Len(s) -> S]
    OBVIOUS
  <2>2. s \in [1 .. Len(s) -> Nat]
    BY <1>2, <2>1
  <2>3. \A n \in Nat : \A f \in [1 .. n -> Nat] : f \in Seq(Nat)
    OBVIOUS
  <2> QED BY <2>1, <2>2, <2>3
<1> QED BY <1>1, <1>2

LEMMA Bytes ==
  ASSUME NEW a \in Nat
  PROVE  Byte(a) \in Nat /\ Word(a) \in Nat
<1>1. ASSUME NEW b \in Nat PROVE Byte(b) \in Nat
  <2>1. Len(Image) \in Nat /\ \A k \in 1 .. Len(Image) : Image[k] \in Nat
    BY XattrAssumption, OctetTypes
  <2> QED BY <2>1 DEF Byte
<1>2. /\ a + 1 \in Nat /\ a + 2 \in Nat /\ a + 3 \in Nat
  OBVIOUS
<1>3. Byte(a) \in Nat /\ Byte(a + 1) \in Nat /\ Byte(a + 2) \in Nat /\ Byte(a + 3) \in Nat
  BY <1>1, <1>2
<1>4. Word(a) \in Nat
  BY <1>3 DEF Word
<1> QED BY <1>1, <1>4

Headers == [suffix_len: Nat, long: BOOLEAN, index: Nat, value_len: Nat]

LEMMA HeaderTypes ==
  ASSUME NEW a \in Nat
  PROVE  HeaderAt(a) \in Headers
<1>1. /\ Byte(a) \in Nat /\ Byte(a + 1) \in Nat /\ Byte(a + 2) \in Nat /\ Byte(a + 3) \in Nat
  BY Bytes
<1>2. Byte(a + 1) % 128 \in Nat /\ Byte(a + 2) + 256 * Byte(a + 3) \in Nat
  BY <1>1
<1> QED BY <1>1, <1>2 DEF HeaderAt, Headers

(* A prefix that is known has a length, and so has the infix.              *)
Known(h) == (h.long => InfixKnown(h)) /\ Prefix(h) < Len(PrefixLens)

LEMMA InfixTypes ==
  ASSUME NEW h \in Headers, h.long => InfixKnown(h)
  PROVE  /\ Infix(h) \in Seq(Nat) /\ Len(Infix(h)) \in Nat
         /\ Prefix(h) \in Nat
<1>1. CASE h.long
  <2>1. h.index + 1 \in 1 .. Len(Infixes)
    BY <1>1, XattrAssumption DEF InfixKnown, Headers
  <2>2. Infixes[h.index + 1] \in [prefix: Octets, name: Seq(Octets)]
    <3> DEFINE T == [prefix: Octets, name: Seq(Octets)]
    <3>1. Infixes \in Seq(T)
      BY XattrAssumption
    <3> HIDE DEF T
    <3>2. Infixes[h.index + 1] \in T
      BY <2>1, <3>1
    <3> QED BY <3>2 DEF T
  <2>3. /\ Infixes[h.index + 1].prefix \in Nat
        /\ Infixes[h.index + 1].name \in Seq(Nat)
    BY <2>2, OctetTypes
  <2> QED BY <1>1, <2>3 DEF Infix, Prefix
<1>2. CASE ~h.long
  BY <1>2 DEF Infix, Prefix, Headers
<1> QED BY <1>1, <1>2

LEMMA PrefixLength ==
  ASSUME NEW p \in Nat, p < Len(PrefixLens)
  PROVE  p \in 0 .. 6 /\ PrefixLens[p + 1] \in Nat
<1>1. Len(PrefixLens) = 7 /\ \A k \in 1 .. 7 : PrefixLens[k] \in Nat
  BY DEF PrefixLens
<1>2. p + 1 \in 1 .. 7
  BY <1>1
<1> QED BY <1>1, <1>2

(* An entry is at least as long as its name.                               *)
LEMMA SkipTypes ==
  ASSUME NEW h \in Headers, NEW k \in Nat, k <= h.suffix_len
  PROVE  LeftToSkip(h, k) \in Nat
<1> DEFINE n == h.suffix_len + h.value_len
<1>1. n \in Nat /\ k <= n
  BY DEF Headers
<1> HIDE DEF n
<1>2. RoundUp(n, 4) \in Nat /\ n <= RoundUp(n, 4)
  BY <1>1 DEF RoundUp
<1>3. EntrySz(h) = RoundUp(n, 4)
  BY DEF EntrySz, n
<1> QED BY <1>1, <1>2, <1>3 DEF LeftToSkip

-----------------------------------------------------------------------------
(* The ranges a scan reads. *)

InlineFits(i) == InlineHeaderSz(i) <= XattrSize(i)

First(i, k) ==
  IF k = 0 THEN IF InlineFits(i) THEN InlineOffset(i) ELSE 0
  ELSE BlkPos(XattrBlk) + 4 * SharedIndexes(i)[k]

Span(i, k) ==
  IF k = 0 THEN IF InlineFits(i) THEN InlineLen(i) ELSE 0
  ELSE Endless

Asked(i) == i.version \in {"Compact", "Extended"} /\ i.nid \in Nat /\ i.icount \in Nat

LEMMA InodeTypes ==
  ASSUME NEW i, Asked(i)
  PROVE  /\ AttrStart(i) \in Nat /\ XattrSize(i) \in Nat
         /\ SharedCount(i) \in Nat /\ SharedLen(i) \in Nat
         /\ Len(SharedIndexes(i)) \in Nat
         /\ InlineHeaderSz(i) \in Nat /\ InlineOffset(i) \in Nat
<1>1. Iloc(i.nid) \in Nat /\ InodeSize(i) \in Nat /\ XattrSize(i) \in Nat
  BY GeometryAssumption DEF Asked, Iloc, BlkPos, InodeSize, XattrSize
<1>2. AttrStart(i) \in Nat
  BY <1>1 DEF AttrStart
<1>3. SharedCount(i) \in Nat
  BY <1>2, Bytes DEF SharedCount
<1>4. SharedLen(i) \in Nat /\ SharedLen(i) \div 4 \in Nat
  BY <1>3 DEF SharedLen
<1>5. Len(SharedIndexes(i)) \in Nat
  <2>1. CASE XattrSize(i) = 0
    BY <2>1 DEF SharedIndexes
  <2>2. CASE XattrSize(i) # 0
    <3> DEFINE n == SharedLen(i) \div 4
    <3>1. n \in Nat
      BY <1>4
    <3>2. SharedIndexes(i) = [ k \in 1 .. n |-> Word(AttrStart(i) + 8 + 4 * k) ]
      BY <2>2 DEF SharedIndexes
    <3> HIDE DEF n
    <3>3. Len([ k \in 1 .. n |-> Word(AttrStart(i) + 8 + 4 * k) ]) = n
      BY <3>1
    <3> QED BY <3>1, <3>2, <3>3
  <2> QED BY <2>1, <2>2
<1>6. InlineHeaderSz(i) \in Nat
  BY <1>5 DEF InlineHeaderSz
<1>7. InlineOffset(i) \in Nat
  BY <1>2, <1>6 DEF InlineOffset
<1> QED BY <1>1, <1>2, <1>3, <1>4, <1>5, <1>6, <1>7

LEMMA SharedIndex ==
  ASSUME NEW i, Asked(i), NEW k \in 1 .. Len(SharedIndexes(i))
  PROVE  SharedIndexes(i)[k] = Word(AttrStart(i) + 8 + 4 * k) /\ SharedIndexes(i)[k] \in Nat
<1> DEFINE n == SharedLen(i) \div 4
           f == [ j \in 1 .. n |-> Word(AttrStart(i) + 8 + 4 * j) ]
<1>1. n \in Nat /\ AttrStart(i) \in Nat
  BY InodeTypes
<1>2. XattrSize(i) # 0
  BY DEF SharedIndexes
<1>3. SharedIndexes(i) = f
  BY <1>2 DEF SharedIndexes
<1>4. k \in 1 .. n /\ k \in Nat
  BY <1>1, <1>3
<1>5. f[k] = Word(AttrStart(i) + 8 + 4 * k)
  BY <1>4
<1>6. AttrStart(i) + 8 + 4 * k \in Nat
  BY <1>1, <1>4
<1>7. Word(AttrStart(i) + 8 + 4 * k) \in Nat
  BY <1>6, Bytes
<1> HIDE DEF f
<1> QED BY <1>3, <1>5, <1>7

LEMMA RangeTypes ==
  ASSUME NEW i, Asked(i), NEW k \in 0 .. Len(SharedIndexes(i))
  PROVE  First(i, k) \in Nat /\ Span(i, k) \in Nat
<1>1. CASE k = 0
  BY <1>1, InodeTypes DEF First, Span, InlineFits, InlineLen
<1>2. CASE k # 0
  <2>1. k \in 1 .. Len(SharedIndexes(i))
    BY <1>2, InodeTypes
  <2>2. SharedIndexes(i)[k] \in Nat /\ BlkPos(XattrBlk) \in Nat
    BY <2>1, SharedIndex, XattrAssumption, GeometryAssumption DEF BlkPos
  <2> QED BY <1>2, <2>2, XattrAssumption DEF First, Span
<1> QED BY <1>1, <1>2

LEMMA RequestTypes ==
  ASSUME NEW r \in Requests
  PROVE  /\ Asked(r.inode) /\ r.op \in {"get", "list"}
         /\ r.op = "list" => r.room \in Nat
         /\ r.op = "get" => r.prefix \in Nat /\ r.name \in Seq(Nat) /\ Len(r.name) \in Nat
<1>1. IsRequest(r)
  BY XattrAssumption
<1> QED BY <1>1, OctetTypes DEF IsRequest, Asked

-----------------------------------------------------------------------------
(* The room that keys take. *)

Keys == [prefix: 0 .. 6, name: Seq(Nat)]

LEMMA TakenTypes ==
  ASSUME NEW k \in Keys
  PROVE  Taken(k) \in Nat
<1>1. k.prefix \in 0 .. 6 /\ Len(k.name) \in Nat
  BY DEF Keys
<1>2. k.prefix \in Nat /\ k.prefix < Len(PrefixLens)
  BY <1>1 DEF PrefixLens
<1>3. PrefixLens[k.prefix + 1] \in Nat
  BY <1>2, PrefixLength
<1> QED BY <1>1, <1>3 DEF Taken

(* What Room(ks) adds up, for the first n keys.                            *)
Sums(f, ks, n) == f = [k \in 0 .. n |-> IF k = 0 THEN 0 ELSE f[k - 1] + Taken(ks[k])]

Upto(ks) == CHOOSE f : Sums(f, ks, Len(ks))

(* One more key. *)
LEMMA SumsOn ==
  ASSUME NEW ks, NEW n \in Nat, NEW f, Sums(f, ks, n)
  PROVE  \E g : Sums(g, ks, n + 1)
<1> DEFINE g == [k \in 0 .. n + 1 |-> IF k = n + 1 THEN f[n] + Taken(ks[n + 1]) ELSE f[k]]
<1>1. ASSUME NEW k \in 0 .. n + 1
      PROVE  g[k] = IF k = 0 THEN 0 ELSE g[k - 1] + Taken(ks[k])
  <2>1. CASE k = n + 1
    <3>1. g[k] = f[n] + Taken(ks[n + 1]) /\ g[n] = f[n] /\ k # 0 /\ k - 1 = n
      BY <2>1
    <3> QED BY <2>1, <3>1
  <2>2. CASE k # n + 1 /\ k # 0
    <3>1. k \in 0 .. n /\ g[k] = f[k] /\ k - 1 \in 0 .. n + 1 /\ k - 1 # n + 1
      BY <2>2
    <3>2. g[k - 1] = f[k - 1]
      BY <3>1
    <3>3. f[k] = f[k - 1] + Taken(ks[k])
      BY <2>2, <3>1 DEF Sums
    <3> HIDE DEF g
    <3> QED BY <2>2, <3>1, <3>2, <3>3
  <2>3. CASE k = 0
    <3>1. 0 \in 0 .. n /\ g[0] = f[0]
      OBVIOUS
    <3>2. f[0] = 0
      BY <3>1 DEF Sums
    <3> QED BY <2>3, <3>1, <3>2
  <2> QED BY <2>1, <2>2, <2>3
<1>2. Sums(g, ks, n + 1)
  BY <1>1 DEF Sums
<1> HIDE DEF g
<1> QED BY <1>2

LEMMA SumsExist ==
  ASSUME NEW ks, NEW n \in Nat
  PROVE  \E f : Sums(f, ks, n)
<1> DEFINE S == {m \in Nat : \E f : Sums(f, ks, m)}
<1>1. 0 \in S
  <2> DEFINE f == [k \in 0 .. 0 |-> 0]
  <2>1. f = [k \in 0 .. 0 |-> IF k = 0 THEN 0 ELSE f[k - 1] + Taken(ks[k])]
    OBVIOUS
  <2>2. Sums(f, ks, 0)
    BY <2>1 DEF Sums
  <2> HIDE DEF f
  <2> QED BY <2>2
<1>2. ASSUME NEW m \in Nat, m \in S PROVE m + 1 \in S
  BY <1>2, SumsOn
<1> HIDE DEF S
<1>3. n \in S
  BY <1>1, <1>2, SetInduction
<1> QED BY <1>3 DEF S

LEMMA UptoFacts ==
  ASSUME NEW ks, Len(ks) \in Nat
  PROVE  /\ Room(ks) = Upto(ks)[Len(ks)]
         /\ Upto(ks)[0] = 0
         /\ \A k \in 1 .. Len(ks) : Upto(ks)[k] = Upto(ks)[k - 1] + Taken(ks[k])
<1>1. Sums(Upto(ks), ks, Len(ks))
  BY SumsExist DEF Upto
<1>2. Room(ks) = Upto(ks)[Len(ks)]
  BY DEF Room, Upto, Sums
<1> DEFINE u == Upto(ks)
<1> HIDE DEF u
<1>3. u = [k \in 0 .. Len(ks) |-> IF k = 0 THEN 0 ELSE u[k - 1] + Taken(ks[k])]
  BY <1>1 DEF Sums, u
<1>4. u[0] = 0
  BY <1>3
<1>5. \A k \in 1 .. Len(ks) : u[k] = u[k - 1] + Taken(ks[k])
  BY <1>3
<1> QED BY <1>2, <1>4, <1>5 DEF u

(* A key more takes its own room more. *)
LEMMA RoomOfOneMore ==
  ASSUME NEW ks \in Seq(Keys), NEW key \in Keys
  PROVE  Room(Append(ks, key)) = Room(ks) + Taken(key)
<1> DEFINE n == Len(ks)
           more == Append(ks, key)
<1>1. /\ n \in Nat /\ Len(more) = n + 1 /\ more[n + 1] = key
      /\ \A k \in 1 .. n : more[k] = ks[k]
  OBVIOUS
<1> HIDE DEF n, more
<1>2. /\ Room(ks) = Upto(ks)[n] /\ Upto(ks)[0] = 0
      /\ \A k \in 1 .. n : Upto(ks)[k] = Upto(ks)[k - 1] + Taken(ks[k])
  BY <1>1, UptoFacts DEF n
<1>3. /\ Room(more) = Upto(more)[n + 1] /\ Upto(more)[0] = 0
      /\ \A k \in 1 .. n + 1 : Upto(more)[k] = Upto(more)[k - 1] + Taken(more[k])
  <2>1. Len(more) \in Nat
    BY <1>1
  <2> QED BY <1>1, <2>1, UptoFacts
<1> DEFINE S == {k \in Nat : k <= n => Upto(more)[k] = Upto(ks)[k]}
<1>4. 0 \in S
  BY <1>2, <1>3
<1>5. ASSUME NEW k \in Nat, k \in S PROVE k + 1 \in S
  <2> SUFFICES ASSUME k + 1 <= n PROVE Upto(more)[k + 1] = Upto(ks)[k + 1]
    OBVIOUS
  <2>1. k + 1 \in 1 .. n /\ k + 1 \in 1 .. n + 1 /\ (k + 1) - 1 = k /\ k <= n
    BY <1>1
  <2>2. Upto(more)[k] = Upto(ks)[k]
    BY <1>5, <2>1
  <2> QED BY <1>1, <1>2, <1>3, <2>1, <2>2
<1>6. n \in S
  <2> HIDE DEF S
  <2> QED BY <1>1, <1>4, <1>5, SetInduction
<1>7. Upto(more)[n] = Upto(ks)[n]
  BY <1>1, <1>6
<1>8. n + 1 \in 1 .. n + 1 /\ (n + 1) - 1 = n
  BY <1>1
<1>9. Upto(more)[n + 1] = Upto(more)[n] + Taken(key)
  BY <1>1, <1>3, <1>8
<1> QED BY <1>2, <1>3, <1>7, <1>9 DEF more

LEMMA RoomTypes ==
  ASSUME NEW ks \in Seq(Keys)
  PROVE  Room(ks) \in Nat
<1> DEFINE u == Upto(ks)
           S == {n \in Nat : n <= Len(ks) => u[n] \in Nat}
<1>1. Len(ks) \in Nat /\ \A k \in 1 .. Len(ks) : Taken(ks[k]) \in Nat
  BY TakenTypes
<1>2. /\ Room(ks) = u[Len(ks)] /\ u[0] = 0
      /\ \A k \in 1 .. Len(ks) : u[k] = u[k - 1] + Taken(ks[k])
  BY <1>1, UptoFacts
<1> HIDE DEF u
<1>3. 0 \in S
  BY <1>2
<1>4. ASSUME NEW n \in Nat, n \in S PROVE n + 1 \in S
  <2> SUFFICES ASSUME n + 1 <= Len(ks) PROVE u[n + 1] \in Nat
    OBVIOUS
  <2>1. n + 1 \in 1 .. Len(ks) /\ (n + 1) - 1 = n /\ u[n] \in Nat
    BY <1>1, <1>4
  <2>2. u[n + 1] = u[n] + Taken(ks[n + 1])
    BY <1>2, <2>1
  <2> QED BY <1>1, <2>1, <2>2
<1>5. Len(ks) \in S
  <2> HIDE DEF S
  <2> QED BY <1>1, <1>3, <1>4, SetInduction
<1> QED BY <1>1, <1>2, <1>5

LEMMA NoRoom == Room(<<>>) = 0
<1>1. Len(<<>>) = 0 /\ Len(<<>>) \in Nat
  OBVIOUS
<1> QED BY <1>1, UptoFacts

-----------------------------------------------------------------------------
(* The cursor that the scan declares is the one that is known. *)

LEMMA SameCursor ==
  /\ C!TryNew <=> P!TryNew
  /\ C!Body <=> P!Body
  /\ C!SkipAcross <=> P!SkipAcross
  /\ C!BackendFails <=> P!BackendFails
  /\ \A o : C!Call(o) <=> P!Call(o)
  /\ C!NoOp = P!NoOp /\ C!Cursor!NoResult = P!Cursor!NoResult
<1>1. C!NoOp = P!NoOp /\ C!Cursor!NoResult = P!Cursor!NoResult
  BY DEF C!NoOp, P!NoOp, C!Cursor!NoOp, P!Cursor!NoOp, C!Cursor!NoResult, P!Cursor!NoResult
<1>2. \A o, l : C!TakeBuffer(o, l) <=> P!TakeBuffer(o, l)
  BY DEF C!TakeBuffer, P!TakeBuffer, C!Lesser, P!Lesser, C!BlkAccess, P!BlkAccess,
         C!Accessor, P!Accessor
<1>3. C!Dlen = P!Dlen /\ C!Window = P!Window /\ C!Window' = P!Window'
  BY DEF C!Dlen, P!Dlen, C!Window, P!Window
<1>4. C!TryNew <=> P!TryNew
  BY <1>2, <1>3 DEF C!TryNew, P!TryNew
<1>5. \A o : C!Call(o) <=> P!Call(o)
  BY <1>3 DEF C!Call, P!Call
<1>6. \A r : C!Return(r) <=> P!Return(r)
  BY <1>1 DEF C!Return, P!Return
<1>7. /\ \A b : C!Cursor!Bytes(b) = P!Cursor!Bytes(b)
      /\ C!Cursor!Done = P!Cursor!Done /\ C!Cursor!Equal = P!Cursor!Equal
      /\ \A k : C!Cursor!NotEqual(k) = P!Cursor!NotEqual(k)
      /\ \A a, n : C!Copied(a, n) = P!Copied(a, n)
      /\ \A a, b : C!Lesser(a, b) = P!Lesser(a, b)
  BY DEF C!Cursor!Bytes, P!Cursor!Bytes, C!Cursor!Done, P!Cursor!Done, C!Cursor!Equal,
         P!Cursor!Equal, C!Cursor!NotEqual, P!Cursor!NotEqual, C!Copied, P!Copied,
         C!Lesser, P!Lesser
<1>8. \A n : C!Compared(n) <=> P!Compared(n)
  BY <1>6, <1>7 DEF C!Compared, P!Compared
<1>9. C!SkipWithin <=> P!SkipWithin
  BY <1>3, <1>6, <1>7 DEF C!SkipWithin, P!SkipWithin
<1>10. C!SkipAcross <=> P!SkipAcross
  BY <1>1, <1>2, <1>3, <1>6, <1>7 DEF C!SkipAcross, P!SkipAcross
<1>11. C!ReadHere <=> P!ReadHere
  BY <1>3, <1>6, <1>7 DEF C!ReadHere, P!ReadHere
<1>12. C!ReadOn <=> P!ReadOn
  BY <1>2, <1>6, <1>7 DEF C!ReadOn, P!ReadOn
<1>13. C!CmpHere <=> P!CmpHere
  BY <1>3, <1>7, <1>8 DEF C!CmpHere, P!CmpHere
<1>14. C!CmpOn <=> P!CmpOn
  BY <1>2, <1>7, <1>8 DEF C!CmpOn, P!CmpOn
<1>15. C!Unwrap <=> P!Unwrap
  BY <1>1, <1>3 DEF C!Unwrap, P!Unwrap
<1>16. C!BackendFails <=> P!BackendFails
  BY <1>1, <1>3 DEF C!BackendFails, P!BackendFails
<1>17. C!Body <=> P!Body
  BY <1>9, <1>11, <1>12, <1>13, <1>14, <1>15 DEF C!Body, P!Body
<1> QED BY <1>1, <1>4, <1>5, <1>10, <1>16, <1>17

-----------------------------------------------------------------------------
(* The inductive invariant. *)

(* The variables of the scan that TypeOK leaves open. *)
Scanned ==
  /\ hdr \in Headers /\ keys \in Seq(Keys)
  /\ stage = "idle" => mode = "empty"
  /\ stage = "key" => Known(hdr)

(* Without room for the summary nothing after the inode is read.           *)
Fits ==
  sh = 0 /\ (stage = "open" \/ mode \in {"idle", "called", "loop"}) => InlineFits(req.inode)

(* What the scan waits for, and what it finds when the call is back.       *)
Calls ==
  /\ mode \in {"called", "loop"} =>
       /\ stage = "header" => op = ReadOp(4)
       /\ stage = "key" => op = ReadOp(hdr.suffix_len)
       /\ stage = "name" => op.kind = "cmp" /\ op.n = hdr.suffix_len
  /\ mode = "idle" =>
       /\ stage = "header" => result.bytes \in [0 .. 3 -> Nat]
       /\ stage = "key" => result.bytes \in [0 .. hdr.suffix_len - 1 -> Nat]
       /\ stage = "name" =>
            (result.kind = "differ" => result.used \in 0 .. hdr.suffix_len)

(* From the first call on the cursor is one over the range of the entries  *)
(* after the inode, or of the shared entry the scan is at.                 *)
InRange == P!InvIn(First(req.inode, sh), Span(req.inode, sh))

Inv ==
  /\ TypeOK /\ Scanned /\ Fits /\ Calls /\ P!InBlock
  /\ stage # "idle" => InRange

(* The range is that of the state, whatever its ends are called.           *)
LEMMA RangeNamed ==
  ASSUME NEW f, NEW e, f = First(req.inode, sh)', e = Span(req.inode, sh)', P!InvIn(f, e)'
  PROVE  InRange'
BY DEF InRange, P!InvIn, P!Window1, P!Loop, P!Results

LEMMA FitsKept ==
  ASSUME Fits, UNCHANGED <<req, sh>>, stage' = "open" => stage = "open",
         mode' \in {"idle", "called", "loop"} =>
           stage = "open" \/ mode \in {"idle", "called", "loop"}
  PROVE  Fits'
BY DEF Fits, InlineFits

(* The assumptions under which the cursor is known hold of it.             *)
LEMMA CursorAssumed == P!GeometryAssumption /\ P!CursorAssumption
BY GeometryAssumption DEF P!GeometryAssumption, P!CursorAssumption

LEMMA OpTypes ==
  ASSUME NEW n \in Nat
  PROVE  /\ ReadOp(n) \in P!Cursor!Ops /\ SkipOp(n) \in P!Cursor!Ops
         /\ \A m \in 0 .. n : CmpOp(n, m) \in P!Cursor!Ops
<1>1. ReadOp(n) \in P!Cursor!Ops /\ SkipOp(n) \in P!Cursor!Ops
  BY DEF P!Cursor!Ops, ReadOp, SkipOp
<1>2. ASSUME NEW m \in 0 .. n PROVE CmpOp(n, m) \in P!Cursor!Ops
  <2>1. CmpOp(n, m) \in [kind: {"cmp"}, n: Nat, m: Nat] /\ CmpOp(n, m).m <= CmpOp(n, m).n
    BY DEF CmpOp
  <2> QED BY <2>1 DEF P!Cursor!Ops
<1> QED BY <1>1, <1>2

(* A step of the cursor, or none, stays in the range.                      *)
LEMMA CursorStep ==
  ASSUME req \in Requests, sh \in 0 .. Len(SharedIndexes(req.inode)), InRange, P!InBlock,
         UNCHANGED <<req, sh>>,
         \/ C!TryNew \/ C!Body \/ C!SkipAcross \/ C!BackendFails
         \/ \E o \in P!Cursor!Ops : C!Call(o)
         \/ UNCHANGED cursor
  PROVE  InRange' /\ P!InBlock'
<1>1. First(req.inode, sh) \in Nat /\ Span(req.inode, sh) \in Nat
  BY RequestTypes, RangeTypes
<1>2. PICK f \in Nat, e \in Nat : f = First(req.inode, sh) /\ e = Span(req.inode, sh)
  BY <1>1
<1>3. P!InvIn(f, e)
  BY <1>2 DEF InRange
<1>4. [P!Next]_(P!vars)
  BY SameCursor DEF P!Next, P!vars, cursor
<1>5. P!InvIn(f, e)'
  BY <1>3, <1>4, P!RangeNext, CursorAssumed
<1>6. First(req.inode, sh)' = First(req.inode, sh) /\ Span(req.inode, sh)' = Span(req.inode, sh)
  BY DEF First, Span
<1>7. InRange'
  BY <1>2, <1>5, <1>6, RangeNamed
<1>8. P!InBlock'
  <2>1. P!TypeOK
    BY DEF InRange, P!InvIn
  <2>2. CASE C!TryNew \/ C!Body \/ C!SkipAcross
    BY <2>1, <2>2, SameCursor, P!InBlockNext, CursorAssumed
  <2>3. CASE C!BackendFails
    BY <2>3 DEF C!BackendFails, P!InBlock
  <2>4. CASE \E o \in P!Cursor!Ops : C!Call(o)
    BY <2>4 DEF C!Call, C!Window, P!InBlock
  <2>5. CASE UNCHANGED cursor
    BY <2>5 DEF cursor, P!InBlock
  <2> QED BY <2>2, <2>3, <2>4, <2>5
<1> QED BY <1>7, <1>8

(* A cursor that was just made is one over its range.                      *)
LEMMA FreshRange ==
  ASSUME NEW f \in Nat, NEW e \in Nat, Fresh(f, e),
         f = First(req.inode, sh)', e = Span(req.inode, sh)'
  PROVE  InRange' /\ P!InBlock' /\ mode' = "closed"
<1>1. /\ mode' = "closed" /\ off' = f /\ len' = e /\ start' = f /\ blen' = 0 /\ cur' = 0
      /\ op' = P!NoOp /\ bcur' = 0 /\ result' = P!Cursor!NoResult
  BY SameCursor DEF Fresh
<1>2. P!TypeOK'
  BY <1>1 DEF P!TypeOK
<1>3. P!Window1(f, e)' /\ P!Loop(f)'
  BY <1>1 DEF P!Window1, P!Loop
<1>4. P!Results(f, e)'
  BY <1>1 DEF P!Results, P!Cursor!NoResult
<1>5. P!InvIn(f, e)'
  BY <1>2, <1>3, <1>4 DEF P!InvIn
<1>6. P!InBlock'
  BY <1>1 DEF P!InBlock
<1> QED BY <1>1, <1>5, <1>6, RangeNamed

LEMMA Answers ==
  /\ \A e : Failed(e) # None
  /\ \A v : Value(v) # None /\ Listed(v) # None
BY DEF Failed, Value, Listed, None

-----------------------------------------------------------------------------
(* The steps of the scan. *)

LEMMA AskInv ==
  ASSUME Inv, NEW r \in Requests, Ask(r)
  PROVE  Inv'
<1>1. /\ req' = r /\ sh' = 0 /\ hdr' = NoHeader /\ keys' = <<>> /\ used' = 0 /\ answer' = None
      /\ stage' \in {"open", "scan"}
  BY DEF Ask
<1>2. Asked(r.inode) /\ (r.op = "list" => r.room \in Nat)
  BY RequestTypes
<1>3. First(r.inode, 0) \in Nat /\ Span(r.inode, 0) \in Nat /\ Len(SharedIndexes(r.inode)) \in Nat
  BY <1>2, RangeTypes, InodeTypes
<1>4. PICK f \in Nat, e \in Nat : f = First(r.inode, 0) /\ e = Span(r.inode, 0)
  BY <1>3
<1>5. Fresh(f, e)
  BY <1>4 DEF Ask, First, Span, InlineFits
<1>6. f = First(req.inode, sh)' /\ e = Span(req.inode, sh)'
  BY <1>1, <1>4 DEF First, Span
<1>7. InRange' /\ P!InBlock' /\ mode' = "closed"
  BY <1>5, <1>6, FreshRange
<1>8. TypeOK'
  BY <1>1, <1>2, <1>3, <1>7, NoRoom DEF TypeOK
<1>9. Scanned' /\ Calls'
  <2>1. NoHeader \in Headers /\ <<>> \in Seq(Keys)
    BY DEF NoHeader, Headers
  <2> QED BY <1>1, <1>7, <2>1 DEF Scanned, Calls
<1>10. Fits'
  BY <1>1, <1>7 DEF Ask, Fits, InlineFits
<1> QED BY <1>7, <1>8, <1>9, <1>10 DEF Inv

(* To the next shared entry, or to the end. *)
LEMMA NextSharedInv ==
  ASSUME Inv, stage \notin {"idle", "done"}, mode \notin {"called", "loop"},
         NEW k \in Nat \ {0}, NEW ks, NextShared(k, ks),
         UNCHANGED req, hdr' \in Headers, keys' \in Seq(Keys), used' = Room(keys'),
         req.op = "list" => used' <= req.room
  PROVE  Inv'
<1>1. /\ req \in Requests /\ sh \in 0 .. Len(SharedIndexes(req.inode)) /\ answer = None
      /\ Asked(req.inode) /\ Len(SharedIndexes(req.inode)) \in Nat
  BY RequestTypes, InodeTypes DEF Inv, TypeOK
<1>2. CASE k <= Len(SharedIndexes(req.inode))
  <2>1. /\ sh' = k /\ stage' = "open" /\ answer' = answer
        /\ Fresh(BlkPos(XattrBlk) + 4 * SharedIndexes(req.inode)[k], Endless)
    BY <1>2 DEF NextShared
  <2>2. k \in 0 .. Len(SharedIndexes(req.inode)) /\ k # 0
    BY <1>1, <1>2
  <2>3. First(req.inode, k) \in Nat /\ Span(req.inode, k) \in Nat
    BY <1>1, <2>2, RangeTypes
  <2>4. PICK f \in Nat, e \in Nat : f = First(req.inode, k) /\ e = Span(req.inode, k)
    BY <2>3
  <2>5. Fresh(f, e)
    BY <2>1, <2>2, <2>4 DEF First, Span
  <2>6. f = First(req.inode, sh)' /\ e = Span(req.inode, sh)'
    BY <2>1, <2>4 DEF First, Span
  <2>7. InRange' /\ P!InBlock' /\ mode' = "closed"
    BY <2>5, <2>6, FreshRange
  <2>8. TypeOK'
    BY <1>1, <2>1, <2>2, <2>7 DEF TypeOK
  <2>9. Scanned' /\ Calls'
    BY <2>1, <2>7 DEF Scanned, Calls
  <2>10. Fits'
    BY <2>1, <2>2 DEF Fits
  <2> QED BY <2>7, <2>8, <2>9, <2>10 DEF Inv
<1>3. CASE ~(k <= Len(SharedIndexes(req.inode)))
  <2>1. /\ stage' = "done" /\ UNCHANGED <<cursor, sh>>
        /\ answer' = Failed("ENODATA") \/ answer' = Listed(ks)
    BY <1>3 DEF NextShared, Answer
  <2>2. InRange' /\ P!InBlock'
    BY <1>1, <2>1, CursorStep DEF Inv
  <2>3. mode' = mode /\ answer' # None
    BY <2>1, Answers DEF cursor
  <2>4. TypeOK'
    BY <1>1, <2>1, <2>3 DEF TypeOK
  <2>5. Scanned' /\ Calls'
    BY <2>1 DEF Scanned, Calls
  <2>6. Fits'
    BY <2>1, <2>3, FitsKept DEF Inv
  <2> QED BY <2>1, <2>2, <2>4, <2>5, <2>6 DEF Inv
<1> QED BY <1>2, <1>3

LEMMA ContinueInv ==
  ASSUME Inv, stage \notin {"idle", "done"}, mode \notin {"called", "loop"},
         NEW ks, Continue(ks), UNCHANGED <<req, listing>>, hdr' \in Headers
  PROVE  Inv'
<1>1. /\ req \in Requests /\ sh \in 0 .. Len(SharedIndexes(req.inode))
      /\ keys' \in Seq(Keys) /\ used' = Room(keys') /\ (req.op = "list" => used' <= req.room)
      /\ Len(SharedIndexes(req.inode)) \in Nat
  BY RequestTypes, InodeTypes DEF Inv, TypeOK, Scanned, listing
<1>2. CASE sh = 0
  <2>1. stage' = "scan" /\ UNCHANGED <<cursor, sh, answer>>
    BY <1>2 DEF Continue
  <2>2. InRange' /\ P!InBlock'
    BY <1>1, <2>1, CursorStep DEF Inv
  <2>3. mode' = mode
    BY <2>1 DEF cursor
  <2>4. TypeOK'
    BY <1>1, <2>1, <2>3 DEF Inv, TypeOK
  <2>5. Scanned' /\ Calls'
    BY <1>1, <2>1 DEF Scanned, Calls
  <2>6. Fits'
    BY <2>1, <2>3, FitsKept DEF Inv, listing
  <2> QED BY <2>2, <2>4, <2>5, <2>6 DEF Inv
<1>3. CASE sh # 0
  <2>1. NextShared(sh + 1, ks) /\ sh + 1 \in Nat \ {0}
    BY <1>1, <1>3 DEF Continue
  <2> QED BY <1>1, <2>1, NextSharedInv
<1> QED BY <1>2, <1>3

(* A call of the cursor. *)
LEMMA CallInv ==
  ASSUME Inv, stage \notin {"idle", "done"}, NEW o \in P!Cursor!Ops, C!Call(o),
         UNCHANGED <<req, sh, answer>>, stage' \in {"header", "name", "value", "key", "skip"},
         hdr' \in Headers, keys' \in Seq(Keys), used' = Room(keys'),
         req.op = "list" => used' <= req.room,
         stage' \in {"name", "value"} => req.op = "get",
         stage' = "header" => o = ReadOp(4),
         stage' = "key" => req.op = "list" /\ Known(hdr') /\ o = ReadOp(hdr'.suffix_len),
         stage' = "name" => o.kind = "cmp" /\ o.n = hdr'.suffix_len
  PROVE  Inv'
<1>1. /\ req \in Requests /\ sh \in 0 .. Len(SharedIndexes(req.inode)) /\ answer = None
  BY DEF Inv, TypeOK
<1>2. mode' = "called" /\ op' = o
  BY DEF C!Call
<1>3. InRange' /\ P!InBlock'
  BY <1>1, CursorStep DEF Inv
<1>4. TypeOK'
  BY <1>1, <1>2 DEF TypeOK
<1>5. Scanned' /\ Calls'
  BY <1>2 DEF Scanned, Calls, Known, InfixKnown, Prefix
<1>6. Fits'
  <2>1. mode = "idle"
    BY DEF C!Call
  <2> QED BY <2>1, FitsKept DEF Inv
<1> QED BY <1>3, <1>4, <1>5, <1>6 DEF Inv

(* The call ends here. *)
LEMMA AnswerInv ==
  ASSUME Inv, stage # "idle", mode \notin {"called", "loop"}, NEW a, a # None, Answer(a),
         UNCHANGED <<cursor, req, sh, listing>>, hdr' \in Headers
  PROVE  Inv'
<1>1. req \in Requests /\ sh \in 0 .. Len(SharedIndexes(req.inode)) /\ keys \in Seq(Keys)
  BY DEF Inv, TypeOK, Scanned
<1>2. stage' = "done" /\ answer' = a /\ mode' = mode /\ keys' = keys /\ used' = used
  BY DEF Answer, cursor, listing
<1>3. InRange' /\ P!InBlock'
  BY <1>1, CursorStep DEF Inv
<1>4. TypeOK'
  BY <1>1, <1>2 DEF Inv, TypeOK
<1>5. Scanned' /\ Calls'
  BY <1>1, <1>2 DEF Scanned, Calls
<1>6. Fits'
  BY <1>2, FitsKept DEF Inv
<1> QED BY <1>2, <1>3, <1>4, <1>5, <1>6 DEF Inv

LEMMA OpenInv ==
  ASSUME Inv, Open
  PROVE  Inv'
<1>1. /\ stage = "open" /\ C!TryNew /\ stage' = "scan"
      /\ UNCHANGED <<req, sh, hdr, keys, used, answer>>
  BY DEF Open, listing
<1>2. req \in Requests /\ sh \in 0 .. Len(SharedIndexes(req.inode)) /\ InRange /\ P!InBlock
  BY <1>1 DEF Inv, TypeOK
<1>3. InRange' /\ P!InBlock'
  BY <1>1, <1>2, CursorStep
<1>4. mode' \in {"empty", "idle"}
  BY <1>1 DEF C!TryNew
<1>5. TypeOK'
  BY <1>1, <1>4 DEF Inv, TypeOK
<1>6. Scanned' /\ Calls'
  BY <1>1, <1>4 DEF Inv, Scanned, Calls
<1>7. Fits'
  BY <1>1, FitsKept DEF Inv
<1> QED BY <1>3, <1>5, <1>6, <1>7 DEF Inv

LEMMA CursorTurnInv ==
  ASSUME Inv, CursorTurn
  PROVE  Inv'
<1>1. /\ C!Body \/ C!SkipAcross
      /\ UNCHANGED <<stage, req, sh, hdr, keys, used, answer>>
  BY DEF CursorTurn, listing
<1>2. /\ mode \in {"called", "loop"} /\ mode' \in {"idle", "loop", "panicked"}
      /\ mode' = "loop" => op' = op
  BY <1>1, SameCursor, P!SameCall, CursorAssumed
<1>3. stage \in {"header", "name", "value", "key", "skip"}
  BY <1>2 DEF Inv, TypeOK
<1>4. req \in Requests /\ sh \in 0 .. Len(SharedIndexes(req.inode)) /\ InRange /\ P!InBlock
  BY <1>3 DEF Inv, TypeOK
<1>5. InRange' /\ P!InBlock'
  BY <1>1, <1>4, CursorStep
<1>6. TypeOK'
  BY <1>1, <1>2, <1>3 DEF Inv, TypeOK
<1>7. Scanned'
  BY <1>1, <1>2, <1>3 DEF Inv, Scanned, Known, InfixKnown, Prefix
<1>8. mode' = "idle" =>
        /\ op.kind = "read" => result'.bytes \in [0 .. op.n - 1 -> Nat]
        /\ op.kind = "cmp" /\ result'.kind = "differ" => result'.used \in 0 .. op.n
  <2> SUFFICES ASSUME mode' = "idle"
               PROVE  /\ op.kind = "read" => result'.bytes \in [0 .. op.n - 1 -> Nat]
                      /\ op.kind = "cmp" /\ result'.kind = "differ" => result'.used \in 0 .. op.n
    OBVIOUS
  <2>1. CASE C!SkipAcross
    BY <2>1 DEF C!SkipAcross
  <2>2. CASE C!Body
    <3>1. First(req.inode, sh) \in Nat /\ Span(req.inode, sh) \in Nat
      BY <1>4, RequestTypes, RangeTypes
    <3>2. PICK f \in Nat, e \in Nat : f = First(req.inode, sh) /\ e = Span(req.inode, sh)
      BY <3>1
    <3>3. P!InvIn(f, e)
      BY <1>4, <3>2 DEF InRange
    <3> QED BY <2>2, <3>3, SameCursor, P!Outcome, CursorAssumed
  <2> QED BY <1>1, <2>1, <2>2
<1>9. Calls'
  <2>1. ASSUME mode' = "loop" PROVE Calls'
    BY <1>1, <1>2, <2>1 DEF Inv, Calls
  <2>2. ASSUME mode' = "idle" PROVE Calls'
    <3>1. /\ stage = "header" => op.kind = "read" /\ op.n = 4
          /\ stage = "key" => op.kind = "read" /\ op.n = hdr.suffix_len
          /\ stage = "name" => op.kind = "cmp" /\ op.n = hdr.suffix_len
      BY <1>2 DEF Inv, Calls, ReadOp
    <3>2. 4 - 1 = 3
      OBVIOUS
    <3> QED BY <1>1, <1>8, <2>2, <3>1, <3>2 DEF Calls
  <2>3. ASSUME mode' = "panicked" PROVE Calls'
    BY <2>3 DEF Calls
  <2> QED BY <1>2, <2>1, <2>2, <2>3
<1>10. Fits'
  BY <1>1, <1>2, FitsKept DEF Inv
<1> QED BY <1>5, <1>6, <1>7, <1>9, <1>10 DEF Inv

(* What every step that handles a result has at hand.                      *)
LEMMA Kept ==
  ASSUME Inv
  PROVE  /\ req \in Requests /\ hdr \in Headers /\ keys \in Seq(Keys) /\ used = Room(keys)
         /\ req.op \in {"get", "list"} /\ (req.op = "list" => used <= req.room /\ req.room \in Nat)
         /\ stage = "header" /\ mode = "idle" => Header \in Headers
<1>1. req \in Requests /\ used = Room(keys) /\ (req.op = "list" => used <= req.room)
  BY DEF Inv, TypeOK
<1>2. hdr \in Headers /\ keys \in Seq(Keys)
  BY DEF Inv, Scanned
<1>3. ASSUME stage = "header", mode = "idle" PROVE Header \in Headers
  <2>1. result.bytes \in [0 .. 3 -> Nat] /\ 0 \in 0 .. 3
    BY <1>3 DEF Inv, Calls
  <2>2. result.bytes[0] \in Nat
    BY <2>1
  <2> QED BY <2>2, HeaderTypes DEF Header
<1> QED BY <1>1, <1>2, <1>3, RequestTypes

LEMMA EndOfRangeInv ==
  ASSUME Inv, EndOfRange
  PROVE  Inv'
<1>1. /\ stage = "scan" /\ NextShared(1, keys) /\ UNCHANGED <<req, hdr, keys, used>>
  BY DEF EndOfRange, listing
<1>2. mode \notin {"called", "loop"}
  BY DEF EndOfRange
<1> QED BY <1>1, <1>2, Kept, NextSharedInv

LEMMA NextHeaderInv ==
  ASSUME Inv, NextHeader
  PROVE  Inv'
<1>1. /\ stage = "scan" /\ C!Call(ReadOp(4)) /\ stage' = "header"
      /\ UNCHANGED <<req, sh, hdr, keys, used, answer>>
  BY DEF NextHeader, listing
<1>2. ReadOp(4) \in P!Cursor!Ops
  BY OpTypes
<1> QED BY <1>1, <1>2, Kept, CallInv

LEMMA RefuseInv ==
  ASSUME Inv, Refuse
  PROVE  Inv'
<1>1. /\ stage = "header" /\ mode = "idle" /\ hdr' = Header /\ Continue(keys)
      /\ UNCHANGED <<req, listing>>
  BY DEF Refuse, Returned
<1> QED BY <1>1, Kept, ContinueInv

(* Some number of bytes agrees, and no more. *)
LEMMA AgreeingTypes ==
  ASSUME NEW name \in Seq(Nat), start \in Nat, cur \in Nat
  PROVE  /\ Agreeing(name) \in 0 .. Len(name)
         /\ BytesFrom(Here, Agreeing(name)) = SubSeq(name, 1, Agreeing(name))
         /\ Agreeing(name) < Len(name) =>
              Byte(Here + Agreeing(name)) # name[Agreeing(name) + 1]
<1> DEFINE Same(m) == BytesFrom(Here, m) = SubSeq(name, 1, m)
           Ends(m) == Same(m) /\ (m < Len(name) => Byte(Here + m) # name[m + 1])
           S == {m \in Nat : m <= Len(name) => Same(m)}
<1>1. Len(name) \in Nat /\ Here \in Nat
  BY DEF Here
<1>2. \E m \in 0 .. Len(name) : Ends(m)
  <2> SUFFICES ASSUME \A m \in 0 .. Len(name) : ~Ends(m) PROVE FALSE
    OBVIOUS
  <2>1. 0 \in S
    <3>1. BytesFrom(Here, 0) = <<>> /\ SubSeq(name, 1, 0) = <<>>
      BY DEF BytesFrom
    <3> QED BY <3>1
  <2>2. ASSUME NEW m \in Nat, m \in S PROVE m + 1 \in S
    <3> SUFFICES ASSUME m + 1 <= Len(name) PROVE Same(m + 1)
      OBVIOUS
    <3>1. m \in 0 .. Len(name) /\ m < Len(name) /\ Same(m)
      BY <1>1, <2>2
    <3>2. Byte(Here + m) = name[m + 1]
      BY <3>1
    <3>3. \A j \in 1 .. m : Byte(Here + j - 1) = name[j]
      <4>1. SubSeq(name, 1, m) = [ j \in 1 .. m |-> name[j] ]
        BY <1>1, <3>1
      <4>2. [ j \in 1 .. m |-> Byte(Here + j - 1) ] = [ j \in 1 .. m |-> name[j] ]
        BY <3>1, <4>1 DEF BytesFrom
      <4> QED BY <4>2
    <3>4. SubSeq(name, 1, m + 1) = [ j \in 1 .. m + 1 |-> name[j] ]
      BY <1>1, <3>1
    <3>5. ASSUME NEW j \in 1 .. m + 1 PROVE Byte(Here + j - 1) = name[j]
      <4>1. CASE j \in 1 .. m
        BY <3>3, <4>1
      <4>2. CASE j = m + 1
        <5>1. Here + j - 1 = Here + m
          BY <1>1, <4>2
        <5> QED BY <3>2, <4>2, <5>1
      <4> QED BY <4>1, <4>2
    <3> QED BY <3>4, <3>5 DEF BytesFrom
  <2>3. Len(name) \in S
    <3> HIDE DEF S
    <3> QED BY <1>1, <2>1, <2>2, SetInduction
  <2>4. Ends(Len(name))
    BY <1>1, <2>3
  <2> QED BY <1>1, <2>4
<1>3. Agreeing(name) = CHOOSE m \in 0 .. Len(name) : Ends(m)
  BY DEF Agreeing
<1>4. Agreeing(name) \in 0 .. Len(name) /\ Ends(Agreeing(name))
  <2> HIDE DEF Ends
  <2> QED BY <1>2, <1>3
<1> QED BY <1>4

LEMMA CursorPlace ==
  ASSUME Inv, stage # "idle"
  PROVE  start \in Nat /\ cur \in Nat
BY DEF Inv, InRange, P!InvIn, P!TypeOK

LEMMA CompareNameInv ==
  ASSUME Inv, CompareName
  PROVE  Inv'
<1> DEFINE name == SubSeq(req.name, Len(Infix(Header)) + 1, Len(req.name))
<1>1. /\ stage = "header" /\ mode = "idle" /\ hdr' = Header /\ req.op = "get" /\ ~Refused(req, Header)
      /\ C!Call(CmpOp(Len(name), Agreeing(name))) /\ stage' = "name"
      /\ UNCHANGED <<req, sh, keys, used, answer>>
  BY DEF CompareName, Returned, Suffix, listing
<1>2. Header \in Headers /\ req.name \in Seq(Nat) /\ Len(req.name) \in Nat
  BY <1>1, Kept, RequestTypes
<1>3. /\ Header.long => InfixKnown(Header)
      /\ Len(req.name) = Len(Infix(Header)) + Header.suffix_len
  BY <1>1 DEF Refused
<1>4. Len(Infix(Header)) \in Nat /\ Header.suffix_len \in Nat
  BY <1>2, <1>3, InfixTypes DEF Headers
<1>5. name \in Seq(Nat) /\ Len(name) = Header.suffix_len
  <2>1. ASSUME NEW s \in Seq(Nat), NEW a \in Nat, NEW b \in Nat, Len(s) = a + b
        PROVE  SubSeq(s, a + 1, Len(s)) \in Seq(Nat) /\ Len(SubSeq(s, a + 1, Len(s))) = b
    BY <2>1
  <2> QED BY <1>2, <1>3, <1>4, <2>1
<1> HIDE DEF name
<1>6. Agreeing(name) \in 0 .. Len(name)
  BY <1>1, <1>5, CursorPlace, AgreeingTypes
<1> DEFINE o == CmpOp(Len(name), Agreeing(name))
<1>7. o \in P!Cursor!Ops
  BY <1>4, <1>5, <1>6, OpTypes
<1>8. o.kind = "cmp" /\ o.n = hdr'.suffix_len
  BY <1>1, <1>5 DEF CmpOp
<1> HIDE DEF o
<1>9. C!Call(o)
  BY <1>1 DEF o
<1> QED BY <1>1, <1>2, <1>7, <1>8, <1>9, Kept, CallInv

LEMMA TooSmallInv ==
  ASSUME Inv, TooSmall
  PROVE  Inv'
<1>1. /\ stage = "name" /\ mode = "idle" /\ Answer(Failed("ERANGE"))
      /\ UNCHANGED <<cursor, req, sh, hdr, listing>>
  BY DEF TooSmall, Returned
<1> QED BY <1>1, Kept, Answers, AnswerInv

LEMMA ReadValueInv ==
  ASSUME Inv, ReadValue
  PROVE  Inv'
<1>1. /\ stage = "name" /\ C!Call(ReadOp(hdr.value_len)) /\ stage' = "value"
      /\ UNCHANGED <<req, sh, hdr, keys, used, answer>>
  BY DEF ReadValue, Returned, listing
<1>2. ReadOp(hdr.value_len) \in P!Cursor!Ops
  BY Kept, OpTypes DEF Headers
<1>3. req.op = "get"
  BY <1>1 DEF Inv, TypeOK
<1> QED BY <1>1, <1>2, <1>3, Kept, CallInv

LEMMA SkipOtherInv ==
  ASSUME Inv, SkipOther
  PROVE  Inv'
<1> DEFINE o == SkipOp(LeftToSkip(hdr, result.used))
<1>1. /\ stage = "name" /\ mode = "idle" /\ result.kind = "differ" /\ C!Call(o) /\ stage' = "skip"
      /\ UNCHANGED <<req, sh, hdr, keys, used, answer>>
  BY DEF SkipOther, Returned, listing
<1>2. hdr \in Headers /\ hdr.suffix_len \in Nat /\ result.used \in 0 .. hdr.suffix_len
  BY <1>1, Kept DEF Inv, Calls, Headers
<1>3. LeftToSkip(hdr, result.used) \in Nat
  BY <1>2, SkipTypes
<1>4. o \in P!Cursor!Ops
  BY <1>3, OpTypes
<1> HIDE DEF o
<1> QED BY <1>1, <1>4, Kept, CallInv

LEMMA GotValueInv ==
  ASSUME Inv, GotValue
  PROVE  Inv'
<1>1. /\ stage = "value" /\ mode = "idle" /\ UNCHANGED <<cursor, req, sh, hdr, listing>>
      /\ Answer(Value([ j \in 1 .. hdr.value_len |-> Byte(result.bytes[j - 1]) ]))
  BY DEF GotValue, Returned
<1> QED BY <1>1, Kept, Answers, AnswerInv

LEMMA UnknownInfixInv ==
  ASSUME Inv, UnknownInfix
  PROVE  Inv'
<1>1. /\ stage = "header" /\ mode = "idle" /\ hdr' = Header /\ Answer(Failed("ENODATA"))
      /\ UNCHANGED <<cursor, req, sh, listing>>
  BY DEF UnknownInfix, Returned, listing
<1> QED BY <1>1, Kept, Answers, AnswerInv

LEMMA ReadKeyInv ==
  ASSUME Inv, ReadKey
  PROVE  Inv'
<1> DEFINE o == ReadOp(Header.suffix_len)
<1>1. /\ stage = "header" /\ mode = "idle" /\ req.op = "list" /\ hdr' = Header
      /\ ~Header.long \/ InfixKnown(Header)
      /\ ~IndexPanics(Header) /\ C!Call(o) /\ stage' = "key"
      /\ UNCHANGED <<req, sh, keys, used, answer>>
  BY DEF ReadKey, Returned, listing
<1>2. Header \in Headers
  BY <1>1, Kept
<1>3. Known(Header)
  <2>1. Prefix(Header) \in Nat /\ Len(PrefixLens) \in Nat
    BY <1>1, <1>2, InfixTypes DEF Headers, PrefixLens
  <2>2. ~(Prefix(Header) >= Len(PrefixLens))
    BY <1>1 DEF IndexPanics
  <2> QED BY <1>1, <2>1, <2>2 DEF Known
<1>4. Known(hdr')
  BY <1>1, <1>3
<1>5. o \in P!Cursor!Ops
  BY <1>2, OpTypes DEF Headers
<1>6. o = ReadOp(hdr'.suffix_len)
  BY <1>1
<1> HIDE DEF o
<1> QED BY <1>1, <1>2, <1>4, <1>5, <1>6, Kept, CallInv

(* A key that was read, in the buffer of the client. *)
LEMMA KeyTypes ==
  ASSUME Inv, stage = "key", mode = "idle"
  PROVE  LET suffix == [ j \in 1 .. hdr.suffix_len |-> Byte(result.bytes[j - 1]) ]
             key == [prefix |-> Prefix(hdr), name |-> Infix(hdr) \o suffix]
         IN  key \in Keys /\ KeyLen(hdr) + 1 = Taken(key) /\ KeyLen(hdr) \in Nat
<1> DEFINE n == hdr.suffix_len
           suffix == [ j \in 1 .. n |-> Byte(result.bytes[j - 1]) ]
           infix == Infix(hdr)
           key == [prefix |-> Prefix(hdr), name |-> infix \o suffix]
<1>1. hdr \in Headers /\ Known(hdr) /\ result.bytes \in [0 .. n - 1 -> Nat]
  BY Kept DEF Inv, Scanned, Calls
<1>2. n \in Nat
  BY <1>1 DEF Headers
<1>3. infix \in Seq(Nat) /\ Len(infix) \in Nat /\ Prefix(hdr) \in Nat
  BY <1>1, InfixTypes DEF Known
<1>4. Prefix(hdr) \in 0 .. 6 /\ PrefixLens[Prefix(hdr) + 1] \in Nat
  BY <1>1, <1>3, PrefixLength DEF Known
<1>5. suffix \in Seq(Nat) /\ Len(suffix) = n
  <2>1. ASSUME NEW j \in 1 .. n PROVE Byte(result.bytes[j - 1]) \in Nat
    <3>1. j - 1 \in 0 .. n - 1
      BY <1>2
    <3>2. result.bytes[j - 1] \in Nat
      BY <1>1, <3>1
    <3> QED BY <3>2, Bytes
  <2>2. suffix \in [1 .. n -> Nat]
    BY <2>1
  <2>3. \A f \in [1 .. n -> Nat] : f \in Seq(Nat) /\ Len(f) = n
    BY <1>2
  <2> QED BY <2>2, <2>3
<1> HIDE DEF suffix, infix
<1>6. infix \o suffix \in Seq(Nat) /\ Len(infix \o suffix) = Len(infix) + n
  <2>1. \A s, t \in Seq(Nat) : s \o t \in Seq(Nat) /\ Len(s \o t) = Len(s) + Len(t)
    OBVIOUS
  <2> QED BY <1>3, <1>5, <2>1
<1>7. key \in Keys /\ key.prefix = Prefix(hdr) /\ Len(key.name) = Len(infix) + n
  BY <1>4, <1>6 DEF Keys
<1>8. KeyLen(hdr) = PrefixLens[Prefix(hdr) + 1] + Len(infix) + n
  BY DEF KeyLen, infix
<1>9. KeyLen(hdr) + 1 = Taken(key) /\ KeyLen(hdr) \in Nat
  BY <1>2, <1>3, <1>4, <1>7, <1>8 DEF Taken
<1> QED BY <1>7, <1>9 DEF suffix, infix

LEMMA GotKeyInv ==
  ASSUME Inv, GotKey
  PROVE  Inv'
<1> DEFINE suffix == [ j \in 1 .. hdr.suffix_len |-> Byte(result.bytes[j - 1]) ]
           key == [prefix |-> Prefix(hdr), name |-> Infix(hdr) \o suffix]
           o == SkipOp(LeftToSkip(hdr, hdr.suffix_len))
<1>1. /\ stage = "key" /\ mode = "idle" /\ used + KeyLen(hdr) < req.room
      /\ used' = used + KeyLen(hdr) + 1 /\ keys' = Append(keys, key) /\ UNCHANGED <<req, hdr>>
  BY DEF GotKey, Returned
<1>2. key \in Keys /\ KeyLen(hdr) + 1 = Taken(key) /\ KeyLen(hdr) \in Nat
  BY <1>1, KeyTypes
<1> HIDE DEF key
<1>3. req.op = "list" /\ req.room \in Nat /\ used \in Int
  <2>1. req.op = "list"
    BY <1>1 DEF Inv, TypeOK
  <2>2. used \in Int
    <3>1. keys \in Seq(Keys) /\ used = Room(keys)
      BY Kept
    <3> QED BY <3>1, RoomTypes
  <2> QED BY <2>1, <2>2, Kept
<1>4. keys' \in Seq(Keys) /\ used' = Room(keys')
  <2>1. Room(Append(keys, key)) = Room(keys) + Taken(key)
    BY <1>2, Kept, RoomOfOneMore
  <2>2. used' = used + (KeyLen(hdr) + 1)
    BY <1>1, <1>2, <1>3
  <2> QED BY <1>1, <1>2, <2>1, <2>2, Kept
<1>5. used' <= req.room
  BY <1>1, <1>2, <1>3
<1>6. CASE sh = 0
  <2>1. C!Call(o) /\ stage' = "skip" /\ UNCHANGED <<sh, answer>>
    BY <1>6 DEF GotKey
  <2>2. LeftToSkip(hdr, hdr.suffix_len) \in Nat
    <3>1. hdr \in Headers /\ hdr.suffix_len \in Nat
      BY Kept DEF Headers
    <3> QED BY <3>1, SkipTypes
  <2>3. o \in P!Cursor!Ops
    BY <2>2, OpTypes
  <2> HIDE DEF o
  <2> QED BY <1>1, <1>4, <1>5, <2>1, <2>3, Kept, CallInv
<1>7. CASE sh # 0
  <2>1. NextShared(sh + 1, keys')
    BY <1>7 DEF GotKey
  <2>2. sh + 1 \in Nat \ {0}
    <3>1. sh \in 0 .. Len(SharedIndexes(req.inode)) /\ Len(SharedIndexes(req.inode)) \in Nat
      BY Kept, RequestTypes, InodeTypes DEF Inv, TypeOK
    <3> QED BY <3>1
  <2> QED BY <1>1, <1>4, <1>5, <2>1, <2>2, Kept, NextSharedInv
<1> QED BY <1>6, <1>7

LEMMA PanicInv ==
  ASSUME Inv, Panic
  PROVE  Inv'
<1>1. /\ stage \in {"header", "key"} /\ mode = "idle" /\ mode' = "panicked"
      /\ UNCHANGED <<off, len, start, blen, cur, op, bcur, buf, result>>
      /\ UNCHANGED <<stage, req, sh, hdr, keys, used, answer>>
  BY DEF Panic, Returned, listing
<1>2. TypeOK' /\ Scanned' /\ Fits' /\ Calls' /\ P!InBlock'
  <2>1. TypeOK'
    BY <1>1 DEF Inv, TypeOK
  <2>2. Scanned'
    BY <1>1 DEF Inv, Scanned, Known, InfixKnown, Prefix
  <2>3. Calls' /\ P!InBlock'
    BY <1>1 DEF Calls, P!InBlock
  <2>4. Fits'
    BY <1>1, FitsKept DEF Inv
  <2> QED BY <2>1, <2>2, <2>3, <2>4
<1>3. InRange'
  <2>1. First(req.inode, sh)' = First(req.inode, sh) /\ Span(req.inode, sh)' = Span(req.inode, sh)
    BY <1>1 DEF First, Span
  <2>2. P!TypeOK'
    BY <1>1 DEF Inv, InRange, P!InvIn, P!TypeOK
  <2> QED BY <1>1, <2>1, <2>2 DEF Inv, InRange, P!InvIn, P!Window1, P!Loop, P!Results
<1> QED BY <1>2, <1>3 DEF Inv

LEMMA SkippedInv ==
  ASSUME Inv, Skipped
  PROVE  Inv'
<1>1. /\ stage = "skip" /\ mode = "idle" /\ Continue(keys) /\ UNCHANGED <<req, hdr, listing>>
  BY DEF Skipped, Returned
<1> QED BY <1>1, Kept, ContinueInv

LEMMA BackendFailsInv ==
  ASSUME Inv, BackendFails
  PROVE  Inv'
<1>1. /\ C!BackendFails /\ stage' = "done" /\ answer' = Failed("EIO")
      /\ UNCHANGED <<req, sh, hdr, keys, used>>
  BY DEF BackendFails, Answer, listing
<1>2. mode \in {"closed", "loop", "called"} /\ mode' = "failed"
  BY <1>1 DEF C!BackendFails
<1>3. stage # "idle"
  BY <1>2 DEF Inv, Scanned
<1>4. req \in Requests /\ sh \in 0 .. Len(SharedIndexes(req.inode)) /\ InRange /\ P!InBlock
  BY <1>3 DEF Inv, TypeOK
<1>5. InRange' /\ P!InBlock'
  BY <1>1, <1>4, CursorStep
<1>6. TypeOK'
  BY <1>1, <1>2, Answers DEF Inv, TypeOK
<1>7. Scanned' /\ Calls'
  BY <1>1, <1>2 DEF Inv, Scanned, Calls
<1>8. Fits'
  BY <1>1, <1>2, FitsKept DEF Inv
<1> QED BY <1>5, <1>6, <1>7, <1>8 DEF Inv

LEMMA InitInv == Init => Inv
<1> SUFFICES ASSUME Init PROVE Inv
  OBVIOUS
<1>1. /\ mode = "empty" /\ stage = "idle" /\ req \in Requests /\ sh = 0 /\ hdr = NoHeader
      /\ keys = <<>> /\ used = 0 /\ answer = None
  BY DEF Init
<1>2. Len(SharedIndexes(req.inode)) \in Nat /\ (req.op = "list" => req.room \in Nat)
  BY <1>1, RequestTypes, InodeTypes
<1>3. TypeOK
  BY <1>1, <1>2, NoRoom DEF TypeOK
<1>4. NoHeader \in Headers /\ <<>> \in Seq(Keys)
  BY DEF NoHeader, Headers
<1>5. Scanned /\ Fits /\ Calls /\ P!InBlock
  BY <1>1, <1>4 DEF Scanned, Fits, Calls, P!InBlock
<1> QED BY <1>1, <1>3, <1>5 DEF Inv

LEMMA InvNext == Inv /\ [Next]_vars => Inv'
<1> SUFFICES ASSUME Inv, [Next]_vars PROVE Inv'
  OBVIOUS
<1>1. CASE \E r \in Requests : Ask(r)
  BY <1>1, AskInv
<1>2. CASE Scan
  BY <1>2, OpenInv, CursorTurnInv, EndOfRangeInv, NextHeaderInv, SkippedInv, RefuseInv,
     CompareNameInv, TooSmallInv, ReadValueInv, SkipOtherInv, GotValueInv, UnknownInfixInv,
     ReadKeyInv, GotKeyInv, PanicInv DEF Scan
<1>3. CASE BackendFails
  BY <1>3, BackendFailsInv
<1>4. CASE UNCHANGED vars
  <2>1. UNCHANGED <<cursor, stage, req, sh, hdr, keys, used, answer>>
    BY <1>4 DEF vars, listing
  <2>2. TypeOK'
    BY <2>1 DEF Inv, TypeOK, cursor
  <2>3. Scanned' /\ Calls'
    BY <2>1 DEF Inv, Scanned, Calls, cursor, Known, InfixKnown, Prefix
  <2>4. P!InBlock'
    BY <2>1 DEF Inv, P!InBlock, cursor
  <2>5. stage' # "idle" => InRange'
    BY <2>1, CursorStep DEF Inv, TypeOK
  <2>6. Fits'
    BY <2>1, FitsKept DEF Inv, cursor
  <2> QED BY <2>2, <2>3, <2>4, <2>5, <2>6 DEF Inv
<1> QED BY <1>1, <1>2, <1>3, <1>4 DEF Next

-----------------------------------------------------------------------------
(* The room that list_xattrs thinks it has used is what the keys take, and *)
(* never more than the client has; a call of the cursor is answered where  *)
(* it was made (get_xattr, list_xattrs).                                   *)
THEOREM TypeCorrect == Spec => []TypeOK
<1>1. Inv => TypeOK
  BY DEF Inv
<1> QED BY <1>1, InitInv, InvNext, PTL DEF Spec

(* The scan looks at no byte outside the attributes it was asked for,      *)
(* whatever lengths the entries claim (get_xattr, list_xattrs).            *)
THEOREM FillsCorrect == Spec => []FillsInAttributes
<1>1. Inv => FillsInAttributes
  <2> DEFINE i == req.inode
  <2> SUFFICES ASSUME Inv, mode \in {"idle", "called", "loop"}
               PROVE  /\ (start % BlkSz) + blen <= BlkSz
                      /\ sh = 0 => AttrStart(i) + 12 + 4 * Len(SharedIndexes(i)) <= start
                      /\ sh = 0 => start + blen <= DiskMetaEnd(i)
                      /\ sh # 0 => BlkPos(XattrBlk) + 4 * Word(AttrStart(i) + 8 + 4 * sh) <= start
    BY DEF FillsInAttributes
  <2>1. stage # "idle" /\ Asked(i) /\ sh \in 0 .. Len(SharedIndexes(i))
    BY Kept, RequestTypes DEF Inv, TypeOK, Scanned
  <2>2. /\ First(i, sh) <= start /\ off + len = First(i, sh) + Span(i, sh) /\ off = start + blen
        /\ off \in Nat /\ len \in Nat /\ start \in Nat /\ blen \in Nat
    BY <2>1 DEF Inv, InRange, P!InvIn, P!TypeOK, P!Window1
  <2>3. (start % BlkSz) + blen <= BlkSz
    BY DEF Inv, P!InBlock
  <2>4. CASE sh = 0
    <3>1. InlineFits(i)
      BY <2>4 DEF Inv, Fits
    <3>2. First(i, sh) = InlineOffset(i) /\ Span(i, sh) = InlineLen(i)
      BY <2>4, <3>1 DEF First, Span
    <3>3. InlineOffset(i) = AttrStart(i) + 12 + 4 * Len(SharedIndexes(i))
      BY <2>1, InodeTypes DEF InlineOffset, InlineHeaderSz
    <3>4. InlineOffset(i) + InlineLen(i) = AttrStart(i) + XattrSize(i)
      BY <2>1, InodeTypes DEF InlineOffset, InlineLen
    <3>5. AttrStart(i) + XattrSize(i) <= DiskMetaEnd(i)
      <4>1. Iloc(i.nid) \in Nat /\ InodeSize(i) \in Nat
        BY <2>1, GeometryAssumption DEF Asked, Iloc, BlkPos, InodeSize
      <4>2. XattrSize(i) \in Nat /\ DiskXattrSize(i) \in Nat /\ XattrSize(i) <= DiskXattrSize(i)
        BY <2>1 DEF Asked, XattrSize, DiskXattrSize
      <4> QED BY <4>1, <4>2 DEF AttrStart, DiskMetaEnd
    <3>6. AttrStart(i) + XattrSize(i) \in Nat /\ DiskMetaEnd(i) \in Nat
      <4>1. AttrStart(i) + XattrSize(i) \in Nat
        BY <2>1, InodeTypes
      <4>2. Iloc(i.nid) \in Nat /\ InodeSize(i) \in Nat
        BY <2>1, GeometryAssumption DEF Asked, Iloc, BlkPos, InodeSize
      <4>3. DiskXattrSize(i) \in Nat
        BY <2>1 DEF Asked, DiskXattrSize
      <4> QED BY <4>1, <4>2, <4>3 DEF DiskMetaEnd
    <3>7. start + blen <= AttrStart(i) + XattrSize(i)
      BY <2>2, <3>2, <3>4, <3>6
    <3>8. start + blen <= DiskMetaEnd(i)
      BY <2>2, <3>5, <3>6, <3>7
    <3> QED BY <2>2, <2>3, <2>4, <3>2, <3>3, <3>8
  <2>5. CASE sh # 0
    <3>1. First(i, sh) = BlkPos(XattrBlk) + 4 * SharedIndexes(i)[sh]
      BY <2>5 DEF First
    <3>2. sh \in 1 .. Len(SharedIndexes(i))
      BY <2>1, <2>5, InodeTypes
    <3>3. SharedIndexes(i)[sh] = Word(AttrStart(i) + 8 + 4 * sh)
      BY <2>1, <3>2, SharedIndex
    <3> QED BY <2>2, <2>3, <2>5, <3>1, <3>3
  <2> QED BY <2>4, <2>5
<1> QED BY <1>1, InitInv, InvNext, PTL DEF Spec

-----------------------------------------------------------------------------
(* The entries of an image. *)

LEMMA ByteTypes ==
  ASSUME NEW a \in Nat
  PROVE  Byte(a) \in 0 .. 255
<1>1. Len(Image) \in Nat /\ \A k \in 1 .. Len(Image) : Image[k] \in 0 .. 255
  BY XattrAssumption, OctetTypes DEF Octets
<1> QED BY <1>1 DEF Byte

(* The name and the value of an entry lie in it, and it is padded.         *)
LEMMA EntryWords ==
  ASSUME NEW a \in Nat
  PROVE  \E w \in Nat : /\ EntrySz(HeaderAt(a)) = 4 * w
                       /\ HeaderAt(a).suffix_len + HeaderAt(a).value_len <= 4 * w
<1> DEFINE h == HeaderAt(a)
           n == h.suffix_len + h.value_len
           w == (n + 4 - 1) \div 4
<1>1. n \in Nat
  BY HeaderTypes DEF Headers
<1>2. EntrySz(h) = w * 4
  BY DEF EntrySz, RoundUp
<1>3. \A x \in Nat : (x + 4 - 1) \div 4 \in Nat /\ x <= ((x + 4 - 1) \div 4) * 4
  OBVIOUS
<1>4. w \in Nat /\ n <= w * 4
  BY <1>1, <1>3
<1> HIDE DEF w
<1> QED BY <1>1, <1>2, <1>4

LEMMA EntryTypes ==
  ASSUME NEW a \in Nat
  PROVE  /\ HeaderAt(a) \in Headers
         /\ HeaderAt(a).suffix_len \in Nat /\ HeaderAt(a).suffix_len <= 255
         /\ HeaderAt(a).value_len \in Nat /\ HeaderAt(a).value_len <= 65535
         /\ EntrySz(HeaderAt(a)) \in Nat
         /\ HeaderAt(a).suffix_len + HeaderAt(a).value_len <= EntrySz(HeaderAt(a))
         /\ EntryEnd(a) = a + 4 + EntrySz(HeaderAt(a))
<1> DEFINE h == HeaderAt(a)
<1>1. a + 2 \in Nat /\ a + 3 \in Nat
  OBVIOUS
<1>2. Byte(a) \in 0 .. 255 /\ Byte(a + 2) \in 0 .. 255 /\ Byte(a + 3) \in 0 .. 255
  BY <1>1, ByteTypes
<1>3. \A x, y \in 0 .. 255 : x \in Nat /\ x <= 255 /\ x + 256 * y \in Nat /\ x + 256 * y <= 65535
  OBVIOUS
<1>4. h.suffix_len = Byte(a) /\ h.value_len = Byte(a + 2) + 256 * Byte(a + 3)
  BY DEF HeaderAt
<1>5. /\ h.suffix_len \in Nat /\ h.value_len \in Nat
      /\ h.suffix_len <= 255 /\ h.value_len <= 65535
  <2> DEFINE x == Byte(a)
             y == Byte(a + 2)
             z == Byte(a + 3)
  <2>1. x \in 0 .. 255 /\ y \in 0 .. 255 /\ z \in 0 .. 255
    BY <1>2
  <2>2. h.suffix_len = x /\ h.value_len = y + 256 * z
    BY <1>4
  <2> HIDE DEF x, y, z, h
  <2>3. x \in Nat /\ x <= 255
    BY <1>3, <2>1
  <2>4. y + 256 * z \in Nat /\ y + 256 * z <= 65535
    BY <1>3, <2>1
  <2> QED BY <2>2, <2>3, <2>4
<1>6. h \in Headers
  BY HeaderTypes
<1>7. PICK w \in Nat : EntrySz(h) = 4 * w /\ h.suffix_len + h.value_len <= 4 * w
  BY EntryWords
<1>8. EntrySz(h) \in Nat /\ h.suffix_len + h.value_len <= EntrySz(h)
  BY <1>7
<1>9. EntryEnd(a) = a + 4 + EntrySz(h)
  BY DEF EntryEnd
<1> HIDE DEF h
<1>10. /\ h \in Headers /\ h.suffix_len \in Nat /\ h.value_len \in Nat
       /\ h.suffix_len <= 255 /\ h.value_len <= 65535
       /\ EntrySz(h) \in Nat /\ h.suffix_len + h.value_len <= EntrySz(h)
       /\ EntryEnd(a) = a + 4 + EntrySz(h)
  BY <1>5, <1>6, <1>8, <1>9
<1> QED BY <1>10 DEF h

LEMMA EntryEndNat ==
  ASSUME NEW a \in Nat
  PROVE  /\ EntryEnd(a) \in Nat /\ EntryEnd(a) >= a + 4
         /\ \E w \in Nat : EntryEnd(a) = a + 4 + 4 * w
<1>1. PICK w \in Nat : EntrySz(HeaderAt(a)) = 4 * w
  BY EntryWords
<1>2. EntryEnd(a) = a + 4 + 4 * w
  BY <1>1 DEF EntryEnd
<1> QED BY <1>2

(* The addresses of entries that lie one behind the other from a on, up to *)
(* the last that starts before an end.                                     *)
ChainFrom(a, end, s) ==
  /\ s \in Seq(Nat)
  /\ a >= end => s = <<>>
  /\ a < end => Len(s) >= 1 /\ s[1] = a
  /\ \A k \in 1 .. Len(s) :
       /\ a <= s[k] /\ s[k] < end
       /\ \E w \in Nat : s[k] = a + 4 * w
       /\ k < Len(s) => s[k + 1] = EntryEnd(s[k])
       /\ k = Len(s) => EntryEnd(s[k]) >= end
       /\ \A j \in 1 .. Len(s) : j < k => s[j] < s[k]

(* One entry in front of a chain. *)
LEMMA ChainOn ==
  ASSUME NEW a \in Nat, NEW end \in Nat, a < end, NEW t, ChainFrom(EntryEnd(a), end, t)
  PROVE  ChainFrom(a, end, <<a>> \o t)
<1> DEFINE b == EntryEnd(a)
           s == <<a>> \o t
<1>1. t \in Seq(Nat) /\ Len(t) \in Nat
  BY DEF ChainFrom
<1>2. PICK v \in Nat : b = a + 4 + 4 * v
  BY EntryEndNat
<1>3. ChainFrom(b, end, t)
  OBVIOUS
<1> HIDE DEF b
<1>4. /\ s \in Seq(Nat) /\ Len(s) = Len(t) + 1 /\ s[1] = a
      /\ \A k \in 2 .. Len(s) : s[k] = t[k - 1]
  BY <1>1
<1>5. Len(t) = 0 => b >= end
  BY <1>1, <1>2, <1>3 DEF ChainFrom
<1>6. Len(t) > 0 => t[1] = b
  <2> SUFFICES ASSUME Len(t) > 0 PROVE t[1] = b
    OBVIOUS
  <2>1. t # <<>>
    OBVIOUS
  <2> QED BY <1>2, <1>3, <2>1 DEF ChainFrom
<1> HIDE DEF s
<1>7. ASSUME NEW k \in 1 .. Len(s)
      PROVE  /\ a <= s[k] /\ s[k] < end
             /\ \E w \in Nat : s[k] = a + 4 * w
             /\ k < Len(s) => s[k + 1] = EntryEnd(s[k])
             /\ k = Len(s) => EntryEnd(s[k]) >= end
             /\ \A j \in 1 .. Len(s) : j < k => s[j] < s[k]
  <2>1. CASE k = 1
    <3>1. s[k] = a
      BY <1>4, <2>1
    <3>4. \E w \in Nat : s[k] = a + 4 * w
      <4>1. s[k] = a + 4 * 0
        BY <3>1
      <4> WITNESS 0 \in Nat
      <4> QED BY <4>1
    <3>2. k < Len(s) => s[k + 1] = EntryEnd(s[k])
      <4> SUFFICES ASSUME k < Len(s) PROVE s[k + 1] = EntryEnd(s[k])
        OBVIOUS
      <4>1. 2 \in 2 .. Len(s) /\ Len(t) > 0
        BY <1>1, <1>4, <2>1
      <4>2. s[2] = t[1]
        BY <1>4, <4>1
      <4> QED BY <1>6, <2>1, <3>1, <4>1, <4>2 DEF b
    <3>3. k = Len(s) => EntryEnd(s[k]) >= end
      BY <1>1, <1>4, <1>5, <2>1, <3>1 DEF b
    <3> QED BY <2>1, <3>1, <3>2, <3>3, <3>4
  <2>2. CASE k # 1
    <3>1. k \in 2 .. Len(s) /\ k - 1 \in 1 .. Len(t) /\ s[k] = t[k - 1]
      BY <1>1, <1>4, <2>2
    <3>2. /\ b <= t[k - 1] /\ t[k - 1] < end
          /\ \E w \in Nat : t[k - 1] = b + 4 * w
          /\ k - 1 < Len(t) => t[(k - 1) + 1] = EntryEnd(t[k - 1])
          /\ k - 1 = Len(t) => EntryEnd(t[k - 1]) >= end
          /\ \A j \in 1 .. Len(t) : j < k - 1 => t[j] < t[k - 1]
      BY <1>3, <3>1 DEF ChainFrom
    <3>3. a <= s[k] /\ s[k] < end
      <4>1. t[k - 1] \in Nat
        BY <1>1, <3>1
      <4> QED BY <1>2, <3>1, <3>2, <4>1
    <3>4. \E w \in Nat : s[k] = a + 4 * w
      <4>1. PICK w \in Nat : t[k - 1] = b + 4 * w
        BY <3>2
      <4>2. 1 + v + w \in Nat /\ s[k] = a + 4 * (1 + v + w)
        BY <1>2, <3>1, <4>1
      <4> WITNESS 1 + v + w \in Nat
      <4> QED BY <4>2
    <3>5. k < Len(s) => s[k + 1] = EntryEnd(s[k])
      <4> SUFFICES ASSUME k < Len(s) PROVE s[k + 1] = EntryEnd(s[k])
        OBVIOUS
      <4>1. k + 1 \in 2 .. Len(s) /\ (k + 1) - 1 = (k - 1) + 1 /\ k - 1 < Len(t)
        BY <1>1, <1>4, <3>1
      <4>2. s[k + 1] = t[(k - 1) + 1]
        BY <1>4, <4>1
      <4> QED BY <3>1, <3>2, <4>1, <4>2
    <3>6. k = Len(s) => EntryEnd(s[k]) >= end
      BY <1>1, <1>4, <3>1, <3>2
    <3>7. ASSUME NEW j \in 1 .. Len(s), j < k PROVE s[j] < s[k]
      <4>1. CASE j = 1
        <5>1. t[k - 1] \in Nat
          BY <1>1, <3>1
        <5> QED BY <1>2, <1>4, <3>1, <3>2, <4>1, <5>1
      <4>2. CASE j # 1
        <5>1. j \in 2 .. Len(s) /\ j - 1 \in 1 .. Len(t) /\ j - 1 < k - 1
          BY <1>1, <1>4, <3>1, <3>7, <4>2
        <5>2. s[j] = t[j - 1] /\ t[j - 1] < t[k - 1]
          BY <1>4, <3>2, <5>1
        <5> QED BY <3>1, <5>2
      <4> QED BY <4>1, <4>2
    <3> QED BY <3>3, <3>4, <3>5, <3>6, <3>7
  <2> QED BY <2>1, <2>2
<1>8. a < end => Len(s) >= 1 /\ s[1] = a
  BY <1>1, <1>4
<1>9. ChainFrom(a, end, s)
  BY <1>4, <1>7, <1>8 DEF ChainFrom
<1> QED BY <1>9 DEF s

(* The recursion of InlineAddresses, and that it ends. *)
Walk(f, end) ==
  f = [ a \in Nat |-> IF a >= end THEN <<>> ELSE <<a>> \o f[EntryEnd(a)] ]

LEMMA WalkExists ==
  ASSUME NEW end \in Nat
  PROVE  \E f : Walk(f, end)
<1> DEFINE Step(f, a) == IF a >= end THEN <<>> ELSE <<a>> \o f[EntryEnd(a)]
           S == { n \in Nat :
                    \E f : /\ f = [ a \in Nat |-> f[a] ]
                          /\ \A a \in Nat : a + n >= end => f[a] = Step(f, a) }
<1>1. 0 \in S
  <2> DEFINE f == [ a \in Nat |-> <<>> ]
  <2>1. f = [ a \in Nat |-> f[a] ] /\ \A a \in Nat : a + 0 >= end => f[a] = Step(f, a)
    OBVIOUS
  <2> HIDE DEF f
  <2> QED BY <2>1
<1>2. ASSUME NEW n \in Nat, n \in S PROVE n + 1 \in S
  <2>1. PICK f : f = [ a \in Nat |-> f[a] ] /\ \A a \in Nat : a + n >= end => f[a] = Step(f, a)
    BY <1>2
  <2> DEFINE g == [ a \in Nat |-> IF a + n >= end THEN f[a] ELSE <<a>> \o f[EntryEnd(a)] ]
  <2>2. g = [ a \in Nat |-> g[a] ]
    OBVIOUS
  <2>3. ASSUME NEW a \in Nat, a + (n + 1) >= end PROVE g[a] = Step(g, a)
    <3>1. CASE a >= end
      <4>1. a + n >= end
        BY <3>1
      <4> QED BY <2>1, <3>1, <4>1
    <3>2. CASE ~(a >= end)
      <4>1. EntryEnd(a) \in Nat /\ EntryEnd(a) + n >= end
        BY <2>3, EntryEndNat
      <4>2. g[EntryEnd(a)] = f[EntryEnd(a)]
        BY <4>1
      <4>3. g[a] = <<a>> \o f[EntryEnd(a)]
        BY <2>1, <3>2
      <4> HIDE DEF g
      <4> QED BY <3>2, <4>2, <4>3
    <3> QED BY <3>1, <3>2
  <2> HIDE DEF g, Step
  <2> QED BY <2>2, <2>3
<1> HIDE DEF S
<1>3. end \in S
  BY <1>1, <1>2, SetInduction
<1>4. PICK f : f = [ a \in Nat |-> f[a] ] /\ \A a \in Nat : a + end >= end => f[a] = Step(f, a)
  BY <1>3 DEF S
<1>5. \A a \in Nat : a + end >= end
  OBVIOUS
<1>6. \E g : g = [ a \in Nat |-> g[a] ] /\ \A a \in Nat : g[a] = Step(g, a)
  BY <1>4, <1>5
<1>7. PICK g : g = [ a \in Nat |-> g[a] ] /\ \A a \in Nat : g[a] = Step(g, a)
  BY <1>6
<1> QED BY <1>7 DEF Walk

LEMMA WalkChain ==
  ASSUME NEW end \in Nat, NEW f, Walk(f, end), NEW a \in Nat
  PROVE  ChainFrom(a, end, f[a])
<1> DEFINE S == { n \in Nat : \A x \in Nat : x + n >= end => ChainFrom(x, end, f[x]) }
<1>1. ASSUME NEW x \in Nat PROVE f[x] = IF x >= end THEN <<>> ELSE <<x>> \o f[EntryEnd(x)]
  BY DEF Walk
<1>2. ASSUME NEW x \in Nat, x >= end PROVE ChainFrom(x, end, f[x])
  <2>1. f[x] = <<>>
    BY <1>1, <1>2
  <2>2. <<>> \in Seq(Nat) /\ Len(<<>>) = 0 /\ ~(x < end)
    BY <1>2
  <2> QED BY <2>1, <2>2 DEF ChainFrom
<1>3. 0 \in S
  BY <1>2
<1>4. ASSUME NEW n \in Nat, n \in S PROVE n + 1 \in S
  <2> SUFFICES ASSUME NEW x \in Nat, x + (n + 1) >= end PROVE ChainFrom(x, end, f[x])
    OBVIOUS
  <2>1. CASE x >= end
    <3>1. ChainFrom(x, end, f[x])
      BY <1>2, <2>1
    <3> QED BY <3>1
  <2>2. CASE ~(x >= end)
    <3>1. EntryEnd(x) \in Nat /\ EntryEnd(x) + n >= end /\ x < end
      BY <2>2, EntryEndNat
    <3>2. ChainFrom(EntryEnd(x), end, f[EntryEnd(x)])
      BY <1>4, <3>1
    <3>3. f[x] = <<x>> \o f[EntryEnd(x)]
      BY <1>1, <2>2
    <3> QED BY <3>1, <3>2, <3>3, ChainOn
  <2> QED BY <2>1, <2>2
<1>5. end \in S
  <2> HIDE DEF S
  <2> QED BY <1>3, <1>4, SetInduction
<1>6. a + end >= end
  OBVIOUS
<1> QED BY <1>5, <1>6

LEMMA InlineChain ==
  ASSUME NEW i, Asked(i)
  PROVE  /\ DiskMetaEnd(i) \in Nat /\ AttrStart(i) + 12 + 4 * SharedCount(i) \in Nat
         /\ ChainFrom(AttrStart(i) + 12 + 4 * SharedCount(i), DiskMetaEnd(i), InlineAddresses(i))
<1> DEFINE end == DiskMetaEnd(i)
           start0 == AttrStart(i) + 12 + 4 * SharedCount(i)
           f == CHOOSE g : Walk(g, end)
<1>1. end \in Nat
  <2>1. Iloc(i.nid) \in Nat /\ InodeSize(i) \in Nat
    BY GeometryAssumption DEF Asked, Iloc, BlkPos, InodeSize
  <2>2. DiskXattrSize(i) \in Nat
    BY DEF Asked, DiskXattrSize
  <2> QED BY <2>1, <2>2 DEF DiskMetaEnd
<1>2. start0 \in Nat
  BY InodeTypes
<1>3. InlineAddresses(i) = f[start0]
  BY DEF InlineAddresses, Walk
<1> HIDE DEF end, start0
<1>4. Walk(f, end)
  BY <1>1, WalkExists
<1> HIDE DEF f
<1>5. ChainFrom(start0, end, f[start0])
  BY <1>1, <1>2, <1>4, WalkChain
<1> QED BY <1>1, <1>2, <1>3, <1>5 DEF end, start0

-----------------------------------------------------------------------------
(* The entries of an inode that is formed, and the ranges that are read.   *)

(* The entries after the inode, the end of a range, and where the entry    *)
(* after the first p of them is, or would be.                              *)
Inl(i) == IF i.icount = 0 THEN <<>> ELSE InlineAddresses(i)
Limit(i, k) == First(i, k) + Span(i, k)
At(i, p) == IF p < Len(Inl(i)) THEN Inl(i)[p + 1] ELSE Limit(i, 0)

LEMMA BareInode ==
  ASSUME NEW i, Asked(i), i.icount = 0
  PROVE  /\ Inl(i) = <<>> /\ EntryAddresses(i) = <<>> /\ Len(SharedIndexes(i)) = 0
         /\ ~InlineFits(i) /\ First(i, 0) = 0 /\ Limit(i, 0) = 0
<1>1. XattrSize(i) = 0
  BY DEF XattrSize
<1>2. SharedIndexes(i) = <<>> /\ Len(<<>>) = 0
  BY <1>1 DEF SharedIndexes
<1>3. ~InlineFits(i)
  BY <1>1, <1>2 DEF InlineFits, InlineHeaderSz
<1>4. First(i, 0) = 0 /\ Span(i, 0) = 0
  BY <1>3 DEF First, Span
<1> QED BY <1>2, <1>3, <1>4 DEF Inl, EntryAddresses, Limit

LEMMA FormedRange ==
  ASSUME NEW i, Asked(i), Formed(i), i.icount # 0
  PROVE  /\ InlineFits(i) /\ Len(SharedIndexes(i)) = SharedCount(i)
         /\ First(i, 0) = AttrStart(i) + 12 + 4 * SharedCount(i)
         /\ Limit(i, 0) = DiskMetaEnd(i)
         /\ DiskXattrSize(i) = 12 + 4 * (i.icount - 1)
         /\ SharedCount(i) <= i.icount - 1
<1> DEFINE n == SharedCount(i)
           s == AttrStart(i)
<1>1. /\ i.version = "Extended" /\ n < 64 /\ 12 + 4 * n <= DiskXattrSize(i)
      /\ i.icount \in Nat /\ n \in Nat /\ s \in Nat
  BY InodeTypes DEF Formed, Asked
<1>2. XattrSize(i) = 12 + 4 * (i.icount - 1) /\ DiskXattrSize(i) = XattrSize(i)
  BY <1>1 DEF XattrSize, DiskXattrSize
<1>3. s = Iloc(i.nid) + InodeSize(i)
  BY DEF AttrStart
<1>4. SharedLen(i) = (4 * n) % 256
  BY DEF SharedLen
<1> HIDE DEF n, s
<1>5. XattrSize(i) # 0 /\ XattrSize(i) \in Nat /\ n <= i.icount - 1
  BY <1>1, <1>2
<1>6. (4 * n) % 256 = 4 * n /\ (4 * n) \div 4 = n
  BY <1>1
<1>7. Len(SharedIndexes(i)) = n
  <2>1. SharedIndexes(i) = [ k \in 1 .. n |-> Word(AttrStart(i) + 8 + 4 * k) ]
    BY <1>4, <1>5, <1>6 DEF SharedIndexes
  <2> QED BY <1>1, <2>1
<1>8. InlineHeaderSz(i) = 12 + 4 * n
  BY <1>7 DEF InlineHeaderSz
<1>9. InlineFits(i)
  BY <1>1, <1>2, <1>8 DEF InlineFits
<1>10. First(i, 0) = s + (12 + 4 * n)
  BY <1>8, <1>9 DEF First, InlineOffset, s
<1>11. Span(i, 0) = XattrSize(i) - (12 + 4 * n)
  BY <1>8, <1>9 DEF Span, InlineLen
<1>12. Limit(i, 0) = s + XattrSize(i)
  BY <1>1, <1>5, <1>10, <1>11 DEF Limit
<1>13. DiskMetaEnd(i) = s + XattrSize(i)
  BY <1>2, <1>3 DEF DiskMetaEnd
<1> QED BY <1>1, <1>2, <1>5, <1>7, <1>9, <1>10, <1>12, <1>13 DEF n, s

(* The attributes of an inode: the entries after it, then the shared ones, *)
(* each at the first byte of its range.                                    *)
LEMMA EntryPlaces ==
  ASSUME NEW i, Asked(i), Formed(i)
  PROVE  /\ Inl(i) \in Seq(Nat) /\ Len(Inl(i)) \in Nat
         /\ Len(SharedIndexes(i)) \in Nat
         /\ DOMAIN EntryAddresses(i) = 1 .. Len(Inl(i)) + Len(SharedIndexes(i))
         /\ \A k \in 1 .. Len(Inl(i)) : EntryAddresses(i)[k] = Inl(i)[k]
         /\ \A k \in 1 .. Len(SharedIndexes(i)) :
              EntryAddresses(i)[Len(Inl(i)) + k] = First(i, k)
<1>1. CASE i.icount = 0
  <2>1. Inl(i) = <<>> /\ EntryAddresses(i) = <<>> /\ Len(SharedIndexes(i)) = 0
    BY <1>1, BareInode
  <2>2. <<>> \in Seq(Nat) /\ Len(<<>>) = 0 /\ DOMAIN <<>> = 1 .. 0
    OBVIOUS
  <2> QED BY <2>1, <2>2
<1>2. CASE i.icount # 0
  <2> DEFINE s == SharedAddresses(i)
             n == SharedCount(i)
             t == Inl(i)
  <2>1. t = InlineAddresses(i) /\ EntryAddresses(i) = t \o s
    BY <1>2 DEF Inl, EntryAddresses
  <2>2. t \in Seq(Nat)
    BY <2>1, InlineChain DEF ChainFrom
  <2>3. n \in Nat /\ Len(SharedIndexes(i)) = n
    BY <1>2, FormedRange, InodeTypes
  <2>4. s = [ k \in 1 .. n |-> BlkPos(XattrBlk) + 4 * Word(AttrStart(i) + 8 + 4 * k) ]
    BY DEF SharedAddresses
  <2>5. ASSUME NEW k \in 1 .. n PROVE s[k] = First(i, k) /\ s[k] \in Nat
    <3>1. SharedIndexes(i)[k] = Word(AttrStart(i) + 8 + 4 * k)
      BY <2>3, SharedIndex
    <3>2. s[k] = BlkPos(XattrBlk) + 4 * SharedIndexes(i)[k]
      BY <2>4, <3>1
    <3>3. k # 0 /\ k \in 0 .. Len(SharedIndexes(i))
      BY <2>3
    <3> HIDE DEF s
    <3>4. s[k] = First(i, k)
      BY <3>2, <3>3 DEF First
    <3> QED BY <3>3, <3>4, RangeTypes
  <2>6. s \in [1 .. n -> Nat]
    <3>1. s = [ k \in 1 .. n |-> s[k] ]
      BY <2>4
    <3> HIDE DEF s
    <3> QED BY <2>5, <3>1
  <2> HIDE DEF s, n, t
  <2>7. s \in Seq(Nat) /\ Len(s) = n
    <3>1. \A f \in [1 .. n -> Nat] : f \in Seq(Nat) /\ Len(f) = n
      BY <2>3
    <3> QED BY <2>6, <3>1
  <2>8. ASSUME NEW a \in Seq(Nat), NEW b \in Seq(Nat)
        PROVE  /\ Len(a) \in Nat /\ Len(b) \in Nat
               /\ DOMAIN (a \o b) = 1 .. Len(a) + Len(b)
               /\ \A k \in 1 .. Len(a) : (a \o b)[k] = a[k]
               /\ \A k \in 1 .. Len(b) : (a \o b)[Len(a) + k] = b[k]
    OBVIOUS
  <2>9. /\ Len(t) \in Nat
        /\ DOMAIN (t \o s) = 1 .. Len(t) + n
        /\ \A k \in 1 .. Len(t) : (t \o s)[k] = t[k]
        /\ \A k \in 1 .. n : (t \o s)[Len(t) + k] = s[k]
    BY <2>2, <2>7, <2>8
  <2> QED BY <2>1, <2>2, <2>3, <2>5, <2>9 DEF t, s
<1> QED BY <1>1, <1>2

(* Where the scan of the entries after the inode comes by.                 *)
OnGrid(i, a) ==
  /\ \E v \in Nat : a = First(i, 0) + 4 * v
  /\ \E w \in Nat : Limit(i, 0) = a + 4 * w

LEMMA GridStart ==
  ASSUME NEW i, Asked(i), Formed(i)
  PROVE  /\ First(i, 0) \in Nat /\ Limit(i, 0) \in Nat
         /\ OnGrid(i, First(i, 0)) /\ OnGrid(i, Limit(i, 0))
<1>1. First(i, 0) \in Nat /\ Limit(i, 0) \in Nat
  <2>1. 0 \in 0 .. Len(SharedIndexes(i))
    BY InodeTypes
  <2> QED BY <2>1, RangeTypes DEF Limit
<1>2. \E w \in Nat : Limit(i, 0) = First(i, 0) + 4 * w
  <2>1. CASE i.icount = 0
    <3>1. Limit(i, 0) = First(i, 0) + 4 * 0
      BY <2>1, BareInode
    <3> WITNESS 0 \in Nat
    <3> QED BY <3>1
  <2>2. CASE i.icount # 0
    <3>1. /\ First(i, 0) = AttrStart(i) + 12 + 4 * SharedCount(i)
          /\ Limit(i, 0) = AttrStart(i) + (12 + 4 * (i.icount - 1))
          /\ SharedCount(i) <= i.icount - 1
      BY <2>2, FormedRange DEF DiskMetaEnd, AttrStart
    <3>2. i.icount \in Nat /\ AttrStart(i) \in Nat /\ SharedCount(i) \in Nat
      BY InodeTypes DEF Asked
    <3>3. i.icount - 1 - SharedCount(i) \in Nat
      BY <3>1, <3>2
    <3>4. PICK w \in Nat : w = i.icount - 1 - SharedCount(i)
      BY <3>3
    <3>5. Limit(i, 0) = First(i, 0) + 4 * w
      BY <3>1, <3>2, <3>4
    <3> WITNESS w \in Nat
    <3> QED BY <3>5
  <2> QED BY <2>1, <2>2
<1>3. First(i, 0) = First(i, 0) + 4 * 0 /\ Limit(i, 0) = Limit(i, 0) + 4 * 0 /\ 0 \in Nat
  BY <1>1
<1>4. \E v \in Nat : First(i, 0) = First(i, 0) + 4 * v
  <2> WITNESS 0 \in Nat
  <2> QED BY <1>3
<1>5. \E v \in Nat : Limit(i, 0) = Limit(i, 0) + 4 * v
  <2> WITNESS 0 \in Nat
  <2> QED BY <1>3
<1> QED BY <1>1, <1>2, <1>4, <1>5 DEF OnGrid

LEMMA GridNext ==
  ASSUME NEW i, Asked(i), Formed(i), NEW a \in Nat, OnGrid(i, a), a < Limit(i, 0)
  PROVE  a + 4 <= Limit(i, 0) /\ OnGrid(i, a + 4)
<1>1. First(i, 0) \in Nat /\ Limit(i, 0) \in Nat
  BY GridStart
<1>2. PICK v \in Nat : a = First(i, 0) + 4 * v
  BY DEF OnGrid
<1>3. PICK w \in Nat : Limit(i, 0) = a + 4 * w
  BY DEF OnGrid
<1>4. v + 1 \in Nat /\ a + 4 = First(i, 0) + 4 * (v + 1)
  BY <1>1, <1>2
<1>5. PICK x \in Nat : w = x + 1
  <2>1. w - 1 \in Nat /\ w = (w - 1) + 1
    BY <1>1, <1>3
  <2> QED BY <2>1
<1>6. \E y \in Nat : a + 4 = First(i, 0) + 4 * y
  <2> WITNESS v + 1 \in Nat
  <2> QED BY <1>4
<1>7. Limit(i, 0) = (a + 4) + 4 * x
  BY <1>3, <1>5
<1> QED BY <1>6, <1>7 DEF OnGrid

LEMMA EntryWalk ==
  ASSUME NEW i, Asked(i), Formed(i), NEW p \in 0 .. Len(Inl(i))
  PROVE  /\ At(i, p) \in Nat /\ At(i, p) <= Limit(i, 0) /\ OnGrid(i, At(i, p))
         /\ p = 0 => At(i, p) = First(i, 0)
         /\ p = Len(Inl(i)) => At(i, p) = Limit(i, 0)
         /\ p < Len(Inl(i)) =>
              /\ At(i, p) < Limit(i, 0)
              /\ p + 1 \in DOMAIN EntryAddresses(i) /\ At(i, p) = EntryAddresses(i)[p + 1]
              /\ At(i, p) \in InlineEntries(i)
              /\ EntryEnd(At(i, p)) = At(i, p + 1) /\ EntryEnd(At(i, p)) <= Limit(i, 0)
<1> DEFINE t == Inl(i)
           n == Len(t)
           f == First(i, 0)
           e == Limit(i, 0)
<1>1. t \in Seq(Nat) /\ n \in Nat /\ f \in Nat /\ e \in Nat /\ OnGrid(i, f) /\ OnGrid(i, e)
  BY EntryPlaces, GridStart
<1>2. CASE i.icount = 0
  <2>1. n = 0 /\ f = 0 /\ e = 0
    BY <1>2, BareInode
  <2>2. At(i, p) = e /\ p = 0
    BY <2>1 DEF At
  <2> QED BY <1>1, <2>1, <2>2
<1>3. CASE i.icount # 0
  <2>1. t = InlineAddresses(i) /\ ChainFrom(f, e, t)
    <3>1. f = AttrStart(i) + 12 + 4 * SharedCount(i) /\ e = DiskMetaEnd(i)
      BY <1>3, FormedRange
    <3>2. t = InlineAddresses(i)
      BY <1>3 DEF Inl
    <3> QED BY <3>1, <3>2, InlineChain
  <2>2. \A k \in 1 .. n : EntryEnd(t[k]) <= e
    <3>1. \A k \in DOMAIN InlineAddresses(i) : EntryEnd(InlineAddresses(i)[k]) <= DiskMetaEnd(i)
      BY <1>3 DEF Formed
    <3>2. e = DiskMetaEnd(i) /\ DOMAIN t = 1 .. n
      BY <1>1, <1>3, FormedRange
    <3> QED BY <2>1, <3>1, <3>2
  <2>3. \A k \in 1 .. n : t[k] \in InlineEntries(i)
    BY <1>1, <1>3, <2>1 DEF InlineEntries
  <2>4. /\ f >= e => t = <<>>
        /\ f < e => n >= 1 /\ t[1] = f
        /\ \A k \in 1 .. n :
             /\ f <= t[k] /\ t[k] < e /\ t[k] \in Nat
             /\ \E w \in Nat : t[k] = f + 4 * w
             /\ k < n => t[k + 1] = EntryEnd(t[k])
             /\ k = n => EntryEnd(t[k]) >= e
    <3>1. \A k \in 1 .. n : t[k] \in Nat
      BY <1>1
    <3> QED BY <2>1, <3>1 DEF ChainFrom
  <2>5. DOMAIN EntryAddresses(i) = 1 .. n + Len(SharedIndexes(i))
        /\ Len(SharedIndexes(i)) \in Nat
        /\ \A k \in 1 .. n : EntryAddresses(i)[k] = t[k]
    BY EntryPlaces
  <2>6. f <= e
    <3>1. PICK w \in Nat : e = f + 4 * w
      BY <1>1 DEF OnGrid
    <3> QED BY <1>1, <3>1
  <2>7. At(i, p) = IF p < n THEN t[p + 1] ELSE e
    BY DEF At
  <2>8. At(i, p + 1) = IF p + 1 < n THEN t[p + 2] ELSE e
    <3>1. (p + 1) + 1 = p + 2
      OBVIOUS
    <3> QED BY <3>1 DEF At
  <2> HIDE DEF n, f, e
  <2>9. CASE p < n
    <3>1. p + 1 \in 1 .. n /\ p + 1 \in DOMAIN EntryAddresses(i)
      BY <1>1, <2>5, <2>9
    <3>2. /\ At(i, p) = t[p + 1] /\ t[p + 1] \in Nat /\ f <= t[p + 1] /\ t[p + 1] < e
          /\ EntryEnd(t[p + 1]) <= e /\ t[p + 1] \in InlineEntries(i)
          /\ EntryAddresses(i)[p + 1] = t[p + 1]
      BY <2>2, <2>3, <2>4, <2>5, <2>7, <2>9, <3>1 DEF n
    <3>3. EntryEnd(t[p + 1]) = At(i, p + 1)
      <4>1. CASE p + 1 < n
        <5>1. (p + 1) + 1 = p + 2
          OBVIOUS
        <5> QED BY <2>4, <2>8, <3>1, <4>1, <5>1 DEF n
      <4>2. CASE ~(p + 1 < n)
        <5>1. p + 1 = n
          BY <1>1, <2>9, <4>2
        <5>2. EntryEnd(t[p + 1]) >= e /\ EntryEnd(t[p + 1]) \in Nat
          BY <2>4, <3>1, <3>2, <5>1, EntryEndNat DEF n
        <5>3. EntryEnd(t[p + 1]) = e
          BY <1>1, <3>2, <5>2
        <5> QED BY <2>8, <4>2, <5>3
      <4> QED BY <4>1, <4>2
    <3>4. OnGrid(i, t[p + 1])
      <4>1. PICK v \in Nat : t[p + 1] = f + 4 * v
        BY <2>4, <3>1 DEF n
      <4>2. PICK w \in Nat : e = f + 4 * w
        BY <1>1 DEF OnGrid, e, f
      <4>3. w - v \in Nat
        BY <1>1, <3>2, <4>1, <4>2
      <4>4. PICK x \in Nat : x = w - v
        BY <4>3
      <4>5. e = t[p + 1] + 4 * x
        BY <1>1, <4>1, <4>2, <4>4
      <4>6. \E y \in Nat : e = t[p + 1] + 4 * y
        BY <4>5
      <4>7. \E y \in Nat : t[p + 1] = f + 4 * y
        BY <4>1
      <4> QED BY <4>6, <4>7 DEF OnGrid, e, f
    <3>5. p = 0 => t[p + 1] = f
      <4> SUFFICES ASSUME p = 0 PROVE t[p + 1] = f
        OBVIOUS
      <4>1. f < e /\ p + 1 = 1
        BY <1>1, <3>2
      <4> QED BY <2>4, <4>1
    <3> QED BY <1>1, <2>9, <3>1, <3>2, <3>3, <3>4, <3>5 DEF n, f, e
  <2>10. CASE ~(p < n)
    <3>1. p = n /\ At(i, p) = e
      BY <1>1, <2>7, <2>10 DEF n
    <3>2. p = 0 => e = f
      <4> SUFFICES ASSUME p = 0 PROVE e = f
        OBVIOUS
      <4>1. ~(f < e)
        BY <2>4, <3>1
      <4> QED BY <1>1, <2>6, <4>1
    <3> QED BY <1>1, <2>10, <3>1, <3>2 DEF n, f, e
  <2> QED BY <2>9, <2>10
<1> QED BY <1>2, <1>3

(* The entries after the inode are in the order of their addresses.        *)
LEMMA EntryOrder ==
  ASSUME NEW i, Asked(i), Formed(i), NEW j \in 1 .. Len(Inl(i)), NEW k \in 1 .. Len(Inl(i))
  PROVE  /\ j < k => EntryAddresses(i)[j] < EntryAddresses(i)[k]
         /\ EntryAddresses(i)[j] \in Nat
<1>1. i.icount # 0
  <2> SUFFICES ASSUME i.icount = 0 PROVE FALSE
    OBVIOUS
  <2>1. Len(Inl(i)) = 0
    BY BareInode
  <2> QED BY <2>1
<1>2. \E a, e : ChainFrom(a, e, Inl(i))
  BY <1>1, InlineChain DEF Inl
<1>3. Inl(i) \in Seq(Nat) /\ (j < k => Inl(i)[j] < Inl(i)[k])
  BY <1>2 DEF ChainFrom
<1>4. Inl(i)[j] \in Nat
  BY <1>3
<1> QED BY <1>3, <1>4, EntryPlaces

-----------------------------------------------------------------------------
(* What a header and a name decide. *)

Matches(r, a) == AttrAt(a).prefix = r.prefix /\ AttrAt(a).name = r.name

LEMMA MatchingEntries ==
  ASSUME NEW r, NEW k
  PROVE  k \in Matching(r) <=>
           /\ k \in DOMAIN EntryAddresses(r.inode)
           /\ Matches(r, EntryAddresses(r.inode)[k])
BY DEF Matching, Stored, Matches

LEMMA BytesFromTypes ==
  ASSUME NEW a \in Nat, NEW n \in Nat
  PROVE  /\ BytesFrom(a, n) \in Seq(Nat) /\ Len(BytesFrom(a, n)) = n
         /\ \A j \in 1 .. n : BytesFrom(a, n)[j] = Byte(a + j - 1)
<1>1. ASSUME NEW j \in 1 .. n PROVE Byte(a + j - 1) \in Nat
  <2>1. a + j - 1 \in Nat
    OBVIOUS
  <2> QED BY <2>1, Bytes
<1>2. BytesFrom(a, n) \in [1 .. n -> Nat] /\ \A j \in 1 .. n : BytesFrom(a, n)[j] = Byte(a + j - 1)
  BY <1>1 DEF BytesFrom
<1>3. \A f \in [1 .. n -> Nat] : f \in Seq(Nat) /\ Len(f) = n
  OBVIOUS
<1> QED BY <1>2, <1>3

LEMMA SameSeq ==
  ASSUME NEW x \in Seq(Nat), NEW y \in Seq(Nat), Len(x) = Len(y),
         \A j \in 1 .. Len(x) : x[j] = y[j]
  PROVE  x = y
OBVIOUS

LEMMA PartOfSeq ==
  ASSUME NEW u \in Seq(Nat), NEW m \in Nat, NEW n \in 0 .. Len(u), m <= n
  PROVE  LET s == SubSeq(u, m + 1, n)
         IN  s \in Seq(Nat) /\ Len(s) = n - m /\ \A j \in 1 .. n - m : s[j] = u[m + j]
OBVIOUS

LEMMA SplitSeq ==
  ASSUME NEW u \in Seq(Nat), NEW n \in 0 .. Len(u)
  PROVE  LET s == SubSeq(u, 1, n)
             t == SubSeq(u, n + 1, Len(u))
         IN  /\ s \in Seq(Nat) /\ Len(s) = n
             /\ t \in Seq(Nat) /\ Len(t) = Len(u) - n /\ u = s \o t
<1> DEFINE s == SubSeq(u, 1, n)
           t == SubSeq(u, n + 1, Len(u))
<1>1. /\ s \in Seq(Nat) /\ Len(s) = n /\ \A j \in 1 .. n : s[j] = u[j]
      /\ t \in Seq(Nat) /\ Len(t) = Len(u) - n /\ \A j \in 1 .. Len(u) - n : t[j] = u[n + j]
  <2>1. /\ Len(u) \in Nat /\ n \in Nat /\ n <= Len(u) /\ Len(u) \in 0 .. Len(u)
        /\ 0 + 1 = 1 /\ n - 0 = n /\ 0 <= n /\ \A j \in 1 .. n : 0 + j = j
    OBVIOUS
  <2>2. SubSeq(u, 0 + 1, n) \in Seq(Nat) /\ Len(SubSeq(u, 0 + 1, n)) = n - 0
        /\ \A j \in 1 .. n - 0 : SubSeq(u, 0 + 1, n)[j] = u[0 + j]
    BY <2>1, PartOfSeq
  <2>3. /\ SubSeq(u, n + 1, Len(u)) \in Seq(Nat) /\ Len(SubSeq(u, n + 1, Len(u))) = Len(u) - n
        /\ \A j \in 1 .. Len(u) - n : SubSeq(u, n + 1, Len(u))[j] = u[n + j]
    BY <2>1, PartOfSeq
  <2> HIDE DEF s, t
  <2>4. s \in Seq(Nat) /\ Len(s) = n /\ \A j \in 1 .. n : s[j] = u[j]
    BY <2>1, <2>2 DEF s
  <2>5. t \in Seq(Nat) /\ Len(t) = Len(u) - n /\ \A j \in 1 .. Len(u) - n : t[j] = u[n + j]
    BY <2>3 DEF t
  <2> QED BY <2>4, <2>5
<1> HIDE DEF s, t
<1>2. /\ s \o t \in Seq(Nat) /\ Len(s \o t) = Len(u)
      /\ \A j \in 1 .. n : (s \o t)[j] = s[j]
      /\ \A j \in n + 1 .. Len(u) : (s \o t)[j] = t[j - n]
  BY <1>1
<1>3. ASSUME NEW j \in 1 .. Len(u) PROVE (s \o t)[j] = u[j]
  <2>1. CASE j <= n
    BY <1>1, <1>2, <2>1
  <2>2. CASE ~(j <= n)
    <3>1. j - n \in 1 .. Len(u) - n /\ j \in n + 1 .. Len(u) /\ n + (j - n) = j
      BY <2>2
    <3> QED BY <1>1, <1>2, <3>1
  <2> QED BY <2>1, <2>2
<1>4. s \o t = u
  <2>1. \A j \in 1 .. Len(s \o t) : (s \o t)[j] = u[j]
    BY <1>2, <1>3
  <2> QED BY <1>2, <2>1, SameSeq
<1> QED BY <1>1, <1>4 DEF s, t

LEMMA JoinSeq ==
  ASSUME NEW s \in Seq(Nat), NEW t \in Seq(Nat)
  PROVE  /\ s \o t \in Seq(Nat) /\ Len(s \o t) = Len(s) + Len(t)
         /\ SubSeq(s \o t, 1, Len(s)) = s
         /\ SubSeq(s \o t, Len(s) + 1, Len(s \o t)) = t
OBVIOUS

(* A known prefix has a length. *)
PrefixKnown(h) == (h.long => InfixKnown(h)) => Prefix(h) < Len(PrefixLens)

(* An entry that is refused is not the one that is asked for. *)
LEMMA RefusedIsOther ==
  ASSUME NEW r \in Requests, r.op = "get", NEW a \in Nat, NEW h, h = HeaderAt(a),
         PrefixKnown(h), Refused(r, h)
  PROVE  ~Matches(r, a)
<1>1. h \in Headers /\ h.suffix_len \in Nat /\ a + 4 \in Nat
  BY HeaderTypes DEF Headers
<1>2. r.prefix \in Nat /\ r.name \in Seq(Nat)
  BY RequestTypes
<1> DEFINE tail == BytesFrom(a + 4, h.suffix_len)
<1>3. tail \in Seq(Nat) /\ Len(tail) = h.suffix_len
  BY <1>1, BytesFromTypes
<1>4. CASE h.long => InfixKnown(h)
  <2> DEFINE infix == Infix(h)
  <2>1. infix \in Seq(Nat)
    BY <1>1, <1>4, InfixTypes
  <2>2. AttrAt(a).prefix = Prefix(h) /\ AttrAt(a).name = infix \o tail
    BY <1>4 DEF AttrAt
  <2>3. ~(/\ Prefix(h) = r.prefix /\ Len(r.name) = Len(infix) + h.suffix_len
          /\ SubSeq(r.name, 1, Len(infix)) = infix)
    BY <1>4 DEF Refused, PrefixKnown
  <2> HIDE DEF tail, infix
  <2>4. /\ Len(infix \o tail) = Len(infix) + h.suffix_len
        /\ SubSeq(infix \o tail, 1, Len(infix)) = infix
    BY <1>3, <2>1, JoinSeq
  <2> QED BY <2>2, <2>3, <2>4 DEF Matches
<1>5. CASE ~(h.long => InfixKnown(h))
  <2>1. AttrAt(a).prefix = NoPrefix
    BY <1>5 DEF AttrAt
  <2>2. NoPrefix \notin Nat
    BY DEF NoPrefix
  <2> QED BY <1>2, <2>1, <2>2 DEF Matches
<1> QED BY <1>4, <1>5

(* Of one that is not, the rest of the name decides. *)
LEMMA SuffixDecides ==
  ASSUME NEW r \in Requests, r.op = "get", NEW a \in Nat, NEW h, h = HeaderAt(a),
         ~Refused(r, h)
  PROVE  /\ Suffix(r, h) \in Seq(Nat) /\ Len(Suffix(r, h)) = h.suffix_len
         /\ Matches(r, a) <=> BytesFrom(a + 4, h.suffix_len) = Suffix(r, h)
<1> DEFINE tail == BytesFrom(a + 4, h.suffix_len)
           infix == Infix(h)
           u == r.name
           t == Suffix(r, h)
<1>1. h \in Headers /\ h.suffix_len \in Nat /\ a + 4 \in Nat
  BY HeaderTypes DEF Headers
<1>2. u \in Seq(Nat) /\ Len(u) \in Nat
  BY RequestTypes
<1>3. tail \in Seq(Nat) /\ Len(tail) = h.suffix_len
  BY <1>1, BytesFromTypes
<1>4. /\ h.long => InfixKnown(h)
      /\ Prefix(h) = r.prefix /\ Len(u) = Len(infix) + h.suffix_len
      /\ SubSeq(u, 1, Len(infix)) = infix
  BY DEF Refused
<1>5. infix \in Seq(Nat) /\ Len(infix) \in Nat
  BY <1>1, <1>4, InfixTypes
<1>6. AttrAt(a).prefix = r.prefix /\ AttrAt(a).name = infix \o tail
  BY <1>4 DEF AttrAt
<1>7. t = SubSeq(u, Len(infix) + 1, Len(u))
  BY DEF Suffix
<1> HIDE DEF tail, infix, u, t
<1>8. Len(infix) \in 0 .. Len(u)
  BY <1>1, <1>2, <1>4, <1>5
<1>9. t \in Seq(Nat) /\ Len(t) = Len(u) - Len(infix) /\ u = infix \o t
  BY <1>2, <1>4, <1>7, <1>8, SplitSeq
<1>10. Len(t) = h.suffix_len
  BY <1>1, <1>4, <1>5, <1>9
<1>11. infix \o tail = infix \o t => tail = t
  <2>1. \A s \in Seq(Nat) : SubSeq(infix \o s, Len(infix) + 1, Len(infix \o s)) = s
    BY <1>5, JoinSeq
  <2> QED BY <1>3, <1>9, <2>1
<1>12. Matches(r, a) <=> infix \o tail = infix \o t
  BY <1>6, <1>9 DEF Matches, u
<1> QED BY <1>9, <1>10, <1>11, <1>12 DEF tail, t

(* The first of the entries that match is the one a request means. *)
LEMMA FirstMatch ==
  ASSUME NEW r \in Requests, NEW n \in Nat,
         DOMAIN EntryAddresses(r.inode) = 1 .. n, NEW k \in 1 .. n,
         NEW a \in Nat, a = EntryAddresses(r.inode)[k], Matches(r, a),
         \A j \in 1 .. n : j < k => j \notin Matching(r)
  PROVE  /\ Matching(r) # {}
         /\ FirstValue(r) = BytesFrom(a + 4 + HeaderAt(a).suffix_len, HeaderAt(a).value_len)
         /\ Len(FirstValue(r)) = HeaderAt(a).value_len
<1> DEFINE x == CHOOSE j \in Matching(r) : \A m \in Matching(r) : j <= m
<1>1. k \in Matching(r) /\ \A m \in Matching(r) : m \in 1 .. n
  BY MatchingEntries
<1>2. \A m \in Matching(r) : k <= m
  BY <1>1
<1>3. x \in Matching(r) /\ \A m \in Matching(r) : x <= m
  BY <1>1, <1>2
<1> HIDE DEF x
<1>4. x = k
  <2>1. x \in 1 .. n /\ x <= k /\ k <= x
    BY <1>1, <1>2, <1>3
  <2> QED BY <2>1
<1>5. FirstValue(r) = AttrAt(a).value
  <2>1. FirstValue(r) = Stored(r.inode)[x].value
    BY DEF FirstValue, x
  <2>2. Stored(r.inode)[k] = AttrAt(a)
    BY DEF Stored
  <2> QED BY <1>4, <2>1, <2>2
<1>6. AttrAt(a).value = BytesFrom(a + 4 + HeaderAt(a).suffix_len, HeaderAt(a).value_len)
  BY DEF AttrAt
<1>7. HeaderAt(a).suffix_len \in Nat /\ HeaderAt(a).value_len \in Nat
  BY HeaderTypes DEF Headers
<1>8. a + 4 + HeaderAt(a).suffix_len \in Nat
  BY <1>7
<1>9. /\ Matching(r) # {}
      /\ FirstValue(r) = BytesFrom(a + 4 + HeaderAt(a).suffix_len, HeaderAt(a).value_len)
  BY <1>1, <1>5, <1>6
<1>10. \A b, n2 \in Nat : Len(BytesFrom(b, n2)) = n2
  BY BytesFromTypes
<1> QED BY <1>7, <1>8, <1>9, <1>10

(* The key of an entry, as list_xattrs puts it together. *)
KeyAt(i, k) == KeyOf(AttrAt(EntryAddresses(i)[k]))

LEMMA KeyOfEntry ==
  ASSUME NEW a \in Nat, NEW h, h = HeaderAt(a), PrefixKnown(h), h.long => InfixKnown(h)
  PROVE  LET key == [prefix |-> Prefix(h), name |-> Infix(h) \o BytesFrom(a + 4, h.suffix_len)]
         IN  /\ KeyOf(AttrAt(a)) = key /\ key \in Keys
             /\ Taken(key) = KeyLen(h) + 1 /\ KeyLen(h) \in Nat
<1> DEFINE infix == Infix(h)
           tail == BytesFrom(a + 4, h.suffix_len)
           key == [prefix |-> Prefix(h), name |-> infix \o tail]
<1>1. h \in Headers /\ h.suffix_len \in Nat /\ a + 4 \in Nat
  BY HeaderTypes DEF Headers
<1>2. infix \in Seq(Nat) /\ Len(infix) \in Nat /\ Prefix(h) \in Nat
  BY <1>1, InfixTypes
<1>3. Prefix(h) \in 0 .. 6 /\ PrefixLens[Prefix(h) + 1] \in Nat
  BY <1>2, PrefixLength DEF PrefixKnown
<1>4. tail \in Seq(Nat) /\ Len(tail) = h.suffix_len
  BY <1>1, BytesFromTypes
<1>5. KeyOf(AttrAt(a)) = key
  BY DEF KeyOf, AttrAt
<1>6. KeyLen(h) = PrefixLens[Prefix(h) + 1] + Len(infix) + h.suffix_len
  BY DEF KeyLen
<1> HIDE DEF infix, tail
<1>7. infix \o tail \in Seq(Nat) /\ Len(infix \o tail) = Len(infix) + h.suffix_len
  BY <1>2, <1>4, JoinSeq
<1>8. key \in Keys /\ key.prefix = Prefix(h) /\ Len(key.name) = Len(infix) + h.suffix_len
  BY <1>3, <1>7 DEF Keys
<1>9. Taken(key) = KeyLen(h) + 1 /\ KeyLen(h) \in Nat
  BY <1>1, <1>2, <1>3, <1>6, <1>8 DEF Taken
<1> QED BY <1>5, <1>8, <1>9 DEF infix, tail

(* A prefix of the listing, and one key more. *)
KeysTo(i, n) == [ k \in 1 .. n |-> KeyAt(i, k) ]

LEMMA OneMoreKey ==
  ASSUME NEW i, NEW ks \in Seq(Keys), ks = KeysTo(i, Len(ks)), NEW key \in Keys,
         key = KeyAt(i, Len(ks) + 1)
  PROVE  /\ Append(ks, key) = KeysTo(i, Len(ks) + 1)
         /\ Len(Append(ks, key)) = Len(ks) + 1
         /\ Room(KeysTo(i, Len(ks) + 1)) = Room(ks) + Taken(key)
<1> DEFINE n == Len(ks)
           more == Append(ks, key)
<1>1. n \in Nat /\ \A k \in 1 .. n : ks[k] = KeyAt(i, k)
  BY DEF KeysTo
<1>2. more = [ k \in 1 .. n + 1 |-> IF k = n + 1 THEN key ELSE ks[k] ] /\ Len(more) = n + 1
  OBVIOUS
<1> HIDE DEF n, more
<1>3. more = KeysTo(i, n + 1)
  BY <1>1, <1>2 DEF KeysTo, n
<1>4. Room(more) = Room(ks) + Taken(key)
  BY RoomOfOneMore DEF more
<1> QED BY <1>2, <1>3, <1>4 DEF n, more

-----------------------------------------------------------------------------
(* What get_xattr has passed without a match: entries after the inode that *)
(* start before an address, or the first n of all.                         *)

NoneTo(r, a) ==
  \A k \in 1 .. Len(Inl(r.inode)) :
    EntryAddresses(r.inode)[k] < a => ~Matches(r, EntryAddresses(r.inode)[k])

NoneOf(r, n) ==
  \A k \in DOMAIN EntryAddresses(r.inode) :
    k <= n => ~Matches(r, EntryAddresses(r.inode)[k])

LEMMA PrefixesKnown ==
  ASSUME NEW i, Formed(i), NEW k \in DOMAIN EntryAddresses(i)
  PROVE  PrefixKnown(HeaderAt(EntryAddresses(i)[k]))
<1>1. i.icount # 0
  <2> SUFFICES ASSUME i.icount = 0 PROVE FALSE
    OBVIOUS
  <2>1. EntryAddresses(i) = <<>> /\ DOMAIN <<>> = {}
    BY DEF EntryAddresses
  <2> QED BY <2>1
<1> QED BY <1>1 DEF Formed, PrefixKnown

(* Entries after the inode, four bytes on. *)
LEMMA NoneAfterRefused ==
  ASSUME NEW r \in Requests, r.op = "get", Formed(r.inode), NEW a \in Nat,
         OnGrid(r.inode, a), a < Limit(r.inode, 0), NoneTo(r, a), Refused(r, HeaderAt(a))
  PROVE  /\ a + 4 <= Limit(r.inode, 0) /\ OnGrid(r.inode, a + 4)
         /\ NoneTo(r, a + 4)
<1> DEFINE i == r.inode
           E == EntryAddresses(i)
<1>1. Asked(i)
  BY RequestTypes
<1>2. a + 4 <= Limit(i, 0) /\ OnGrid(i, a + 4)
  BY <1>1, GridNext
<1>3. ASSUME NEW k \in 1 .. Len(Inl(i)), E[k] < a + 4 PROVE ~Matches(r, E[k])
  <2>1. /\ Len(Inl(i)) \in Nat /\ k \in DOMAIN E
    BY <1>1, EntryPlaces
  <2>2. E[k] \in Nat /\ OnGrid(i, E[k])
    <3>1. k - 1 \in 0 .. Len(Inl(i)) /\ k - 1 < Len(Inl(i)) /\ (k - 1) + 1 = k
      BY <2>1
    <3>2. At(i, k - 1) = E[(k - 1) + 1] /\ At(i, k - 1) \in Nat /\ OnGrid(i, At(i, k - 1))
      BY <1>1, <3>1, EntryWalk
    <3> QED BY <3>1, <3>2
  <2>3. CASE E[k] < a
    BY <2>3 DEF NoneTo
  <2>4. CASE ~(E[k] < a)
    <3>1. First(i, 0) \in Nat
      BY <1>1, GridStart
    <3>2. PICK v \in Nat : a = First(i, 0) + 4 * v
      BY DEF OnGrid
    <3>3. PICK w \in Nat : E[k] = First(i, 0) + 4 * w
      BY <2>2 DEF OnGrid
    <3>4. E[k] = a
      <4> HIDE DEF E
      <4> QED BY <1>3, <2>2, <2>4, <3>1, <3>2, <3>3
    <3>5. PrefixKnown(HeaderAt(a))
      BY <2>1, <3>4, PrefixesKnown
    <3>6. ~Matches(r, a)
      BY <3>5, RefusedIsOther
    <3> QED BY <3>4, <3>6
  <2> QED BY <2>3, <2>4
<1> QED BY <1>2, <1>3 DEF NoneTo

(* What is not refused is an entry. *)
LEMMA RealEntry ==
  ASSUME NEW r \in Requests, r.op = "get", Plain(r), NEW a \in Nat,
         OnGrid(r.inode, a), a < Limit(r.inode, 0), ~Refused(r, HeaderAt(a))
  PROVE  \E p \in 0 .. Len(Inl(r.inode)) : p < Len(Inl(r.inode)) /\ a = At(r.inode, p)
<1> DEFINE i == r.inode
<1>1. Asked(i) /\ Formed(i) /\ NoLookalike(r)
  BY RequestTypes DEF Plain
<1>2. i.icount # 0
  <2> SUFFICES ASSUME i.icount = 0 PROVE FALSE
    OBVIOUS
  <2>1. Limit(i, 0) = 0
    BY <1>1, BareInode
  <2> QED BY <2>1
<1>3. /\ First(i, 0) = AttrStart(i) + 12 + 4 * SharedCount(i)
      /\ Limit(i, 0) = DiskMetaEnd(i) /\ DiskMetaEnd(i) = AttrStart(i) + DiskXattrSize(i)
      /\ DiskXattrSize(i) = 12 + 4 * (i.icount - 1)
  BY <1>1, <1>2, FormedRange DEF DiskMetaEnd, AttrStart
<1>4. AttrStart(i) \in Nat /\ SharedCount(i) \in Nat /\ i.icount \in Nat
  BY <1>1, InodeTypes DEF Asked
<1>5. PICK w \in Nat : a = First(i, 0) + 4 * w
  BY DEF OnGrid
<1>6. DiskXattrSize(i) \in Nat /\ w <= DiskXattrSize(i) \div 4
  <2>1. DiskXattrSize(i) = 4 * (3 + (i.icount - 1)) /\ 3 + (i.icount - 1) \in Nat
    BY <1>2, <1>3, <1>4
  <2>2. \A x \in Nat : (4 * x) \div 4 = x
    OBVIOUS
  <2>3. 4 * w < DiskXattrSize(i)
    BY <1>3, <1>4, <1>5, <2>1
  <2> QED BY <2>1, <2>2, <2>3
<1>7. w \in 0 .. DiskXattrSize(i) \div 4
  BY <1>6
<1>8. a = AttrStart(i) + 12 + 4 * SharedCount(i) + 4 * w
  BY <1>3, <1>5
<1>9. a \in InlineEntries(i)
  BY <1>1, <1>3, <1>7, <1>8 DEF NoLookalike
<1>10. PICK k \in DOMAIN InlineAddresses(i) : a = InlineAddresses(i)[k]
  BY <1>2, <1>9 DEF InlineEntries
<1>11. Inl(i) = InlineAddresses(i) /\ Inl(i) \in Seq(Nat) /\ Len(Inl(i)) \in Nat
  BY <1>1, <1>2, EntryPlaces DEF Inl
<1>12. k \in 1 .. Len(Inl(i))
  BY <1>10, <1>11
<1>13. k - 1 \in 0 .. Len(Inl(i)) /\ k - 1 < Len(Inl(i)) /\ (k - 1) + 1 = k
  BY <1>11, <1>12
<1>14. a = At(i, k - 1)
  BY <1>10, <1>11, <1>13 DEF At
<1> QED BY <1>13, <1>14

LEMMA NoneAfterOther ==
  ASSUME NEW r \in Requests, Formed(r.inode), NEW p \in 0 .. Len(Inl(r.inode)),
         p < Len(Inl(r.inode)), NEW a, a = At(r.inode, p), NoneTo(r, a), ~Matches(r, a)
  PROVE  NoneTo(r, EntryEnd(a))
<1> DEFINE i == r.inode
           E == EntryAddresses(i)
<1>1. Asked(i) /\ Len(Inl(i)) \in Nat
  BY RequestTypes, EntryPlaces
<1>2. a = E[p + 1] /\ EntryEnd(a) = At(i, p + 1)
  BY <1>1, EntryWalk
<1>3. ASSUME NEW k \in 1 .. Len(Inl(i)), E[k] < EntryEnd(a) PROVE ~Matches(r, E[k])
  <2>1. p + 1 \in 1 .. Len(Inl(i)) /\ p + 1 \in 0 .. Len(Inl(i))
    BY <1>1
  <2>2. CASE k = p + 1
    BY <1>2, <2>2
  <2>3. CASE k < p + 1
    <3>1. E[k] < a
      BY <1>1, <1>2, <2>1, <2>3, EntryOrder
    <3> QED BY <3>1 DEF NoneTo
  <2>4. CASE k > p + 1
    <3>1. p + 1 < Len(Inl(i)) /\ p + 2 \in 1 .. Len(Inl(i)) /\ (p + 1) + 1 = p + 2
      BY <1>1, <2>4
    <3>2. At(i, p + 1) = E[p + 2]
      BY <1>1, <2>1, <3>1, EntryWalk
    <3>3. E[p + 2] \in Nat /\ E[k] \in Nat /\ (p + 2 < k => E[p + 2] < E[k])
      BY <1>1, <3>1, EntryOrder
    <3>4. p + 2 < k \/ p + 2 = k
      BY <2>4
    <3> HIDE DEF E
    <3> QED BY <1>2, <1>3, <3>2, <3>3, <3>4
  <2> QED BY <2>2, <2>3, <2>4
<1> QED BY <1>3 DEF NoneTo

LEMMA NoneInline ==
  ASSUME NEW r \in Requests, Formed(r.inode), NoneTo(r, Limit(r.inode, 0))
  PROVE  NoneOf(r, Len(Inl(r.inode)))
<1> DEFINE i == r.inode
           E == EntryAddresses(i)
<1>1. Asked(i) /\ Len(Inl(i)) \in Nat /\ Len(SharedIndexes(i)) \in Nat
      /\ DOMAIN E = 1 .. Len(Inl(i)) + Len(SharedIndexes(i))
  BY RequestTypes, EntryPlaces
<1>2. ASSUME NEW k \in DOMAIN E, k <= Len(Inl(i)) PROVE ~Matches(r, E[k])
  <2>1. k \in 1 .. Len(Inl(i))
    BY <1>1, <1>2
  <2>2. k - 1 \in 0 .. Len(Inl(i)) /\ k - 1 < Len(Inl(i)) /\ (k - 1) + 1 = k
    BY <1>1, <2>1
  <2>3. E[(k - 1) + 1] < Limit(i, 0)
    BY <1>1, <2>2, EntryWalk
  <2> QED BY <2>1, <2>2, <2>3 DEF NoneTo
<1> QED BY <1>2 DEF NoneOf

LEMMA NoneAtAll ==
  ASSUME NEW r \in Requests, Formed(r.inode), NEW n \in Nat, NoneOf(r, n),
         n >= Len(Inl(r.inode)) + Len(SharedIndexes(r.inode))
  PROVE  Matching(r) = {}
<1> DEFINE i == r.inode
<1>1. Asked(i) /\ Len(Inl(i)) \in Nat /\ Len(SharedIndexes(i)) \in Nat
      /\ DOMAIN EntryAddresses(i) = 1 .. Len(Inl(i)) + Len(SharedIndexes(i))
  BY RequestTypes, EntryPlaces
<1>2. \A k \in DOMAIN EntryAddresses(i) : k <= n
  BY <1>1
<1> QED BY <1>2, MatchingEntries DEF NoneOf

LEMMA NoneWithShared ==
  ASSUME NEW r \in Requests, Formed(r.inode), NEW k \in 1 .. Len(SharedIndexes(r.inode)),
         NoneOf(r, Len(Inl(r.inode)) + k - 1), ~Matches(r, First(r.inode, k))
  PROVE  NoneOf(r, Len(Inl(r.inode)) + (k + 1) - 1)
<1> DEFINE i == r.inode
           E == EntryAddresses(i)
           m == Len(Inl(i))
<1>1. /\ Asked(i) /\ m \in Nat /\ Len(SharedIndexes(i)) \in Nat
      /\ DOMAIN E = 1 .. m + Len(SharedIndexes(i)) /\ E[m + k] = First(i, k)
  BY RequestTypes, EntryPlaces
<1>2. ASSUME NEW j \in DOMAIN E, j <= m + (k + 1) - 1 PROVE ~Matches(r, E[j])
  <2>1. j <= m + k - 1 \/ j = m + k
    BY <1>1, <1>2
  <2> QED BY <1>1, <2>1 DEF NoneOf
<1> QED BY <1>2 DEF NoneOf

(* A match in line, and one that is shared. *)
LEMMA FoundInline ==
  ASSUME NEW r \in Requests, Formed(r.inode), NEW p \in 0 .. Len(Inl(r.inode)),
         p < Len(Inl(r.inode)), NEW a, a = At(r.inode, p), NoneTo(r, a), Matches(r, a)
  PROVE  /\ Matching(r) # {}
         /\ FirstValue(r) = BytesFrom(a + 4 + HeaderAt(a).suffix_len, HeaderAt(a).value_len)
         /\ Len(FirstValue(r)) = HeaderAt(a).value_len
<1> DEFINE i == r.inode
           E == EntryAddresses(i)
           n == Len(Inl(i)) + Len(SharedIndexes(i))
<1>1. /\ Asked(i) /\ Len(Inl(i)) \in Nat /\ Len(SharedIndexes(i)) \in Nat
      /\ DOMAIN E = 1 .. n
  BY RequestTypes, EntryPlaces
<1>2. a = E[p + 1] /\ a \in Nat
  BY <1>1, EntryWalk
<1>3. n \in Nat /\ p + 1 \in 1 .. n /\ p + 1 \in 1 .. Len(Inl(i))
  BY <1>1
<1>4. ASSUME NEW j \in 1 .. n, j < p + 1 PROVE j \notin Matching(r)
  <2>1. j \in 1 .. Len(Inl(i))
    BY <1>1, <1>3, <1>4
  <2>2. E[j] < a
    BY <1>1, <1>2, <1>3, <1>4, <2>1, EntryOrder
  <2>3. ~Matches(r, E[j])
    BY <2>1, <2>2 DEF NoneTo
  <2> QED BY <2>3, MatchingEntries
<1> HIDE DEF n
<1> QED BY <1>1, <1>2, <1>3, <1>4, FirstMatch

LEMMA FoundShared ==
  ASSUME NEW r \in Requests, Formed(r.inode), NEW k \in 1 .. Len(SharedIndexes(r.inode)),
         NoneOf(r, Len(Inl(r.inode)) + k - 1), NEW a, a = First(r.inode, k), Matches(r, a)
  PROVE  /\ Matching(r) # {}
         /\ FirstValue(r) = BytesFrom(a + 4 + HeaderAt(a).suffix_len, HeaderAt(a).value_len)
         /\ Len(FirstValue(r)) = HeaderAt(a).value_len
<1> DEFINE i == r.inode
           E == EntryAddresses(i)
           m == Len(Inl(i))
           n == m + Len(SharedIndexes(i))
<1>1. /\ Asked(i) /\ m \in Nat /\ Len(SharedIndexes(i)) \in Nat
      /\ DOMAIN E = 1 .. n /\ E[m + k] = a
  BY RequestTypes, EntryPlaces
<1>2. a \in Nat
  <2>1. k \in 0 .. Len(SharedIndexes(i))
    BY <1>1
  <2> QED BY <1>1, <2>1, RangeTypes
<1>3. n \in Nat /\ m + k \in 1 .. n
  BY <1>1
<1>4. ASSUME NEW j \in 1 .. n, j < m + k PROVE j \notin Matching(r)
  <2>1. j <= m + k - 1
    BY <1>1, <1>4
  <2> QED BY <1>1, <2>1, MatchingEntries DEF NoneOf
<1> HIDE DEF n, m
<1> QED BY <1>1, <1>2, <1>3, <1>4, FirstMatch

(* The name of an entry agrees in every part of it. *)
LEMMA PartsAgree ==
  ASSUME NEW a \in Nat, NEW name \in Seq(Nat), BytesFrom(a, Len(name)) = name,
         NEW j \in 0 .. Len(name)
  PROVE  BytesFrom(a, j) = SubSeq(name, 1, j)
<1>1. \A k \in 1 .. Len(name) : name[k] = Byte(a + k - 1)
  <2>1. Len(name) \in Nat
    OBVIOUS
  <2> QED BY <2>1, BytesFromTypes
<1>2. SubSeq(name, 1, j) = [ k \in 1 .. j |-> name[k] ]
  OBVIOUS
<1>3. \A k \in 1 .. j : k \in 1 .. Len(name)
  OBVIOUS
<1> QED BY <1>1, <1>2, <1>3 DEF BytesFrom

-----------------------------------------------------------------------------
(* What a scan of a plain request knows on its way.                        *)

(* The scan is at address a: between two entries, or inside one; a skip in *)
(* line is already on its way to the next.                                 *)
Stands(a) ==
  IF sh = 0
    THEN /\ OnGrid(req.inode, a)
         /\ stage \in {"header", "name", "value"} => a < Limit(req.inode, 0)
    ELSE a = First(req.inode, sh)

NoneBefore(a) ==
  req.op = "get" =>
    IF sh = 0 THEN NoneTo(req, a)
    ELSE NoneOf(req, Len(Inl(req.inode)) + (IF stage = "skip" THEN sh + 1 ELSE sh) - 1)

(* list_xattrs: the keys are those of the entries it has passed.           *)
KeysBefore(a) ==
  req.op = "list" =>
    /\ keys = KeysTo(req.inode, Len(keys))
    /\ IF sh = 0
         THEN /\ Len(keys) <= Len(Inl(req.inode)) /\ a = At(req.inode, Len(keys))
              /\ stage \in {"header", "key"} => Len(keys) < Len(Inl(req.inode))
         ELSE Len(keys) = Len(Inl(req.inode)) + sh - 1 /\ stage # "skip"

(* How many bytes of a name are there, m and no more. *)
Agrees(a, name, m) ==
  /\ m \in 0 .. Len(name)
  /\ BytesFrom(a, m) = SubSeq(name, 1, m)
  /\ \A k \in 0 .. Len(name) : m < k => BytesFrom(a, k) # SubSeq(name, 1, k)

(* How far the cursor has come into the entry at a, and what it has found. *)
InCall == mode \in {"called", "loop"}

AtRest(a) ==
  /\ P!Place = a
  /\ stage = "scan" /\ mode \in {"closed", "empty"} => sh = 0 /\ a = Limit(req.inode, 0)

AtHeader(a) ==
  IF InCall THEN P!Place = a
  ELSE P!Place = a + 4 /\ result.bytes = P!Run(a, 4) /\ cur > 0

NameEqual(a) ==
  result.kind = "equal" /\ P!Place = a + 4 + hdr.suffix_len
    /\ BytesFrom(a + 4, hdr.suffix_len) = Suffix(req, hdr)

NameDiffers(a) ==
  \E k \in 0 .. hdr.suffix_len :
    /\ result.kind = "differ" /\ result.used = k /\ P!Place = a + 4 + k
    /\ BytesFrom(a + 4, k) # SubSeq(Suffix(req, hdr), 1, k)
    /\ k = hdr.suffix_len \/ P!Place = off
    /\ cur > 0

AtName(a) ==
  /\ hdr = HeaderAt(a) /\ ~Refused(req, hdr)
  /\ IF InCall
       THEN /\ P!Place = a + 4 /\ (mode = "called" => cur > 0)
            /\ Agrees(a + 4, Suffix(req, hdr), op.m)
       ELSE NameEqual(a) \/ NameDiffers(a)

AtValue(a) ==
  /\ hdr = HeaderAt(a) /\ ~Refused(req, hdr)
  /\ BytesFrom(a + 4, hdr.suffix_len) = Suffix(req, hdr)
  /\ IF InCall
       THEN P!Place = a + 4 + hdr.suffix_len /\ op = ReadOp(hdr.value_len)
       ELSE result.bytes = P!Run(a + 4 + hdr.suffix_len, hdr.value_len)

AtKey(a) ==
  /\ hdr = HeaderAt(a)
  /\ IF InCall THEN P!Place = a + 4 /\ (mode = "called" => cur > 0)
     ELSE /\ P!Place = a + 4 + hdr.suffix_len /\ cur > 0
          /\ result.bytes = P!Run(a + 4, hdr.suffix_len)

(* A skip in line stays in its buffer and ends at the next entry.          *)
AtSkip(a) ==
  /\ InCall => mode = "called" /\ op.kind = "skip"
  /\ IF sh = 0
       THEN IF InCall THEN P!Place + op.n = a /\ op.n <= blen - cur ELSE P!Place = a
       ELSE InCall => P!Place <= a + 4 + 255

Hand(a) ==
  /\ stage \in {"open", "scan"} => AtRest(a)
  /\ stage = "header" => AtHeader(a)
  /\ stage = "name" => AtName(a)
  /\ stage = "value" => AtValue(a)
  /\ stage = "key" => AtKey(a)
  /\ stage = "skip" => AtSkip(a)

Way(a) == Stands(a) /\ NoneBefore(a) /\ KeysBefore(a) /\ Hand(a)

Good ==
  /\ stage \notin {"idle", "done"} /\ mode # "panicked" => \E a \in Nat : Way(a)
  /\ P!Edge
  /\ GetExact /\ ListExact /\ PanicsOnlyWhenFull

(* What the cursor's invariant says about the range the scan reads. *)
LEMMA RangeFacts ==
  ASSUME Inv, stage # "idle"
  PROVE  /\ req \in Requests /\ Asked(req.inode) /\ req.op \in {"get", "list"}
         /\ sh \in 0 .. Len(SharedIndexes(req.inode)) /\ Len(SharedIndexes(req.inode)) \in Nat
         /\ First(req.inode, sh) \in Nat /\ Span(req.inode, sh) \in Nat
         /\ InRange /\ P!InBlock /\ P!TypeOK
         /\ off \in Nat /\ len \in Nat /\ start \in Nat /\ blen \in Nat /\ cur \in 0 .. blen
         /\ off + len = Limit(req.inode, sh) /\ Limit(req.inode, sh) \in Nat
         /\ mode \in {"closed", "idle", "called", "loop"} => off = start + blen
         /\ mode = "closed" => blen = 0
<1>1. /\ req \in Requests /\ sh \in 0 .. Len(SharedIndexes(req.inode)) /\ InRange /\ P!InBlock
  BY DEF Inv, TypeOK
<1>2. Asked(req.inode) /\ req.op \in {"get", "list"} /\ Len(SharedIndexes(req.inode)) \in Nat
  BY <1>1, RequestTypes, InodeTypes
<1>3. First(req.inode, sh) \in Nat /\ Span(req.inode, sh) \in Nat
  BY <1>1, <1>2, RangeTypes
<1>4. Limit(req.inode, sh) = First(req.inode, sh) + Span(req.inode, sh)
  BY DEF Limit
<1>5. P!TypeOK /\ off + len = First(req.inode, sh) + Span(req.inode, sh)
      /\ (mode \in {"closed", "idle", "called", "loop"} => off = start + blen)
      /\ (mode = "closed" => blen = 0)
  BY <1>1 DEF InRange, P!InvIn, P!Window1
<1>6. off \in Nat /\ len \in Nat /\ start \in Nat /\ blen \in Nat /\ cur \in 0 .. blen
  BY <1>5 DEF P!TypeOK
<1> QED BY <1>1, <1>2, <1>3, <1>4, <1>5, <1>6

(* Where the scan is does not depend on the cursor. *)
LEMMA Situated ==
  ASSUME NEW a, UNCHANGED <<stage, req, sh, keys>>, Stands(a), NoneBefore(a), KeysBefore(a)
  PROVE  Stands(a)' /\ NoneBefore(a)' /\ KeysBefore(a)'
BY DEF Stands, NoneBefore, KeysBefore

LEMMA OnTheWay ==
  ASSUME NEW a \in Nat, Way(a)', P!Edge', stage' # "done", mode' # "panicked"
  PROVE  Good'
BY DEF Good, GetExact, ListExact, PanicsOnlyWhenFull

LEMMA AtTheEnd ==
  ASSUME stage' = "done", P!Edge', mode' # "panicked", GetExact', ListExact'
  PROVE  Good'
BY DEF Good, PanicsOnlyWhenFull

LEMMA EdgeKept ==
  ASSUME P!Edge, UNCHANGED cursor
  PROVE  P!Edge'
BY DEF P!Edge, cursor

(* The listing that a client should get, and the first keys of it. *)
LEMMA Listing ==
  ASSUME NEW i, Asked(i), Formed(i)
  PROVE  /\ DOMAIN Stored(i) = 1 .. Len(Inl(i)) + Len(SharedIndexes(i))
         /\ \A k \in DOMAIN Stored(i) : Stored(i)[k] = AttrAt(EntryAddresses(i)[k])
         /\ KeysTo(i, Len(Inl(i)) + Len(SharedIndexes(i))) =
              [ k \in DOMAIN Stored(i) |-> KeyOf(Stored(i)[k]) ]
         /\ \A n \in DOMAIN Stored(i) : [ k \in 1 .. n |-> KeyOf(Stored(i)[k]) ] = KeysTo(i, n)
<1> DEFINE m == Len(Inl(i)) + Len(SharedIndexes(i))
<1>1. DOMAIN EntryAddresses(i) = 1 .. m /\ m \in Nat
  BY EntryPlaces
<1> HIDE DEF m
<1>2. Stored(i) = [ k \in 1 .. m |-> AttrAt(EntryAddresses(i)[k]) ]
  BY <1>1 DEF Stored
<1>3. DOMAIN Stored(i) = 1 .. m /\ \A k \in 1 .. m : Stored(i)[k] = AttrAt(EntryAddresses(i)[k])
  BY <1>2
<1>4. \A k \in 1 .. m : KeyOf(Stored(i)[k]) = KeyAt(i, k)
  BY <1>3 DEF KeyAt
<1>5. KeysTo(i, m) = [ k \in DOMAIN Stored(i) |-> KeyOf(Stored(i)[k]) ]
  BY <1>3, <1>4 DEF KeysTo
<1>6. ASSUME NEW n \in DOMAIN Stored(i)
      PROVE  [ k \in 1 .. n |-> KeyOf(Stored(i)[k]) ] = KeysTo(i, n)
  <2>1. \A k \in 1 .. n : k \in 1 .. m
    BY <1>1, <1>3
  <2> QED BY <1>4, <2>1 DEF KeysTo
<1> QED BY <1>3, <1>5, <1>6 DEF m

(* To the next shared entry, or to the end, with all entries before it     *)
(* passed or listed.                                                       *)
LEMMA NextSharedGood ==
  ASSUME Inv, Plain(req), Good, UNCHANGED req, stage \notin {"idle", "done"},
         mode \notin {"called", "loop", "panicked"},
         NEW k \in 1 .. Len(SharedIndexes(req.inode)) + 1, NEW ks, ks = keys', NextShared(k, ks),
         req.op = "get" => NoneOf(req, Len(Inl(req.inode)) + k - 1),
         req.op = "list" =>
           ks = KeysTo(req.inode, Len(ks)) /\ Len(ks) = Len(Inl(req.inode)) + k - 1
  PROVE  Good'
<1> DEFINE i == req.inode
<1>1. Asked(i) /\ Formed(i) /\ req \in Requests /\ req.op \in {"get", "list"}
      /\ Len(SharedIndexes(i)) \in Nat /\ Len(Inl(i)) \in Nat /\ k \in Nat
  BY RangeFacts, EntryPlaces DEF Plain
<1>2. CASE k <= Len(SharedIndexes(i))
  <2>1. /\ sh' = k /\ stage' = "open"
        /\ Fresh(BlkPos(XattrBlk) + 4 * SharedIndexes(i)[k], Endless)
    BY <1>2 DEF NextShared
  <2>2. First(i, k) \in Nat
    <3>1. k \in 0 .. Len(SharedIndexes(i))
      BY <1>1, <1>2
    <3> QED BY <1>1, <3>1, RangeTypes
  <2>3. PICK f \in Nat : f = First(i, k)
    BY <2>2
  <2>4. mode' = "closed" /\ start' = f /\ cur' = 0
    BY <1>1, <2>1, <2>3 DEF Fresh, First
  <2>5. P!Place' = f
    BY <2>4 DEF P!Place
  <2>6. Stands(f)' /\ k # 0
    BY <2>1, <2>3 DEF Stands
  <2>7. NoneBefore(f)' /\ KeysBefore(f)'
    BY <2>1, <2>6 DEF NoneBefore, KeysBefore
  <2>8. Hand(f)'
    BY <2>1, <2>5 DEF Hand, AtRest
  <2>9. P!Edge' /\ stage' # "done" /\ mode' # "panicked"
    BY <2>1, <2>4 DEF P!Edge
  <2> QED BY <2>6, <2>7, <2>8, <2>9, OnTheWay DEF Way
<1>3. CASE ~(k <= Len(SharedIndexes(i)))
  <2>1. /\ answer' = IF req.op = "get" THEN Failed("ENODATA") ELSE Listed(ks)
        /\ stage' = "done" /\ UNCHANGED <<cursor, sh>>
    BY <1>3 DEF NextShared, Answer
  <2>2. P!Edge' /\ mode' # "panicked"
    BY <2>1, EdgeKept DEF Good, cursor
  <2>3. Len(Inl(i)) + k - 1 = Len(Inl(i)) + Len(SharedIndexes(i)) /\ Len(Inl(i)) + k - 1 \in Nat
    BY <1>1, <1>3
  <2>4. CASE req.op = "get"
    <3>1. Matching(req) = {}
      <4>1. \A n \in Nat :
              NoneOf(req, n) /\ n >= Len(Inl(i)) + Len(SharedIndexes(i)) => Matching(req) = {}
        BY <1>1, NoneAtAll
      <4> QED BY <2>3, <2>4, <4>1
    <3>2. answer' = Failed("ENODATA")
      BY <2>1, <2>4
    <3>3. GetExact'
      BY <3>1, <3>2 DEF GetExact, Failed
    <3>4. ListExact'
      BY <2>4 DEF ListExact
    <3> QED BY <2>1, <2>2, <3>3, <3>4, AtTheEnd
  <2>5. CASE req.op = "list"
    <3>1. answer' = Listed(ks)
      BY <2>1, <2>5
    <3>2. ks = [ j \in DOMAIN Stored(i) |-> KeyOf(Stored(i)[j]) ]
      BY <1>1, <2>3, <2>5, Listing
    <3>3. ListExact'
      BY <3>1, <3>2 DEF ListExact, Listed, Failed
    <3>4. GetExact'
      BY <2>5 DEF GetExact
    <3> QED BY <2>1, <2>2, <3>3, <3>4, AtTheEnd
  <2> QED BY <1>1, <2>4, <2>5
<1> QED BY <1>2, <1>3

(* Back to the loop over the entries after the inode.                      *)
LEMMA ScanOn ==
  ASSUME Good, UNCHANGED <<cursor, req, sh, keys>>, sh = 0, mode = "idle", stage' = "scan",
         NEW b \in Nat, P!Place = b, OnGrid(req.inode, b),
         req.op = "get" => NoneTo(req, b),
         req.op = "list" =>
           /\ keys = KeysTo(req.inode, Len(keys))
           /\ Len(keys) <= Len(Inl(req.inode)) /\ b = At(req.inode, Len(keys))
  PROVE  Good'
<1>1. P!Edge' /\ mode' = "idle"
  BY EdgeKept DEF Good, cursor
<1>2. P!Place' = b
  BY DEF P!Place, cursor
<1>3. Stands(b)' /\ NoneBefore(b)' /\ KeysBefore(b)'
  BY DEF Stands, NoneBefore, KeysBefore
<1>4. Hand(b)'
  BY <1>1, <1>2 DEF Hand, AtRest
<1> QED BY <1>1, <1>3, <1>4, OnTheWay DEF Way

(* A call of the cursor, where it is. *)
LEMMA Called ==
  ASSUME Good, NEW o, C!Call(o)
  PROVE  /\ mode = "idle" /\ mode' = "called" /\ op' = o
         /\ P!Place' = P!Place /\ cur' = cur /\ blen' = blen /\ off' = off /\ start' = start
         /\ P!Edge'
BY DEF C!Call, C!Window, P!Place, P!Edge, Good

-----------------------------------------------------------------------------
(* The steps of the scan of a plain request. *)

LEMMA AskGood ==
  ASSUME Inv, NEW r \in Requests, Ask(r), Plain(r)
  PROVE  Good'
<1> DEFINE i == r.inode
<1>1. /\ req' = r /\ sh' = 0 /\ keys' = <<>> /\ stage' \in {"open", "scan"}
  BY DEF Ask
<1>2. Asked(i) /\ Formed(i)
  BY RequestTypes DEF Plain
<1>3. First(i, 0) \in Nat /\ OnGrid(i, First(i, 0))
  BY <1>2, GridStart
<1>4. PICK f \in Nat : f = First(i, 0)
  BY <1>3
<1>5. start' = f /\ cur' = 0 /\ mode' = "closed"
  BY <1>4 DEF Ask, Fresh, First, InlineFits
<1>6. P!Place' = f
  BY <1>5 DEF P!Place
<1>7. stage' = "scan" => f = Limit(i, 0)
  <2> SUFFICES ASSUME stage' = "scan" PROVE f = Limit(i, 0)
    OBVIOUS
  <2>1. ~InlineFits(i)
    BY DEF Ask, InlineFits
  <2>2. i.icount = 0
    BY <1>2, <2>1, FormedRange
  <2> QED BY <1>2, <1>4, <2>2, BareInode
<1>8. Stands(f)'
  BY <1>1, <1>3, <1>4 DEF Stands
<1>9. Len(Inl(i)) \in Nat /\ DOMAIN EntryAddresses(i) = 1 .. Len(Inl(i)) + Len(SharedIndexes(i))
      /\ Len(SharedIndexes(i)) \in Nat
  BY <1>2, EntryPlaces
<1>10. NoneTo(r, f)
  <2> SUFFICES ASSUME NEW k \in 1 .. Len(Inl(i)), EntryAddresses(i)[k] < f PROVE FALSE
    BY DEF NoneTo
  <2>1. k - 1 \in 0 .. Len(Inl(i)) /\ k - 1 < Len(Inl(i)) /\ (k - 1) + 1 = k
    BY <1>9
  <2>2. EntryAddresses(i)[(k - 1) + 1] = At(i, k - 1) /\ OnGrid(i, At(i, k - 1))
    BY <1>2, <2>1, EntryWalk
  <2>3. PICK v \in Nat : At(i, k - 1) = f + 4 * v
    BY <1>4, <2>2 DEF OnGrid
  <2> QED BY <2>1, <2>2, <2>3
<1>11. NoneBefore(f)'
  BY <1>1, <1>10 DEF NoneBefore
<1>12. KeysBefore(f)'
  <2>1. keys' = KeysTo(i, 0) /\ Len(keys') = 0
    BY <1>1 DEF KeysTo
  <2>2. 0 \in 0 .. Len(Inl(i))
    BY <1>9
  <2>3. At(i, 0) = f
    BY <1>2, <1>4, <2>2, EntryWalk
  <2> QED BY <1>1, <1>9, <2>1, <2>3 DEF KeysBefore
<1>13. Hand(f)'
  BY <1>1, <1>6, <1>7 DEF Hand, AtRest
<1>14. P!Edge'
  BY <1>5 DEF P!Edge
<1> QED BY <1>1, <1>5, <1>8, <1>11, <1>12, <1>13, <1>14, OnTheWay DEF Way

LEMMA OpenGood ==
  ASSUME Inv, Plain(req), Good, Open
  PROVE  Good'
<1>1. /\ stage = "open" /\ C!TryNew /\ stage' = "scan" /\ UNCHANGED <<req, sh, keys>>
  BY DEF Open, listing
<1>2. mode = "closed" /\ mode' \in {"empty", "idle"} /\ (mode' = "empty" => len = 0) /\ cur' = cur
  BY <1>1 DEF C!TryNew
<1>3. PICK a \in Nat : Way(a)
  BY <1>1, <1>2 DEF Good
<1>4. P!TypeOK /\ off = start + blen /\ blen = 0 /\ start \in Nat /\ cur \in 0 .. blen
      /\ off + len = Limit(req.inode, sh)
  BY <1>1, <1>2, RangeFacts
<1>5. P!TryNew
  BY <1>1, SameCursor
<1>6. P!Place' = P!Place
  BY <1>4, <1>5, P!PlaceKept, CursorAssumed
<1>7. P!Edge'
  BY <1>4, <1>5, P!EdgeNext, CursorAssumed DEF Good
<1>8. P!Place = a
  BY <1>1, <1>3 DEF Way, Hand, AtRest
<1>9. mode' = "empty" => sh = 0 /\ a = Limit(req.inode, 0)
  <2> SUFFICES ASSUME mode' = "empty" PROVE sh = 0 /\ a = Limit(req.inode, 0)
    OBVIOUS
  <2>1. len = 0 /\ a = start /\ off = start /\ a = Limit(req.inode, sh)
    BY <1>2, <1>4, <1>8 DEF P!Place
  <2>2. CASE sh # 0
    <3>1. a = First(req.inode, sh) /\ Span(req.inode, sh) = Endless
      BY <1>3, <2>2 DEF Way, Stands, Span
    <3>2. Endless \in Nat /\ Endless > 0
      BY XattrAssumption, GeometryAssumption
    <3> QED BY <2>1, <3>1, <3>2 DEF Limit
  <2> QED BY <2>1, <2>2
<1>10. Hand(a)'
  BY <1>1, <1>2, <1>6, <1>8, <1>9 DEF Hand, AtRest
<1>11. Stands(a)' /\ NoneBefore(a)' /\ KeysBefore(a)'
  BY <1>1, <1>3 DEF Way, Stands, NoneBefore, KeysBefore
<1> QED BY <1>1, <1>2, <1>7, <1>10, <1>11, OnTheWay DEF Way

(* The entry a scan has read the header of, if it is not refused.          *)
LEMMA Current ==
  ASSUME Inv, Plain(req), NEW a \in Nat, Stands(a), KeysBefore(a),
         stage \in {"header", "name", "value", "key"},
         req.op = "get" => ~Refused(req, HeaderAt(a))
  PROVE  /\ sh = 0 => \E p \in 0 .. Len(Inl(req.inode)) :
              /\ p < Len(Inl(req.inode)) /\ a = At(req.inode, p)
              /\ req.op = "list" => p = Len(keys)
         /\ sh # 0 => sh \in 1 .. Len(SharedIndexes(req.inode)) /\ a = First(req.inode, sh)
<1>1. /\ req \in Requests /\ sh \in 0 .. Len(SharedIndexes(req.inode))
      /\ Len(SharedIndexes(req.inode)) \in Nat /\ req.op \in {"get", "list"}
  BY RangeFacts
<1>2. sh # 0 => sh \in 1 .. Len(SharedIndexes(req.inode)) /\ a = First(req.inode, sh)
  BY <1>1 DEF Stands
<1>3. CASE req.op = "get"
  <2>1. stage # "key"
    BY <1>3 DEF Inv, TypeOK
  <2>2. sh = 0 => OnGrid(req.inode, a) /\ a < Limit(req.inode, 0)
    BY <2>1 DEF Stands
  <2> QED BY <1>1, <1>2, <1>3, <2>2, RealEntry
<1>4. CASE req.op = "list"
  <2>1. stage \in {"header", "key"}
    BY <1>4 DEF Inv, TypeOK
  <2>2. sh = 0 => Len(keys) < Len(Inl(req.inode)) /\ a = At(req.inode, Len(keys))
    BY <1>4, <2>1 DEF KeysBefore
  <2>3. keys \in Seq(Keys) /\ Len(keys) \in Nat
    BY Kept
  <2>4. Len(Inl(req.inode)) \in Nat
    BY <1>1, RangeFacts, EntryPlaces DEF Plain
  <2>5. sh = 0 => Len(keys) \in 0 .. Len(Inl(req.inode))
    BY <2>2, <2>3, <2>4
  <2> QED BY <1>2, <1>4, <2>2, <2>5
<1> QED BY <1>1, <1>3, <1>4

(* It lies in the range, whole. *)
LEMMA EntryInReach ==
  ASSUME Inv, Plain(req), NEW a \in Nat, Stands(a), KeysBefore(a),
         stage \in {"header", "name", "value", "key"},
         req.op = "get" => ~Refused(req, HeaderAt(a))
  PROVE  a + 4 + (HeaderAt(a).suffix_len + HeaderAt(a).value_len) <= Limit(req.inode, sh)
<1> DEFINE h == HeaderAt(a)
<1>1. /\ h.suffix_len \in Nat /\ h.value_len \in Nat
      /\ h.suffix_len <= 255 /\ h.value_len <= 65535
      /\ EntrySz(h) \in Nat /\ h.suffix_len + h.value_len <= EntrySz(h)
      /\ EntryEnd(a) = a + 4 + EntrySz(h)
  BY EntryTypes
<1> HIDE DEF h
<1>2. Asked(req.inode) /\ Formed(req.inode) /\ Limit(req.inode, sh) \in Nat
  BY RangeFacts DEF Plain
<1>3. CASE sh = 0
  <2>1. PICK p \in 0 .. Len(Inl(req.inode)) : p < Len(Inl(req.inode)) /\ a = At(req.inode, p)
    BY <1>3, Current DEF h
  <2>2. EntryEnd(a) <= Limit(req.inode, 0)
    BY <1>2, <2>1, EntryWalk
  <2>3. a + 4 + (h.suffix_len + h.value_len) <= Limit(req.inode, sh)
    BY <1>1, <1>2, <1>3, <2>2
  <2> QED BY <2>3 DEF h
<1>4. CASE sh # 0
  <2>1. a = First(req.inode, sh) /\ Span(req.inode, sh) = Endless
    BY <1>4, Current DEF Span
  <2>2. Endless \in Nat /\ Endless >= 131072
    BY XattrAssumption, GeometryAssumption
  <2> DEFINE s == h.suffix_len
             v == h.value_len
             z == Endless
  <2>3. Limit(req.inode, sh) = a + z
    BY <2>1 DEF Limit
  <2>4. s \in Nat /\ v \in Nat /\ s <= 255 /\ v <= 65535 /\ z \in Nat /\ z >= 131072
    BY <1>1, <2>2
  <2> HIDE DEF s, v, z
  <2>5. a + 4 + (s + v) <= a + z
    BY <2>4
  <2> QED BY <2>3, <2>5 DEF s, v, h
<1> QED BY <1>3, <1>4 DEF h

(* A turn of a call for what the range has. *)
LEMMA TurnMoved ==
  ASSUME Inv, stage # "idle", C!Body, P!Place + op.n <= Limit(req.inode, sh)
  PROVE  /\ mode' \in {"loop", "idle"}
         /\ mode' = "loop" => P!Place' = P!Place /\ op' = op
         /\ mode' = "idle" =>
              /\ op.kind = "read" =>
                   /\ P!Place' = P!Place + op.n
                   /\ result'.bytes = P!Run(P!Place, op.n)
                   /\ cur > 0 \/ op.n > 0 => cur' > 0
              /\ op.kind = "cmp" => P!Passed
              /\ op.kind = "skip" => P!Place' = P!Place + op.n
         /\ op.kind = "cmp" /\ (mode = "loop" \/ cur > 0) => cur' > 0
<1>1. First(req.inode, sh) \in Nat /\ Span(req.inode, sh) \in Nat /\ InRange
  BY RangeFacts
<1>2. PICK f \in Nat, e \in Nat : f = First(req.inode, sh) /\ e = Span(req.inode, sh)
  BY <1>1
<1>3. P!InvIn(f, e) /\ P!Place + op.n <= f + e
  BY <1>1, <1>2 DEF InRange, Limit
<1>4. P!Body
  BY SameCursor
<1>5. \A b : P!Cursor!Bytes(b).bytes = b
  BY DEF P!Cursor!Bytes
<1> QED BY <1>3, <1>4, <1>5, P!Moved, CursorAssumed

(* A call that does not skip is a turn of the body. *)
LEMMA BodyTurn ==
  ASSUME CursorTurn, op.kind # "skip"
  PROVE  C!Body
BY DEF CursorTurn, C!SkipAcross

LEMMA TurnHeader ==
  ASSUME Inv, Plain(req), NEW a \in Nat, Way(a), InCall, CursorTurn, stage = "header"
  PROVE  Hand(a)' /\ mode' # "panicked"
<1>1. op = ReadOp(4) /\ op.kind = "read" /\ op.n = 4
  BY DEF Inv, Calls, InCall, ReadOp
<1>2. P!Place = a /\ Stands(a)
  BY DEF Way, Hand, AtHeader
<1>3. a + 4 <= Limit(req.inode, sh)
  <2>1. Asked(req.inode) /\ Formed(req.inode) /\ Limit(req.inode, sh) \in Nat
    BY RangeFacts DEF Plain
  <2>2. CASE sh = 0
    BY <1>2, <2>1, <2>2, GridNext DEF Stands
  <2>3. CASE sh # 0
    <3>1. Limit(req.inode, sh) = a + Endless /\ Endless \in Nat /\ Endless >= 4
      BY <1>2, <2>3, XattrAssumption, GeometryAssumption DEF Stands, Limit, Span
    <3> QED BY <3>1
  <2> QED BY <2>2, <2>3
<1>4. C!Body
  BY <1>1, BodyTurn
<1>5. /\ mode' \in {"loop", "idle"}
      /\ mode' = "loop" => P!Place' = a
      /\ mode' = "idle" => P!Place' = a + 4 /\ result'.bytes = P!Run(a, 4) /\ cur' > 0
  BY <1>1, <1>2, <1>3, <1>4, TurnMoved
<1>6. stage' = "header" /\ UNCHANGED <<req, sh, hdr>>
  BY DEF CursorTurn
<1>7. AtHeader(a)'
  BY <1>5, <1>6 DEF AtHeader, InCall
<1> QED BY <1>5, <1>6, <1>7 DEF Hand

LEMMA TurnName ==
  ASSUME Inv, Plain(req), NEW a \in Nat, Way(a), InCall, CursorTurn, stage = "name"
  PROVE  Hand(a)' /\ mode' # "panicked"
<1> DEFINE n == hdr.suffix_len
           name == Suffix(req, hdr)
<1>1. op.kind = "cmp" /\ op.n = n /\ req.op = "get"
  BY DEF Inv, Calls, InCall, TypeOK
<1>2. /\ hdr = HeaderAt(a) /\ ~Refused(req, hdr) /\ P!Place = a + 4
      /\ Agrees(a + 4, name, op.m) /\ (mode = "called" => cur > 0)
      /\ Stands(a) /\ KeysBefore(a)
  BY DEF Way, Hand, AtName, InCall
<1>3. /\ n \in Nat /\ hdr.value_len \in Nat /\ Limit(req.inode, sh) \in Nat /\ req \in Requests
  BY RangeFacts, Kept DEF Headers
<1>4. a + 4 + (n + hdr.value_len) <= Limit(req.inode, sh)
  BY <1>2, EntryInReach
<1>5. P!Place + op.n <= Limit(req.inode, sh)
  BY <1>1, <1>2, <1>3, <1>4
<1>6. name \in Seq(Nat) /\ Len(name) = n
  BY <1>1, <1>2, <1>3, SuffixDecides
<1>7. C!Body
  BY <1>1, BodyTurn
<1>8. /\ mode' \in {"loop", "idle"}
      /\ mode' = "loop" => P!Place' = P!Place /\ op' = op
      /\ mode' = "idle" => P!Passed
      /\ cur' > 0
  BY <1>1, <1>2, <1>5, <1>7, TurnMoved DEF InCall
<1>9. stage' = "name" /\ UNCHANGED <<req, sh, hdr>>
  BY DEF CursorTurn
<1>10. CASE mode' = "loop"
  <2>1. AtName(a)'
    BY <1>2, <1>8, <1>9, <1>10 DEF AtName, InCall
  <2> QED BY <1>9, <1>10, <2>1 DEF Hand
<1>11. CASE mode' = "idle"
  <2>1. CASE result' = P!Cursor!Equal /\ n <= op.m /\ P!Place' = P!Place + n
    <3>1. op.m = n /\ BytesFrom(a + 4, n) = SubSeq(name, 1, n)
      BY <1>2, <1>3, <1>6, <2>1 DEF Agrees
    <3>2. SubSeq(name, 1, n) = name
      BY <1>6
    <3>3. result'.kind = "equal"
      BY <2>1 DEF P!Cursor!Equal
    <3>4. P!Place' = a + 4 + n
      BY <1>2, <2>1
    <3>5. NameEqual(a)'
      BY <1>9, <3>1, <3>2, <3>3, <3>4 DEF NameEqual
    <3>6. AtName(a)'
      BY <1>2, <1>9, <1>11, <3>5 DEF AtName, InCall
    <3> QED BY <1>9, <1>11, <3>6 DEF Hand
  <2>2. CASE \E k \in 0 .. n :
               /\ result' = P!Cursor!NotEqual(k) /\ op.m < k /\ P!Place' = P!Place + k
               /\ k = n \/ P!Place' = off'
    <3>1. PICK k \in 0 .. n :
               /\ result' = P!Cursor!NotEqual(k) /\ op.m < k /\ P!Place' = P!Place + k
               /\ k = n \/ P!Place' = off'
      BY <2>2
    <3>2. BytesFrom(a + 4, k) # SubSeq(name, 1, k)
      BY <1>2, <1>6, <3>1 DEF Agrees
    <3>3. result'.kind = "differ" /\ result'.used = k
      BY <3>1 DEF P!Cursor!NotEqual
    <3>4. P!Place' = a + 4 + k
      BY <1>2, <3>1
    <3>5. NameDiffers(a)'
      BY <1>8, <1>9, <3>1, <3>2, <3>3, <3>4 DEF NameDiffers
    <3>6. AtName(a)'
      BY <1>2, <1>9, <1>11, <3>5 DEF AtName, InCall
    <3> QED BY <1>9, <1>11, <3>6 DEF Hand
  <2> QED BY <1>1, <1>8, <1>11, <2>1, <2>2 DEF P!Passed
<1> QED BY <1>8, <1>10, <1>11

LEMMA TurnValue ==
  ASSUME Inv, Plain(req), NEW a \in Nat, Way(a), InCall, CursorTurn, stage = "value"
  PROVE  Hand(a)' /\ mode' # "panicked"
<1> DEFINE n == hdr.suffix_len
           v == hdr.value_len
<1>1. /\ hdr = HeaderAt(a) /\ ~Refused(req, hdr) /\ BytesFrom(a + 4, n) = Suffix(req, hdr)
      /\ P!Place = a + 4 + n /\ op = ReadOp(v) /\ Stands(a) /\ KeysBefore(a)
  BY DEF Way, Hand, AtValue, InCall
<1>2. op.kind = "read" /\ op.n = v
  BY <1>1 DEF ReadOp
<1>3. n \in Nat /\ v \in Nat /\ Limit(req.inode, sh) \in Nat
  BY RangeFacts, Kept DEF Headers
<1>4. a + 4 + (n + v) <= Limit(req.inode, sh)
  BY <1>1, EntryInReach
<1>5. P!Place + op.n <= Limit(req.inode, sh)
  BY <1>1, <1>2, <1>3, <1>4
<1>6. C!Body
  BY <1>2, BodyTurn
<1>7. /\ mode' \in {"loop", "idle"}
      /\ mode' = "loop" => P!Place' = P!Place /\ op' = op
      /\ mode' = "idle" => result'.bytes = P!Run(P!Place, op.n)
  BY <1>2, <1>5, <1>6, TurnMoved
<1>8. stage' = "value" /\ UNCHANGED <<req, sh, hdr>>
  BY DEF CursorTurn
<1>9. AtValue(a)'
  BY <1>1, <1>2, <1>7, <1>8 DEF AtValue, InCall
<1> QED BY <1>7, <1>8, <1>9 DEF Hand

LEMMA TurnKey ==
  ASSUME Inv, Plain(req), NEW a \in Nat, Way(a), InCall, CursorTurn, stage = "key"
  PROVE  Hand(a)' /\ mode' # "panicked"
<1> DEFINE n == hdr.suffix_len
<1>1. /\ hdr = HeaderAt(a) /\ P!Place = a + 4 /\ (mode = "called" => cur > 0)
      /\ Stands(a) /\ KeysBefore(a)
  BY DEF Way, Hand, AtKey, InCall
<1>2. op = ReadOp(n) /\ op.kind = "read" /\ op.n = n /\ req.op = "list"
  BY DEF Inv, Calls, InCall, TypeOK, ReadOp
<1>3. n \in Nat /\ hdr.value_len \in Nat /\ Limit(req.inode, sh) \in Nat
  BY RangeFacts, Kept DEF Headers
<1>4. a + 4 + (n + hdr.value_len) <= Limit(req.inode, sh)
  BY <1>1, <1>2, EntryInReach
<1>5. P!Place + op.n <= Limit(req.inode, sh)
  BY <1>1, <1>2, <1>3, <1>4
<1>6. mode = "loop" => op.n > 0
  <2>1. P!TypeOK /\ InRange
    BY RangeFacts
  <2> QED BY <1>2, <1>3, <2>1 DEF InRange, P!InvIn, P!Loop, P!TypeOK
<1>7. C!Body
  BY <1>2, BodyTurn
<1>8. /\ mode' \in {"loop", "idle"}
      /\ mode' = "loop" => P!Place' = P!Place /\ op' = op
      /\ mode' = "idle" =>
           P!Place' = P!Place + op.n /\ result'.bytes = P!Run(P!Place, op.n) /\ cur' > 0
  BY <1>1, <1>2, <1>5, <1>6, <1>7, TurnMoved DEF InCall
<1>9. stage' = "key" /\ UNCHANGED <<req, sh, hdr>>
  BY DEF CursorTurn
<1>10. AtKey(a)'
  BY <1>1, <1>2, <1>8, <1>9 DEF AtKey, InCall
<1> QED BY <1>8, <1>9, <1>10 DEF Hand

(* A skip in line stays in the buffer; one that does not, in a shared      *)
(* entry, finds that its range has another.                                *)
LEMMA TurnSkip ==
  ASSUME Inv, Plain(req), NEW a \in Nat, Way(a), InCall, CursorTurn, stage = "skip"
  PROVE  Hand(a)' /\ mode' # "panicked"
<1>1. /\ mode = "called" /\ op.kind = "skip" /\ Stands(a)
      /\ sh = 0 => P!Place + op.n = a /\ op.n <= blen - cur
      /\ sh # 0 => P!Place <= a + 4 + 255
  BY DEF Way, Hand, AtSkip, InCall
<1>2. /\ off \in Nat /\ len \in Nat /\ start \in Nat /\ blen \in Nat /\ cur \in 0 .. blen
      /\ off + len = Limit(req.inode, sh) /\ off = start + blen
      /\ P!TypeOK /\ P!InBlock
  BY <1>1, RangeFacts
<1>3. stage' = "skip" /\ UNCHANGED <<req, sh, hdr>>
  BY DEF CursorTurn
<1>4. op.n \in Nat
  BY <1>1, <1>2, P!OpsFacts, CursorAssumed DEF P!TypeOK
<1>5. CASE C!SkipWithin
  <2>1. mode' = "idle" /\ P!Place' = P!Place + op.n
    BY <1>1, <1>2, <1>4, <1>5 DEF C!SkipWithin, C!Return, C!Window, P!Place
  <2>2. AtSkip(a)'
    BY <1>1, <1>3, <2>1 DEF AtSkip, InCall
  <2> QED BY <1>3, <2>1, <2>2 DEF Hand
<1>6. CASE C!SkipAcross
  <2>1. op.n > blen - cur
    BY <1>6 DEF C!SkipAcross, C!Dlen
  <2>2. sh # 0
    BY <1>1, <1>2, <1>4, <2>1
  <2>3. blen - cur < len
    <3>1. Limit(req.inode, sh) = a + Endless /\ start + cur <= a + 4 + 255
      BY <1>1, <2>2 DEF Stands, Limit, Span, P!Place
    <3>2. blen <= BlkSz
      <4>1. BlkSz \in Nat /\ BlkSz > 0 /\ start % BlkSz \in Nat
        BY <1>2, GeometryAssumption
      <4>2. (start % BlkSz) + blen <= BlkSz
        BY <1>1, <1>2 DEF P!InBlock
      <4> QED BY <1>2, <4>1, <4>2
    <3>3. Endless \in Nat /\ BlkSz \in Nat /\ 2 * BlkSz + 131072 <= Endless
      BY XattrAssumption, GeometryAssumption
    <3> DEFINE z == Endless
               b == BlkSz
    <3>4. z \in Nat /\ b \in Nat /\ 2 * b + 131072 <= z /\ blen <= b
      BY <3>2, <3>3
    <3>5. off + len = a + z /\ start + cur <= a + 259
      BY <1>2, <3>1
    <3> HIDE DEF z, b
    <3> QED BY <1>2, <3>4, <3>5
  <2>4. mode' = "idle"
    BY <1>6, <2>3 DEF C!SkipAcross, C!Dlen, C!Return
  <2>5. AtSkip(a)'
    BY <1>3, <2>2, <2>4 DEF AtSkip, InCall
  <2> QED BY <1>3, <2>4, <2>5 DEF Hand
<1>7. CASE C!Body /\ ~C!SkipWithin
  BY <1>1, <1>7 DEF C!Body, C!ReadHere, C!ReadOn, C!CmpHere, C!CmpOn, C!Unwrap
<1> QED BY <1>5, <1>6, <1>7 DEF CursorTurn

LEMMA CursorTurnGood ==
  ASSUME Inv, Plain(req), Good, CursorTurn
  PROVE  Good'
<1>1. C!Body \/ C!SkipAcross
  BY DEF CursorTurn
<1>2. UNCHANGED <<stage, req, sh, hdr, keys>>
  BY DEF CursorTurn, listing
<1>3. InCall
  BY <1>1, SameCursor, P!SameCall, CursorAssumed DEF InCall
<1>4. stage \in {"header", "name", "value", "key", "skip"}
  BY <1>3 DEF InCall, Inv, TypeOK
<1>5. PICK a \in Nat : Way(a)
  BY <1>3, <1>4 DEF Good, InCall
<1>6. Hand(a)' /\ mode' # "panicked"
  BY <1>3, <1>4, <1>5, TurnHeader, TurnName, TurnValue, TurnKey, TurnSkip
<1>7. Stands(a)' /\ NoneBefore(a)' /\ KeysBefore(a)'
  BY <1>2, <1>5, Situated DEF Way
<1>8. P!Edge'
  <2>1. P!TypeOK
    BY <1>4, RangeFacts
  <2> QED BY <1>1, <2>1, SameCursor, P!EdgeNext, CursorAssumed DEF Good
<1> QED BY <1>2, <1>4, <1>6, <1>7, <1>8, OnTheWay DEF Way

(* The end of the entries after the inode: all of them are passed.         *)
LEMMA EndOfRangeGood ==
  ASSUME Inv, Plain(req), Good, EndOfRange
  PROVE  Good'
<1> DEFINE i == req.inode
<1>1. /\ stage = "scan" /\ sh = 0 /\ NextShared(1, keys) /\ UNCHANGED <<req, keys>>
      /\ mode \in {"closed", "empty"} \/ (mode = "idle" /\ C!Eof)
  BY DEF EndOfRange, listing
<1>2. mode \notin {"called", "loop", "panicked"}
  BY <1>1
<1>3. PICK a \in Nat : Way(a)
  BY <1>1, <1>2 DEF Good
<1>4. /\ req \in Requests /\ Asked(i) /\ Formed(i) /\ Len(SharedIndexes(i)) \in Nat
      /\ off \in Nat /\ len \in Nat /\ start \in Nat /\ blen \in Nat /\ cur \in 0 .. blen
      /\ off + len = Limit(i, 0) /\ (mode = "idle" => off = start + blen)
  BY <1>1, RangeFacts DEF Plain
<1>5. a = Limit(i, 0)
  <2>1. P!Place = a /\ (mode \in {"closed", "empty"} => a = Limit(i, 0))
    BY <1>1, <1>3 DEF Way, Hand, AtRest
  <2>2. CASE mode = "idle" /\ C!Eof
    <3>1. blen - cur = 0 /\ len = 0 /\ P!Place = start + cur
      BY <2>2 DEF C!Eof, C!Dlen, P!Place
    <3> QED BY <1>4, <2>1, <2>2, <3>1
  <2> QED BY <1>1, <2>1, <2>2
<1>6. Len(Inl(i)) \in Nat /\ Len(Inl(i)) + 1 - 1 = Len(Inl(i))
  BY <1>4, EntryPlaces
<1>7. req.op = "get" => NoneOf(req, Len(Inl(i)) + 1 - 1)
  BY <1>1, <1>3, <1>4, <1>5, <1>6, NoneInline DEF Way, NoneBefore
<1>8. ASSUME req.op = "list"
      PROVE  keys = KeysTo(i, Len(keys)) /\ Len(keys) = Len(Inl(i)) + 1 - 1
  <2>1. keys = KeysTo(i, Len(keys)) /\ Len(keys) <= Len(Inl(i)) /\ a = At(i, Len(keys))
    BY <1>1, <1>3, <1>8 DEF Way, KeysBefore
  <2>2. Len(keys) \in Nat
    BY Kept
  <2>3. Len(keys) \in 0 .. Len(Inl(i))
    BY <1>6, <2>1, <2>2
  <2>4. Len(keys) < Len(Inl(i)) => At(i, Len(keys)) < Limit(i, 0)
    BY <1>4, <2>3, EntryWalk
  <2>5. ~(Len(keys) < Len(Inl(i)))
    <3>1. Limit(i, 0) \in Nat
      BY <1>4
    <3> QED BY <1>5, <2>1, <2>4, <3>1
  <2> QED BY <1>6, <2>1, <2>2, <2>5
<1>9. 1 \in 1 .. Len(SharedIndexes(i)) + 1
  BY <1>4
<1> QED BY <1>1, <1>2, <1>7, <1>8, <1>9, NextSharedGood

LEMMA NextHeaderGood ==
  ASSUME Inv, Plain(req), Good, NextHeader
  PROVE  Good'
<1> DEFINE i == req.inode
<1>1. /\ stage = "scan" /\ mode = "idle" /\ (sh = 0 => ~C!Eof) /\ C!Call(ReadOp(4))
      /\ stage' = "header" /\ UNCHANGED <<req, sh, hdr, keys>>
  BY DEF NextHeader, listing
<1>2. PICK a \in Nat : Way(a)
  BY <1>1 DEF Good
<1>3. P!Place = a
  BY <1>1, <1>2 DEF Way, Hand, AtRest
<1>4. mode' = "called" /\ P!Place' = a /\ P!Edge'
  BY <1>1, <1>3, Called
<1>5. sh = 0 => a < Limit(i, 0)
  <2> SUFFICES ASSUME sh = 0 PROVE a < Limit(i, 0)
    OBVIOUS
  <2>1. /\ len \in Nat /\ start \in Nat /\ blen \in Nat /\ cur \in 0 .. blen
        /\ off + len = Limit(i, 0) /\ off = start + blen
    BY <1>1, RangeFacts
  <2>2. P!Place = start + cur /\ ~(blen - cur = 0 /\ len = 0)
    BY <1>1 DEF P!Place, C!Eof, C!Dlen
  <2> QED BY <1>3, <2>1, <2>2
<1>6. Stands(a)'
  BY <1>1, <1>2, <1>5 DEF Way, Stands
<1>7. NoneBefore(a)'
  BY <1>1, <1>2 DEF Way, NoneBefore
<1>8. req.op = "list" /\ sh = 0 => Len(keys) < Len(Inl(i))
  <2> SUFFICES ASSUME req.op = "list", sh = 0 PROVE Len(keys) < Len(Inl(i))
    OBVIOUS
  <2>1. Len(keys) <= Len(Inl(i)) /\ a = At(i, Len(keys))
    BY <1>1, <1>2 DEF Way, KeysBefore
  <2>2. Len(keys) \in Nat /\ Asked(i) /\ Formed(i) /\ Len(Inl(i)) \in Nat
    BY <1>1, Kept, RangeFacts, EntryPlaces DEF Plain
  <2>3. Len(keys) \in 0 .. Len(Inl(i))
    BY <2>1, <2>2
  <2>4. Len(keys) = Len(Inl(i)) => a = Limit(i, 0)
    BY <2>1, <2>2, <2>3, EntryWalk
  <2> QED BY <1>5, <2>1, <2>2, <2>4
<1>9. KeysBefore(a)'
  BY <1>1, <1>2, <1>8 DEF Way, KeysBefore
<1>10. Hand(a)'
  BY <1>1, <1>4 DEF Hand, AtHeader, InCall
<1> QED BY <1>1, <1>4, <1>6, <1>7, <1>9, <1>10, OnTheWay DEF Way

(* The header that was read is that of the entry. *)
LEMMA HeaderRead ==
  ASSUME NEW a \in Nat, Way(a), stage = "header", mode = "idle"
  PROVE  /\ Header = HeaderAt(a) /\ P!Place = a + 4 /\ cur > 0
         /\ Stands(a) /\ NoneBefore(a) /\ KeysBefore(a)
<1>1. P!Place = a + 4 /\ result.bytes = P!Run(a, 4) /\ cur > 0
  BY DEF Way, Hand, AtHeader, InCall
<1>2. P!Run(a, 4)[0] = a
  BY DEF P!Run
<1> QED BY <1>1, <1>2 DEF Header, Way

LEMMA RefuseGood ==
  ASSUME Inv, Plain(req), Good, Refuse
  PROVE  Good'
<1> DEFINE i == req.inode
<1>1. /\ stage = "header" /\ mode = "idle" /\ req.op = "get" /\ Refused(req, Header)
      /\ Continue(keys) /\ UNCHANGED <<req, keys>>
  BY DEF Refuse, Returned, listing
<1>2. PICK a \in Nat : Way(a)
  BY <1>1 DEF Good
<1>3. Header = HeaderAt(a) /\ P!Place = a + 4 /\ Stands(a) /\ NoneBefore(a)
  BY <1>1, <1>2, HeaderRead
<1>4. /\ req \in Requests /\ Asked(i) /\ Formed(i) /\ Len(SharedIndexes(i)) \in Nat
      /\ sh \in 0 .. Len(SharedIndexes(i))
  BY <1>1, RangeFacts DEF Plain
<1>5. CASE sh = 0
  <2>1. OnGrid(i, a) /\ a < Limit(i, 0) /\ NoneTo(req, a)
    BY <1>1, <1>3, <1>5 DEF Stands, NoneBefore
  <2>2. OnGrid(i, a + 4) /\ NoneTo(req, a + 4)
    BY <1>1, <1>3, <1>4, <2>1, NoneAfterRefused
  <2>3. stage' = "scan" /\ UNCHANGED <<cursor, sh>>
    BY <1>1, <1>5 DEF Continue
  <2>4. a + 4 \in Nat
    OBVIOUS
  <2> QED BY <1>1, <1>3, <1>5, <2>2, <2>3, <2>4, ScanOn
<1>6. CASE sh # 0
  <2>1. a = First(i, sh) /\ NoneOf(req, Len(Inl(i)) + sh - 1)
    BY <1>1, <1>3, <1>6 DEF Stands, NoneBefore
  <2>2. sh \in 1 .. Len(SharedIndexes(i)) /\ sh + 1 \in 1 .. Len(SharedIndexes(i)) + 1
    BY <1>4, <1>6
  <2>3. NextShared(sh + 1, keys)
    BY <1>1, <1>6 DEF Continue
  <2>4. ~Matches(req, a)
    <3>1. Len(Inl(i)) + sh \in DOMAIN EntryAddresses(i) /\ EntryAddresses(i)[Len(Inl(i)) + sh] = a
      BY <1>4, <2>1, <2>2, EntryPlaces
    <3>2. PrefixKnown(HeaderAt(a))
      BY <1>4, <3>1, PrefixesKnown
    <3> QED BY <1>1, <1>3, <1>4, <3>2, RefusedIsOther
  <2>5. NoneOf(req, Len(Inl(i)) + (sh + 1) - 1)
    BY <1>4, <2>1, <2>2, <2>4, NoneWithShared
  <2> QED BY <1>1, <2>2, <2>3, <2>5, NextSharedGood
<1> QED BY <1>5, <1>6

(* What agrees with a name is all that agrees. *)
LEMMA AgreeingAgrees ==
  ASSUME NEW name \in Seq(Nat), start \in Nat, cur \in Nat
  PROVE  Agrees(start + cur, name, Agreeing(name))
<1> DEFINE a == start + cur
           m == Agreeing(name)
<1>1. /\ m \in 0 .. Len(name) /\ BytesFrom(a, m) = SubSeq(name, 1, m)
      /\ m < Len(name) => Byte(a + m) # name[m + 1]
  BY AgreeingTypes DEF Here
<1>2. a \in Nat /\ Len(name) \in Nat
  OBVIOUS
<1> HIDE DEF a, m
<1>3. ASSUME NEW k \in 0 .. Len(name), m < k PROVE BytesFrom(a, k) # SubSeq(name, 1, k)
  <2>1. m < Len(name) /\ m + 1 \in 1 .. k /\ k \in Nat
    BY <1>1, <1>2, <1>3
  <2>2. BytesFrom(a, k)[m + 1] = Byte(a + (m + 1) - 1)
    BY <1>2, <2>1, BytesFromTypes
  <2>3. a + (m + 1) - 1 = a + m
    BY <1>1, <1>2
  <2>4. SubSeq(name, 1, k)[m + 1] = name[m + 1]
    BY <1>2, <2>1
  <2> QED BY <1>1, <2>1, <2>2, <2>3, <2>4
<1> QED BY <1>1, <1>3 DEF Agrees, a, m

LEMMA CompareNameGood ==
  ASSUME Inv, Plain(req), Good, CompareName
  PROVE  Good'
<1> DEFINE name == Suffix(req, Header)
           o == CmpOp(Len(name), Agreeing(name))
<1>1. /\ stage = "header" /\ mode = "idle" /\ req.op = "get" /\ ~Refused(req, Header)
      /\ hdr' = Header /\ C!Call(o) /\ stage' = "name" /\ UNCHANGED <<req, sh, keys>>
  BY DEF CompareName, Returned, listing
<1>2. PICK a \in Nat : Way(a)
  BY <1>1 DEF Good
<1>3. /\ Header = HeaderAt(a) /\ P!Place = a + 4 /\ cur > 0
      /\ Stands(a) /\ NoneBefore(a) /\ KeysBefore(a)
  BY <1>1, <1>2, HeaderRead
<1>4. o.m = Agreeing(name)
  BY DEF CmpOp
<1> HIDE DEF o
<1>5. mode' = "called" /\ op' = o /\ P!Place' = a + 4 /\ cur' > 0 /\ P!Edge'
  BY <1>1, <1>3, Called
<1>6. Agrees(a + 4, name, o.m)
  <2>1. req \in Requests /\ start \in Nat /\ cur \in Nat
    BY <1>1, RangeFacts
  <2>2. name \in Seq(Nat)
    BY <1>1, <1>3, <2>1, SuffixDecides
  <2>3. start + cur = a + 4
    BY <1>1, <1>3 DEF P!Place
  <2>4. Agrees(start + cur, name, Agreeing(name))
    BY <2>1, <2>2, AgreeingAgrees
  <2> QED BY <1>4, <2>3, <2>4
<1>7. AtName(a)'
  BY <1>1, <1>3, <1>5, <1>6 DEF AtName, InCall
<1>8. Hand(a)'
  BY <1>1, <1>7 DEF Hand
<1>9. Stands(a)' /\ NoneBefore(a)' /\ KeysBefore(a)'
  BY <1>1, <1>3 DEF Stands, NoneBefore, KeysBefore
<1> QED BY <1>1, <1>5, <1>8, <1>9, OnTheWay DEF Way

(* The entry the name of which was found is the one that is asked for.     *)
LEMMA Found ==
  ASSUME Inv, Plain(req), NEW a \in Nat, Stands(a), NoneBefore(a), KeysBefore(a),
         stage \in {"name", "value"}, hdr = HeaderAt(a), ~Refused(req, hdr),
         BytesFrom(a + 4, hdr.suffix_len) = Suffix(req, hdr)
  PROVE  /\ Matching(req) # {}
         /\ FirstValue(req) = BytesFrom(a + 4 + hdr.suffix_len, hdr.value_len)
         /\ Len(FirstValue(req)) = hdr.value_len
<1>1. req.op = "get"
  BY DEF Inv, TypeOK
<1>2. req \in Requests /\ Formed(req.inode)
  BY RangeFacts DEF Plain
<1>3. Matches(req, a)
  BY <1>1, <1>2, SuffixDecides
<1>4. CASE sh = 0
  <2>1. PICK p \in 0 .. Len(Inl(req.inode)) : p < Len(Inl(req.inode)) /\ a = At(req.inode, p)
    BY <1>4, Current
  <2>2. NoneTo(req, a)
    BY <1>1, <1>4 DEF NoneBefore
  <2> QED BY <1>2, <1>3, <2>1, <2>2, FoundInline
<1>5. CASE sh # 0
  <2>1. sh \in 1 .. Len(SharedIndexes(req.inode)) /\ a = First(req.inode, sh)
    BY <1>5, Current
  <2>2. NoneOf(req, Len(Inl(req.inode)) + sh - 1)
    BY <1>1, <1>5 DEF NoneBefore
  <2> QED BY <1>2, <1>3, <2>1, <2>2, FoundShared
<1> QED BY <1>4, <1>5

LEMMA TooSmallGood ==
  ASSUME Inv, Plain(req), Good, TooSmall
  PROVE  Good'
<1>1. /\ stage = "name" /\ mode = "idle" /\ result.kind = "equal" /\ req.room < hdr.value_len
      /\ stage' = "done" /\ answer' = Failed("ERANGE") /\ UNCHANGED <<cursor, req>>
  BY DEF TooSmall, Returned, Answer
<1>2. PICK a \in Nat : Way(a)
  BY <1>1 DEF Good
<1>3. /\ hdr = HeaderAt(a) /\ ~Refused(req, hdr)
      /\ BytesFrom(a + 4, hdr.suffix_len) = Suffix(req, hdr)
      /\ Stands(a) /\ NoneBefore(a) /\ KeysBefore(a)
  BY <1>1, <1>2 DEF Way, Hand, AtName, InCall, NameEqual, NameDiffers
<1>4. Matching(req) # {} /\ Len(FirstValue(req)) = hdr.value_len
  BY <1>1, <1>3, Found
<1>5. req.op = "get"
  BY <1>1 DEF Inv, TypeOK
<1>6. GetExact'
  BY <1>1, <1>4 DEF GetExact, Failed
<1>7. ListExact'
  BY <1>1, <1>5 DEF ListExact
<1>8. P!Edge' /\ mode' # "panicked"
  BY <1>1, EdgeKept DEF Good, cursor
<1> QED BY <1>1, <1>6, <1>7, <1>8, AtTheEnd

LEMMA ReadValueGood ==
  ASSUME Inv, Plain(req), Good, ReadValue
  PROVE  Good'
<1>1. /\ stage = "name" /\ mode = "idle" /\ result.kind = "equal"
      /\ C!Call(ReadOp(hdr.value_len)) /\ stage' = "value" /\ UNCHANGED <<req, sh, hdr, keys>>
  BY DEF ReadValue, Returned, listing
<1>2. PICK a \in Nat : Way(a)
  BY <1>1 DEF Good
<1>3. /\ hdr = HeaderAt(a) /\ ~Refused(req, hdr) /\ P!Place = a + 4 + hdr.suffix_len
      /\ BytesFrom(a + 4, hdr.suffix_len) = Suffix(req, hdr)
      /\ Stands(a) /\ NoneBefore(a) /\ KeysBefore(a)
  BY <1>1, <1>2 DEF Way, Hand, AtName, InCall, NameEqual, NameDiffers
<1>4. mode' = "called" /\ op' = ReadOp(hdr.value_len) /\ P!Place' = P!Place /\ P!Edge'
  BY <1>1, Called
<1>5. AtValue(a)'
  BY <1>1, <1>3, <1>4 DEF AtValue, InCall
<1>6. Hand(a)'
  BY <1>1, <1>5 DEF Hand
<1>7. Stands(a)' /\ NoneBefore(a)' /\ KeysBefore(a)'
  BY <1>1, <1>3 DEF Stands, NoneBefore, KeysBefore
<1> QED BY <1>1, <1>4, <1>6, <1>7, OnTheWay DEF Way

LEMMA GotValueGood ==
  ASSUME Inv, Plain(req), Good, GotValue
  PROVE  Good'
<1> DEFINE n == hdr.suffix_len
           v == hdr.value_len
           bytes == [ j \in 1 .. v |-> Byte(result.bytes[j - 1]) ]
<1>1. /\ stage = "value" /\ mode = "idle" /\ stage' = "done" /\ answer' = Value(bytes)
      /\ UNCHANGED <<cursor, req>>
  BY DEF GotValue, Returned, Answer
<1>2. PICK a \in Nat : Way(a)
  BY <1>1 DEF Good
<1>3. /\ hdr = HeaderAt(a) /\ ~Refused(req, hdr) /\ result.bytes = P!Run(a + 4 + n, v)
      /\ BytesFrom(a + 4, n) = Suffix(req, hdr)
      /\ Stands(a) /\ NoneBefore(a) /\ KeysBefore(a)
  BY <1>1, <1>2 DEF Way, Hand, AtValue, InCall
<1>4. Matching(req) # {} /\ FirstValue(req) = BytesFrom(a + 4 + n, v)
  BY <1>1, <1>3, Found
<1>5. n \in Nat /\ v \in Nat
  BY Kept DEF Headers
<1>6. bytes = BytesFrom(a + 4 + n, v)
  <2>1. ASSUME NEW b \in Nat, NEW m \in Nat, NEW j \in 1 .. m
        PROVE  P!Run(b, m)[j - 1] = b + j - 1
    BY DEF P!Run
  <2>2. \A j \in 1 .. v : result.bytes[j - 1] = a + 4 + n + j - 1
    BY <1>3, <1>5, <2>1
  <2> QED BY <2>2 DEF BytesFrom
<1> HIDE DEF bytes
<1>7. req.op = "get"
  BY <1>1 DEF Inv, TypeOK
<1>8. GetExact'
  BY <1>1, <1>4, <1>6 DEF GetExact, Value, Failed
<1>9. ListExact'
  BY <1>1, <1>7 DEF ListExact
<1>10. P!Edge' /\ mode' # "panicked"
  BY <1>1, EdgeKept DEF Good, cursor
<1> QED BY <1>1, <1>8, <1>9, <1>10, AtTheEnd

-----------------------------------------------------------------------------
(* What is skipped in line is in the buffer, up to the next entry. *)
LEMMA RestInBuffer ==
  ASSUME Inv, Good, stage # "idle", mode = "idle", cur > 0, sh = 0,
         NEW q \in Nat, q <= Limit(req.inode, 0), P!Place <= q, InOneBlock(P!Place, q)
  PROVE  q - P!Place <= blen - cur
<1>1. /\ off \in Nat /\ start \in Nat /\ blen \in Nat /\ cur \in 0 .. blen
      /\ off = start + blen /\ InRange /\ P!InBlock
      /\ First(req.inode, sh) \in Nat /\ Span(req.inode, sh) \in Nat
  BY RangeFacts
<1>2. P!Place = start + cur
  BY DEF P!Place
<1>3. CASE q <= P!Place
  BY <1>1, <1>2, <1>3
<1>4. CASE (P!Place - 1) \div BlkSz = (q - 1) \div BlkSz
  <2>1. PICK f \in Nat, e \in Nat : f = First(req.inode, sh) /\ e = Span(req.inode, sh)
    BY <1>1
  <2>2. P!InvIn(f, e) /\ q <= f + e /\ P!Edge
    BY <1>1, <2>1 DEF InRange, Limit, Good
  <2>3. q <= off
    BY <1>1, <1>4, <2>2, P!RestOfBlock, CursorAssumed
  <2> QED BY <1>1, <1>2, <2>3
<1> QED BY <1>3, <1>4 DEF InOneBlock

LEMMA OnToNext ==
  ASSUME Inv, Plain(req), Good, stage # "idle", sh = 0, cur > 0, UNCHANGED <<req, sh>>,
         stage' = "skip", NEW a \in Nat,
         NEW p \in 0 .. Len(Inl(req.inode)), EntryEnd(a) = At(req.inode, p),
         NEW k \in Nat, P!Place = a + 4 + k,
         k <= HeaderAt(a).suffix_len, C!Call(SkipOp(LeftToSkip(HeaderAt(a), k))),
         InOneBlock(a + 4 + k, EntryEnd(a)),
         req.op = "get" => NoneTo(req, EntryEnd(a)),
         req.op = "list" => keys' = KeysTo(req.inode, p) /\ Len(keys') = p
  PROVE  Good'
<1> DEFINE i == req.inode
           n == LeftToSkip(HeaderAt(a), k)
           o == SkipOp(n)
           b == EntryEnd(a)
<1>1. Asked(i) /\ Formed(i) /\ Len(Inl(i)) \in Nat
  BY RangeFacts, EntryPlaces DEF Plain
<1>2. /\ HeaderAt(a).suffix_len \in Nat /\ HeaderAt(a).value_len \in Nat
      /\ EntrySz(HeaderAt(a)) \in Nat
      /\ HeaderAt(a).suffix_len + HeaderAt(a).value_len <= EntrySz(HeaderAt(a))
      /\ b = a + 4 + EntrySz(HeaderAt(a))
  BY EntryTypes
<1>3. n = EntrySz(HeaderAt(a)) - k
  BY DEF LeftToSkip
<1>4. o.kind = "skip" /\ o.n = n
  BY DEF SkipOp
<1> HIDE DEF o, b
<1>5. b \in Nat /\ P!Place + n = b /\ P!Place <= b
  <2> DEFINE z == EntrySz(HeaderAt(a))
             s == HeaderAt(a).suffix_len
             v == HeaderAt(a).value_len
  <2>1. z \in Nat /\ s \in Nat /\ v \in Nat /\ s + v <= z /\ b = a + 4 + z /\ n = z - k /\ k <= s
    BY <1>2, <1>3
  <2> HIDE DEF z, s, v, n
  <2> QED BY <2>1
<1> HIDE DEF n
<1>7. b = At(i, p)
  BY DEF b
<1>8. OnGrid(i, b) /\ b <= Limit(i, 0)
  BY <1>1, <1>7, EntryWalk
<1>9. C!Call(o)
  BY DEF o, n
<1>10. /\ mode = "idle" /\ mode' = "called" /\ op' = o /\ P!Edge'
       /\ P!Place' = P!Place /\ cur' = cur /\ blen' = blen
  BY <1>9, Called
<1>11. InOneBlock(P!Place, b)
  BY DEF b
<1>12. b - P!Place <= blen - cur
  BY <1>5, <1>8, <1>10, <1>11, RestInBuffer
<1>13. n <= blen - cur
  <2>1. P!Place \in Nat
    OBVIOUS
  <2>2. n = EntrySz(HeaderAt(a)) - k /\ EntrySz(HeaderAt(a)) \in Nat
    BY <1>2, <1>3 DEF n
  <2>3. n \in Int
    BY <2>2
  <2>4. n = b - P!Place
    BY <1>5, <2>1, <2>3
  <2> QED BY <1>12, <2>4
<1>14. AtSkip(b)'
  BY <1>4, <1>5, <1>10, <1>13 DEF AtSkip, InCall
<1>15. Hand(b)'
  BY <1>14 DEF Hand
<1>16. Stands(b)' /\ NoneBefore(b)'
  BY <1>8 DEF Stands, NoneBefore, b
<1>17. KeysBefore(b)'
  <2> SUFFICES ASSUME req.op = "list" PROVE KeysBefore(b)'
    BY DEF KeysBefore
  <2>1. keys' = KeysTo(i, p) /\ Len(keys') = p
    OBVIOUS
  <2> QED BY <1>1, <1>7, <2>1 DEF KeysBefore
<1> QED BY <1>5, <1>10, <1>15, <1>16, <1>17, OnTheWay DEF Way

LEMMA SkipOtherGood ==
  ASSUME Inv, Plain(req), Good, SkipOther
  PROVE  Good'
<1> DEFINE i == req.inode
           name == Suffix(req, hdr)
           o == SkipOp(LeftToSkip(hdr, result.used))
<1>1. /\ stage = "name" /\ mode = "idle" /\ result.kind = "differ" /\ C!Call(o)
      /\ stage' = "skip" /\ UNCHANGED <<req, sh, hdr, keys>>
  BY DEF SkipOther, Returned, listing
<1>2. PICK a \in Nat : Way(a)
  BY <1>1 DEF Good
<1>3. /\ hdr = HeaderAt(a) /\ ~Refused(req, hdr) /\ NameDiffers(a)
      /\ Stands(a) /\ NoneBefore(a) /\ KeysBefore(a)
  BY <1>1, <1>2 DEF Way, Hand, AtName, InCall, NameEqual
<1>4. PICK k \in 0 .. hdr.suffix_len :
        /\ result.used = k /\ P!Place = a + 4 + k
        /\ BytesFrom(a + 4, k) # SubSeq(name, 1, k)
        /\ k = hdr.suffix_len \/ P!Place = off
        /\ cur > 0
  BY <1>3 DEF NameDiffers
<1>5. req.op = "get" /\ req \in Requests /\ Asked(i) /\ Formed(i) /\ SkipsInBlock(req)
      /\ sh \in 0 .. Len(SharedIndexes(i)) /\ Len(SharedIndexes(i)) \in Nat
      /\ Len(Inl(i)) \in Nat
  BY <1>1, RangeFacts, EntryPlaces DEF Inv, TypeOK, Plain
<1>6. hdr.suffix_len \in Nat /\ hdr.suffix_len <= 255 /\ k \in Nat
  BY <1>3, EntryTypes
<1>7. ~Matches(req, a)
  <2>1. name \in Seq(Nat) /\ Len(name) = hdr.suffix_len
        /\ (Matches(req, a) <=> BytesFrom(a + 4, hdr.suffix_len) = name)
    BY <1>3, <1>5, SuffixDecides
  <2>2. a + 4 \in Nat /\ k \in 0 .. Len(name)
    BY <2>1
  <2> QED BY <1>4, <2>1, <2>2, PartsAgree
<1>8. CASE sh = 0
  <2>1. PICK p \in 0 .. Len(Inl(i)) : p < Len(Inl(i)) /\ a = At(i, p)
    BY <1>1, <1>3, <1>8, Current
  <2>2. a \in InlineEntries(i) /\ EntryEnd(a) <= Limit(i, 0)
    BY <1>5, <2>1, EntryWalk
  <2>3. NoneTo(req, a)
    BY <1>3, <1>5, <1>8 DEF NoneBefore
  <2>4. NoneTo(req, EntryEnd(a))
    BY <1>5, <1>7, <2>1, <2>3, NoneAfterOther
  <2>5. InOneBlock(a + 4 + k, EntryEnd(a))
    <3>1. CASE k = hdr.suffix_len \/ (a + 4 + k) % BlkSz = 0
      BY <1>3, <1>4, <1>5, <1>6, <2>2, <3>1 DEF SkipsInBlock
    <3>2. CASE P!Place = off
      <4>1. off % BlkSz = 0 \/ len = 0
        BY <1>1 DEF Good, P!Edge
      <4>2. CASE off % BlkSz = 0
        BY <1>4, <3>1, <3>2, <4>2
      <4>3. CASE len = 0
        <5>1. off + len = Limit(i, 0) /\ off \in Nat
          BY <1>1, <1>8, RangeFacts
        <5>2. EntryEnd(a) <= a + 4 + k
          BY <1>4, <2>2, <3>2, <4>3, <5>1
        <5> QED BY <5>2 DEF InOneBlock
      <4> QED BY <4>1, <4>2, <4>3
    <3> QED BY <1>4, <3>1, <3>2
  <2>6. C!Call(SkipOp(LeftToSkip(HeaderAt(a), k)))
    BY <1>1, <1>3, <1>4
  <2>7. k <= HeaderAt(a).suffix_len
    BY <1>3, <1>6
  <2>8. p + 1 \in 0 .. Len(Inl(i)) /\ EntryEnd(a) = At(i, p + 1)
    BY <1>5, <2>1, EntryWalk
  <2> QED BY <1>1, <1>4, <1>5, <1>6, <1>8, <2>4, <2>5, <2>6, <2>7, <2>8, OnToNext
<1>9. CASE sh # 0
  <2>1. sh \in 1 .. Len(SharedIndexes(i)) /\ a = First(i, sh)
    BY <1>1, <1>3, <1>9, Current
  <2>2. NoneOf(req, Len(Inl(i)) + sh - 1)
    BY <1>1, <1>3, <1>5, <1>9 DEF NoneBefore
  <2>3. NoneOf(req, Len(Inl(i)) + (sh + 1) - 1)
    BY <1>5, <1>7, <2>1, <2>2, NoneWithShared
  <2>4. o.kind = "skip"
    BY DEF SkipOp
  <2> HIDE DEF o
  <2>5. mode' = "called" /\ op' = o /\ P!Place' = P!Place /\ P!Edge'
    BY <1>1, Called
  <2>6. P!Place' <= a + 4 + 255
    BY <1>4, <1>6, <2>5
  <2>7. AtSkip(a)'
    BY <1>1, <1>9, <2>4, <2>5, <2>6 DEF AtSkip, InCall
  <2>8. Hand(a)'
    BY <1>1, <2>7 DEF Hand
  <2>9. Stands(a)' /\ NoneBefore(a)' /\ KeysBefore(a)'
    BY <1>1, <1>5, <1>9, <2>1, <2>3 DEF Stands, NoneBefore, KeysBefore
  <2> QED BY <1>1, <2>5, <2>8, <2>9, OnTheWay DEF Way
<1> QED BY <1>8, <1>9

(* The entry of a listing that is read is the one after those listed. *)
LEMMA Numbered ==
  ASSUME Inv, Plain(req), req.op = "list", stage \in {"header", "key"},
         NEW a \in Nat, Stands(a), KeysBefore(a)
  PROVE  LET n == Len(keys) + 1
         IN  /\ n \in Nat /\ n \in DOMAIN EntryAddresses(req.inode)
             /\ EntryAddresses(req.inode)[n] = a /\ PrefixKnown(HeaderAt(a))
             /\ sh # 0 => n = Len(Inl(req.inode)) + sh
<1> DEFINE i == req.inode
<1>1. /\ Asked(i) /\ Formed(i) /\ Len(SharedIndexes(i)) \in Nat /\ Len(Inl(i)) \in Nat
      /\ DOMAIN EntryAddresses(i) = 1 .. Len(Inl(i)) + Len(SharedIndexes(i))
  BY RangeFacts, EntryPlaces DEF Plain
<1>2. Len(keys) \in Nat
  BY Kept
<1>3. CASE sh = 0
  <2>1. Len(keys) < Len(Inl(i)) /\ a = At(i, Len(keys))
    BY <1>3 DEF KeysBefore
  <2>2. Len(keys) \in 0 .. Len(Inl(i))
    BY <1>1, <1>2, <2>1
  <2>3. Len(keys) + 1 \in DOMAIN EntryAddresses(i) /\ a = EntryAddresses(i)[Len(keys) + 1]
    BY <1>1, <2>1, <2>2, EntryWalk
  <2> QED BY <1>1, <1>2, <1>3, <2>3, PrefixesKnown
<1>4. CASE sh # 0
  <2>1. sh \in 1 .. Len(SharedIndexes(i)) /\ a = First(i, sh)
    BY <1>4, Current
  <2>2. Len(keys) = Len(Inl(i)) + sh - 1
    BY <1>4 DEF KeysBefore
  <2>3. Len(keys) + 1 = Len(Inl(i)) + sh /\ Len(keys) + 1 \in DOMAIN EntryAddresses(i)
    BY <1>1, <1>2, <2>1, <2>2
  <2>4. EntryAddresses(i)[Len(keys) + 1] = a
    BY <1>1, <2>1, <2>3, EntryPlaces
  <2> QED BY <1>1, <1>2, <2>3, <2>4, PrefixesKnown
<1> QED BY <1>3, <1>4

LEMMA UnknownInfixGood ==
  ASSUME Inv, Plain(req), Good, UnknownInfix
  PROVE  Good'
<1> DEFINE i == req.inode
           n == Len(keys) + 1
<1>1. /\ stage = "header" /\ mode = "idle" /\ req.op = "list" /\ Header.long /\ ~InfixKnown(Header)
      /\ stage' = "done" /\ answer' = Failed("ENODATA") /\ UNCHANGED <<cursor, req>>
  BY DEF UnknownInfix, Returned, Answer
<1>2. PICK a \in Nat : Way(a)
  BY <1>1 DEF Good
<1>3. Header = HeaderAt(a) /\ Stands(a) /\ KeysBefore(a)
  BY <1>1, <1>2, HeaderRead
<1>4. n \in DOMAIN EntryAddresses(i) /\ EntryAddresses(i)[n] = a
  BY <1>1, <1>3, Numbered
<1>5. AttrAt(a).prefix = NoPrefix
  BY <1>1, <1>3 DEF AttrAt
<1>6. n \in DOMAIN Stored(i) /\ Stored(i)[n].prefix = NoPrefix
  BY <1>4, <1>5 DEF Stored
<1>7. ListExact'
  BY <1>1, <1>6 DEF ListExact, Failed
<1>8. GetExact'
  BY <1>1 DEF GetExact
<1>9. P!Edge' /\ mode' # "panicked"
  BY <1>1, EdgeKept DEF Good, cursor
<1> QED BY <1>1, <1>7, <1>8, <1>9, AtTheEnd

LEMMA ReadKeyGood ==
  ASSUME Inv, Plain(req), Good, ReadKey
  PROVE  Good'
<1>1. /\ stage = "header" /\ mode = "idle" /\ req.op = "list" /\ hdr' = Header
      /\ C!Call(ReadOp(Header.suffix_len)) /\ stage' = "key" /\ UNCHANGED <<req, sh, keys>>
  BY DEF ReadKey, Returned, listing
<1>2. PICK a \in Nat : Way(a)
  BY <1>1 DEF Good
<1>3. /\ Header = HeaderAt(a) /\ P!Place = a + 4 /\ cur > 0
      /\ Stands(a) /\ NoneBefore(a) /\ KeysBefore(a)
  BY <1>1, <1>2, HeaderRead
<1>4. mode' = "called" /\ P!Place' = a + 4 /\ cur' > 0 /\ P!Edge'
  BY <1>1, <1>3, Called
<1>5. AtKey(a)'
  BY <1>1, <1>3, <1>4 DEF AtKey, InCall
<1>6. Hand(a)'
  BY <1>1, <1>5 DEF Hand
<1>7. Stands(a)' /\ NoneBefore(a)' /\ KeysBefore(a)'
  BY <1>1, <1>3 DEF Stands, NoneBefore, KeysBefore
<1> QED BY <1>1, <1>4, <1>6, <1>7, OnTheWay DEF Way

(* The key that was read is the one of its number. *)
LEMMA KeyRead ==
  ASSUME Inv, Plain(req), stage = "key", mode = "idle", NEW a \in Nat, Way(a)
  PROVE  LET suffix == [ j \in 1 .. hdr.suffix_len |-> Byte(result.bytes[j - 1]) ]
             key == [prefix |-> Prefix(hdr), name |-> Infix(hdr) \o suffix]
             n == Len(keys) + 1
         IN  /\ key \in Keys
             /\ n \in DOMAIN EntryAddresses(req.inode)
             /\ Append(keys, key) = KeysTo(req.inode, n) /\ Len(Append(keys, key)) = n
             /\ Room(KeysTo(req.inode, n)) = used + (KeyLen(hdr) + 1)
<1> DEFINE i == req.inode
           m == hdr.suffix_len
           suffix == [ j \in 1 .. m |-> Byte(result.bytes[j - 1]) ]
           key == [prefix |-> Prefix(hdr), name |-> Infix(hdr) \o suffix]
           n == Len(keys) + 1
<1>1. /\ hdr = HeaderAt(a) /\ result.bytes = P!Run(a + 4, m) /\ Stands(a) /\ KeysBefore(a)
  BY DEF Way, Hand, AtKey, InCall
<1>2. req.op = "list" /\ Known(hdr)
  BY DEF Inv, TypeOK, Scanned
<1>3. n \in DOMAIN EntryAddresses(i) /\ EntryAddresses(i)[n] = a /\ PrefixKnown(HeaderAt(a))
  BY <1>1, <1>2, Numbered
<1>4. m \in Nat
  BY Kept DEF Headers
<1>5. suffix = BytesFrom(a + 4, m)
  <2>1. ASSUME NEW b \in Nat, NEW x \in Nat, NEW j \in 1 .. x
        PROVE  P!Run(b, x)[j - 1] = b + j - 1
    BY DEF P!Run
  <2>2. \A j \in 1 .. m : result.bytes[j - 1] = a + 4 + j - 1
    BY <1>1, <1>4, <2>1
  <2> QED BY <2>2 DEF BytesFrom
<1> HIDE DEF suffix
<1>6. key = [prefix |-> Prefix(hdr), name |-> Infix(hdr) \o BytesFrom(a + 4, m)]
  BY <1>5
<1> HIDE DEF key
<1>7. KeyOf(AttrAt(a)) = key /\ key \in Keys /\ Taken(key) = KeyLen(hdr) + 1
  BY <1>1, <1>2, <1>3, <1>6, KeyOfEntry DEF Known
<1>8. key = KeyAt(i, n)
  BY <1>3, <1>7 DEF KeyAt
<1>9. keys \in Seq(Keys) /\ keys = KeysTo(i, Len(keys)) /\ used = Room(keys)
  BY <1>1, <1>2, Kept DEF KeysBefore
<1>10. /\ Append(keys, key) = KeysTo(i, n) /\ Len(Append(keys, key)) = n
       /\ Room(KeysTo(i, n)) = Room(keys) + Taken(key)
  BY <1>7, <1>8, <1>9, OneMoreKey
<1> QED BY <1>3, <1>7, <1>9, <1>10 DEF key, suffix

LEMMA GotKeyGood ==
  ASSUME Inv, Plain(req), Good, GotKey
  PROVE  Good'
<1> DEFINE i == req.inode
           suffix == [ j \in 1 .. hdr.suffix_len |-> Byte(result.bytes[j - 1]) ]
           key == [prefix |-> Prefix(hdr), name |-> Infix(hdr) \o suffix]
           n == Len(keys) + 1
<1>1. /\ stage = "key" /\ mode = "idle" /\ keys' = Append(keys, key) /\ UNCHANGED req
  BY DEF GotKey, Returned
<1>2. PICK a \in Nat : Way(a)
  BY <1>1 DEF Good
<1>3. /\ hdr = HeaderAt(a) /\ P!Place = a + 4 + hdr.suffix_len /\ cur > 0
      /\ Stands(a) /\ KeysBefore(a)
  BY <1>1, <1>2 DEF Way, Hand, AtKey, InCall
<1>4. keys' = KeysTo(i, n) /\ Len(keys') = n
  BY <1>1, <1>2, KeyRead
<1> HIDE DEF key
<1>5. /\ req.op = "list" /\ Asked(i) /\ Formed(i) /\ SkipsInBlock(req) /\ Len(keys) \in Nat
      /\ sh \in 0 .. Len(SharedIndexes(i)) /\ Len(SharedIndexes(i)) \in Nat /\ Len(Inl(i)) \in Nat
  BY <1>1, RangeFacts, Kept, EntryPlaces DEF Inv, TypeOK, Plain
<1>6. hdr.suffix_len \in Nat
  BY Kept DEF Headers
<1>7. CASE sh = 0
  <2>1. C!Call(SkipOp(LeftToSkip(HeaderAt(a), hdr.suffix_len))) /\ stage' = "skip" /\ UNCHANGED sh
    BY <1>3, <1>7 DEF GotKey
  <2>2. Len(keys) < Len(Inl(i)) /\ a = At(i, Len(keys))
    BY <1>1, <1>3, <1>5, <1>7 DEF KeysBefore
  <2>3. Len(keys) \in 0 .. Len(Inl(i))
    BY <1>5, <2>2
  <2>4. a \in InlineEntries(i)
    BY <1>5, <2>2, <2>3, EntryWalk
  <2>5. InOneBlock(a + 4 + hdr.suffix_len, EntryEnd(a))
    BY <1>3, <1>5, <2>4 DEF SkipsInBlock
  <2>6. hdr.suffix_len <= HeaderAt(a).suffix_len
    BY <1>3, <1>6
  <2>7. n \in 0 .. Len(Inl(i)) /\ EntryEnd(a) = At(i, n)
    BY <1>5, <2>2, <2>3, EntryWalk
  <2> QED BY <1>1, <1>3, <1>4, <1>5, <1>6, <1>7, <2>1, <2>5, <2>6, <2>7, OnToNext
<1>8. CASE sh # 0
  <2>1. NextShared(sh + 1, keys')
    BY <1>8 DEF GotKey
  <2>2. n = Len(Inl(i)) + sh
    BY <1>1, <1>3, <1>5, <1>8, Numbered
  <2>3. sh + 1 \in 1 .. Len(SharedIndexes(i)) + 1 /\ Len(Inl(i)) + (sh + 1) - 1 = Len(Inl(i)) + sh
    BY <1>5
  <2>4. keys' = KeysTo(i, Len(keys')) /\ Len(keys') = Len(Inl(i)) + (sh + 1) - 1
    BY <1>4, <2>2, <2>3
  <2> QED BY <1>1, <1>5, <2>1, <2>3, <2>4, NextSharedGood
<1> QED BY <1>7, <1>8

(* A key that does not fit with its NUL is one of the image's. *)
LEMMA PanicGood ==
  ASSUME Inv, Plain(req), Good, Panic
  PROVE  Good'
<1> DEFINE i == req.inode
           n == Len(keys) + 1
<1>1. /\ mode' = "panicked" /\ UNCHANGED <<stage, req, sh, hdr, keys, used, answer>>
      /\ stage \in {"header", "key"} /\ mode = "idle"
      /\ \/ stage = "header" /\ req.op = "list" /\ IndexPanics(Header)
         \/ stage = "key" /\ used + KeyLen(hdr) = req.room
  BY DEF Panic, Returned, listing
<1>2. PICK a \in Nat : Way(a)
  BY <1>1 DEF Good
<1>3. Stands(a) /\ KeysBefore(a) /\ keys = KeysTo(i, Len(keys))
  BY <1>1, <1>2 DEF Way, KeysBefore, Inv, TypeOK
<1>4. /\ req.op = "list" /\ Asked(i) /\ Formed(i) /\ req.room \in Nat
      /\ keys \in Seq(Keys) /\ used = Room(keys) /\ used \in Nat
  <2>1. req.op = "list"
    BY <1>1 DEF Inv, TypeOK
  <2>2. Asked(i) /\ Formed(i)
    BY <1>1, RangeFacts DEF Plain
  <2> QED BY <2>1, <2>2, Kept, RoomTypes
<1>5. n \in DOMAIN EntryAddresses(i)
  BY <1>1, <1>3, <1>4, Numbered
<1>6. req.room < Room(KeysTo(i, n))
  <2>1. CASE stage = "header"
    <3>1. Header = HeaderAt(a) /\ IndexPanics(Header)
      BY <1>1, <1>2, <2>1, HeaderRead
    <3>2. PrefixKnown(HeaderAt(a)) /\ EntryAddresses(i)[n] = a
      BY <1>1, <1>3, <1>4, Numbered
    <3> DEFINE h == HeaderAt(a)
               key == [prefix |-> Prefix(h), name |-> Infix(h) \o BytesFrom(a + 4, h.suffix_len)]
    <3>3. h.long => InfixKnown(h)
      BY <3>1 DEF IndexPanics
    <3>4. used + KeyLen(h) > req.room
      <4>1. Prefix(h) < Len(PrefixLens)
        BY <3>2, <3>3 DEF PrefixKnown
      <4>2. Prefix(h) \in Nat /\ Len(PrefixLens) = 7
        <5>1. h \in Headers
          BY HeaderTypes
        <5> QED BY <3>3, <5>1, InfixTypes DEF PrefixLens
      <4>3. ~(Prefix(h) >= Len(PrefixLens))
        BY <4>1, <4>2
      <4> QED BY <3>1, <4>3 DEF IndexPanics
    <3>5. KeyOf(AttrAt(a)) = key /\ key \in Keys /\ Taken(key) = KeyLen(h) + 1 /\ KeyLen(h) \in Nat
      BY <3>2, <3>3, KeyOfEntry
    <3> HIDE DEF key, h
    <3>6. key = KeyAt(i, n)
      BY <3>2, <3>5 DEF KeyAt
    <3>7. Room(KeysTo(i, n)) = Room(keys) + Taken(key)
      BY <1>3, <1>4, <3>5, <3>6, OneMoreKey
    <3> QED BY <1>4, <3>4, <3>5, <3>7
  <2>2. CASE stage = "key"
    <3>1. Room(KeysTo(i, n)) = used + (KeyLen(hdr) + 1)
      BY <1>1, <1>2, <2>2, KeyRead
    <3>2. used + KeyLen(hdr) = req.room /\ KeyLen(hdr) \in Nat
      BY <1>1, <2>2, KeyTypes
    <3> QED BY <1>4, <3>1, <3>2
  <2> QED BY <1>1, <2>1, <2>2
<1>7. n \in DOMAIN Stored(i) /\ [ k \in 1 .. n |-> KeyOf(Stored(i)[k]) ] = KeysTo(i, n)
  <2>1. n \in DOMAIN Stored(i)
    BY <1>5 DEF Stored
  <2> QED BY <1>4, <2>1, Listing
<1>8. PanicsOnlyWhenFull'
  BY <1>1, <1>4, <1>6, <1>7 DEF PanicsOnlyWhenFull
<1>9. GetExact' /\ ListExact'
  BY <1>1 DEF GetExact, ListExact
<1>10. P!Edge'
  BY <1>1 DEF P!Edge
<1> QED BY <1>1, <1>8, <1>9, <1>10 DEF Good

LEMMA SkippedGood ==
  ASSUME Inv, Plain(req), Good, Skipped
  PROVE  Good'
<1> DEFINE i == req.inode
<1>1. /\ stage = "skip" /\ mode = "idle" /\ Continue(keys) /\ UNCHANGED <<req, keys>>
  BY DEF Skipped, Returned, listing
<1>2. PICK a \in Nat : Way(a)
  BY <1>1 DEF Good
<1>3. Stands(a) /\ NoneBefore(a) /\ KeysBefore(a) /\ (sh = 0 => P!Place = a)
  BY <1>1, <1>2 DEF Way, Hand, AtSkip, InCall
<1>4. req.op \in {"get", "list"} /\ sh \in 0 .. Len(SharedIndexes(i))
      /\ Len(SharedIndexes(i)) \in Nat
  BY <1>1, RangeFacts
<1>5. CASE sh = 0
  <2>1. stage' = "scan" /\ UNCHANGED <<cursor, sh>>
    BY <1>1, <1>5 DEF Continue
  <2>2. OnGrid(i, a) /\ (req.op = "get" => NoneTo(req, a))
    BY <1>3, <1>5 DEF Stands, NoneBefore
  <2>3. req.op = "list" =>
          /\ keys = KeysTo(i, Len(keys)) /\ Len(keys) <= Len(Inl(i)) /\ a = At(i, Len(keys))
    BY <1>3, <1>5 DEF KeysBefore
  <2> QED BY <1>1, <1>3, <1>5, <2>1, <2>2, <2>3, ScanOn
<1>6. CASE sh # 0
  <2>1. NextShared(sh + 1, keys)
    BY <1>1, <1>6 DEF Continue
  <2>2. req.op # "list"
    BY <1>1, <1>3, <1>6 DEF KeysBefore
  <2>3. req.op = "get" => NoneOf(req, Len(Inl(i)) + (sh + 1) - 1)
    BY <1>1, <1>3, <1>6 DEF NoneBefore
  <2>4. sh + 1 \in 1 .. Len(SharedIndexes(i)) + 1
    BY <1>4
  <2> QED BY <1>1, <2>1, <2>2, <2>3, <2>4, NextSharedGood
<1> QED BY <1>5, <1>6

LEMMA BackendFailsGood ==
  ASSUME BackendFails
  PROVE  Good'
<1>1. stage' = "done" /\ answer' = Failed("EIO") /\ mode' = "failed"
  BY DEF BackendFails, Answer, C!BackendFails
<1>2. GetExact' /\ ListExact'
  BY <1>1 DEF GetExact, ListExact, Failed
<1>3. P!Edge'
  BY <1>1 DEF P!Edge
<1> QED BY <1>1, <1>2, <1>3, AtTheEnd

-----------------------------------------------------------------------------
(* With Inv this is inductive: it is claimed of the requests the image is  *)
(* plain for, and of one call after the other.                             *)
Sound == Plain(req) => Good

LEMMA InitSound == Init => Sound
<1> SUFFICES ASSUME Init PROVE Good
  BY DEF Sound
<1>1. stage = "idle" /\ mode = "empty"
  BY DEF Init
<1> QED BY <1>1 DEF Good, P!Edge, GetExact, ListExact, PanicsOnlyWhenFull

LEMMA SoundNext == Inv /\ Sound /\ [Next]_vars => Sound'
<1> SUFFICES ASSUME Inv, Sound, [Next]_vars, Plain(req)' PROVE Good'
  BY DEF Sound
<1>1. CASE \E r \in Requests : Ask(r)
  <2>1. PICK r \in Requests : Ask(r)
    BY <1>1
  <2>2. req' = r
    BY <2>1 DEF Ask
  <2>3. Plain(r)
    BY <2>2
  <2> QED BY <2>1, <2>3, AskGood
<1>2. CASE Scan
  <2>1. UNCHANGED req
    BY <1>2 DEF Scan, Open, CursorTurn, EndOfRange, NextHeader, Skipped, Refuse, CompareName,
         TooSmall, ReadValue, SkipOther, GotValue, UnknownInfix, ReadKey, GotKey, Panic
  <2>2. Plain(req)
    BY <2>1
  <2>3. Good
    BY <2>2 DEF Sound
  <2> QED BY <1>2, <2>2, <2>3, OpenGood, CursorTurnGood, EndOfRangeGood, NextHeaderGood,
       SkippedGood, RefuseGood, CompareNameGood, TooSmallGood, ReadValueGood, SkipOtherGood,
       GotValueGood, UnknownInfixGood, ReadKeyGood, GotKeyGood, PanicGood DEF Scan
<1>3. CASE BackendFails
  BY <1>3, BackendFailsGood
<1>4. CASE UNCHANGED vars
  <2>1. UNCHANGED <<cursor, stage, req, sh, hdr, keys, used, answer>>
    BY <1>4 DEF vars, listing
  <2>2. Plain(req)
    BY <2>1
  <2>3. Good
    BY <2>2 DEF Sound
  <2>4. P!Edge'
    BY <2>1, <2>3, EdgeKept DEF Good
  <2>5. GetExact' /\ ListExact' /\ PanicsOnlyWhenFull'
    BY <2>1, <2>3 DEF Good, GetExact, ListExact, PanicsOnlyWhenFull, cursor
  <2>6. ASSUME NEW a \in Nat, Way(a) PROVE Way(a)'
    <3>1. Stands(a)' /\ NoneBefore(a)' /\ KeysBefore(a)'
      BY <2>1, <2>6, Situated DEF Way
    <3>2. P!Place' = P!Place
      BY <2>1 DEF P!Place, cursor
    <3>3. Hand(a)'
      BY <2>1, <2>6, <3>2 DEF Way, Hand, AtRest, AtHeader, AtName, NameEqual, NameDiffers, AtValue,
           AtKey, AtSkip, InCall, cursor
    <3> QED BY <3>1, <3>3 DEF Way
  <2>7. stage' \notin {"idle", "done"} /\ mode' # "panicked" => \E a \in Nat : Way(a)'
    BY <2>1, <2>3, <2>6 DEF Good, cursor
  <2> QED BY <2>4, <2>5, <2>7 DEF Good
<1> QED BY <1>1, <1>2, <1>3, <1>4 DEF Next

(* For a plain request get_xattr answers the value of the first attribute  *)
(* of that name, in line and shared; it misses one only if there is none,  *)
(* and refuses a buffer only if the value does not fit (get_xattr,         *)
(* query_xattr_value).                                                     *)
THEOREM GetCorrect == Spec => [](Plain(req) => GetExact)
<1>1. Sound => (Plain(req) => GetExact)
  BY DEF Sound, Good
<1> QED BY <1>1, InitInv, InvNext, InitSound, SoundNext, PTL DEF Spec

(* For a plain request list_xattrs answers the keys of all attributes in   *)
(* the order they are stored; it says there is none only if a prefix is    *)
(* not known (list_xattrs, get_xattr_key, skip_xattr_value).               *)
THEOREM ListCorrect == Spec => [](Plain(req) => ListExact)
<1>1. Sound => (Plain(req) => ListExact)
  BY DEF Sound, Good
<1> QED BY <1>1, InitInv, InvNext, InitSound, SoundNext, PTL DEF Spec

(* For a plain request nothing but a client's buffer too small for the     *)
(* listing stops the program: the cursor is never asked for more than its  *)
(* range has (get_xattr_key, skip).                                        *)
THEOREM PanicsCorrect == Spec => [](Plain(req) => PanicsOnlyWhenFull)
<1>1. Sound => (Plain(req) => PanicsOnlyWhenFull)
  BY DEF Sound, Good
<1> QED BY <1>1, InitInv, InvNext, InitSound, SoundNext, PTL DEF Spec
=============================================================================
