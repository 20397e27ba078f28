-------------------------- MODULE FileReadProofs ---------------------------
(***************************************************************************)
(* What FileRead promises, for every block size, every image the library   *)
(* supports and every request.                                             *)
(***************************************************************************)
EXTENDS FileRead, LayoutProofs

-----------------------------------------------------------------------------
(* The inductive invariant.  PrefixExact alone is not inductive: that the  *)
(* next buffer continues the last needs the iterator to stand where the    *)
(* result ends, and that the loop stops in time needs `left` to be what    *)
(* the result still lacks.                                                 *)

Aligned ==
  /\ it = req.off + got
  /\ got > 0 => it <= req.inode.size
  /\ req.op = "read" => left = req.size - got /\ (left = 0 => got = 0)

Inv ==
  /\ TypeOK
  /\ status \in {"idle", "opening"} => got = 0
  /\ status = "busy" => Aligned
  /\ PrefixExact

SupportedImage == \A i \in Inodes : Supported(i)

(* The fields of a request in progress. *)
LEMMA RequestTypes ==
  ASSUME TypeOK, status # "idle"
  PROVE  /\ req \in Requests /\ req # NoRequest
         /\ req.op \in {"read", "readlink"}
         /\ req.inode \in Inodes /\ IsInode(req.inode)
         /\ req.inode.size \in Nat /\ req.off \in Nat /\ req.size \in Nat
         /\ req.op = "readlink" => req.off = 0
<1>1. req \in Requests /\ req # NoRequest
  BY DEF TypeOK
<1>2. req.op \in {"read", "readlink"} /\ req.inode \in Inodes
        /\ req.off \in Offsets \cup {0} /\ req.size \in Sizes \cup {0}
        /\ (req.op = "readlink" => req.off = 0)
  BY <1>1 DEF Requests
<1>3. IsInode(req.inode)
  BY <1>2, ServiceAssumption
<1>4. req.off \in Nat /\ req.size \in Nat
  <2>1. Offsets \subseteq Nat /\ Sizes \subseteq Nat /\ 0 \in Nat
    BY ServiceAssumption
  <2> QED BY <1>2, <2>1, Zenon
<1>5. req.inode.size \in Nat
  BY <1>3 DEF IsInode
<1> QED BY <1>1, <1>2, <1>3, <1>4, <1>5

(* What a turn of the loop does to the result and to the iterator.         *)
LEMMA YieldStep ==
  ASSUME SupportedImage, Inv, Yield
  PROVE  /\ it' \in Nat /\ left' \in Nat /\ got' \in Nat
         /\ it < it' /\ it' <= req.inode.size
         /\ got <= got' /\ req.off + got' <= it'
         /\ out' \in [0 .. got' - 1 -> Nat \cup {Zero}]
         /\ \A j \in 0 .. got - 1 : out'[j] = out[j]
         /\ \A j \in 0 .. got' - 1 :
              /\ ~Unmapped(req.inode, req.off + j)
              /\ out'[j] = Home(req.inode, req.off + j)
         /\ ~Unmapped(req.inode, it)
         /\ req.op = "read" =>
              left' = req.size - got' /\ (left' # 0 => it' = req.off + got')
         /\ req.op = "readlink" => it' = req.off + got' /\ left' = left
<1> DEFINE i == req.inode
           e == Extent(i, it)
           a == Advance(e)
           n == Take(YieldLen(e))
<1>1. /\ req.op \in {"read", "readlink"}
      /\ i \in Inodes /\ IsInode(i) /\ i.size \in Nat /\ req.off \in Nat /\ req.size \in Nat
  <2>1. status # "idle" /\ TypeOK
    BY DEF Yield, Mapped, More, Inv
  <2> QED BY <2>1, RequestTypes
<1>2. /\ it \in Nat /\ left \in Nat /\ got \in Nat
      /\ out \in [0 .. got - 1 -> Nat \cup {Zero}]
  BY DEF Inv, TypeOK
<1>3. /\ it = req.off + got
      /\ req.op = "read" => left = req.size - got
      /\ \A j \in 0 .. got - 1 :
           ~Unmapped(i, req.off + j) /\ out[j] = Home(i, req.off + j)
  BY DEF Inv, Yield, Mapped, More, Aligned, PrefixExact
<1>4. /\ e.start \in Nat /\ YieldLen(e) = a /\ a \in Nat \ {0} /\ it + a <= i.size
      /\ \A j \in 0 .. a - 1 :
           ~Unmapped(i, it + j) /\ ByteAt(e.start + j) = Home(i, it + j)
  <2>1. Supported(i) /\ it < i.size /\ ~MapTodo(i) /\ ~MapRefused(i, it)
    BY <1>1 DEF SupportedImage, Yield, Mapped, More
  <2> QED BY <1>1, <1>2, <2>1, YieldExact
<1>5. /\ it' = it + a
      /\ got' = got + n
      /\ out' = [ j \in 0 .. got + n - 1 |->
                    IF j < got THEN out[j] ELSE ByteAt(e.start + (j - got)) ]
      /\ left' = IF req.op = "read" THEN left - n ELSE left
  BY DEF Yield, Appended
<1> HIDE DEF e, a
<1>6. /\ n \in Nat /\ n <= a
      /\ req.op = "read" => n <= left /\ (n = a \/ n = left)
      /\ req.op = "readlink" => n = a
  BY <1>1, <1>2, <1>4 DEF Take, Lesser
<1> HIDE DEF n
<1>7. ASSUME NEW j \in 0 .. got' - 1
      PROVE  /\ ~Unmapped(i, req.off + j)
             /\ out'[j] = Home(i, req.off + j) /\ out'[j] \in Nat \cup {Zero}
  <2>1. CASE j < got
    BY <1>2, <1>3, <1>5, <1>6, <2>1
  <2>2. CASE j >= got
    <3>1. j - got \in 0 .. a - 1
      BY <1>2, <1>4, <1>5, <1>6, <2>2
    <3>2. out'[j] = ByteAt(e.start + (j - got))
      BY <1>2, <1>5, <1>6, <2>2
    <3>3. it + (j - got) = req.off + j
      BY <1>1, <1>2, <1>3, <3>1
    <3>4. ~Unmapped(i, req.off + j) /\ out'[j] = Home(i, req.off + j)
      BY <1>4, <3>1, <3>2, <3>3
    <3>5. e.start + (j - got) \in Nat
      BY <1>4, <3>1
    <3> QED BY <3>2, <3>4, <3>5 DEF ByteAt
  <2> QED BY <1>2, <1>6, <2>1, <2>2
<1>8. out' \in [0 .. got' - 1 -> Nat \cup {Zero}]
  <2> DEFINE f == [ j \in 0 .. got + n - 1 |->
                     IF j < got THEN out[j] ELSE ByteAt(e.start + (j - got)) ]
  <2>1. out' = f
    BY <1>5
  <2>2. 0 .. got' - 1 = 0 .. got + n - 1
    <3>1. got' = got + n /\ got \in Nat /\ n \in Nat
      BY <1>2, <1>5, <1>6
    <3> HIDE DEF f
    <3>2. got' - 1 = got + n - 1
      BY <3>1
    <3> QED BY <3>2
  <2>3. DOMAIN f = 0 .. got + n - 1 /\ f = [j \in DOMAIN f |-> f[j]]
    OBVIOUS
  <2> HIDE DEF f
  <2>4. \A j \in 0 .. got' - 1 : f[j] \in Nat \cup {Zero}
    BY <1>7, <2>1
  <2>5. DOMAIN f = 0 .. got' - 1
    BY <2>2, <2>3
  <2>6. f \in [0 .. got' - 1 -> Nat \cup {Zero}]
    BY <2>3, <2>4, <2>5
  <2> QED BY <2>1, <2>6
<1>9. \A j \in 0 .. got - 1 : out'[j] = out[j]
  BY <1>2, <1>5, <1>6
<1>10. it' \in Nat /\ left' \in Nat /\ got' \in Nat /\ it < it' /\ it' <= i.size /\ got <= got'
  BY <1>1, <1>2, <1>4, <1>5, <1>6
<1>11. req.off + got' <= it'
  <2>1. it = req.off + got /\ req.off \in Nat /\ got \in Nat /\ a \in Nat
    BY <1>1, <1>2, <1>3, <1>4
  <2>2. n \in Nat /\ n <= a
    BY <1>6
  <2>3. req.off + (got + n) <= (req.off + got) + a
    BY <2>1, <2>2
  <2> QED BY <1>5, <2>1, <2>3, Zenon
<1>12. req.op = "read" =>
         left' = req.size - got' /\ (left' # 0 => it' = req.off + got')
  <2> SUFFICES ASSUME req.op = "read"
               PROVE  left' = req.size - got' /\ (left' # 0 => it' = req.off + got')
    OBVIOUS
  <2>1. left' = left - n /\ got' = got + n /\ it' = it + a
    BY <1>5
  <2>2. left = req.size - got /\ it = req.off + got /\ (n = a \/ n = left)
    BY <1>3, <1>6
  <2>3. /\ req.size \in Nat /\ req.off \in Nat /\ got \in Nat /\ left \in Nat
        /\ n \in Nat /\ a \in Nat
    BY <1>1, <1>2, <1>4, <1>6
  <2>4. left' = req.size - got'
    BY <2>1, <2>2, <2>3
  <2>5. left' # 0 => it' = req.off + got'
    BY <2>1, <2>2, <2>3
  <2> QED BY <2>4, <2>5
<1>13. req.op = "readlink" => it' = req.off + got' /\ left' = left
  BY <1>1, <1>2, <1>3, <1>4, <1>5, <1>6
<1>14. ~Unmapped(i, it)
  <2>1. 0 \in 0 .. a - 1 /\ it + 0 = it
    BY <1>2, <1>4
  <2> QED BY <1>4, <2>1
<1> QED BY <1>7, <1>8, <1>9, <1>10, <1>11, <1>12, <1>13, <1>14

(* Returning anything but collected data leaves a good state.              *)
LEMMA Returned ==
  ASSUME Inv, status \in {"opening", "busy"},
         NEW a \in {Abort, Failure("ERANGE"), Failure("EUCLEAN")}, Return(a),
         UNCHANGED <<req, it, left, got, out>>
  PROVE  Inv'
<1>1. answer' = a /\ status' = "done"
  BY DEF Return
<1>2. a # NoAnswer
  BY DEF Abort, Failure, NoAnswer
<1>3. req # NoRequest
  BY DEF Inv, TypeOK
<1>4. TypeOK'
  BY <1>1, <1>2, <1>3 DEF Inv, TypeOK
<1> QED BY <1>1, <1>4 DEF Inv, PrefixExact

(* A handler that has not started satisfies the invariant. *)
LEMMA InvInit == ReadInit => Inv
<1> SUFFICES ASSUME ReadInit PROVE Inv
  OBVIOUS
<1>1. NoBytes \in [0 .. 0 - 1 -> Nat \cup {Zero}]
  BY DEF NoBytes
<1>2. TypeOK
  BY <1>1 DEF ReadInit, Init, TypeOK
<1> QED BY <1>2 DEF ReadInit, Inv, PrefixExact

(* Every step of the client, the handler and the session keeps it.         *)
LEMMA InvNext == SupportedImage /\ Inv /\ [ReadNext]_allVars => Inv'
<1> SUFFICES ASSUME SupportedImage, Inv, [ReadNext]_allVars
             PROVE  Inv'
  OBVIOUS
<1> USE DEF Inv
<1>1. ASSUME NEW r \in Requests, Request(r)
      PROVE  Inv'
  <2>1. req = NoRequest /\ req' = r /\ status' = "opening"
          /\ UNCHANGED <<answer, it, left, got, out>>
    BY <1>1 DEF Request, Ask
  <2>2. r # NoRequest
    BY DEF Requests, NoRequest
  <2>3. status = "idle" /\ answer = NoAnswer
    BY <2>1 DEF TypeOK
  <2>4. TypeOK'
    BY <2>1, <2>2, <2>3 DEF TypeOK
  <2>5. got' = 0
    BY <2>1, <2>3
  <2> QED BY <2>1, <2>4, <2>5 DEF PrefixExact
<1>2. CASE Open
  <2>1. /\ status = "opening" /\ status' = "busy" /\ it' = req.off /\ left' = req.size
        /\ UNCHANGED <<req, answer, got, out>>
    BY <1>2 DEF Open
  <2>2. req.off \in Nat /\ req.size \in Nat /\ got = 0
    BY <2>1, RequestTypes
  <2>3. TypeOK'
    BY <2>1, <2>2 DEF TypeOK
  <2>4. Aligned'
    BY <2>1, <2>2 DEF Aligned
  <2> QED BY <2>1, <2>2, <2>3, <2>4 DEF PrefixExact
<1>3. CASE BackendFails
  BY <1>3, Returned DEF BackendFails, Mapped, ReadsTable, More
<1>4. CASE Yield
  <2>1. /\ it' \in Nat /\ left' \in Nat /\ got' \in Nat
        /\ it' <= req.inode.size
        /\ out' \in [0 .. got' - 1 -> Nat \cup {Zero}]
        /\ \A j \in 0 .. got' - 1 :
             /\ ~Unmapped(req.inode, req.off + j)
             /\ out'[j] = Home(req.inode, req.off + j)
        /\ req.op = "read" =>
             left' = req.size - got' /\ (left' # 0 => it' = req.off + got')
        /\ req.op = "readlink" => it' = req.off + got' /\ left' = left
    BY <1>4, YieldStep
  <2>2. req' = req /\ status = "busy" /\ req # NoRequest /\ req \in Requests
    BY <1>4 DEF Yield, Mapped, More, TypeOK
  <2>3. CASE req.op = "read" /\ left' = 0
    <3>1. answer' = Data(got', out') /\ status' = "done"
      BY <1>4, <2>3 DEF Yield, Return
    <3>2. answer' # NoAnswer
      BY <3>1 DEF Data, NoAnswer
    <3>3. TypeOK'
      BY <2>1, <2>2, <3>1, <3>2 DEF TypeOK
    <3> QED BY <3>1, <3>3 DEF PrefixExact
  <2>4. CASE ~(req.op = "read" /\ left' = 0)
    <3>1. answer' = answer /\ status' = "busy"
      BY <1>4, <2>2, <2>4 DEF Yield
    <3>2. answer = NoAnswer
      BY <2>2 DEF TypeOK
    <3>3. TypeOK'
      BY <2>1, <2>2, <3>1, <3>2 DEF TypeOK
    <3>4. req.op \in {"read", "readlink"}
      BY <2>2 DEF Requests
    <3>5. Aligned'
      BY <2>1, <2>2, <2>4, <3>4 DEF Aligned
    <3> QED BY <2>1, <2>2, <3>1, <3>3, <3>5 DEF PrefixExact
  <2> QED BY <2>3, <2>4
<1>5. CASE Exhausted
  <2>1. req' = req /\ it' = it /\ left' = left /\ status = "busy" /\ req # NoRequest
    BY <1>5 DEF Exhausted, TypeOK
  <2>2. got' \in Nat /\ out' \in [0 .. got' - 1 -> Nat \cup {Zero}]
    <3>1. CASE req.op = "read"
      BY <1>5, <3>1 DEF Exhausted, TypeOK
    <3>2. CASE req.op # "read"
      <4>1. got \in Nat /\ out \in [0 .. got - 1 -> Nat \cup {Zero}]
        BY DEF TypeOK
      <4>2. /\ got' = got + 1
            /\ out' = [j \in 0 .. got |-> IF j < got THEN out[j] ELSE Zero]
        BY <1>5, <3>2 DEF Exhausted
      <4>3. got' - 1 = got /\ got' \in Nat
        BY <4>1, <4>2
      <4>4. out' \in [0 .. got -> Nat \cup {Zero}]
        BY <4>1, <4>2
      <4> QED BY <4>3, <4>4
    <3> QED BY <3>1, <3>2
  <2>3. answer' = Data(got', out') /\ status' = "done"
    BY <1>5 DEF Exhausted, Return
  <2>4. answer' # NoAnswer
    BY <2>3 DEF Data, NoAnswer
  <2>5. TypeOK'
    BY <2>1, <2>2, <2>3, <2>4 DEF TypeOK
  <2> QED BY <2>3, <2>5 DEF PrefixExact
<1>6. CASE MapFails
  BY <1>6, Returned DEF MapFails, More
<1>7. CASE Panic
  BY <1>7, Returned DEF Panic, More
<1>8. CASE NextRequest
  <2>1. /\ req' = NoRequest /\ answer' = NoAnswer /\ status' = "idle"
        /\ it' = 0 /\ left' = 0 /\ got' = 0 /\ out' = NoBytes
    BY <1>8 DEF NextRequest, Retire
  <2>2. NoBytes \in [0 .. 0 - 1 -> Nat \cup {Zero}]
    BY DEF NoBytes
  <2>3. TypeOK'
    BY <2>1, <2>2 DEF TypeOK
  <2> QED BY <2>1, <2>3 DEF PrefixExact
<1>9. CASE UNCHANGED allVars
  BY <1>9 DEF allVars, TypeOK, Aligned, PrefixExact
<1> QED
  BY <1>1, <1>2, <1>3, <1>4, <1>5, <1>6, <1>7, <1>8, <1>9 DEF ReadNext, Handler, Turn

(* The inductive invariant of the handlers holds for every image the       *)
(* library supports.                                                       *)
THEOREM Invariance ==
  ASSUME SupportedImage
  PROVE  ReadSpec => []Inv
<1>1. ReadInit => Inv
  BY InvInit
<1>2. Inv /\ [ReadNext]_allVars => Inv'
  BY InvNext
<1> QED BY <1>1, <1>2, PTL DEF ReadSpec

(* For every block size, every supported image and every request, the      *)
(* handler's variables keep their types: the result is as long as it says, *)
(* `size` never goes below zero, an answer is made of the result.          *)
THEOREM TypeCorrect ==
  ASSUME SupportedImage
  PROVE  ReadSpec => []TypeOK
<1>1. Inv => TypeOK
  BY DEF Inv
<1> QED BY <1>1, Invariance, PTL

(* For every block size, every supported image and every request, what     *)
(* try_read and try_read_link have collected is a prefix of the range.     *)
THEOREM PrefixCorrect ==
  ASSUME SupportedImage
  PROVE  ReadSpec => []PrefixExact
<1>1. Inv => PrefixExact
  BY DEF Inv
<1> QED BY <1>1, Invariance, PTL

(* Every turn of the loop moves the iterator forward inside the file and   *)
(* only appends: the loop of a request ends after at most size turns.      *)
THEOREM ProgressCorrect ==
  ASSUME SupportedImage
  PROVE  ReadSpec => LoopProgress
<1> DEFINE Moves == status = "busy" /\ status' = "busy" =>
                     /\ it < it' /\ it' <= req.inode.size
                     /\ \A j \in 0 .. got - 1 : j < got' /\ out'[j] = out[j]
<1>1. Inv /\ [ReadNext]_allVars => [Moves]_allVars
  <2> SUFFICES ASSUME Inv, ReadNext, status = "busy", status' = "busy"
               PROVE  /\ it < it' /\ it' <= req.inode.size
                      /\ \A j \in 0 .. got - 1 : j < got' /\ out'[j] = out[j]
    OBVIOUS
  <2>1. Yield
    <3>1. \A r \in Requests : ~Request(r)
      BY DEF Request
    <3> QED BY <3>1 DEF ReadNext, Handler, Turn, Open, BackendFails, Exhausted, MapFails,
                        Panic, NextRequest, Return
  <2>2. /\ it < it' /\ it' <= req.inode.size /\ got' \in Nat /\ got <= got'
        /\ \A j \in 0 .. got - 1 : out'[j] = out[j]
    BY <2>1, YieldStep
  <2>3. got \in Nat
    BY DEF Inv, TypeOK
  <2> QED BY <2>2, <2>3
<1> QED BY <1>1, Invariance, PTL DEF ReadSpec, LoopProgress

-----------------------------------------------------------------------------
(* The handlers implement FileService: Yield is a step of it when try_read *)
(* has all it asked for and a stutter before that.                         *)

(* What a finished request has collected is what the request promises.     *)
LEMMA LastYield ==
  ASSUME SupportedImage, Inv, Yield, req.op = "read", left' = 0
  PROVE  Data(got', out') = Contents(req) /\ ~TouchesUnmapped(req)
<1> DEFINE i == req.inode
<1>1. /\ it < it' /\ it' <= i.size /\ req.off + got' <= it'
      /\ got' \in Nat /\ it' \in Nat
      /\ out' \in [0 .. got' - 1 -> Nat \cup {Zero}]
      /\ \A j \in 0 .. got' - 1 :
           ~Unmapped(i, req.off + j) /\ out'[j] = Home(i, req.off + j)
      /\ ~Unmapped(i, it) /\ got <= got'
      /\ req.size - got' = 0
  BY YieldStep
<1>2. i.size \in Nat /\ req.off \in Nat /\ req.size \in Nat
  BY RequestTypes DEF Inv, Yield, Mapped, More
<1>3. it = req.off + got /\ it \in Nat /\ got \in Nat
  BY DEF Inv, Yield, Mapped, More, Aligned, TypeOK
<1>4. got' = req.size
  <2>1. req.size - got' = 0 /\ got' \in Nat /\ req.size \in Nat
    BY <1>1, <1>2
  <2> QED BY <2>1
<1>5. RangeLen(i, req.off, req.size) = got'
  <2>1. req.off + req.size <= i.size
    BY <1>1, <1>2, <1>4
  <2>2. req.off < i.size
    BY <1>1, <1>2, <1>3
  <2> QED BY <1>2, <1>4, <2>1, <2>2 DEF RangeLen, Lesser
<1>6. out' = RangeBytes(i, req.off, got')
  BY <1>1 DEF RangeBytes
<1>7. ASSUME NEW k \in 0 .. i.size - 1, Unmapped(i, k),
             req.off <= k, k < req.off + req.size \/ k = req.off
      PROVE  FALSE
  <2>1. CASE k < req.off + req.size
    <3>1. k - req.off \in 0 .. got' - 1 /\ req.off + (k - req.off) = k
      BY <1>1, <1>2, <1>4, <1>7, <2>1
    <3> QED BY <1>1, <1>7, <3>1
  <2>2. CASE k = req.off /\ ~(k < req.off + req.size)
    <3>1. it = k
      BY <1>1, <1>2, <1>3, <1>4, <2>2
    <3> QED BY <1>1, <1>7, <3>1
  <2> QED BY <1>7, <2>1, <2>2
<1>8. ~TouchesUnmapped(req)
  BY <1>7 DEF TouchesUnmapped
<1> QED BY <1>5, <1>6, <1>8 DEF Contents

(* A request that exhausts the iterator has collected what it promises.    *)
LEMMA AllYielded ==
  ASSUME Inv, Exhausted
  PROVE  Data(got', out') = Contents(req) /\ ~TouchesUnmapped(req)
<1> DEFINE i == req.inode
<1>1. /\ i.size \in Nat /\ req.off \in Nat /\ req.size \in Nat
      /\ req.op \in {"read", "readlink"} /\ (req.op = "readlink" => req.off = 0)
  BY RequestTypes DEF Inv, Exhausted
<1>2. /\ it = req.off + got /\ (got > 0 => it <= i.size) /\ it >= i.size
      /\ req.op = "read" => left = req.size - got /\ (left = 0 => got = 0)
      /\ left \in Nat /\ got \in Nat /\ out \in [0 .. got - 1 -> Nat \cup {Zero}]
      /\ \A j \in 0 .. got - 1 :
           ~Unmapped(i, req.off + j) /\ out[j] = Home(i, req.off + j)
  BY DEF Inv, Exhausted, Aligned, TypeOK, PrefixExact
<1>3. ASSUME req.op = "read" PROVE Data(got', out') = Contents(req)
  <2>1. got' = got /\ out' = out
    BY <1>3 DEF Exhausted
  <2>2. RangeLen(i, req.off, req.size) = got
    BY <1>1, <1>2, <1>3 DEF RangeLen, Lesser
  <2>3. out = RangeBytes(i, req.off, got)
    BY <1>2 DEF RangeBytes
  <2> QED BY <1>3, <2>1, <2>2, <2>3 DEF Contents
<1>4. ASSUME req.op = "readlink" PROVE Data(got', out') = Contents(req)
  <2>1. /\ got' = got + 1
        /\ out' = [j \in 0 .. got |-> IF j < got THEN out[j] ELSE Zero]
    BY <1>4 DEF Exhausted
  <2>2. got = i.size
    BY <1>1, <1>2, <1>4
  <2>3. out' = LinkBytes(i)
    <3>1. ASSUME NEW j \in 0 .. got
          PROVE  (IF j < got THEN out[j] ELSE Zero)
                   = (IF j < i.size THEN Home(i, j) ELSE Zero)
      <4>1. CASE j < got
        <5>1. j \in 0 .. got - 1 /\ req.off + j = j
          BY <1>1, <1>2, <1>4, <4>1
        <5> QED BY <1>2, <2>2, <4>1, <5>1
      <4>2. CASE ~(j < got)
        BY <2>2, <4>2
      <4> QED BY <4>1, <4>2
    <3> QED BY <2>1, <2>2, <3>1 DEF LinkBytes
  <2> QED BY <1>4, <2>1, <2>2, <2>3 DEF Contents
<1>5. ASSUME NEW k \in 0 .. i.size - 1, Unmapped(i, k), req.op = "read" => req.off <= k
      PROVE  FALSE
  <2>1. req.off <= k
    BY <1>1, <1>5
  <2>2. k < req.off + got
    BY <1>1, <1>2, <1>5
  <2>3. k - req.off \in 0 .. got - 1 /\ req.off + (k - req.off) = k
    BY <1>1, <1>2, <2>1, <2>2
  <2> QED BY <1>2, <1>5, <2>3
<1>6. ~TouchesUnmapped(req)
  BY <1>5 DEF TouchesUnmapped
<1> QED BY <1>1, <1>3, <1>4, <1>6

(* The handlers start where the service starts. *)
LEMMA InitImplements == ReadInit => Init
BY DEF ReadInit

(* Every step of the handlers is a step of the service, or a stutter.      *)
LEMMA StepImplements ==
  ASSUME SupportedImage, Inv, [ReadNext]_allVars
  PROVE  [Next]_vars
<1>1. \A r \in Requests : Request(r) => Ask(r)
  BY DEF Request
<1>2. status \in {"opening", "busy"} => Pending
  BY DEF Inv, TypeOK, Pending
<1>3. CASE Open
  BY <1>3 DEF Open, vars
<1>4. CASE BackendFails
  <2>1. Pending
    BY <1>2, <1>4 DEF BackendFails, Mapped, ReadsTable, More
  <2> QED BY <1>4, <2>1 DEF BackendFails, Return, Refuse, Next
<1>5. CASE Yield
  <2>1. Pending /\ req' = req
    BY <1>2, <1>5 DEF Yield, Mapped, More
  <2>2. CASE req.op = "read" /\ left' = 0
    <3>1. answer' = Contents(req) /\ ~TouchesUnmapped(req)
      BY <1>5, <2>2, LastYield DEF Yield, Return
    <3> QED BY <2>1, <3>1 DEF Deliver, Next
  <2>3. CASE ~(req.op = "read" /\ left' = 0)
    BY <1>5, <2>1, <2>3 DEF Yield, vars
  <2> QED BY <2>2, <2>3
<1>6. CASE Exhausted
  <2>1. Pending /\ req' = req /\ answer' = Data(got', out')
    BY <1>2, <1>6 DEF Exhausted, Return
  <2> QED BY <1>6, <2>1, AllYielded DEF Deliver, Next
<1>7. CASE MapFails
  <2> DEFINE i == req.inode
  <2>1. /\ Pending /\ req' = req /\ answer' = Failure("EUCLEAN")
        /\ it < i.size /\ MapRefused(i, it)
    BY <1>2, <1>7 DEF MapFails, More, Return
  <2>2. /\ i \in Inodes /\ IsInode(i) /\ i.size \in Nat
        /\ req.off \in Nat /\ req.size \in Nat
    BY <1>7, RequestTypes DEF Inv, MapFails, More
  <2>3. /\ it \in Nat /\ got \in Nat /\ it = req.off + got
        /\ req.op = "read" => left = req.size - got /\ (left = 0 => got = 0)
        /\ left \in Nat
    BY <1>7 DEF Inv, MapFails, More, Aligned, TypeOK
  <2>4. Unmapped(i, it)
    BY <2>1, <2>2, <2>3, RefusedUnmapped DEF SupportedImage
  <2>5. it \in 0 .. i.size - 1
    BY <2>1, <2>2, <2>3
  <2>6. req.op = "read" => req.off <= it /\ (it < req.off + req.size \/ it = req.off)
    BY <2>2, <2>3
  <2>7. TouchesUnmapped(req)
    BY <2>4, <2>5, <2>6 DEF TouchesUnmapped
  <2> QED BY <2>1, <2>7 DEF Refuse, Next
<1>8. CASE Panic
  <2>1. Pending
    BY <1>2, <1>8 DEF Panic, More
  <2> QED BY <1>8, <2>1 DEF Panic, More, Return, Crash, Next
<1>9. CASE NextRequest
  BY <1>9 DEF NextRequest, Next
<1>10. CASE UNCHANGED allVars
  BY <1>10 DEF allVars, vars
<1> QED
  BY <1>1, <1>3, <1>4, <1>5, <1>6, <1>7, <1>8, <1>9, <1>10
     DEF ReadNext, Handler, Turn, Next

(* For every block size, every supported image and every request, reading  *)
(* keeps the promise of FileService: exactly the bytes of the range that   *)
(* exist if all are stored, or ERANGE, or EUCLEAN if one is not.           *)
THEOREM ReadImplementsService ==
  ASSUME SupportedImage
  PROVE  ReadSpec => ImplementsFileService
<1>1. ReadInit => Init
  BY InitImplements
<1>2. Inv /\ [ReadNext]_allVars => [Next]_vars
  BY StepImplements
<1> QED BY <1>1, <1>2, Invariance, PTL DEF ReadSpec, ImplementsFileService, Spec
=============================================================================
