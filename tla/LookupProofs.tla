---------------------------- MODULE LookupProofs ----------------------------
(***************************************************************************)
(* What a lookup answers, for every block size, every tree of directories  *)
(* and every path.                                                         *)
(***************************************************************************)
EXTENDS Lookup, LayoutProofs

-----------------------------------------------------------------------------
(* Walks: where a path leads from an inode is where the rest of it leads   *)
(* from the inode its first component names.                               *)

LEMMA StepTypes ==
  ASSUME NEW n \in Nids, NEW part
  PROVE  Step(n, part) \subseteq Nids
BY LookupAssumption DEF Step

LEMMA ResolvedEmpty ==
  ASSUME NEW n \in Nids
  PROVE  Resolved(n, <<>>) = {n}
<1>1. Len(<<>>) = 0 /\ 0 .. 0 = {0} /\ 1 .. 0 = {}
  OBVIOUS
<1>2. \A w \in Walks(n, <<>>) : w[0] = n
  BY DEF Walks
<1> DEFINE w0 == [k \in 0 .. 0 |-> n]
<1>3. w0 \in Walks(n, <<>>) /\ w0[0] = n
  BY <1>1 DEF Walks
<1> HIDE DEF w0
<1> QED BY <1>1, <1>2, <1>3 DEF Resolved

LEMMA TailParts ==
  ASSUME NEW p \in Seq(STRING), p # <<>>
  PROVE  /\ Len(p) \in Nat \ {0} /\ Head(p) = p[1] /\ Tail(p) \in Seq(STRING)
         /\ Len(Tail(p)) = Len(p) - 1
         /\ \A k \in 1 .. Len(p) - 1 : Tail(p)[k] = p[k + 1]
OBVIOUS

LEMMA ResolvedStep ==
  ASSUME NEW n \in Nids, NEW p \in Seq(STRING), p # <<>>
  PROVE  \A x : x \in Resolved(n, p)
                  <=> \E m \in Step(n, Head(p)) : x \in Resolved(m, Tail(p))
<1> DEFINE L == Len(p)
           t == Tail(p)
<1>1. /\ L \in Nat \ {0} /\ Head(p) = p[1] /\ Len(t) = L - 1
      /\ \A k \in 1 .. L - 1 : t[k] = p[k + 1]
  BY TailParts
<1> HIDE DEF L, t
<1>2. ASSUME NEW w \in Walks(n, p)
      PROVE  \E m \in Step(n, p[1]) : w[L] \in Resolved(m, t)
  <2> DEFINE v == [k \in 0 .. L - 1 |-> w[k + 1]]
  <2>1. /\ w \in [0 .. L -> Nids] /\ w[0] = n
        /\ \A k \in 1 .. L : w[k] \in Step(w[k - 1], p[k])
    BY DEF Walks, L
  <2>2. w[1] \in Step(n, p[1])
    BY <1>1, <2>1
  <2>3. v \in [0 .. Len(t) -> Nids] /\ v[0] = w[1] /\ v[Len(t)] = w[L]
    BY <1>1, <2>1
  <2>4. ASSUME NEW k \in 1 .. Len(t) PROVE v[k] \in Step(v[k - 1], t[k])
    <3>1. k + 1 \in 1 .. L /\ (k + 1) - 1 = k /\ k - 1 \in 0 .. L - 1 /\ k \in 0 .. L - 1
            /\ k \in 1 .. L - 1
      BY <1>1
    <3>2. v[k] = w[k + 1] /\ v[k - 1] = w[k] /\ t[k] = p[k + 1]
      BY <1>1, <3>1
    <3>3. w[k + 1] \in Step(w[k], p[k + 1])
      BY <2>1, <3>1
    <3> QED BY <3>2, <3>3
  <2> HIDE DEF v
  <2>5. v \in Walks(w[1], t)
    BY <2>3, <2>4 DEF Walks
  <2> QED BY <2>2, <2>3, <2>5 DEF Resolved
<1>3. ASSUME NEW m \in Step(n, p[1]), NEW v \in Walks(m, t)
      PROVE  v[Len(t)] \in Resolved(n, p)
  <2> DEFINE w == [k \in 0 .. L |-> IF k = 0 THEN n ELSE v[k - 1]]
  <2>1. /\ v \in [0 .. L - 1 -> Nids] /\ v[0] = m
        /\ \A k \in 1 .. L - 1 : v[k] \in Step(v[k - 1], t[k])
    BY <1>1 DEF Walks
  <2>2. w \in [0 .. L -> Nids] /\ w[0] = n /\ w[L] = v[Len(t)]
    BY <1>1, <2>1
  <2>3. ASSUME NEW k \in 1 .. L PROVE w[k] \in Step(w[k - 1], p[k])
    <3>1. CASE k = 1
      <4>1. w[1] = v[0] /\ w[0] = n /\ 1 - 1 = 0
        BY <1>1
      <4> HIDE DEF w
      <4> QED BY <2>1, <3>1, <4>1
    <3>2. CASE k # 1
      <4>1. /\ k - 1 \in 1 .. L - 1 /\ (k - 1) + 1 = k /\ (k - 1) - 1 \in 0 .. L - 1
            /\ k - 1 \in 0 .. L /\ k \in 0 .. L /\ k # 0 /\ k - 1 # 0
        BY <1>1, <3>2
      <4>2. w[k] = v[k - 1] /\ w[k - 1] = v[(k - 1) - 1] /\ t[k - 1] = p[k]
        BY <1>1, <4>1
      <4>3. v[k - 1] \in Step(v[(k - 1) - 1], t[k - 1])
        BY <2>1, <4>1
      <4> QED BY <4>2, <4>3
    <3> QED BY <3>1, <3>2
  <2> HIDE DEF w
  <2>4. w \in Walks(n, p)
    BY <2>2, <2>3 DEF Walks, L
  <2> QED BY <2>2, <2>4 DEF Resolved, L
<1> QED BY <1>1, <1>2, <1>3 DEF Resolved, L, t

LEMMA FirstOfPath ==
  ASSUME NEW p \in Seq(STRING), NEW k \in 1 .. Len(p) - 1
  PROVE  /\ SubSeq(p, 1, k) \in Seq(STRING) /\ SubSeq(p, 1, k) # <<>>
         /\ Head(SubSeq(p, 1, k)) = Head(p)
         /\ Tail(SubSeq(p, 1, k)) = SubSeq(Tail(p), 1, k - 1)
OBVIOUS

LEMMA AskableStep ==
  ASSUME NEW n \in Nids, NEW p \in Seq(STRING), p # <<>>, Askable(n, p),
         NEW m \in Step(n, Head(p))
  PROVE  Askable(m, Tail(p))
<1> DEFINE t == Tail(p)
<1>1. /\ Len(p) \in Nat \ {0} /\ t \in Seq(STRING) /\ Len(t) = Len(p) - 1
      /\ \A k \in 1 .. Len(p) - 1 : t[k] = p[k + 1]
  BY TailParts
<1> SUFFICES ASSUME NEW k \in 1 .. Len(t), t[k] # Blank,
                    NEW x \in Resolved(m, SubSeq(t, 1, k - 1))
             PROVE  x \in DOMAIN Tree
  BY DEF Askable
<1>2. k \in 1 .. Len(p) - 1 /\ k + 1 \in 1 .. Len(p) /\ (k + 1) - 1 = k /\ p[k + 1] # Blank
  BY <1>1
<1>3. Resolved(n, SubSeq(p, 1, k)) \subseteq DOMAIN Tree
  BY <1>2 DEF Askable
<1>4. x \in Resolved(n, SubSeq(p, 1, k))
  BY <1>2, FirstOfPath, ResolvedStep
<1> QED BY <1>3, <1>4

(* A component that follows an inode of an askable path is looked for in a *)
(* directory.                                                              *)
LEMMA AskableDirectory ==
  ASSUME NEW n \in Nids, NEW p \in Seq(STRING), p # <<>>, Head(p) # Blank, Askable(n, p)
  PROVE  n \in DOMAIN Tree
<1>1. 1 \in 1 .. Len(p) /\ p[1] # Blank /\ SubSeq(p, 1, 1 - 1) = <<>>
  BY TailParts
<1> QED BY <1>1, ResolvedEmpty DEF Askable

(* A step of the walk whose component leads to one inode, and to none. *)
LEMMA ResolvedOne ==
  ASSUME NEW n \in Nids, NEW p \in Seq(STRING), p # <<>>, NEW m, Step(n, Head(p)) = {m}
  PROVE  Resolved(n, p) = Resolved(m, Tail(p))
BY ResolvedStep

LEMMA ResolvedNone ==
  ASSUME NEW n \in Nids, NEW p \in Seq(STRING), p # <<>>, Step(n, Head(p)) = {}
  PROVE  Resolved(n, p) = {}
BY ResolvedStep

-----------------------------------------------------------------------------
(* The invariant.  The buffer in hand is the block of the directory that   *)
(* ends where the iterator has come to, and `idx` stays in it; the         *)
(* components left can still be asked for.                                 *)

Buffered ==
  \/ it = 0 /\ buf = 0 /\ idx = 0
  \/ /\ Whole(buf, BlkSz)
     /\ it = Lesser(buf + BlkSz, Dir.inode.size)
     /\ idx \in 0 .. Total(Dir, Blk)

Inv ==
  /\ TypeOK
  /\ path \in Seq(STRING) /\ rest \in Seq(STRING)
  /\ status \in {"walking", "searching"} =>
       Askable(nid, rest) /\ Resolved(nid, rest) = Resolved(from, path)
  /\ status = "searching" => Head(rest) # Blank /\ Buffered
  /\ FoundExact

(* Answers of different kinds differ. *)
LEMMA AnswerKinds ==
  /\ None.kind = "none"
  /\ \A n : Found(n).kind = "found" /\ Found(n).nid = n /\ Found(n) # None
  /\ \A e : Failed(e).kind = "error" /\ Failed(e) # None
<1>1. /\ None.kind = "none" /\ \A e : Failed(e).kind = "error"
      /\ \A n : Found(n).kind = "found" /\ Found(n).nid = n
  BY DEF None, Found, Failed
<1> QED BY <1>1

(* The directory a search is in, and its block in hand. *)
LEMMA SearchTypes ==
  ASSUME TypeOK, status = "searching"
  PROVE  /\ nid \in DOMAIN Tree /\ nid \in Nids /\ WellStored(Dir)
         /\ Dir.child \in [NamesOf(Dir) -> Nids]
         /\ BlkSz \in Nat \ {0} /\ Dir.inode.size \in Nat \ {0}
         /\ it \in 0 .. Dir.inode.size /\ buf \in 0 .. Dir.inode.size - 1
         /\ Blk \in 0 .. Len(Dir.blocks) - 1 /\ Total(Dir, Blk) \in Nat
<1>1. nid \in DOMAIN Tree /\ it \in 0 .. Dir.inode.size /\ buf \in 0 .. Dir.inode.size - 1
  BY DEF TypeOK
<1>2. WellStored(Dir) /\ Dir.child \in [NamesOf(Dir) -> Nids]
  BY <1>1, LookupAssumption DEF Dir
<1> QED BY <1>1, <1>2, BlockTypes DEF Blk, Nids

LEMMA EntryIsName ==
  ASSUME NEW d, NEW b \in 0 .. Len(d.blocks) - 1, NEW k \in 0 .. Total(d, b) - 1
  PROVE  Entry(d, b, k) \in NamesOf(d)
<1> DEFINE Of(c) == {Entry(d, c, j) : j \in 0 .. Total(d, c) - 1}
<1>1. Entry(d, b, k) \in Of(b)
  OBVIOUS
<1> HIDE DEF Of
<1>2. Entry(d, b, k) \in UNION {Of(c) : c \in 0 .. Len(d.blocks) - 1}
  BY <1>1
<1> QED BY <1>2 DEF NamesOf, Of

(* The entry in hand is one of the directory's names. *)
LEMMA EntryNamed ==
  ASSUME TypeOK, status = "searching", Buffered, InHand
  PROVE  /\ idx \in 0 .. Total(Dir, Blk) - 1
         /\ Entry(Dir, Blk, idx) \in NamesOf(Dir)
         /\ Dir.child[Entry(Dir, Blk, idx)] \in Nids
<1>1. /\ Blk \in 0 .. Len(Dir.blocks) - 1 /\ Total(Dir, Blk) \in Nat
      /\ Dir.child \in [NamesOf(Dir) -> Nids]
  BY SearchTypes
<1>2. idx \in 0 .. Total(Dir, Blk) - 1
  BY <1>1 DEF Buffered, InHand
<1>3. Entry(Dir, Blk, idx) \in NamesOf(Dir)
  BY <1>1, <1>2, EntryIsName
<1> QED BY <1>1, <1>2, <1>3

(* The next buffer is the next block. *)
LEMMA BufferNext ==
  ASSUME Inv, NextBuffer
  PROVE  /\ buf' = it /\ idx' = 0 /\ it < Dir.inode.size
         /\ Whole(it, BlkSz)
         /\ it' = Lesser(it + BlkSz, Dir.inode.size) /\ it' > 0
         /\ it # 0 => it = buf + BlkSz
<1>1. /\ status = "searching" /\ it < Dir.inode.size /\ ~MapRefused(Dir.inode, it)
      /\ buf' = it /\ idx' = 0 /\ it' = it + Advance(Extent(Dir.inode, it))
  BY DEF NextBuffer
<1>2. /\ WellStored(Dir) /\ BlkSz \in Nat \ {0} /\ Dir.inode.size \in Nat \ {0}
      /\ it \in Nat /\ buf \in Nat
  BY <1>1, SearchTypes DEF Inv
<1>3. Buffered
  BY <1>1 DEF Inv
<1>4. it # 0 => it = buf + BlkSz
  BY <1>1, <1>2, <1>3 DEF Buffered, Lesser
<1>5. Whole(it, BlkSz)
  <2>1. CASE it = 0
    BY <1>2, <2>1 DEF Whole
  <2>2. CASE it # 0
    <3>1. Whole(buf, BlkSz)
      BY <1>3, <2>2 DEF Buffered
    <3>2. Whole(BlkSz, BlkSz)
      <4>1. BlkSz = BlkSz * 1 /\ 1 \in Nat
        BY <1>2
      <4> QED BY <4>1, Zenon DEF Whole
    <3> QED BY <1>2, <1>4, <2>2, <3>1, <3>2, WholeSum
  <2> QED BY <2>1, <2>2
<1>6. BlockOf(Dir.inode, it)
  BY <1>1, <1>2, <1>5, BlockStep
<1>7. it' = Lesser(it + BlkSz, Dir.inode.size)
  BY <1>1, <1>6 DEF BlockOf
<1>8. it' > 0
  BY <1>2, <1>7 DEF Lesser
<1> QED BY <1>1, <1>4, <1>5, <1>7, <1>8

(* A blank component leads nowhere else, the name of an entry to its       *)
(* inode.                                                                  *)
LEMMA BlankStep ==
  ASSUME NEW n
  PROVE  Step(n, Blank) = {n}
BY DEF Step

LEMMA EntryStep ==
  ASSUME NEW n \in DOMAIN Tree, NEW part, part # Blank
  PROVE  Step(n, part) = IF part \in NamesOf(Tree[n]) THEN {Tree[n].child[part]} ELSE {}
<1>1. DOMAIN Tree[n].child = NamesOf(Tree[n])
  BY LookupAssumption
<1> QED BY <1>1 DEF Step

LEMMA InvInit == Init => Inv
<1> SUFFICES ASSUME Init PROVE Inv
  OBVIOUS
<1>1. path \in Seq(STRING) /\ rest \in Seq(STRING) /\ Len(rest) = 0 /\ Len(path) = 0
  BY DEF Init
<1>2. TypeOK
  BY <1>1 DEF Init, TypeOK, Nids
<1>3. FoundExact
  BY AnswerKinds DEF Init, FoundExact
<1> QED BY <1>1, <1>2, <1>3 DEF Init, Inv

(* Steps that end the call with an error, or leave the walk alone. *)
Failures == {"ERANGE", "EUCLEAN", "ENOENT"}

LEMMA InvFailed ==
  ASSUME Inv, status \in {"walking", "searching"},
         NEW e \in Failures, Return(Failed(e)),
         UNCHANGED <<call, nid, rest, scan, collection>>
  PROVE  Inv'
<1>1. /\ status' = "done" /\ answer' = Failed(e) /\ answer' # None /\ answer'.kind = "error"
      /\ from' = from /\ path' = path /\ nid' = nid /\ rest' = rest
      /\ collection' = collection
  BY AnswerKinds DEF Return, call
<1>2. TypeOK'
  BY <1>1 DEF Inv, TypeOK, Failures
<1>3. FoundExact'
  BY <1>1 DEF FoundExact
<1> QED BY <1>1, <1>2, <1>3 DEF Inv

LEMMA InvCall ==
  ASSUME Inv, NEW n \in DOMAIN Tree, NEW p \in Paths, Call(n, p)
  PROVE  Inv'
<1>1. /\ from' = n /\ path' = p /\ nid' = n /\ rest' = p /\ status' = "walking"
      /\ answer' = None /\ collection' = collection /\ Askable(n, p)
  BY DEF Call
<1>2. p \in Seq(STRING) /\ n \in Nids
  BY LookupAssumption DEF Nids
<1>3. TypeOK'
  BY <1>1, <1>2, AnswerKinds DEF Inv, TypeOK
<1>4. FoundExact' /\ Askable(nid', rest') /\ Resolved(nid', rest') = Resolved(from', path')
  BY <1>1, AnswerKinds DEF FoundExact
<1> QED BY <1>1, <1>2, <1>3, <1>4 DEF Inv

(* The walk goes on at the inode a component names. *)
LEMMA InvOnward ==
  ASSUME Inv, status \in {"walking", "searching"}, rest # <<>>,
         Step(nid, Head(rest)) = {nid'},
         rest' = Tail(rest), status' = "walking",
         UNCHANGED <<call, scan, collection, answer>>
  PROVE  Inv'
<1>1. /\ nid \in Nids /\ rest \in Seq(STRING) /\ Askable(nid, rest)
      /\ Resolved(nid, rest) = Resolved(from, path)
      /\ from' = from /\ path' = path /\ collection' = collection /\ answer' = answer
  BY DEF Inv, TypeOK, call
<1>2. nid' \in Nids
  BY <1>1, StepTypes
<1>3. rest' \in Seq(STRING) /\ Len(rest') <= Len(path)
  BY <1>1, TailParts DEF Inv, TypeOK
<1>4. Askable(nid', rest')
  BY <1>1, AskableStep
<1>5. Resolved(nid', rest') = Resolved(from', path')
  BY <1>1, ResolvedOne
<1>6. TypeOK'
  BY <1>1, <1>2, <1>3 DEF Inv, TypeOK
<1>7. FoundExact'
  BY <1>1 DEF Inv, FoundExact
<1> QED BY <1>1, <1>3, <1>4, <1>5, <1>6, <1>7 DEF Inv

LEMMA InvNext == Inv /\ [Next]_vars => Inv'
<1> SUFFICES ASSUME Inv, [Next]_vars PROVE Inv'
  OBVIOUS
<1>1. ASSUME NEW n \in DOMAIN Tree, NEW p \in Paths, Call(n, p) PROVE Inv'
  BY <1>1, InvCall
<1>2. ASSUME NEW n \in Nids, Release(n) PROVE Inv'
  BY <1>2 DEF Release, scan, call, Inv, TypeOK, FoundExact
<1>3. CASE SkipBlank
  <2>1. /\ status = "walking" /\ rest # <<>> /\ rest' = Tail(rest) /\ status' = "walking"
        /\ nid' = nid /\ UNCHANGED <<call, scan, collection, answer>>
    BY <1>3 DEF SkipBlank
  <2>2. Step(nid, Head(rest)) = {nid'}
    BY <1>3, <2>1, BlankStep DEF SkipBlank
  <2> QED BY <2>1, <2>2, InvOnward
<1>4. CASE EnterDirectory
  <2>1. /\ status = "walking" /\ rest # <<>> /\ Head(rest) # Blank /\ status' = "searching"
        /\ it' = 0 /\ buf' = 0 /\ idx' = 0 /\ collection' = collection \cup {nid}
        /\ from' = from /\ path' = path /\ nid' = nid /\ rest' = rest /\ answer' = answer
    BY <1>4 DEF EnterDirectory, call
  <2>2. nid \in Nids /\ rest \in Seq(STRING) /\ Askable(nid, rest)
    BY <2>1 DEF Inv, TypeOK
  <2>3. nid \in DOMAIN Tree
    BY <2>1, <2>2, AskableDirectory
  <2>4. Dir.inode.size \in Nat \ {0}
    BY <2>3, BlockTypes, LookupAssumption DEF Dir
  <2>5. Dir' = Dir
    BY <2>1 DEF Dir
  <2>6. TypeOK'
    BY <2>1, <2>3, <2>4, <2>5 DEF Inv, TypeOK
  <2> QED BY <2>1, <2>6 DEF Inv, Buffered, FoundExact
<1>5. CASE Finish
  <2>1. /\ status = "walking" /\ rest = <<>> /\ collection' = collection \cup {nid}
        /\ status' = "done" /\ answer' = Found(nid) /\ answer' # None /\ answer'.nid = nid
        /\ from' = from /\ path' = path /\ nid' = nid /\ rest' = rest
    BY <1>5, AnswerKinds DEF Finish, Return, call
  <2>2. nid \in Nids /\ Resolved(from, path) = {nid}
    BY <2>1, ResolvedEmpty DEF Inv, TypeOK
  <2>3. TypeOK'
    BY <2>1, <2>2 DEF Inv, TypeOK
  <2>4. FoundExact'
    BY <2>1, <2>2 DEF FoundExact
  <2> QED BY <2>1, <2>3, <2>4 DEF Inv
<1>6. CASE NextBuffer
  <2>1. /\ status = "searching" /\ status' = "searching" /\ nid' = nid /\ rest' = rest
        /\ from' = from /\ path' = path /\ collection' = collection /\ answer' = answer
    BY <1>6 DEF NextBuffer, call
  <2>2. /\ buf' = it /\ idx' = 0 /\ it < Dir.inode.size /\ Whole(it, BlkSz)
        /\ it' = Lesser(it + BlkSz, Dir.inode.size)
    BY <1>6, BufferNext
  <2>3. /\ nid \in DOMAIN Tree /\ WellStored(Dir) /\ BlkSz \in Nat \ {0}
        /\ Dir.inode.size \in Nat \ {0} /\ it \in Nat
    BY <2>1, SearchTypes DEF Inv
  <2>4. it' \in 0 .. Dir.inode.size /\ buf' \in 0 .. Dir.inode.size - 1
    BY <2>2, <2>3 DEF Lesser
  <2>5. Dir' = Dir /\ Blk' = it \div BlkSz
    BY <2>1, <2>2 DEF Dir, Blk
  <2>6. Total(Dir', Blk') \in Nat
    BY <2>2, <2>3, <2>4, <2>5, BlockTypes
  <2>7. Buffered'
    BY <2>2, <2>5, <2>6 DEF Buffered
  <2>8. TypeOK'
    BY <2>1, <2>4, <2>5 DEF Inv, TypeOK
  <2> QED BY <2>1, <2>7, <2>8 DEF Inv, FoundExact
<1>7. CASE Match
  <2>1. /\ status = "searching" /\ InHand /\ rest' = Tail(rest) /\ status' = "walking"
        /\ nid' = Dir.child[Entry(Dir, Blk, idx)]
        /\ UNCHANGED <<call, scan, collection, answer>>
    BY <1>7 DEF Match
  <2>2. Head(rest) = Entry(Dir, Blk, idx)
    BY <1>7 DEF Match, Matches, Dirname
  <2>3. Head(rest) # Blank /\ rest # <<>> /\ nid \in DOMAIN Tree
    BY <2>1 DEF Inv, TypeOK
  <2>4. Entry(Dir, Blk, idx) \in NamesOf(Dir)
    BY <2>1, EntryNamed DEF Inv
  <2>5. Step(nid, Head(rest)) = {nid'}
    BY <2>1, <2>2, <2>3, <2>4, EntryStep DEF Dir
  <2> QED BY <2>1, <2>3, <2>5, InvOnward
<1>8. CASE NoMatch
  <2>1. /\ status = "searching" /\ InHand /\ idx' = idx + 1 /\ status' = status
        /\ nid' = nid /\ rest' = rest /\ it' = it /\ buf' = buf
        /\ from' = from /\ path' = path /\ collection' = collection /\ answer' = answer
    BY <1>8 DEF NoMatch, call
  <2>2. idx \in 0 .. Total(Dir, Blk) - 1 /\ Total(Dir, Blk) \in Nat
    BY <2>1, EntryNamed, SearchTypes DEF Inv
  <2>3. Dir' = Dir /\ Blk' = Blk
    BY <2>1 DEF Dir, Blk
  <2>4. it > 0
    BY <2>1 DEF InHand
  <2>5. Buffered'
    BY <2>1, <2>2, <2>3, <2>4 DEF Inv, Buffered
  <2>6. TypeOK'
    BY <2>1, <2>3 DEF Inv, TypeOK
  <2> QED BY <2>1, <2>5, <2>6 DEF Inv, FoundExact
<1>9. CASE LoadFails \/ BufferFails
  <2>1. "ERANGE" \in Failures
    BY DEF Failures
  <2> QED BY <1>9, <2>1, InvFailed DEF LoadFails, BufferFails
<1>10. CASE MapFails
  <2>1. "EUCLEAN" \in Failures
    BY DEF Failures
  <2> QED BY <1>10, <2>1, InvFailed DEF MapFails
<1>11. CASE NotFound
  <2>1. "ENOENT" \in Failures
    BY DEF Failures
  <2> QED BY <1>11, <2>1, InvFailed DEF NotFound
<1>12. CASE UNCHANGED vars
  <2>1. Dir' = Dir /\ Blk' = Blk
    BY <1>12 DEF vars, scan, Dir, Blk
  <2> QED BY <1>12, <2>1 DEF vars, scan, call, Inv, TypeOK, Buffered, FoundExact
<1> QED BY <1>1, <1>2, <1>3, <1>4, <1>5, <1>6, <1>7, <1>8, <1>9, <1>10, <1>11, <1>12
        DEF Next, Walk

LEMMA InvInvariance == Spec => []Inv
<1> QED BY InvInit, InvNext, PTL DEF Spec

(* The variables keep their types: a search is always in a directory of    *)
(* the tree and inside its data, whatever walk came before it.             *)
THEOREM TypeCorrect == Spec => []TypeOK
<1>1. Inv => TypeOK
  BY DEF Inv
<1> QED BY <1>1, InvInvariance, PTL

(* At every step of a lookup the components left lead from the inode it    *)
(* has come to where the whole path leads.                                 *)
THEOREM PathCorrect == Spec => []OnThePath
<1>1. Inv => OnThePath
  BY DEF Inv, OnThePath
<1> QED BY <1>1, InvInvariance, PTL

(* An inode a lookup answers is the one its path leads to.                 *)
THEOREM FoundCorrect == Spec => []FoundExact
<1>1. Inv => FoundExact
  BY DEF Inv
<1> QED BY <1>1, InvInvariance, PTL

-----------------------------------------------------------------------------
(* Images whose blocks have no padding behind the last name: that name is  *)
(* as long as the rest of the buffer (dir.rs:66-72), and find_nid does not *)
(* find it in a block that is padded.                                      *)
Unpadded ==
  \A n \in DOMAIN Tree : \A b \in 1 .. Len(Tree[n].blocks) : ~Tree[n].blocks[b].pad

(* No entry a search has passed is the one it looks for.                   *)
Passed ==
  it > 0 =>
    \A b \in 0 .. Len(Dir.blocks) - 1 : \A k \in 0 .. Total(Dir, b) - 1 :
      b < Blk \/ (b = Blk /\ k < idx) => Entry(Dir, b, k) # Head(rest)

Exact ==
  /\ Inv /\ LookupExact
  /\ status = "searching" => Passed

LEMMA FailedInjective == \A e, f : Failed(e) = Failed(f) => e = f
<1>1. \A e : Failed(e).errno = e
  BY DEF Failed
<1> QED BY <1>1

(* Without padding the entry in hand matches when it is the component.     *)
LEMMA MatchesName ==
  ASSUME Unpadded, Inv, status = "searching", InHand
  PROVE  Matches(Dirname(Dir, Blk, idx)) <=> Entry(Dir, Blk, idx) = Head(rest)
<1>1. nid \in DOMAIN Tree /\ Blk \in 0 .. Len(Dir.blocks) - 1 /\ Len(Dir.blocks) \in Nat
  <2>1. nid \in DOMAIN Tree /\ WellStored(Dir) /\ Blk \in 0 .. Len(Dir.blocks) - 1
    BY SearchTypes DEF Inv
  <2> QED BY <2>1, BlockShape
<1>2. ~Dir.blocks[Blk + 1].pad
  BY <1>1 DEF Unpadded, Dir
<1>3. Dirname(Dir, Blk, idx) = [name |-> Entry(Dir, Blk, idx), padded |-> FALSE]
  BY <1>2 DEF Dirname
<1>4. \A e, f : [name |-> e, padded |-> FALSE] = [name |-> f, padded |-> FALSE] <=> e = f
  <2>1. \A e : [name |-> e, padded |-> FALSE].name = e
    OBVIOUS
  <2> QED BY <2>1
<1> QED BY <1>3, <1>4, Zenon DEF Matches

(* The buffer in hand starts its block. *)
LEMMA BufferStart ==
  ASSUME Inv, status = "searching", it > 0
  PROVE  /\ Blk \in Nat /\ BlkSz \in Nat \ {0} /\ buf = BlkSz * Blk
         /\ it = Lesser(buf + BlkSz, Dir.inode.size) /\ buf < Dir.inode.size
<1>1. /\ BlkSz \in Nat \ {0} /\ Dir.inode.size \in Nat \ {0}
      /\ buf \in 0 .. Dir.inode.size - 1
  BY SearchTypes DEF Inv
<1>2. Whole(buf, BlkSz) /\ it = Lesser(buf + BlkSz, Dir.inode.size)
  BY <1>1 DEF Inv, Buffered
<1>3. PICK q \in Nat : buf = BlkSz * q
  BY <1>2 DEF Whole
<1>4. q \in Int /\ 0 \in 0 .. BlkSz - 1 /\ buf = (BlkSz * q) + 0 /\ buf \in Nat
  BY <1>1, <1>3
<1>5. q = buf \div BlkSz
  BY <1>1, <1>4, DivModUnique
<1> QED BY <1>1, <1>2, <1>3, <1>5 DEF Blk

(* A buffer without an entry to come was passed whole. *)
LEMMA BufferPassed ==
  ASSUME Inv, status = "searching", it > 0, ~InHand, Passed
  PROVE  \A b \in 0 .. Len(Dir.blocks) - 1 : \A k \in 0 .. Total(Dir, b) - 1 :
           b <= Blk => Entry(Dir, b, k) # Head(rest)
<1>1. Blk \in Nat /\ Total(Dir, Blk) \in Nat
  BY BufferStart, SearchTypes DEF Inv
<1>2. idx = Total(Dir, Blk)
  BY <1>1 DEF Inv, Buffered, InHand
<1> SUFFICES ASSUME NEW b \in 0 .. Len(Dir.blocks) - 1, NEW k \in 0 .. Total(Dir, b) - 1,
                    b <= Blk
             PROVE  Entry(Dir, b, k) # Head(rest)
  OBVIOUS
<1>3. b < Blk \/ (b = Blk /\ k < idx)
  <2>1. CASE b = Blk
    BY <1>1, <1>2, <2>1
  <2>2. CASE b # Blk
    <3>1. b \in Int
      OBVIOUS
    <3> QED BY <1>1, <2>2, <3>1
  <2> QED BY <2>1, <2>2
<1> QED BY <1>3 DEF Passed

LEMMA NextBufferPassed ==
  ASSUME Exact, NextBuffer
  PROVE  Passed'
<1>1. /\ status = "searching" /\ ~InHand /\ nid' = nid /\ rest' = rest
      /\ buf' = it /\ idx' = 0 /\ Inv /\ (it # 0 => it = buf + BlkSz)
  BY BufferNext DEF Exact, NextBuffer
<1>2. Dir' = Dir /\ Blk' = it \div BlkSz
  BY <1>1 DEF Dir, Blk
<1>3. it \in Nat /\ BlkSz \in Nat \ {0}
  BY <1>1, SearchTypes DEF Inv
<1> SUFFICES ASSUME NEW b \in 0 .. Len(Dir.blocks) - 1, NEW k \in 0 .. Total(Dir, b) - 1,
                    b < it \div BlkSz
             PROVE  Entry(Dir, b, k) # Head(rest)
  BY <1>1, <1>2 DEF Passed
<1>4. it > 0
  <2>1. 0 \div BlkSz = 0
    BY <1>3
  <2> QED BY <1>3, <2>1
<1>5. Blk \in Nat /\ buf = BlkSz * Blk
  BY <1>1, <1>4, BufferStart
<1> DEFINE c == Blk
<1> HIDE DEF c
<1>6. c \in Nat /\ it = (BlkSz * (c + 1)) + 0
  BY <1>1, <1>3, <1>4, <1>5 DEF c
<1>7. c + 1 \in Int /\ 0 \in 0 .. BlkSz - 1
  BY <1>3, <1>6
<1>8. it \div BlkSz = c + 1
  BY <1>3, <1>6, <1>7, DivModUnique
<1>9. b <= Blk
  <2>1. b \in Int
    OBVIOUS
  <2> QED BY <1>6, <1>8, <2>1 DEF c
<1> QED BY <1>1, <1>4, <1>9, BufferPassed DEF Exact

LEMMA NoMatchPassed ==
  ASSUME Unpadded, Exact, NoMatch
  PROVE  Passed'
<1>1. /\ status = "searching" /\ InHand /\ ~Matches(Dirname(Dir, Blk, idx)) /\ idx' = idx + 1
      /\ nid' = nid /\ rest' = rest /\ it' = it /\ buf' = buf
  BY DEF NoMatch
<1>2. Dir' = Dir /\ Blk' = Blk /\ Inv /\ Passed /\ it > 0
  BY <1>1 DEF Dir, Blk, Exact, InHand
<1>3. Entry(Dir, Blk, idx) # Head(rest)
  BY <1>1, <1>2, MatchesName
<1>4. idx \in Nat
  BY <1>1, <1>2, EntryNamed DEF Inv
<1> SUFFICES ASSUME NEW b \in 0 .. Len(Dir.blocks) - 1, NEW k \in 0 .. Total(Dir, b) - 1,
                    b < Blk \/ (b = Blk /\ k < idx + 1)
             PROVE  Entry(Dir, b, k) # Head(rest)
  BY <1>1, <1>2 DEF Passed
<1>5. CASE b = Blk /\ k = idx
  BY <1>3, <1>5
<1>6. CASE b < Blk \/ (b = Blk /\ k < idx)
  BY <1>2, <1>6 DEF Passed
<1>7. k \in Int
  OBVIOUS
<1> QED BY <1>4, <1>5, <1>6, <1>7

(* The component is in none of the directory's blocks. *)
LEMMA NotFoundMissing ==
  ASSUME Exact, NotFound
  PROVE  Resolved(from, path) = {}
<1>1. status = "searching" /\ ~InHand /\ it >= Dir.inode.size /\ Inv /\ Passed
  BY DEF NotFound, Exact
<1>2. /\ nid \in DOMAIN Tree /\ nid \in Nids /\ WellStored(Dir)
      /\ Dir.inode.size \in Nat \ {0} /\ it \in 0 .. Dir.inode.size
  BY <1>1, SearchTypes DEF Inv
<1>3. /\ it > 0 /\ Blk \in Nat /\ BlkSz \in Nat \ {0} /\ buf = BlkSz * Blk
      /\ it = Lesser(buf + BlkSz, Dir.inode.size) /\ buf < Dir.inode.size
  BY <1>1, <1>2, BufferStart
<1> DEFINE c == Blk
<1>4. c + 1 = Len(Dir.blocks)
  <2>1. Dir.inode.size <= buf + BlkSz
    BY <1>1, <1>2, <1>3 DEF Lesser
  <2>2. BlkSz * c < Dir.inode.size /\ Dir.inode.size <= (BlkSz * c) + BlkSz /\ c \in Nat
    BY <1>3, <2>1
  <2> HIDE DEF c
  <2> QED BY <1>2, <2>2, EndBlock
<1>5. ASSUME NEW b \in 0 .. Len(Dir.blocks) - 1, NEW k \in 0 .. Total(Dir, b) - 1
      PROVE  Entry(Dir, b, k) # Head(rest)
  <2>1. b <= Blk
    BY <1>3, <1>4
  <2> QED BY <1>1, <1>3, <2>1, BufferPassed
<1>6. Head(rest) \notin NamesOf(Dir)
  BY <1>5 DEF NamesOf
<1>7. /\ rest \in Seq(STRING) /\ rest # <<>> /\ Head(rest) # Blank
      /\ Resolved(nid, rest) = Resolved(from, path)
  BY <1>1 DEF Inv, TypeOK
<1>8. Step(nid, Head(rest)) = {}
  BY <1>2, <1>6, <1>7, EntryStep DEF Dir
<1> QED BY <1>2, <1>7, <1>8, ResolvedNone

LEMMA ExactInvariance == Unpadded => (Spec => []Exact)
<1> SUFFICES ASSUME Unpadded PROVE Spec => []Exact
  OBVIOUS
<1>1. ASSUME Init PROVE Exact
  <2>1. Inv /\ status = "idle" /\ answer = None
    BY <1>1, InvInit DEF Init
  <2> QED BY <2>1, AnswerKinds DEF Exact, LookupExact, Inv
<1>2. ASSUME Exact, [Next]_vars PROVE Exact'
  <2>1. Inv' /\ FoundExact'
    BY <1>2, InvNext DEF Exact, Inv
  <2>2. Failed("ERANGE") # Failed("ENOENT") /\ Failed("EUCLEAN") # Failed("ENOENT")
          /\ None # Failed("ENOENT") /\ \A n : Found(n) # Failed("ENOENT")
    BY FailedInjective, AnswerKinds
  <2> DEFINE Missing == answer = Failed("ENOENT") => Resolved(from, path) = {}
             Searched == status = "searching" => Passed
  <2> SUFFICES Missing' /\ Searched'
    BY <2>1 DEF Exact, LookupExact
  <2>3. Missing /\ Searched
    BY <1>2 DEF Exact, LookupExact
  <2>4. ASSUME NEW n \in DOMAIN Tree, NEW p \in Paths, Call(n, p) PROVE Missing' /\ Searched'
    BY <2>2, <2>4 DEF Call
  <2>5. ASSUME NEW n \in Nids, Release(n) PROVE Missing' /\ Searched'
    BY <2>3, <2>5 DEF Release, call
  <2>6. CASE SkipBlank \/ Match
    BY <2>3, <2>6 DEF SkipBlank, Match, call
  <2>7. CASE EnterDirectory
    BY <2>3, <2>7 DEF EnterDirectory, call, Passed
  <2>8. CASE Finish \/ LoadFails \/ BufferFails \/ MapFails
    BY <2>2, <2>8 DEF Finish, LoadFails, BufferFails, MapFails, Return
  <2>9. CASE NextBuffer
    BY <1>2, <2>3, <2>9, NextBufferPassed DEF NextBuffer, call
  <2>10. CASE NoMatch
    BY <1>2, <2>3, <2>10, NoMatchPassed DEF NoMatch, call
  <2>11. CASE NotFound
    <3>1. Resolved(from, path) = {} /\ from' = from /\ path' = path /\ status' = "done"
      BY <1>2, <2>11, NotFoundMissing DEF NotFound, Return, call
    <3> QED BY <3>1
  <2>12. CASE UNCHANGED vars
    <3>1. Passed => Passed'
      BY <2>12 DEF vars, scan, Passed, Dir, Blk
    <3> QED BY <2>3, <2>12, <3>1 DEF vars, call
  <2> QED BY <1>2, <2>4, <2>5, <2>6, <2>7, <2>8, <2>9, <2>10, <2>11, <2>12 DEF Next, Walk
<1> QED BY <1>1, <1>2, PTL DEF Spec

(* A lookup answers the inode its path leads to and ENOENT only for a path *)
(* that leads nowhere, in every image whose directory blocks have no       *)
(* padding behind the last name.                                           *)
THEOREM LookupCorrect == Unpadded => (Spec => []LookupExact)
<1> SUFFICES ASSUME Unpadded PROVE Spec => []LookupExact
  OBVIOUS
<1>1. Exact => LookupExact
  BY DEF Exact
<1> QED BY <1>1, ExactInvariance, PTL
=============================================================================
