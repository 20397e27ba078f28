----------------------------- MODULE XattrScan -----------------------------
(***************************************************************************)
(* Reading extended attributes: `FileSystem::get_xattr` and `list_xattrs`  *)
(* scan the entries after the inode, then follow the shared entries one by *)
(* one, each through a SkippableContinuousIter.  The cursor is SkipCursor  *)
(* itself: its variables are declared here and its actions are conjoined   *)
(* with the scan's, so a call of the scan is answered by whatever the      *)
(* cursor does at that place of the image, failures and panics included.   *)
(* `stage` says which call the scan waits for; a step of the scan handles  *)
(* the result of one call and makes the next.                              *)
(***************************************************************************)
EXTENDS BlockMap, Sequences

CONSTANTS
  Image,      \* the bytes of the image, that at address a at Image[a + 1]
  XattrBlk,   \* xattr_blkaddr, the block where the shared entries start
  Infixes,    \* xattr_infixes(): records [prefix, name]
  Requests,   \* calls of the library's clients
  Endless     \* u64::MAX, the length of the range of a shared entry

Octets == 0 .. 255
NoBuffer == -1    \* get_xattr with None for a buffer

(* A request is one of the two calls, about an inode that is loaded.       *)
IsRequest(r) ==
  /\ r.inode.version \in {"Compact", "Extended"}
  /\ r.inode.nid \in Nat /\ r.inode.icount \in Nat
  /\ \/ /\ r.op = "get" /\ r.prefix \in Nat /\ r.name \in Seq(Octets)
        /\ r.room \in Nat \cup {NoBuffer}
     \/ r.op = "list" /\ r.room \in Nat

(* Of an infix its first byte and the rest are told apart: the code takes  *)
(* it to have one, and indexes an empty one out of its bounds.             *)
ASSUME XattrAssumption ==
  /\ Image \in Seq(Octets)
  /\ Infixes \in Seq([prefix: Octets, name: Seq(Octets)])
  /\ XattrBlk \in Nat
  /\ Endless \in Nat /\ 2 * BlkSz + 131072 <= Endless    \* two blocks and any entry
  /\ \A r \in Requests : IsRequest(r)

VARIABLES
  mode, off, len, start, blen, cur, op, bcur, buf, result,  \* the cursor
  stage,    \* idle, open, scan, header, name, value, key, skip, done
  req,      \* arguments of the call
  sh,       \* the shared entry that is read, 0 during the scan after the inode
  hdr,      \* the header of the entry in progress
  keys,     \* the keys listed
  used,     \* list_xattrs' `offset`: bytes of the client's buffer they take
  answer    \* the outcome of the call

cursor == <<mode, off, len, start, blen, cur, op, bcur, buf, result>>
listing == <<keys, used>>
vars == <<cursor, stage, req, sh, hdr, listing, answer>>

(* The constants are those of a cursor that is checked on its own; none of *)
(* the actions used here depends on them.                                  *)
C == INSTANCE SkipCursor WITH Base <- 0, Length <- 0, Lengths <- Nat

None == [kind |-> "none"]
Failed(errno) == [kind |-> "error", errno |-> errno]
Value(b) == [kind |-> "value", value |-> b]
Listed(ks) == [kind |-> "listed", keys |-> ks]

-----------------------------------------------------------------------------
(* Entries in the image. *)

Byte(a) == IF a < Len(Image) THEN Image[a + 1] ELSE 0
BytesFrom(a, n) == [ j \in 1 .. n |-> Byte(a + j - 1) ]
Word(a) == Byte(a) + 256 * Byte(a + 1) + 65536 * Byte(a + 2) + 16777216 * Byte(a + 3)

(* XAttrEntryHeader; XattrNameIndex marks an infix with its highest bit.   *)
HeaderAt(a) ==
  [ suffix_len |-> Byte(a), long |-> Byte(a + 1) >= 128, index |-> Byte(a + 1) % 128,
    value_len  |-> Byte(a + 2) + 256 * Byte(a + 3) ]

NoHeader == [suffix_len |-> 0, long |-> FALSE, index |-> 0, value_len |-> 0]

(* Bytes of the name and the value, padded to the size of a header. *)
EntrySz(h) == RoundUp(h.suffix_len + h.value_len, 4)

(* Lengths of EROFS_XATTRS_PREFIXS. *)
PrefixLens == <<0, 5, 23, 24, 8, 0, 9>>

InfixKnown(h) == h.index < Len(Infixes)
Infix(h) == IF h.long THEN Infixes[h.index + 1].name ELSE <<>>
Prefix(h) == IF h.long THEN Infixes[h.index + 1].prefix ELSE h.index

-----------------------------------------------------------------------------
(* The image as its writer meant it: the attributes of an inode, first the *)
(* entries after it, then the shared ones.                                 *)

NoPrefix == -1

AttrAt(a) ==
  LET h == HeaderAt(a)
      known == ~h.long \/ InfixKnown(h)
  IN  [ prefix |-> IF known THEN Prefix(h) ELSE NoPrefix,
        name   |-> (IF known THEN Infix(h) ELSE <<>>) \o BytesFrom(a + 4, h.suffix_len),
        value  |-> BytesFrom(a + 4 + h.suffix_len, h.value_len) ]

AttrStart(i) == Iloc(i.nid) + InodeSize(i)
SharedCount(i) == Byte(AttrStart(i) + 4)

EntryEnd(a) == a + 4 + EntrySz(HeaderAt(a))

InlineAddresses(i) ==
  LET from[a \in Nat] ==
        IF a >= DiskMetaEnd(i) THEN <<>> ELSE <<a>> \o from[EntryEnd(a)]
  IN  from[AttrStart(i) + 12 + 4 * SharedCount(i)]

SharedAddresses(i) ==
  [ k \in 1 .. SharedCount(i) |-> BlkPos(XattrBlk) + 4 * Word(AttrStart(i) + 8 + 4 * k) ]

EntryAddresses(i) ==
  IF i.icount = 0 THEN <<>> ELSE InlineAddresses(i) \o SharedAddresses(i)

Stored(i) ==
  LET as == EntryAddresses(i) IN [ k \in DOMAIN as |-> AttrAt(as[k]) ]

-----------------------------------------------------------------------------
(* Loading an inode reads the summary and the indexes of shared entries.   *)
(* Their length is computed in the eight bits of shared_count.             *)

SharedLen(i) == (4 * SharedCount(i)) % 256

(* A mutant of SharedIndexes: the first index is passed over. *)
SharedIndexesPast(i) ==
  IF XattrSize(i) = 0 THEN <<>>
  ELSE [ k \in 1 .. SharedLen(i) \div 4 |-> Word(AttrStart(i) + 12 + 4 * k) ]

SharedIndexes(i) ==
  IF XattrSize(i) = 0 THEN <<>>
  ELSE [ k \in 1 .. SharedLen(i) \div 4 |-> Word(AttrStart(i) + 8 + 4 * k) ]

InlineHeaderSz(i) == 12 + 4 * Len(SharedIndexes(i))
InlineOffset(i) == AttrStart(i) + InlineHeaderSz(i)

(* A mutant of InlineLen: the summary and the indexes are counted in. *)
InlineLenWhole(i) == XattrSize(i)

InlineLen(i) == XattrSize(i) - InlineHeaderSz(i)

-----------------------------------------------------------------------------
(* The scan. *)

(* A new cursor over n bytes from address o on, before try_new. *)
Fresh(o, n) ==
  /\ mode' = "closed"
  /\ off' = o /\ len' = n /\ start' = o /\ blen' = 0 /\ cur' = 0
  /\ op' = C!NoOp /\ bcur' = 0 /\ buf' = <<>> /\ result' = C!Cursor!NoResult

Init ==
  /\ mode = "empty"
  /\ off = 0 /\ len = 0 /\ start = 0 /\ blen = 0 /\ cur = 0
  /\ op = C!NoOp /\ bcur = 0 /\ buf = <<>> /\ result = C!Cursor!NoResult
  /\ stage = "idle" /\ req \in Requests /\ sh = 0 /\ hdr = NoHeader
  /\ keys = <<>> /\ used = 0 /\ answer = None

Ask(r) ==
  /\ stage \in {"idle", "done"}
  /\ req' = r /\ sh' = 0 /\ hdr' = NoHeader
  /\ keys' = <<>> /\ used' = 0 /\ answer' = None
  /\ IF InlineHeaderSz(r.inode) <= XattrSize(r.inode)
       THEN Fresh(InlineOffset(r.inode), InlineLen(r.inode)) /\ stage' = "open"
       ELSE Fresh(0, 0) /\ stage' = "scan"

(* try_new: for a range that is empty there is no cursor. *)
Open ==
  /\ stage = "open"
  /\ C!TryNew
  /\ stage' = "scan"
  /\ UNCHANGED <<req, sh, hdr, listing, answer>>

(* The cursor works on a call: one buffer. *)
CursorTurn ==
  /\ C!Body \/ C!SkipAcross
  /\ UNCHANGED <<stage, req, sh, hdr, listing, answer>>

Answer(a) == answer' = a /\ stage' = "done"

NextShared(k, ks) ==
  IF k <= Len(SharedIndexes(req.inode))
    THEN /\ sh' = k /\ stage' = "open"
         /\ Fresh(BlkPos(XattrBlk) + 4 * SharedIndexes(req.inode)[k], Endless)
         /\ UNCHANGED answer
    ELSE /\ Answer(IF req.op = "get" THEN Failed("ENODATA") ELSE Listed(ks))
         /\ UNCHANGED <<cursor, sh>>

ContinueSame(ks) ==     \* a mutant: the loop comes back to the shared entry
  IF sh = 0 THEN stage' = "scan" /\ UNCHANGED <<cursor, sh, answer>>
  ELSE NextShared(sh, ks)

(* An entry is done with: the scan goes on after it, or to the next shared *)
(* entry.                                                                  *)
Continue(ks) ==
  IF sh = 0 THEN stage' = "scan" /\ UNCHANGED <<cursor, sh, answer>>
  ELSE NextShared(sh + 1, ks)

EndOfRange ==     \* mode "closed": the attributes after the inode are not read
  /\ stage = "scan" /\ sh = 0
  /\ mode \in {"closed", "empty"} \/ (mode = "idle" /\ C!Eof)
  /\ NextShared(1, keys)
  /\ UNCHANGED <<req, hdr, listing>>

ReadOp(n)   == [kind |-> "read", n |-> n, m |-> 0]
SkipOp(n)   == [kind |-> "skip", n |-> n, m |-> 0]
CmpOp(n, m) == [kind |-> "cmp", n |-> n, m |-> m]

(* get_entry_header *)
NextHeader ==
  /\ stage = "scan" /\ mode = "idle"
  /\ sh = 0 => ~C!Eof
  /\ C!Call(ReadOp(4))
  /\ stage' = "header"
  /\ UNCHANGED <<req, sh, hdr, listing, answer>>

Returned(s) == stage = s /\ mode = "idle"
Header == HeaderAt(result.bytes[0])

-----------------------------------------------------------------------------
(* get_xattr: query_xattr_value. *)

(* By its header alone the entry cannot be the one that is asked for. *)
Refused(r, h) ==
  ~(/\ h.long => InfixKnown(h)
    /\ Prefix(h) < Len(PrefixLens)
    /\ Prefix(h) = r.prefix
    /\ Len(r.name) = Len(Infix(h)) + h.suffix_len
    /\ SubSeq(r.name, 1, Len(Infix(h))) = Infix(h))

(* What the entry itself has to have of the name. *)
Suffix(r, h) == SubSeq(r.name, Len(Infix(h)) + 1, Len(r.name))

(* ENODATA without a look at the name: nothing is skipped. *)
Refuse ==
  /\ Returned("header") /\ req.op = "get"
  /\ Refused(req, Header)
  /\ hdr' = Header
  /\ Continue(keys)
  /\ UNCHANGED <<req, listing>>

(* The next byte of the range, and how many bytes from there on agree with *)
(* a name.                                                                 *)
Here == start + cur
Agreeing(name) ==
  CHOOSE m \in 0 .. Len(name) :
    /\ BytesFrom(Here, m) = SubSeq(name, 1, m)
    /\ m < Len(name) => Byte(Here + m) # name[m + 1]

CompareName ==
  /\ Returned("header") /\ req.op = "get"
  /\ ~Refused(req, Header)
  /\ hdr' = Header
  /\ LET name == Suffix(req, Header)
     IN  C!Call(CmpOp(Len(name), Agreeing(name)))
  /\ stage' = "name"
  /\ UNCHANGED <<req, sh, listing, answer>>

(* A mutant of TooSmall: a buffer that is just enough is not. *)
TooSmallAtLimit ==
  /\ Returned("name") /\ result.kind = "equal"
  /\ req.room # NoBuffer /\ req.room <= hdr.value_len
  /\ Answer(Failed("ERANGE"))
  /\ UNCHANGED <<cursor, req, sh, hdr, listing>>

TooSmall ==
  /\ Returned("name") /\ result.kind = "equal"
  /\ req.room # NoBuffer /\ req.room < hdr.value_len
  /\ Answer(Failed("ERANGE"))
  /\ UNCHANGED <<cursor, req, sh, hdr, listing>>

ReadValue ==
  /\ Returned("name") /\ result.kind = "equal"
  /\ req.room = NoBuffer \/ req.room >= hdr.value_len
  /\ C!Call(ReadOp(hdr.value_len))
  /\ stage' = "value"
  /\ UNCHANGED <<req, sh, hdr, listing, answer>>

(* What is left of an entry the first bytes of which are behind the cursor. *)
LeftToSkip(h, passed) == EntrySz(h) - passed

SkipOther ==
  /\ Returned("name") /\ result.kind = "differ"
  /\ C!Call(SkipOp(LeftToSkip(hdr, result.used)))
  /\ stage' = "skip"
  /\ UNCHANGED <<req, sh, hdr, listing, answer>>

GotValue ==
  /\ Returned("value")
  /\ Answer(Value([ j \in 1 .. hdr.value_len |-> Byte(result.bytes[j - 1]) ]))
  /\ UNCHANGED <<cursor, req, sh, hdr, listing>>

-----------------------------------------------------------------------------
(* list_xattrs: get_xattr_key and skip_xattr_value. *)

(* A mutant of KeyLen: the infix is left out. *)
KeyLenOfEnds(h) == PrefixLens[Prefix(h) + 1] + h.suffix_len

KeyLen(h) == PrefixLens[Prefix(h) + 1] + Len(Infix(h)) + h.suffix_len

(* The tables and the client's buffer are indexed without a check. *)
IndexPanics(h) ==
  (~h.long \/ InfixKnown(h)) /\
    (Prefix(h) >= Len(PrefixLens) \/ used + KeyLen(h) > req.room)

UnknownInfix ==
  /\ Returned("header") /\ req.op = "list"
  /\ Header.long /\ ~InfixKnown(Header)
  /\ hdr' = Header
  /\ Answer(Failed("ENODATA"))
  /\ UNCHANGED <<cursor, req, sh, listing>>

ReadKey ==
  /\ Returned("header") /\ req.op = "list"
  /\ ~Header.long \/ InfixKnown(Header)
  /\ ~IndexPanics(Header)
  /\ hdr' = Header
  /\ C!Call(ReadOp(Header.suffix_len))
  /\ stage' = "key"
  /\ UNCHANGED <<req, sh, listing, answer>>

(* The key is ended by a NUL.  After an entry in line the value is skipped; *)
(* a shared entry is left where it is.                                      *)
GotKey ==
  /\ Returned("key")
  /\ used + KeyLen(hdr) < req.room
  /\ used' = used + KeyLen(hdr) + 1
  /\ LET suffix == [ j \in 1 .. hdr.suffix_len |-> Byte(result.bytes[j - 1]) ]
     IN  keys' = Append(keys, [prefix |-> Prefix(hdr), name |-> Infix(hdr) \o suffix])
  /\ IF sh = 0
       THEN /\ C!Call(SkipOp(LeftToSkip(hdr, hdr.suffix_len)))
            /\ stage' = "skip" /\ UNCHANGED <<sh, answer>>
       ELSE NextShared(sh + 1, keys')
  /\ UNCHANGED <<req, hdr>>

Panic ==
  /\ \/ Returned("header") /\ req.op = "list" /\ IndexPanics(Header)
     \/ Returned("key") /\ used + KeyLen(hdr) = req.room
  /\ mode' = "panicked"
  /\ UNCHANGED <<off, len, start, blen, cur, op, bcur, buf, result>>
  /\ UNCHANGED <<stage, req, sh, hdr, listing, answer>>

-----------------------------------------------------------------------------
Skipped ==
  /\ Returned("skip")
  /\ Continue(keys)
  /\ UNCHANGED <<req, hdr, listing>>

BackendFails ==
  /\ C!BackendFails
  /\ Answer(Failed("EIO"))
  /\ UNCHANGED <<req, sh, hdr, listing>>

Scan ==
  \/ Open \/ CursorTurn \/ EndOfRange \/ NextHeader \/ Skipped
  \/ Refuse \/ CompareName \/ TooSmall \/ ReadValue \/ SkipOther \/ GotValue
  \/ UnknownInfix \/ ReadKey \/ GotKey \/ Panic

Next == (\E r \in Requests : Ask(r)) \/ Scan \/ BackendFails

Spec == Init /\ [][Next]_vars

(* A call runs to its end in its caller's thread; the backend need not fail. *)
FairSpec == Spec /\ WF_vars(Scan)

-----------------------------------------------------------------------------
(* Properties. *)

KeyOf(attr) == [prefix |-> attr.prefix, name |-> attr.name]

(* Bytes a sequence of keys takes in a buffer, each ended by a NUL.        *)
Taken(key) == PrefixLens[key.prefix + 1] + Len(key.name) + 1

Room(ks) ==
  LET upTo[n \in 0 .. Len(ks)] == IF n = 0 THEN 0 ELSE upTo[n - 1] + Taken(ks[n])
  IN  upTo[Len(ks)]

(* The variables of the scan, and how they go with the cursor's: a call of *)
(* the cursor is in progress only in a stage that waits for one, and       *)
(* `used` is what the keys listed so far take.                             *)
TypeOK ==
  /\ stage \in {"idle", "open", "scan", "header", "name", "value", "key", "skip", "done"}
  /\ req \in Requests
  /\ sh \in 0 .. Len(SharedIndexes(req.inode))
  /\ mode \in {"called", "loop"} => stage \in {"header", "name", "value", "key", "skip"}
  /\ stage \in {"name", "value"} => req.op = "get"
  /\ stage = "key" => req.op = "list"
  /\ used = Room(keys)
  /\ req.op = "list" => used <= req.room
  /\ answer # None <=> stage = "done"

(* Whatever lengths the entries claim, each buffer the scan has filled lies *)
(* in one block, and in the attributes that are looked for: behind the     *)
(* summary and the indexes and before what follows the inode on disk, and  *)
(* for a shared entry from its first byte on.                              *)
FillsInAttributes ==
  mode \in {"idle", "called", "loop"} =>
    /\ (start % BlkSz) + blen <= BlkSz
    /\ IF sh = 0
         THEN /\ AttrStart(req.inode) + 12 + 4 * Len(SharedIndexes(req.inode)) <= start
              /\ start + blen <= DiskMetaEnd(req.inode)
         ELSE BlkPos(XattrBlk) + 4 * Word(AttrStart(req.inode) + 8 + 4 * sh) <= start

-----------------------------------------------------------------------------
(* The images that a request reads as they were meant.  They are the ones  *)
(* of the runs, and what the theorems about answers assume.                *)

(* The entries after an inode lie one behind the other up to the end of    *)
(* its attributes, and there are no more shared ones than eight bits can   *)
(* count the bytes of.  An infix may be unknown, a prefix not.             *)
Formed(i) ==
  i.icount # 0 =>
    /\ i.version = "Extended" /\ SharedCount(i) < 64
    /\ 12 + 4 * SharedCount(i) <= DiskXattrSize(i)
    /\ \A k \in DOMAIN InlineAddresses(i) : EntryEnd(InlineAddresses(i)[k]) <= DiskMetaEnd(i)
    /\ \A k \in DOMAIN EntryAddresses(i) :
         LET h == HeaderAt(EntryAddresses(i)[k])
         IN  (h.long => InfixKnown(h)) => Prefix(h) < Len(PrefixLens)

InlineEntries(i) ==
  IF i.icount = 0 THEN {} ELSE { InlineAddresses(i)[k] : k \in DOMAIN InlineAddresses(i) }

(* Nothing in a name or a value passes for an entry that could be the one. *)
NoLookalike(r) ==
  \A w \in 0 .. DiskXattrSize(r.inode) \div 4 :
    LET a == AttrStart(r.inode) + 12 + 4 * SharedCount(r.inode) + 4 * w
    IN  a < DiskMetaEnd(r.inode) /\ a \notin InlineEntries(r.inode) =>
          Refused(r, HeaderAt(a))

(* From p to q without leaving the block of the byte before p.             *)
InOneBlock(p, q) == q <= p \/ (p - 1) \div BlkSz = (q - 1) \div BlkSz

(* The rest of an entry after its key, or after a comparison that failed,  *)
(* is skipped in one block.  A comparison stops at the end of the name or  *)
(* of the first block that differs.                                        *)
SkipsInBlock(r) ==
  \A a \in InlineEntries(r.inode) :
    LET h == HeaderAt(a)
    IN  IF r.op = "list" THEN InOneBlock(a + 4 + h.suffix_len, EntryEnd(a))
        ELSE ~Refused(r, h) =>
               \A j \in 0 .. h.suffix_len :
                 /\ j = h.suffix_len \/ (a + 4 + j) % BlkSz = 0
                 /\ BytesFrom(a + 4, j) # SubSeq(Suffix(r, h), 1, j)
                 => InOneBlock(a + 4 + j, EntryEnd(a))

Plain(r) == Formed(r.inode) /\ SkipsInBlock(r) /\ (r.op = "get" => NoLookalike(r))

-----------------------------------------------------------------------------
Matching(r) ==
  { k \in DOMAIN Stored(r.inode) :
      Stored(r.inode)[k].prefix = r.prefix /\ Stored(r.inode)[k].name = r.name }

FirstValue(r) ==
  Stored(r.inode)[CHOOSE k \in Matching(r) : \A j \in Matching(r) : k <= j].value

(* get_xattr answers the value of the first attribute of that name among   *)
(* all the inode has, in line and shared; ENODATA only if there is none,   *)
(* and ERANGE only if its value does not fit.  Entries that are refused    *)
(* before their name is read are walked through four bytes at a time, and  *)
(* the scan still comes to the entry after them.                           *)
GetExact ==
  stage = "done" /\ req.op = "get" =>
    /\ answer.kind = "value" => Matching(req) # {} /\ answer.value = FirstValue(req)
    /\ answer = Failed("ENODATA") => Matching(req) = {}
    /\ answer = Failed("ERANGE") =>
         Matching(req) # {} /\ req.room < Len(FirstValue(req))

(* list_xattrs answers the keys of all attributes in the order they are    *)
(* stored; ENODATA only if the prefix of one is not known.                 *)
ListExact ==
  stage = "done" /\ req.op = "list" =>
    LET attrs == Stored(req.inode)
    IN  /\ answer.kind = "listed" => answer.keys = [ k \in DOMAIN attrs |-> KeyOf(attrs[k]) ]
        /\ answer = Failed("ENODATA") => \E k \in DOMAIN attrs : attrs[k].prefix = NoPrefix

(* The only thing that stops the program is a client's buffer too small    *)
(* for the listing: the scan never takes the cursor past its range.        *)
PanicsOnlyWhenFull ==
  mode = "panicked" =>
    /\ req.op = "list"
    /\ LET attrs == Stored(req.inode)
       IN  \E n \in DOMAIN attrs : req.room < Room([ k \in 1 .. n |-> KeyOf(attrs[k]) ])

(* A call ends: every turn of the scan takes at least a header, and every  *)
(* shared entry is read once.                                              *)
ScanEnds == stage = "open" ~> (stage = "done" \/ mode = "panicked")
=============================================================================
