------------------------------ MODULE Readdir -------------------------------
(***************************************************************************)
(* Listing a directory: `FileSystem::fill_dentries` walks the blocks of    *)
(* the directory with a MapIter and hands each entry to an emitter; three  *)
(* kinds of client call it:                                                *)
(*                                                                         *)
(*   fuse       ErofsFuse::readdir: from the start, with the cookie of the *)
(*              last entry received as the number of entries to skip       *)
(*   position   resumes at the position the emitter was given when it      *)
(*              refused an entry, the use the emitter's second argument    *)
(*              is for                                                     *)
(*   library    any offset, any number of entries to skip, once            *)
(*                                                                         *)
(* A step is one turn of a loop or one fill of a buffer, which may fail.   *)
(***************************************************************************)
EXTENDS Directory

CONSTANTS
  Dirs,         \* directories of the image
  Clients,      \* kinds of client
  Offsets,      \* offsets of a library client
  Skips,        \* skipents of a library client
  SmallReplies, \* the clients whose replies may have no room for all entries
  MaxCalls      \* bound: calls a client makes

ASSUME ReaddirAssumption ==
  /\ \A d \in Dirs : WellStored(d)
  /\ Clients \subseteq {"fuse", "position", "library"}
  /\ Offsets \subseteq Nat /\ Skips \subseteq Nat
  /\ MaxCalls \in Nat

VARIABLES
  dir, client,      \* fixed
  status,           \* asking, called, scanning, returned, ended, failed, panicked
  offset, skipents, \* arguments of the call
  it,               \* MapIter.offset
  buf,              \* start, in the directory, of the buffer in hand
  idx,              \* DirCollection.offset
  cnt, pos,         \* fill_dentries' locals
  batch,            \* the entries emitted in this call, with their cookies
  refused,          \* the emitter said stop
  seen,             \* all the client has received, as <<name, position>>
  resume,           \* where the client goes on: a cookie or a position
  calls

callVars == <<it, buf, idx, cnt, pos, batch, refused>>
vars == <<dir, client, status, offset, skipents, callVars, seen, resume, calls>>

Size == dir.inode.size

RoundDown(x, y) == (x \div y) * y

Init ==
  /\ dir \in Dirs /\ client \in Clients
  /\ status = "asking"
  /\ offset = 0 /\ skipents = 0
  /\ it = 0 /\ buf = 0 /\ idx = 0 /\ cnt = 0 /\ pos = 0
  /\ batch = <<>> /\ refused = FALSE
  /\ seen = <<>> /\ resume = 0 /\ calls = 0

-----------------------------------------------------------------------------
(* The clients. *)

Arguments(o, s) == offset' = o /\ skipents' = s

Ask ==
  /\ status = "asking"
  /\ calls < MaxCalls
  /\ \/ client = "fuse" /\ Arguments(0, resume)
     \/ client = "position" /\ Arguments(resume, 0)
     \/ client = "library" /\ \E o \in Offsets, s \in Skips : Arguments(o, s)
  /\ status' = "called"
  /\ it' = 0 /\ buf' = 0 /\ idx' = 0 /\ cnt' = 0 /\ pos' = 0
  /\ batch' = <<>> /\ refused' = FALSE
  /\ calls' = calls + 1
  /\ UNCHANGED <<dir, client, seen, resume>>

(* The kernel takes an empty reply for the end of the directory; a client  *)
(* by position and the caller of the library know that no entry was        *)
(* refused.                                                                *)
LastReply == IF client = "fuse" THEN batch = <<>> ELSE ~refused

Received == [j \in DOMAIN batch |-> <<batch[j].name, batch[j].pos>>]

TakeReply ==
  /\ status = "returned"
  /\ seen' = seen \o Received
  /\ IF LastReply \/ client = "library"
       THEN status' = "ended" /\ UNCHANGED resume
       ELSE /\ status' = "asking"
            /\ resume' = IF client = "fuse" THEN batch[Len(batch)].cookie ELSE pos
  /\ UNCHANGED <<dir, client, offset, skipents, callVars, calls>>

-----------------------------------------------------------------------------
(* MapIter and the buffers. *)

MapOk(o) == ~MapRefused(dir.inode, o)

(* The next buffer of the directory, if there is one. *)
NextBuffer(o) ==
  /\ buf' = o
  /\ it' = o + Advance(Extent(dir.inode, o))

(* The block the buffer in hand is, and its DirCollection. *)
Blk == buf \div BlkSz
Left == idx < Total(dir, Blk)

Return == status' = "returned"

-----------------------------------------------------------------------------
(* fill_dentries. *)

fixed == <<dir, client, offset, skipents, seen, resume, calls>>

(* Mutants of BlkOffset: rounded the other way, and left out.              *)
BlkOffsetDown == RoundDown(BlkAccess(offset).off, DescSize)
BlockStart == 0

(* The position of the call in its block, in whole descriptors. *)
BlkOffset == RoundUp(BlkAccess(offset).off, DescSize)

OutOfRange ==
  /\ status = "called"
  /\ offset > Size
  /\ status' = "failed"
  /\ UNCHANGED <<callVars, fixed>>

(* The first next() of the iterator is unwrapped. *)
NoBuffer ==
  /\ status = "called"
  /\ offset <= Size
  /\ RoundDown(offset, BlkSz) >= Size
  /\ status' = "panicked"
  /\ UNCHANGED <<callVars, fixed>>

(* The first buffer: entries before the offset are skipped, and the whole  *)
(* block when the offset is past its descriptors.                          *)
FirstBuffer ==
  /\ status = "called"
  /\ offset <= Size
  /\ RoundDown(offset, BlkSz) < Size
  /\ MapOk(RoundDown(offset, BlkSz))
  /\ NextBuffer(RoundDown(offset, BlkSz))
  /\ LET n == Total(dir, buf' \div BlkSz)
     IN  idx' = IF BlkOffset \div DescSize <= n THEN BlkOffset \div DescSize ELSE n
  /\ cnt' = 0
  /\ pos' = RoundDown(offset, BlkSz) + BlkOffset
  /\ status' = "scanning"
  /\ UNCHANGED <<batch, refused, fixed>>

(* The emitter of ErofsFuse::readdir numbers the entries of a reply from 2 *)
(* on.                                                                     *)
Emitted ==
  [ name |-> Entry(dir, Blk, idx), pos |-> pos, cookie |-> Len(batch) + 2 ]

Advanced == cnt' = cnt + 1 /\ pos' = pos + DescSize /\ idx' = idx + 1

SkipEntry ==
  /\ status = "scanning" /\ Left
  /\ cnt < skipents
  /\ Advanced
  /\ UNCHANGED <<status, it, buf, batch, refused, fixed>>

Emit ==
  /\ status = "scanning" /\ Left
  /\ cnt >= skipents
  /\ batch' = Append(batch, Emitted)
  /\ Advanced
  /\ UNCHANGED <<status, it, buf, refused, fixed>>

EmitterStopsAfter ==   \* a mutant: the refused entry is counted
  /\ status = "scanning" /\ Left
  /\ cnt >= skipents
  /\ client \in SmallReplies /\ batch # <<>>
  /\ refused' = TRUE
  /\ Return
  /\ pos' = pos + DescSize
  /\ UNCHANGED <<it, buf, idx, cnt, batch, fixed>>

(* The reply is full; it has room for one entry at least. *)
EmitterStops ==
  /\ status = "scanning" /\ Left
  /\ cnt >= skipents
  /\ client \in SmallReplies /\ batch # <<>>
  /\ refused' = TRUE
  /\ Return
  /\ UNCHANGED <<it, buf, idx, cnt, pos, batch, fixed>>

NextBlock ==
  /\ status = "scanning" /\ ~Left
  /\ it < Size /\ MapOk(it)
  /\ NextBuffer(it)
  /\ idx' = 0
  /\ pos' = RoundUp(pos, BlkSz)
  /\ UNCHANGED <<status, cnt, batch, refused, fixed>>

LastBlock ==
  /\ status = "scanning" /\ ~Left
  /\ it >= Size
  /\ pos' = RoundUp(pos, BlkSz)
  /\ Return
  /\ UNCHANGED <<it, buf, idx, cnt, batch, refused, fixed>>

(* A buffer is asked for at an offset. *)
Wanted(o) ==
  \/ /\ status = "called" /\ offset <= Size
     /\ o = RoundDown(offset, BlkSz) /\ o < Size
  \/ /\ status = "scanning" /\ ~Left
     /\ o = it /\ it < Size

MapFails ==
  /\ \E o \in 0 .. Size : Wanted(o) /\ ~MapOk(o)
  /\ status' = "failed"
  /\ UNCHANGED <<callVars, fixed>>

BufferFails ==
  /\ \E o \in 0 .. Size : Wanted(o)
  /\ status' = "failed"
  /\ UNCHANGED <<callVars, fixed>>

FillDentries ==
  \/ OutOfRange \/ NoBuffer \/ FirstBuffer
  \/ SkipEntry \/ Emit \/ EmitterStops \/ NextBlock \/ LastBlock
  \/ MapFails

Next == Ask \/ TakeReply \/ FillDentries \/ BufferFails

Spec == Init /\ [][Next]_vars

(* The session runs a handler to its end, and a client that lists a        *)
(* directory goes on until it has reached the end; the backend may fail    *)
(* and need not.                                                           *)
FairSpec == Spec /\ WF_vars(FillDentries) /\ WF_vars(Ask \/ TakeReply)

-----------------------------------------------------------------------------
(* Properties. *)

Names == NamesOf(dir)

(* The variables: the buffer in hand belongs to the directory, the entry   *)
(* to come next to that buffer, and what was emitted are entries of the    *)
(* directory.                                                              *)
TypeOK ==
  /\ dir \in Dirs /\ client \in Clients
  /\ status \in {"asking", "called", "scanning", "returned", "ended", "failed", "panicked"}
  /\ offset \in Nat /\ skipents \in Nat /\ cnt \in Nat /\ pos \in Nat
  /\ it \in 0 .. Size /\ buf \in 0 .. Size - 1
  /\ idx \in 0 .. Total(dir, Blk)
  /\ batch \in Seq([name : Names, pos : Nat, cookie : Nat])
  /\ refused \in BOOLEAN /\ resume \in Nat /\ calls \in 0 .. MaxCalls

(* What fill_dentries has to emit: the entries at or after the offset, but *)
(* for the first `skipents` of them.                                       *)
Due ==
  LET from == EntriesFrom(dir, offset) IN SubSeq(from, skipents + 1, Len(from))

(* An offset so close to the end of a block that rounding it up to a whole *)
(* descriptor leaves the block (61 .. 63 in a block of 64 bytes, 4093 ..   *)
(* 4095 in one of 4096): the positions of the entries that follow are a    *)
(* block too far, which no client that resumes where it stopped asks for.  *)
InTheGap == BlkOffset > BlkSz

(* fill_dentries emits the entries at or after the offset in order, none   *)
(* skipped but the first `skipents` and none twice, each with its own      *)
(* position although the position is only counted along, across the blocks *)
(* and the gap after a block's descriptors; and all of them when the       *)
(* emitter never refuses one.                                              *)
FillExact ==
  status \in {"scanning", "returned"} =>
    /\ Len(batch) <= Len(Due)
    /\ \A j \in DOMAIN batch :
         /\ batch[j].name = Due[j][1]
         /\ InTheGap \/ batch[j].pos = Due[j][2]
    /\ status = "returned" /\ ~refused => Len(batch) = Len(Due)

(* DirCollection parses a buffer as one block of the directory: the        *)
(* iterator never yields a part of one, or bytes of two.                   *)
WholeBlocks ==
  status = "scanning" =>
    buf % BlkSz = 0 /\ it = Lesser(buf + BlkSz, Size)

(* A listing that has ended shows every entry of the directory once and in *)
(* order, however many replies it took.                                    *)
EndsComplete ==
  status = "ended" /\ client # "library" => seen = EntriesOf(dir)

(* A client that keeps asking comes to the end of the directory: a call    *)
(* returns, and a call that returns less than all moves the client on.     *)
ListingEnds == <>(status \in {"ended", "failed", "panicked"})
=============================================================================
