----------------------------- MODULE FuseServer -----------------------------
(***************************************************************************)
(* The FUSE server and its kernel: every handler of `ErofsFuse`, on top of *)
(* the inode collection of InodeLoad.  The session hands one request to a  *)
(* handler and waits for its reply.  The kernel calls inodes by the        *)
(* numbers replies gave it, opens, reads and closes them, and forgets      *)
(* numbers; the server keeps nothing but the collection.                   *)
(*                                                                         *)
(* What a handler does with the inode it got is one step here, which tells *)
(* what it asks of the map and how it ends: the bytes of a read are in     *)
(* FileRead, the turns of a search in Lookup, the cookies of a listing in  *)
(* Readdir.  A listing is one reply from the start of the directory that   *)
(* has room for all of it.                                                 *)
(***************************************************************************)
EXTENDS InodeLoad, FiniteSets

CONSTANTS
  Children,     \* nid of a directory -> its entries, up to its first block
                \* without a place in the image
  Names, BadNames,  \* names that are looked up, and those not UTF-8
  Reads,        \* parts of a file [from, len] that are read
  Sector,       \* 1 << 9
  BlkValues,    \* 2^32, the number of values of a Blk
  Root,         \* nid of the root directory, as the image has it
  RootValues,   \* 2^16, the number of values of root_nid, which is signed
  NidValues,    \* 2^64, the number of values of a Nid, which is not
  MaxKnown,     \* bound: numbers the kernel keeps
  MaxHandles    \* bound: open files and directories

(* Nids a number can stand for: that of slot 0 would be the number of the  *)
(* root.                                                                   *)
Numbered == { n \in Nat : n = 0 => Root = 0 }

(* Images the numbers are made for: root_nid is not negative, and nothing  *)
(* of the tree but the root is in slot 0, neither of which the code looks  *)
(* at.  Names are distinct in a directory.  A directory with entries has   *)
(* data, in a layout that is decoded, and a first block in its place.      *)
ASSUME ServerAssumption ==
  /\ MaxKnown \in Nat \ {0} /\ MaxHandles \in Nat
  /\ RootValues \in Nat /\ NidValues \in Nat /\ RootValues < NidValues
  /\ Root \in Nat /\ 2 * Root < RootValues
  /\ Reads \subseteq [from : Nat, len : Nat \ {0}]
  /\ Sector \in 1 .. BlkSz /\ BlkValues \in Nat \ {0}
  /\ \A n \in DOMAIN Inodes :
       Inodes[n].version = "Compact" /\ Inodes[n].layout \in ChunkLayouts => Inodes[n].icount = 0
  /\ \A d \in DOMAIN Children :
       /\ Children[d] # <<>> =>
            LET i == AsInode(Slot(d), d)
            IN  i.size > 0 /\ ~MapTodo(i) /\ ~Unmapped(i, 0)
       /\ DOMAIN Children[d] \subseteq Nat
       /\ \A k \in DOMAIN Children[d] : Children[d][k].nid \in Numbered
       /\ \A j, k \in DOMAIN Children[d] :
            Children[d][j].name = Children[d][k].name => j = k

VARIABLES
  phase,    \* off, idle, asked, inode, search, child, replied
  req,      \* the request: op, ino, name, fh, and the nid the kernel means
  reply,    \* the reply the handler made
  known,    \* numbers the kernel holds, each with the inode it got it for
  handles   \* open files and directories, by the kernel's own handle

kernel == <<known, handles>>
state == <<phase, req, reply, kernel>>
vars == <<load, state>>

-----------------------------------------------------------------------------
(* Numbers. *)

FuseRootId == 1

(* The bits of an i16, as u64. *)
SignExtend(r) == IF 2 * r < RootValues THEN r ELSE r - RootValues + NidValues

(* superblock().root_nid as u64. *)
RootNid == SignExtend(Root)

InoToNid(ino) == IF ino = FuseRootId THEN RootNid ELSE ino - FuseRootId

NidToIno(nid) == IF nid = RootNid THEN FuseRootId ELSE nid + FuseRootId

(* A mutant of AttrIno: the nid itself. *)
AttrInoPlain(nid) == nid

(* The `ino` of a FileAttr, for the root too. *)
AttrIno(nid) == nid + FuseRootId

-----------------------------------------------------------------------------
(* Replies. *)

NoRequest == [op |-> "none"]
NoReply == [kind |-> "none"]
Abort == [kind |-> "panic"]
Failure(errno) == [kind |-> "error", errno |-> errno]

BuildTime == -2

(* inode_perm. *)
Perm(info) == info.perm % 512

(* blk_round_up_generic. *)
Blocks(size) == ((size + BlkSz - 1) \div Sector) % BlkValues

(* get_file_attr_from_filesystem_inode. *)
Fields(info, b) ==
  LET extended == info.version = "Extended"
  IN  [ type   |-> info.mode,
        perm   |-> Perm(info),
        size   |-> info.size,
        blocks |-> Blocks(info.size),
        nlink  |-> IF extended THEN b[44] ELSE b[6],
        uid    |-> b[24],
        gid    |-> IF extended THEN b[28] ELSE b[26],
        rdev   |-> 0,
        time   |-> IF extended THEN b[32] ELSE BuildTime ]

(* file_type_from_type panics for an inode without a type. *)
Attr(kind, nid, b) ==
  IF Info(b).mode = "Unknown" THEN Abort
  ELSE [kind |-> kind, ino |-> AttrIno(nid), fields |-> Fields(Info(b), b)]

(* filetype_from_dtype panics for any other number. *)
FileTypes == <<"Regular", "Directory", "Character", "Block", "Fifo", "Socket", "Link">>

Entries(nid) == IF nid \in DOMAIN Children THEN Children[nid] ELSE <<>>

Odd(nid) == \E k \in DOMAIN Entries(nid) : Entries(nid)[k].dtype \notin DOMAIN FileTypes

Listing(nid) ==
  [ kind |-> "listing",
    ents |-> [ k \in DOMAIN Entries(nid) |->
                 [ ino  |-> NidToIno(Entries(nid)[k].nid),
                   type |-> FileTypes[Entries(nid)[k].dtype],
                   name |-> Entries(nid)[k].name ] ] ]

(* find_nid: the first entry of the name. *)
Matching(nid, name) == { k \in DOMAIN Entries(nid) : Entries(nid)[k].name = name }
FoundNid(nid, name) == Entries(nid)[CHOOSE k \in Matching(nid, name) :
                                      \A j \in Matching(nid, name) : k <= j].nid

-----------------------------------------------------------------------------
Init ==
  /\ LoadInit
  /\ phase = "off" /\ req = NoRequest /\ reply = NoReply
  /\ known = {} /\ handles = {}

(* The handler `init`: the session starts, with the number of the root.    *)
Start ==
  /\ phase = "off"
  /\ phase' = "idle"
  /\ known' = {[ino |-> FuseRootId, nid |-> Root]}
  /\ UNCHANGED <<load, req, reply, handles>>

-----------------------------------------------------------------------------
(* The kernel. *)

TypeOf(nid) == DiskInode(nid).mode
NoSpan == [from |-> 0, len |-> 0]

Request(op, k, name, fh, span) ==
  [op |-> op, ino |-> k.ino, nid |-> k.nid, name |-> name, fh |-> fh, span |-> span]

Send(r) ==
  /\ phase = "idle"
  /\ phase' = "asked" /\ req' = r
  /\ UNCHANGED <<load, reply, kernel>>

AskAttr == \E k \in known : Send(Request("getattr", k, "", 0, NoSpan))

AskLookup ==
  \E k \in known, name \in Names :
    TypeOf(k.nid) = "Directory" /\ Send(Request("lookup", k, name, 0, NoSpan))

AskLink ==
  \E k \in known : TypeOf(k.nid) = "Link" /\ Send(Request("readlink", k, "", 0, NoSpan))

(* open and opendir do the same. *)
FreeHandles == (1 .. MaxHandles) \ { h.fh : h \in handles }

AskOpen ==
  \E k \in known :
    /\ TypeOf(k.nid) \in {"Directory", "Regular"}
    /\ FreeHandles # {}
    /\ Send(Request("open", k, "",
                    CHOOSE fh \in FreeHandles : \A g \in FreeHandles : fh <= g, NoSpan))

AskListing ==
  \E h \in handles :
    TypeOf(h.nid) = "Directory" /\ Send(Request("readdir", h, "", h.fh, NoSpan))

AskRead ==
  \E h \in handles, span \in Reads :
    TypeOf(h.nid) # "Directory" /\ Send(Request("read", h, "", h.fh, span))

(* release and releasedir do the same. *)
AskRelease == \E h \in handles : Send(Request("release", h, "", h.fh, NoSpan))

(* The number is given up; the server does nothing about it.               *)
Forget ==
  /\ phase = "idle"
  /\ \E k \in known :
       /\ k.ino # FuseRootId
       /\ \A h \in handles : h.ino # k.ino
       /\ known' = known \ {k}
  /\ UNCHANGED <<load, phase, req, reply, handles>>

(* The kernel takes a reply: it keeps the number of an entry if it has     *)
(* room, opens a handle or closes it.                                      *)
Meant(nid, name) == { Entries(nid)[k].nid : k \in Matching(nid, name) }

TakeReply ==
  /\ phase = "replied" /\ reply # Abort
  /\ phase' = "idle" /\ req' = NoRequest /\ reply' = NoReply
  /\ known' = IF reply.kind = "entry" /\ Cardinality(known) < MaxKnown
                THEN known \cup { [ino |-> reply.ino, nid |-> n] : n \in Meant(req.nid, req.name) }
                ELSE known
  /\ handles' = IF reply.kind = "opened"
                  THEN handles \cup {[fh |-> req.fh, ino |-> req.ino, nid |-> req.nid]}
                ELSE IF reply.kind = "done"
                  THEN { h \in handles : h.fh # req.fh }
                ELSE handles
  /\ UNCHANGED load

Kernel ==
  \/ AskAttr \/ AskLookup \/ AskLink \/ AskOpen \/ AskListing \/ AskRead \/ AskRelease
  \/ Forget \/ TakeReply

-----------------------------------------------------------------------------
(* The handlers. *)

Reply(r) == reply' = r /\ phase' = "replied" /\ UNCHANGED <<req, kernel>>

(* to_str().unwrap() of a name that is not UTF-8. *)
BadName == req.op = "lookup" /\ req.name \in BadNames

GetInode ==
  /\ phase = "asked" /\ req.op # "release" /\ ~BadName
  /\ Get(InoToNid(req.ino))
  /\ phase' = "inode"
  /\ UNCHANGED <<req, reply, kernel>>

RejectName ==
  /\ phase = "asked" /\ BadName
  /\ Reply(Abort)
  /\ UNCHANGED load

ReplyRelease ==
  /\ phase = "asked" /\ req.op = "release"
  /\ Remove(InoToNid(req.ino))
  /\ Reply([kind |-> "done"])

(* iget runs. *)
Loading ==
  /\ phase \in {"inode", "child"}
  /\ Load
  /\ UNCHANGED state

LoadingFails ==
  /\ phase \in {"inode", "child"}
  /\ LoadFails
  /\ UNCHANGED state

ReplyFailed ==
  /\ phase \in {"inode", "child"} /\ stage = "failed"
  /\ Leave
  /\ Reply(Failure("ERANGE"))

Got(op) == phase = "inode" /\ stage = "got" /\ req.op \in op

Held == collection[target].bytes

ReplyAttr ==
  /\ Got({"getattr"})
  /\ Leave
  /\ Reply(Attr("attr", target, Held))

ReplyOpened ==
  /\ Got({"open"})
  /\ Leave
  /\ Reply([kind |-> "opened"])

(* The iterator over the data: the inode it has, the offsets it asks the   *)
(* map for, and how a handler ends that takes all it yields.  map panics   *)
(* in todo!() or refuses an offset; a file is mapped as it is read, so     *)
(* what comes behind the part asked for does not matter.                   *)
HeldInode == AsInode(Info(Held), target)

Wanted ==
  IF req.op = "read"
    THEN req.span.from .. Lesser(req.span.from + req.span.len, HeldInode.size) - 1
    ELSE 0 .. HeldInode.size - 1

Refused == \E i \in {HeldInode} : \E k \in Wanted : MapRefused(i, k)

WalkedRegardless(found) ==   \* a mutant: a refused offset reads as nothing
  IF Wanted # {} /\ MapTodo(HeldInode) THEN Abort ELSE found

Walked(found) ==
  IF Wanted # {} /\ MapTodo(HeldInode) THEN Abort
  ELSE IF Refused THEN Failure("EUCLEAN")
  ELSE found

ReplyData ==
  /\ Got({"read", "readlink"})
  /\ Leave
  /\ Reply(Walked([kind |-> "data", of |-> [spec |-> Held[16], part |-> Wanted]]))

(* The first buffer is unwrapped, and an entry of an unknown type panics   *)
(* in the emitter, both before a later block is mapped.                    *)
ReplyListing ==
  /\ Got({"readdir"})
  /\ Leave
  /\ Reply(IF Wanted = {} \/ Odd(target) THEN Abort ELSE Walked(Listing(target)))

(* The backend fails under the iterator, whatever block it has come to:    *)
(* ERANGE is all that FuseFile gives.                                      *)
DataFails ==
  /\ Got({"read", "readlink", "readdir", "lookup"})
  /\ Wanted # {} /\ ~MapTodo(HeldInode) /\ HasSpec(HeldInode)
  /\ Leave
  /\ Reply(Failure("ERANGE"))

(* find_nid with the directory it got. *)
Search ==
  /\ Got({"lookup"})
  /\ Leave
  /\ IF Matching(target, req.name) # {}
       THEN phase' = "search" /\ UNCHANGED <<req, reply, kernel>>
       ELSE Reply(Walked(Failure("ENOENT")))

(* iget of what it found: `nid = n`, and the last read_inode of lookup.    *)
GetChild ==
  /\ phase = "search"
  /\ Get(FoundNid(target, req.name))
  /\ phase' = "child"
  /\ UNCHANGED <<req, reply, kernel>>

ReplyEntry ==
  /\ phase = "child" /\ stage = "got"
  /\ Leave
  /\ Reply(Attr("entry", target, Held))

Serve ==
  \/ GetInode \/ RejectName \/ ReplyRelease \/ Loading \/ ReplyFailed
  \/ ReplyAttr \/ ReplyOpened \/ ReplyData \/ ReplyListing
  \/ Search \/ GetChild \/ ReplyEntry

Next == Start \/ Kernel \/ Serve \/ LoadingFails \/ DataFails

Spec == Init /\ [][Next]_vars

(* The session runs a handler to its end.  The backend may fail and need   *)
(* not, and the kernel may ask nothing.                                    *)
FairSpec == Spec /\ WF_vars(Serve)

-----------------------------------------------------------------------------
(* Properties. *)

(* The variables of the load, and those of the session: a handler that     *)
(* waits for an inode has a load going on, and there is a reply exactly    *)
(* when it has returned.                                                   *)
TypeOK ==
  /\ LoadTypeOK
  /\ phase \in {"off", "idle", "asked", "inode", "search", "child", "replied"}
  /\ phase \in {"off", "idle"} <=> req = NoRequest
  /\ phase = "replied" <=> reply # NoReply
  /\ phase \in {"inode", "child"} <=> stage # "idle"
  /\ \A k \in known \cup handles : k.ino \in Nat \ {0} /\ k.nid \in Nat
  /\ Cardinality(known) <= MaxKnown /\ Cardinality(handles) <= MaxHandles

(* A number leads back to the inode it was given for: those of lookup,     *)
(* which are the nid plus one, and that of the root, which the kernel      *)
(* chose (main.rs:113-130, 161-175).                                       *)
NumbersExact == \A k \in known : InoToNid(k.ino) = k.nid

(* Whatever was asked, cached, released, forgotten or left half loaded     *)
(* before, a request is answered about the inode its number was given for, *)
(* out of the image, or refused with a reason; the server stops only where *)
(* the code has no answer.  Numbers in replies stand for what they lead to. *)
AskedNid ==
  IF req.op = "none" THEN req
  ELSE [op |-> req.op, nid |-> req.nid, name |-> req.name, span |-> req.span]

Shown ==
  IF reply.kind \in {"attr", "entry"}
    THEN [kind |-> reply.kind, nid |-> InoToNid(reply.ino), fields |-> reply.fields]
  ELSE IF reply.kind = "listing"
    THEN [ kind |-> "listing",
           ents |-> [ k \in DOMAIN reply.ents |->
                        [ nid  |-> InoToNid(reply.ents[k].ino),
                          type |-> reply.ents[k].type,
                          name |-> reply.ents[k].name ] ] ]
  ELSE reply

Service == INSTANCE FuseService WITH req <- AskedNid, reply <- Shown

ImplementsService == Service!Spec

(* Every request is answered, however many blocks its inodes are read from. *)
RequestAnswered == phase = "asked" ~> phase = "replied"
=============================================================================
