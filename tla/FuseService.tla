---------------------------- MODULE FuseService -----------------------------
(***************************************************************************)
(* What the FUSE server promises: every request about an inode of the      *)
(* image is answered as if no request had come before it, from the image   *)
(* alone: with what is asked for, with EUCLEAN when a part of it has no    *)
(* place in the image, or with ERANGE when the backend failed.  Only what  *)
(* the server gives no answer to may stop it: an inode or an entry without *)
(* a known type, a name that is not UTF-8, data in a layout that is not    *)
(* decoded, and the listing of a directory without data.  Inodes are meant *)
(* by their nid; the numbers FUSE calls them by are the business of the    *)
(* implementation.                                                         *)
(***************************************************************************)
EXTENDS InodeTable, Sequences

CONSTANTS
  Children,   \* nid of a directory -> its entries [name, nid, dtype], in order,
              \* up to its first block without a place in the image
  Names,      \* names a client may look up
  BadNames,   \* those that are not UTF-8
  Reads,      \* parts of a file [from, len] a client may read
  Sector,     \* 1 << 9, the unit of st_blocks
  BlkValues   \* number of values of a Blk

VARIABLES
  req,      \* the request being served, or NoRequest
  reply     \* its reply, or NoReply

Ops == {"getattr", "lookup", "open", "release", "read", "readlink", "readdir"}

NoRequest == [op |-> "none"]
NoReply == [kind |-> "none"]
Abort == [kind |-> "panic"]
Opened == [kind |-> "opened"]
Done == [kind |-> "done"]
Failure(errno) == [kind |-> "error", errno |-> errno]
Attr(nid, fields) == [kind |-> "attr", nid |-> nid, fields |-> fields]
Entry(nid, fields) == [kind |-> "entry", nid |-> nid, fields |-> fields]
Data(of) == [kind |-> "data", of |-> of]
Listing(ents) == [kind |-> "listing", ents |-> ents]

(* Where the two forms of an inode keep their fields. *)
CompactField  == [spec |-> 16, nlink |-> 6, uid |-> 24, gid |-> 26]
ExtendedField == [spec |-> 16, nlink |-> 44, uid |-> 24, gid |-> 28, mtime |-> 32]

BuildTime == -2   \* the time of the superblock, which compact inodes have

FieldAt(nid, f) ==
  ByteAt(Iloc(nid) + (IF DiskInode(nid).version = "Extended"
                        THEN ExtendedField[f] ELSE CompactField[f]))

(* The sectors of a file: as many as its bytes take, and less than a block *)
(* more.  Of a number that a Blk has no room for nothing is promised.      *)
BlocksOf(size) ==
  { n \in 0 .. BlkValues - 1 :
      size + BlkSz <= Sector * BlkValues => size <= Sector * n /\ Sector * n < size + BlkSz }

(* What stat shows of an inode that takes that many sectors.               *)
Stat(nid, blocks) ==
  [ type   |-> DiskInode(nid).mode,
    perm   |-> DiskInode(nid).perm % 512,
    size   |-> DiskInode(nid).size,
    blocks |-> blocks,
    nlink  |-> FieldAt(nid, "nlink"),
    uid    |-> FieldAt(nid, "uid"),
    gid    |-> FieldAt(nid, "gid"),
    rdev   |-> 0,
    time   |-> IF DiskInode(nid).version = "Extended" THEN FieldAt(nid, "mtime") ELSE BuildTime ]

Stats(nid) == { Stat(nid, n) : n \in BlocksOf(DiskInode(nid).size) }

EntriesOf(dir) == IF dir \in DOMAIN Children THEN Children[dir] ELSE <<>>

ChildrenOf(dir, name) ==
  { EntriesOf(dir)[k].nid :
      k \in { k \in DOMAIN EntriesOf(dir) : EntriesOf(dir)[k].name = name } }

(* The types a directory entry can have, by their number on disk.          *)
Types == <<"Regular", "Directory", "Character", "Block", "Fifo", "Socket", "Link">>

ListingOf(dir) ==
  [ k \in DOMAIN EntriesOf(dir) |->
      [ nid  |-> EntriesOf(dir)[k].nid,
        type |-> Types[EntriesOf(dir)[k].dtype],
        name |-> EntriesOf(dir)[k].name ] ]

-----------------------------------------------------------------------------
(* The data a request needs. *)

Inode(nid) == AsInode(DiskInode(nid), nid)

(* The part of the data that is read: what a read asks for, as far as the  *)
(* file goes, and all of a link or of a directory.                         *)
PartOf(r) ==
  { k \in 0 .. DiskInode(r.nid).size - 1 :
      r.op = "read" => r.span.from <= k /\ k < r.span.from + r.span.len }

(* The requests that read their part to its end: a lookup stops where it   *)
(* finds the name.                                                         *)
ReadsData(r) ==
  \/ r.op \in {"read", "readlink", "readdir"}
  \/ r.op = "lookup" /\ ChildrenOf(r.nid, r.name) = {}

Hole(r) == \E k \in PartOf(r) : Unmapped(Inode(r.nid), k)

Undecoded(r) == PartOf(r) # {} /\ DiskInode(r.nid).layout \in OtherLayouts

(* The data is told by its i_u and the part of it. *)
DataOf(r) == [spec |-> FieldAt(r.nid, "spec"), part |-> PartOf(r)]

(* Requests there is no answer to. *)
Untyped(nid) == DiskInode(nid).mode = "Unknown"

Unlisted(r) ==
  \/ PartOf(r) = {}
  \/ \E k \in DOMAIN EntriesOf(r.nid) : EntriesOf(r.nid)[k].dtype \notin DOMAIN Types

Fatal(r) ==
  \/ r.op = "getattr" /\ Untyped(r.nid)
  \/ r.op = "lookup" /\ r.name \in BadNames
  \/ r.op = "lookup" /\ \E child \in ChildrenOf(r.nid, r.name) : Untyped(child)
  \/ r.op = "readdir" /\ Unlisted(r)
  \/ ReadsData(r) /\ Undecoded(r)

-----------------------------------------------------------------------------
NoName == ""
NoSpan == [from |-> 0, len |-> 0]

Requests == [op: Ops, nid: Nat, name: Names \cup {NoName}, span: Reads \cup {NoSpan}]

Init == req = NoRequest /\ reply = NoReply

Ask ==
  /\ req = NoRequest
  /\ req' \in Requests
  /\ UNCHANGED reply

(* What a request that reads all of its part is answered with, if all of   *)
(* it is there.                                                            *)
Found(r) ==
  CASE r.op = "readdir" -> Listing(ListingOf(r.nid))
    [] r.op = "lookup"  -> Failure("ENOENT")
    [] OTHER            -> Data(DataOf(r))

(* The right answers to each request.                                      *)
Answers(r, a) ==
  \/ r.op = "getattr" /\ \E stat \in Stats(r.nid) : a = Attr(r.nid, stat)
  \/ /\ r.op = "lookup"
     /\ \E child \in ChildrenOf(r.nid, r.name) : \E stat \in Stats(child) : a = Entry(child, stat)
  \/ r.op = "open" /\ a = Opened
  \/ r.op = "release" /\ a = Done
  \/ ReadsData(r) /\ ~Hole(r) /\ a = Found(r)
  \/ ReadsData(r) /\ Hole(r) /\ a = Failure("EUCLEAN")

Waiting == req # NoRequest /\ reply = NoReply

Deliver ==
  /\ Waiting /\ ~Fatal(req)
  /\ Answers(req, reply')
  /\ UNCHANGED req

(* A release needs nothing of the image. *)
Refuse ==
  /\ Waiting /\ req.op # "release"
  /\ reply' = Failure("ERANGE")
  /\ UNCHANGED req

Crash ==
  /\ Waiting /\ Fatal(req)
  /\ reply' = Abort
  /\ UNCHANGED req

Retire ==
  /\ reply \notin {NoReply, Abort}
  /\ req' = NoRequest /\ reply' = NoReply

Next == Ask \/ Deliver \/ Refuse \/ Crash \/ Retire

vars == <<req, reply>>

Spec == Init /\ [][Next]_vars
=============================================================================
