---------------------------- MODULE FileService ----------------------------
(***************************************************************************)
(* What reading a file promises: a `read` is answered with exactly the     *)
(* bytes of the file in the requested range that exist, a `readlink` with  *)
(* all of them and a final zero, or else with an error: ERANGE when the    *)
(* backend failed, EUCLEAN when the request touches a byte that has no     *)
(* place in the image.  One request is served at a time, as the FUSE    *)
(* session does.  Bytes are named by the address at which the on-disk      *)
(* format stores them.                                                     *)
(***************************************************************************)
EXTENDS BlockMap

CONSTANTS
  Inodes,   \* the inodes of the image
  Offsets,  \* offsets a client may read at
  Sizes     \* sizes a client may ask for

ASSUME ServiceAssumption ==
  /\ \A i \in Inodes : IsInode(i)
  /\ Offsets \subseteq Nat /\ Sizes \subseteq Nat

VARIABLES
  req,      \* the request being served, or NoRequest
  answer    \* its answer, or NoAnswer

NoRequest == [op |-> "none"]

Requests ==
  [op: {"read"}, inode: Inodes, off: Offsets, size: Sizes]
    \cup [op: {"readlink"}, inode: Inodes, off: {0}, size: {0}]

NoAnswer == [kind |-> "none"]
Abort    == [kind |-> "panic"]
Failure(errno) == [kind |-> "error", errno |-> errno]
Data(n, bytes) == [kind |-> "data", len |-> n, bytes |-> bytes]

(* The bytes of a file in a range, clipped to the end of the file. *)
RangeLen(i, off, size) == IF off >= i.size THEN 0 ELSE Lesser(size, i.size - off)

RangeBytes(i, off, n) == [j \in 0 .. n-1 |-> Home(i, off + j)]

LinkBytes(i) == [j \in 0 .. i.size |-> IF j < i.size THEN Home(i, j) ELSE Zero]

Contents(r) ==
  IF r.op = "read"
    THEN LET n == RangeLen(r.inode, r.off, r.size)
         IN  Data(n, RangeBytes(r.inode, r.off, n))
    ELSE Data(r.inode.size + 1, LinkBytes(r.inode))

(* Some byte the request needs is unmapped; a read of no bytes inside the  *)
(* file still looks up the byte it starts at.                              *)
TouchesUnmapped(r) ==
  \E k \in 0 .. r.inode.size - 1 :
    /\ Unmapped(r.inode, k)
    /\ r.op = "read" => r.off <= k /\ (k < r.off + r.size \/ k = r.off)

-----------------------------------------------------------------------------
Init == req = NoRequest /\ answer = NoAnswer

Ask(r) ==
  /\ req = NoRequest
  /\ req' = r
  /\ UNCHANGED answer

Pending == req # NoRequest /\ answer = NoAnswer

Deliver ==
  /\ Pending
  /\ ~TouchesUnmapped(req)
  /\ answer' = Contents(req)
  /\ UNCHANGED req

Refuse ==
  /\ Pending
  /\ \/ answer' = Failure("ERANGE")
     \/ TouchesUnmapped(req) /\ answer' = Failure("EUCLEAN")
  /\ UNCHANGED req

(* Only a layout the library does not implement may stop the server. *)
Crash ==
  /\ Pending
  /\ MapTodo(req.inode)
  /\ answer' = Abort
  /\ UNCHANGED req

Retire ==
  /\ answer \notin {NoAnswer, Abort}
  /\ req' = NoRequest
  /\ answer' = NoAnswer

Next == (\E r \in Requests : Ask(r)) \/ Deliver \/ Refuse \/ Crash \/ Retire

vars == <<req, answer>>

Spec == Init /\ [][Next]_vars
=============================================================================
