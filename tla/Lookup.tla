------------------------------- MODULE Lookup -------------------------------
(***************************************************************************)
(* Resolving a path: `operations::lookup` takes the components one by one, *)
(* gets the inode of the directory from the InodeCollection and asks       *)
(* `FileSystem::find_nid` for the component, which compares it with every  *)
(* entry of every buffer of the directory.  The collection keeps what it   *)
(* has loaded until the client releases it; a handler borrows it, so no    *)
(* release comes in the middle of a lookup.                                *)
(*                                                                         *)
(* A step is one iget, one fill of a buffer or one comparison.             *)
(***************************************************************************)
EXTENDS Directory, FiniteSets

CONSTANTS
  Tree,     \* nid -> a directory of the image, with `child`: name -> nid
  Leaves,   \* nids of the inodes that are no directories
  Paths,    \* paths of the clients, sequences of components
  Blank     \* the empty component, of a leading, trailing or doubled '/'

Nids == DOMAIN Tree \cup Leaves

ASSUME LookupAssumption ==
  /\ \A n \in DOMAIN Tree :
       WellStored(Tree[n]) /\ Tree[n].child \in [NamesOf(Tree[n]) -> Nids]
  /\ Paths \subseteq Seq(STRING)

(* A walk from an inode along a path has an inode for each place of the    *)
(* path; there is none when a component does not exist.                    *)
Step(n, part) ==
  IF part = Blank THEN {n}
  ELSE IF n \in DOMAIN Tree /\ part \in DOMAIN Tree[n].child
    THEN {Tree[n].child[part]} ELSE {}

Walks(start, p) ==
  { w \in [0 .. Len(p) -> Nids] :
      w[0] = start /\ \A k \in 1 .. Len(p) : w[k] \in Step(w[k - 1], p[k]) }

(* The nid a path leads to, if any. *)
Resolved(start, p) == { w[Len(p)] : w \in Walks(start, p) }

(* What a client asks for: a path in which a component follows directories *)
(* only.                                                                   *)
Askable(start, p) ==
  \A k \in 1 .. Len(p) :
    p[k] # Blank => Resolved(start, SubSeq(p, 1, k - 1)) \subseteq DOMAIN Tree

VARIABLES
  status,     \* idle, walking, searching, done
  from, path, \* arguments of the call
  nid,        \* lookup's `nid`, the inode the walk has come to
  rest,       \* the components that are left
  it, buf,    \* MapIter.offset, start of the buffer in hand
  idx,        \* DirCollection.offset
  collection, \* nids of the inodes in the InodeCollection
  answer      \* the outcome of the call

scan == <<it, buf, idx>>
call == <<from, path>>
vars == <<status, call, nid, rest, scan, collection, answer>>

None == [kind |-> "none"]
Found(n) == [kind |-> "found", nid |-> n]
Failed(errno) == [kind |-> "error", errno |-> errno]

Init ==
  /\ status = "idle"
  /\ from \in Nids /\ path = <<>> /\ nid = from /\ rest = <<>>
  /\ it = 0 /\ buf = 0 /\ idx = 0
  /\ collection = {}
  /\ answer = None

-----------------------------------------------------------------------------
(* The clients. *)

Call(n, p) ==
  /\ status \in {"idle", "done"}
  /\ Askable(n, p)
  /\ from' = n /\ path' = p /\ nid' = n /\ rest' = p
  /\ status' = "walking"
  /\ answer' = None
  /\ UNCHANGED <<scan, collection>>

Release(n) ==
  /\ status \in {"idle", "done"}
  /\ n \in collection
  /\ collection' = collection \ {n}
  /\ UNCHANGED <<status, call, nid, rest, scan, answer>>

-----------------------------------------------------------------------------
(* The walk. *)

Return(a) == answer' = a /\ status' = "done"

SkipBlank ==
  /\ status = "walking"
  /\ rest # <<>> /\ Head(rest) = Blank
  /\ rest' = Tail(rest)
  /\ UNCHANGED <<status, call, nid, scan, collection, answer>>

EnterAgain ==       \* a mutant: the iterator of the last search goes on
  /\ status = "walking"
  /\ rest # <<>> /\ Head(rest) # Blank
  /\ collection' = collection \cup {nid}
  /\ status' = "searching"
  /\ UNCHANGED <<call, nid, rest, scan, answer>>

(* iget of the directory: it is in the collection, or it is loaded.        *)
EnterDirectory ==
  /\ status = "walking"
  /\ rest # <<>> /\ Head(rest) # Blank
  /\ collection' = collection \cup {nid}
  /\ it' = 0 /\ buf' = 0 /\ idx' = 0
  /\ status' = "searching"
  /\ UNCHANGED <<call, nid, rest, answer>>

(* iget of the inode the path leads to. *)
Finish ==
  /\ status = "walking"
  /\ rest = <<>>
  /\ collection' = collection \cup {nid}
  /\ Return(Found(nid))
  /\ UNCHANGED <<call, nid, rest, scan>>

(* An inode that is not in the collection is read, which may fail; nothing *)
(* is kept of it then.                                                     *)
LoadFails ==
  /\ status = "walking"
  /\ rest # <<>> => Head(rest) # Blank
  /\ nid \notin collection
  /\ Return(Failed("ERANGE"))
  /\ UNCHANGED <<call, nid, rest, scan, collection>>

-----------------------------------------------------------------------------
(* find_nid. *)

Dir == Tree[nid]
Blk == buf \div BlkSz

(* The buffer in hand ends where the iterator has come to, and `idx` counts *)
(* its entries; there is no buffer at the start.                            *)
InHand == it > 0 /\ idx < Total(Dir, Blk)

NextBuffer ==
  /\ status = "searching" /\ ~InHand
  /\ it < Dir.inode.size
  /\ ~MapRefused(Dir.inode, it)
  /\ buf' = it
  /\ it' = it + Advance(Extent(Dir.inode, it))
  /\ idx' = 0
  /\ UNCHANGED <<status, call, nid, rest, collection, answer>>

(* The name of an entry equals the component only when it comes without    *)
(* the padding of the block.                                               *)
Matches(dirname) == dirname = [name |-> Head(rest), padded |-> FALSE]

MatchInPlace ==     \* a mutant: the component is looked for again
  /\ status = "searching" /\ InHand
  /\ Matches(Dirname(Dir, Blk, idx))
  /\ nid' = Dir.child[Entry(Dir, Blk, idx)]
  /\ status' = "walking"
  /\ UNCHANGED <<call, rest, scan, collection, answer>>

Match ==
  /\ status = "searching" /\ InHand
  /\ Matches(Dirname(Dir, Blk, idx))
  /\ nid' = Dir.child[Entry(Dir, Blk, idx)]
  /\ rest' = Tail(rest)
  /\ status' = "walking"
  /\ UNCHANGED <<call, scan, collection, answer>>

NoMatch ==
  /\ status = "searching" /\ InHand
  /\ ~Matches(Dirname(Dir, Blk, idx))
  /\ idx' = idx + 1
  /\ UNCHANGED <<status, call, nid, rest, it, buf, collection, answer>>

NotFound ==
  /\ status = "searching" /\ ~InHand
  /\ it >= Dir.inode.size
  /\ Return(Failed("ENOENT"))
  /\ UNCHANGED <<call, nid, rest, scan, collection>>

MapFails ==
  /\ status = "searching" /\ ~InHand
  /\ it < Dir.inode.size
  /\ MapRefused(Dir.inode, it)
  /\ Return(Failed("EUCLEAN"))
  /\ UNCHANGED <<call, nid, rest, scan, collection>>

BufferFails ==
  /\ status = "searching" /\ ~InHand
  /\ it < Dir.inode.size
  /\ Return(Failed("ERANGE"))
  /\ UNCHANGED <<call, nid, rest, scan, collection>>

Walk ==
  \/ SkipBlank \/ EnterDirectory \/ Finish
  \/ NextBuffer \/ MapFails \/ Match \/ NoMatch \/ NotFound

Next ==
  \/ \E n \in DOMAIN Tree, p \in Paths : Call(n, p)
  \/ \E n \in Nids : Release(n)
  \/ Walk \/ LoadFails \/ BufferFails

Spec == Init /\ [][Next]_vars

(* A handler runs to its end; the backend may fail and need not.           *)
FairSpec == Spec /\ WF_vars(Walk)

-----------------------------------------------------------------------------
(* Properties. *)

(* The variables: a search is always in a directory of the tree, inside its *)
(* data, and there is an answer exactly when the call is over.              *)
TypeOK ==
  /\ status \in {"idle", "walking", "searching", "done"}
  /\ from \in Nids /\ path \in Paths \cup {<<>>} /\ nid \in Nids
  /\ Len(rest) <= Len(path)
  /\ collection \subseteq Nids
  /\ status = "searching" =>
       /\ nid \in DOMAIN Tree /\ rest # <<>>
       /\ it \in 0 .. Dir.inode.size /\ buf \in 0 .. Dir.inode.size - 1
  /\ answer \in {None, Failed("ERANGE"), Failed("EUCLEAN"), Failed("ENOENT")}
                  \cup { Found(n) : n \in Nids }
  /\ status = "done" <=> answer # None

(* At every step of a walk the components left lead from the inode it has  *)
(* come to where the whole path leads: nothing a search leaves behind, a   *)
(* buffer, a cached inode or a component, moves the walk off its path.     *)
OnThePath ==
  status \in {"walking", "searching"} => Resolved(nid, rest) = Resolved(from, path)

(* lookup answers the inode the path leads to, with empty components left  *)
(* out, and ENOENT only when a component does not exist.                   *)
FoundExact == answer.kind = "found" => Resolved(from, path) = {answer.nid}

LookupExact ==
  /\ FoundExact
  /\ answer = Failed("ENOENT") => Resolved(from, path) = {}

(* A lookup comes to its end, however many buffers its directories have.   *)
LookupEnds == status = "walking" ~> status = "done"
=============================================================================
