----------------------------- MODULE FileRead ------------------------------
(***************************************************************************)
(* Reading file data: `ErofsFuse::try_read` and `try_read_link` pull       *)
(* buffers from `mapped_iter`, an iterator over buffers on top of          *)
(* `MapIter`, an iterator over extents on top of `FileSystem::map`.        *)
(*                                                                         *)
(* A handler runs to its end before the session takes the next request,    *)
(* and every step below is one turn of its loop.  The backend may fail at  *)
(* any call.                                                               *)
(***************************************************************************)
EXTENDS FileService

VARIABLES
  status,   \* where the handler is: idle, opening, busy, done
  it,       \* MapIter.offset
  left,     \* try_read's `size`, what is left to read
  got,      \* result.len()
  out       \* result, byte number -> the address it was read from

state == <<status, it, left, got, out>>
allVars == <<req, answer, status, it, left, got, out>>

NoBytes == [j \in 0 .. -1 |-> Zero]

ReadInit ==
  /\ Init
  /\ status = "idle"
  /\ it = 0 /\ left = 0 /\ got = 0 /\ out = NoBytes

-----------------------------------------------------------------------------
(* The client. *)

Request(r) ==
  /\ Ask(r)
  /\ status' = "opening"
  /\ UNCHANGED <<it, left, got, out>>

(* The reply has left; the session is ready for the next request. *)
NextRequest ==
  /\ status = "done"
  /\ Retire
  /\ status' = "idle"
  /\ it' = 0 /\ left' = 0 /\ got' = 0 /\ out' = NoBytes

-----------------------------------------------------------------------------
(* The handler. *)

Return(a) == answer' = a /\ status' = "done"

(* iget found or loaded the inode, mapped_iter made the iterator. *)
Open ==
  /\ status = "opening"
  /\ status' = "busy"
  /\ it' = req.off
  /\ left' = req.size
  /\ UNCHANGED <<req, answer, got, out>>

(* MapIter::next has an extent to ask for. *)
More == status = "busy" /\ it < req.inode.size

Mapped == More /\ ~MapTodo(req.inode) /\ ~MapRefused(req.inode, it)

(* chunk_map reads the entry of a chunk before it looks whether the chunk  *)
(* is stored.                                                              *)
ReadsTable == More /\ req.inode.layout \in ChunkLayouts /\ HasSpec(req.inode)

(* The backend failed under iget, chunk_map or the fill of a buffer. *)
BackendFails ==
  /\ status = "opening" \/ Mapped \/ ReadsTable
  /\ Return(Failure("ERANGE"))
  /\ UNCHANGED <<req, it, left, got, out>>

(* A mutant of Take: a buffer is kept whole. *)
TakeWhole(n) == n

(* How much of a buffer of n bytes the loop keeps. *)
Take(n) == IF req.op = "read" THEN Lesser(n, left) ELSE n

Appended(bytes, n, e) ==
  [ j \in 0 .. got + n - 1 |->
      IF j < got THEN bytes[j] ELSE ByteAt(e.start + (j - got)) ]

(* One turn of the loop: the iterator moves on and yields a buffer, the    *)
(* handler keeps what was asked for, and try_read stops when that is all.  *)
Yield ==
  /\ Mapped
  /\ LET e == Extent(req.inode, it)
         n == Take(YieldLen(e))
     IN  /\ it' = it + Advance(e)
         /\ got' = got + n
         /\ out' = Appended(out, n, e)
         /\ left' = IF req.op = "read" THEN left - n ELSE left
  /\ IF req.op = "read" /\ left' = 0
       THEN Return(Data(got', out'))
       ELSE UNCHANGED <<status, answer>>
  /\ UNCHANGED req

(* The iterator is exhausted: try_read returns what it has and             *)
(* try_read_link pushes a NUL.                                             *)
Exhausted ==
  /\ status = "busy"
  /\ it >= req.inode.size
  /\ IF req.op = "read"
       THEN Return(Data(got, out)) /\ UNCHANGED <<got, out>>
       ELSE /\ got' = got + 1
            /\ out' = [j \in 0 .. got |-> IF j < got THEN out[j] ELSE Zero]
            /\ Return(Data(got', out'))
  /\ UNCHANGED <<req, it, left>>

(* map returned EUCLEAN, and `res?` hands it to the caller. *)
MapFails ==
  /\ More
  /\ MapRefused(req.inode, it)
  /\ Return(Failure("EUCLEAN"))
  /\ UNCHANGED <<req, it, left, got, out>>

(* todo!() in map: the process dies. *)
Panic ==
  /\ More
  /\ MapTodo(req.inode)
  /\ Return(Abort)
  /\ UNCHANGED <<req, it, left, got, out>>

Turn == Open \/ Yield \/ Exhausted \/ MapFails \/ Panic

Handler == Turn \/ BackendFails

ReadNext == (\E r \in Requests : Request(r)) \/ Handler \/ NextRequest

ReadSpec == ReadInit /\ [][ReadNext]_allVars

(* The session calls a handler and waits for it: its turns come.  The      *)
(* backend may fail and need not, a client may never ask and never take    *)
(* its answer.                                                             *)
FairReadSpec == ReadSpec /\ WF_allVars(Turn)

-----------------------------------------------------------------------------
(* Properties. *)

(* The handler's variables: `answer` is made of what the loop collected,   *)
(* and there is an answer exactly when the handler has returned.           *)
TypeOK ==
  /\ req \in Requests \cup {NoRequest}
  /\ status \in {"idle", "opening", "busy", "done"}
  /\ it \in Nat /\ left \in Nat /\ got \in Nat
  /\ out \in [0 .. got - 1 -> Nat \cup {Zero}]
  /\ answer \in {NoAnswer, Abort, Failure("ERANGE"), Failure("EUCLEAN"), Data(got, out)}
  /\ status = "idle" <=> req = NoRequest
  /\ status = "done" <=> answer # NoAnswer

(* Whatever the layout, the alignment of the request and the number of     *)
(* buffers so far, the bytes try_read and try_read_link hold are the file's *)
(* bytes from the requested offset on, in order and with none skipped or   *)
(* repeated: MapIter moves on by exactly what the buffer iterator yields,  *)
(* and the extents flatmap and chunk_map cut are where the format put the  *)
(* bytes; a byte the image does not store is never made up.                *)
PrefixExact ==
  status = "busy" =>
    \A j \in 0 .. got - 1 :
      /\ ~Unmapped(req.inode, req.off + j)
      /\ out[j] = Home(req.inode, req.off + j)

(* Every turn of the loop makes progress, stays inside the file and leaves *)
(* what it collected before alone.                                         *)
LoopProgress ==
  [][ status = "busy" /\ status' = "busy" =>
        /\ it < it' /\ it' <= req.inode.size
        /\ \A j \in 0 .. got - 1 : j < got' /\ out'[j] = out[j] ]_allVars

(* The handlers answer what reading a file promises: the exact range,      *)
(* clipped to the end of the file, or an error with a reason.              *)
ImplementsFileService == Spec

(* A request whose handler is running is answered: no extent is ever       *)
(* empty, so the loop over the buffers ends.                               *)
RequestAnswered == status = "opening" ~> status = "done"

(* A claim of the sources that the code does not keep for every image.     *)
(* The buffers of a file, put together, are no longer than the file        *)
(* (superblock.rs:664-669 hashes them against the whole file).             *)
EndsWithTheFile ==
  answer.kind = "data" /\ req.op = "read" =>
    answer.len <= RangeLen(req.inode, req.off, req.size)
=============================================================================
