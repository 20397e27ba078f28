# A verification project for erofs-rs

`erofs-rs` reads EROFS images: `src/erofs-sys` is the library, `src/fuse` a FUSE
server on top of it. This directory holds TLA+ modules translated from that code,
TLC configurations that check them on small images, and proofs for every image.

## The system

| component | state | operations | interacts with |
|---|---|---|---|
| superblock arithmetic (`superblock.rs`, `lib.rs`) | none | `Accessor`, `blkpos`, `blk_round_up`, `iloc`, `round!` | used by everything |
| block map (`superblock.rs`, `inode.rs`) | none; reads chunk tables | `map`, `flatmap`, `chunk_map` | backend |
| mapped iterators (`map.rs`, `temp_iter.rs`, `ref_iter.rs`) | the offset reached | `next` | map, backend |
| continuous iterators and cursor (`raw_iters*`) | offset and length left; a buffer and a position in it | `next`, `advance_off`, `eof`; `skip`, `read`, `try_cmp` | backend |
| directories (`dir.rs`, `superblock.rs`) | index in a block | `fill_dentries`, `find_nid` | mapped iterators, an emitter callback |
| path lookup (`operations.rs`) | inode reached, components left | `lookup`, `dir_lookup` | `find_nid`, inode collection |
| inode collection (`inode.rs`, `main.rs`) | nid -> inode | `iget`, `release` | inode loading |
| inode loading (`inode.rs`, `superblock.rs`) | a buffer, an iterator over the shared indexes | `InodeInfo::try_from`, `read_inode_xattrs_shared_entries` | backend, continuous iterators, inode collection |
| extended attributes (`xattrs.rs`, `superblock.rs`) | a cursor | `get_xattr`, `list_xattrs` | cursor |
| mount (`superblock/file.rs`, `mem.rs`, `devices.rs`) | superblock, prefixes, devices | `try_new` | continuous iterators |
| FUSE server (`fuse/src/main.rs`) | filesystem, collection | one handler per request, `nid_to_ino`, `ino_to_nid` | the kernel, and all of the above |
| backends (`data*`) | none | `fill`, `as_buf` | the image file |
| `mkfs`, `dump`, `errnos`, `alloc_helper`, `compression` | none | - | - |

The server handles one request at a time, and nothing is written: there is no
concurrency inside and no crash recovery. What is hard is the arithmetic of ranges
cut at block, chunk, extent and file boundaries by several iterators stacked on each
other, each computing the same lengths again; protocols that span calls (a listing
over several replies, a walk over several directories, numbers that outlive the request
that gave them); a cache that is filled in several reads, each of which may fail;
backends that fail or fill short in the middle; tables of an image that are taken at
their word; and loops that must end. `PROJECT.json` lists these hazards at their lines.

## Modules

`ErofsGeometry` is the address arithmetic, with the block size itself a constant.
`BlockMap` adds the inode fields and the map. It has two halves: what the code
computes (`FlatExtent`, `ChunkExtent`, `MapRefused`, `Advance`, `YieldLen`) and where
the on-disk format puts things (`Home`, `Unmapped`, `DiskMetaEnd`); bytes are named
by their address in the image, so reading the right bytes is comparing addresses.

`FileService` (abstract) says what reading a file promises: the exact range clipped
to the end of the file, or an error with a reason. `FileRead` is `try_read` and
`try_read_link`: `it` is `MapIter.offset`, `left` is `size`, `got` and `out` are
`result`; `Yield` is one turn of the `for` loop with everything below it,
`Exhausted` the end of the iterator, `MapFails` and `BackendFails` the `?`s, `Panic`
the `todo!()` of `map`. Its `Supported` is the boundary of the library: images on
which three deviations below do not bite.

`LinearCursor` (abstract) is a cursor over one run of bytes; `SkipCursor` is
`SkippableContinuousIter` over an iterator that cuts the run at block boundaries.
`off`, `len` are the iterator's fields, `start`, `blen` the buffer in hand, `cur` the
position in it, `bcur` the local of `read` and `try_cmp`; each action is the part of
a call up to the next call to the iterator. The refinement maps `Pos`, the bytes of
the run behind the cursor.

`XattrScan` is `get_xattr` and `list_xattrs`, composed with `SkipCursor`: it declares
the cursor's variables, instantiates it and conjoins its actions, so that a scan meets
what the cursor really does at that place of the image. `stage` is the call the scan
waits for, `sh` the loop over the shared entries, `hdr` the header in progress, `used`
the local `offset` of `list_xattrs`. Here the image is bytes, since the scan takes bytes
of values for headers. The properties compare with `Stored`, the attributes as the
on-disk format has them.

`Directory` says what `DirCollection` sees in a block. `Readdir` is `fill_dentries`
with three clients: the FUSE kernel client with the cookies of `ErofsFuse::readdir`,
a client that resumes at the position the emitter was given, and any single call of
the library. `Lookup` is `operations::lookup` with `find_nid` and the inode
collection; `release` comes between calls, since a handler borrows the collection.

`InodeTable` is the inode table of an image: what is in a slot, and where the shared
attributes of an inode are. `InodeLoad` is `iget` on a miss, and the collection: `todo`
are the fills of `try_from` that are left, `bytes` its `buf`, `it` and `left` the
iterator over the indexes, `words` the indexes; one action is one call of the backend
and the code up to the next, and `LoadFails` is the `?` on any of them. `LoadNext` leaves
open who calls `Get`, `Remove` and `Leave`.

`FuseService` (abstract) says what the server promises: each request is answered from
the image alone, as if none had come before it. It calls inodes by nid. `FuseServer`
is `ErofsFuse` with its kernel, and extends `InodeLoad`: it declares the session and
conjoins the handlers' steps with those of the collection. `req` and `reply` are the
request and what the handler passes to its reply object, `phase` how far the handler is;
the kernel's side is `known`, the numbers it holds with the inode each was given for,
and `handles`. The refinement replaces a number in a reply by the inode that the number
leads back to, so that a wrong number is an answer about another inode.

A handler that walks over data does so in one step, which keeps how the walk ends. `Wanted` is
the part it maps and `Walked` what becomes of it: a panic when the layout is not decoded, EUCLEAN
when the map refuses an offset, and else what the handler has found; `DataFails` is the backend,
at any block. `ReplyListing` panics on the first buffer of a directory without data, and on an
entry of an unknown type. `Search` ends with its entry before it comes to a later hole. The
service says the same from the side of the image: `Hole` and `Undecoded` are about where the
format puts the data (`Unmapped`), not about what the map computes. `Children` are the entries of
a directory up to its first block without a place, which is what a walk can see. `Fields` has what
`FileAttr` has: `blocks` in sectors of 512 bytes (`Blocks`, cut to 32 bits), `perm` (nine bits of the
mode), `rdev` 0; of the times, which are all the same, there is one. `BlocksOf` says that the
sectors are as many as the file takes and less than a block more.

`Mount` is `try_new` of both file systems: the superblock, then `get_xattr_infixes` and
`get_device_infos` in the order of the source, each with its iterator (`it`, `left`), a
buffer at a time. An image is its length, the four fields of the superblock that are used, and
`sizes`, the two-byte numbers in it that are not zero, by address; what is read is told by its
address. The fields are signed, as the code declares them: `AsOff` is the conversion to `u64`, so
that a negative `xattr_prefix_start` is an address near 2^64 (`OffSize`), which a file refuses
(`Refuses`) and memory panics on (`Outside`: the slice of a mapped file, the only memory in the
sources, is one of the tests), and a negative `devt_slotoff` or `extra_devices` overflows when it is
multiplied by 128 (`Overflows`). The build is one with overflow checks.

`LayoutProofs` holds the lemmas that the other proofs share; `FileReadProofs`, `SkipCursorProofs`,
`XattrScanProofs`, `ReaddirProofs`, `LookupProofs`, `MountProofs` and `FuseServerProofs` hold those
of their components, `FuseServerProofs` those of `InodeLoad` too. The `MC*` modules give the constants values. The operators marked as mutants are plausible bugs: putting one in
the place of the definition it is a variant of makes a property fail, which shows
that the property depends on that code.

## Runs

| run | checks | bounds |
|---|---|---|
| `read` | the bytes are right at every turn and in the answer, turns progress, requests are answered; inodes without data are refused, only a compressed layout panics | 16-byte blocks, twelve inodes: flat and inline (tail inside a block, across a block, a whole block), empty, chunked with chunks out of order, with a hole, indexed, a fifo, compressed; offsets and sizes at, before and after block, chunk and file ends |
| `cursor` | any calls of any length: what is read stays in the range; `eof()` holds exactly at its end | 4-byte blocks, a range that starts and ends inside a block and spans four, lengths up to a block and a half |
| `cursor_local` | callers that stay in the range and skip inside the buffer get a linear cursor, without a panic, and their calls end | the same |
| `listing` | each call emits exactly what it has to; a buffer is a directory block; listings are complete and end | 64-byte blocks of up to three entries, one to three blocks, flat, inline and chunked; offsets at, inside and between descriptors, in the names, at and past the end |
| `lookup` | the walk stays on its path and finds exactly the inode of the path, and ends | a tree of three directories, one of them with a missing chunk; paths with empty components, missing names, cycles |
| `xattrs` | asked for by name, in line or shared, an attribute is found with its value and only if it is there; a listing has all keys in order; nothing outside the attributes is filled; only a small buffer panics; calls end | 32-byte blocks; an entry that ends with a block, one with an infix, names over two blocks, a value over two blocks before another entry, an unknown infix, shared entries only, none; names that differ at the start, in the second block and at the end; buffers that are too small, just large enough, none |
| `server` | numbers lead back to the inode they were given for; cached inodes are those of the image; nothing half read is cached; no fill crosses a block; every handler answers from the image, with EUCLEAN for a hole, and does answer | 64-byte blocks of two slots in an image of 1088 bytes: the root; a directory with an entry of no known type, an empty one, and one with a hole behind its first block and an entry past the end of the image; an extended file over two blocks with 70 shared attributes and a hole in its second chunk; a compressed one whose indexes the end of the image cuts off; a link. Parts of a file before, across and behind the hole (`Reads`). Sectors of 16 bytes, 8 values of a block number, 16 of `root_nid` and 256 of a nid (`Sector`, `BlkValues`, `RootValues`, `NidValues`), so that `blocks` wraps; the kernel holds two numbers (`MaxKnown`) and one handle (`MaxHandles`), looks up, opens, reads, releases and forgets in any order, and the backend may fail at every fill; 314606 states |
| `mount` | the devices are complete and in order; prefixes are read inside their table; `PanicCauses`: only the prefixes, a negative place or number of devices, or memory that ends too early make a mount panic; an aligned table always does; mounts end | 256-byte blocks; twelve tables of prefixes (empty, aligned, unaligned, over a block boundary, with one inside a size, with a negative start) with eleven of devices (none, one, over one and several boundaries, over and behind the end of the image, with a negative place or number, at the largest slot), in images that end before the superblock, inside a device slot and with a block; from a file and from memory; 2^24 in the place of 2^64 |
| `read_compact_attrs`, `read_partial_chunk`, `cursor_across`, `listing_replies` | four deviations, see below | one of the above with the image that shows it |

Block sizes are small so that every boundary (before, at, after, across two) is met
with few bytes; the code uses the block size only through the operators of
`ErofsGeometry`, and the theorems about reading hold for every size. `MaxCalls` bounds the calls of one listing; it is
larger than the number of entries of any directory, and every reply has room for one.
`CHECK_DEADLOCK FALSE` is in the runs where the program stops: a panic, a cursor that
is dropped, a listing that has ended.

### What does not hold

* `read_compact_attrs`: `xattr_size` is 0 for compact inodes (`inode.rs:331`), so the
  inline tail and the chunk table of one with attributes are read from the wrong place.
* `read_partial_chunk`: with chunk indexes the last extent is not clipped to the file
  (`superblock.rs:249-258`).
* `cursor_across`: a skip past the buffer in hand goes to the start of the next buffer
  (`raw_iters.rs:58-62`).
* `listing_replies`: cookies restart at 2 in each FUSE reply (`main.rs:227-232`).

More is in the models and has no run of its own:

* the last name of a directory block includes the padding behind it (`dir.rs:66-72`);
  the directories of `lookup` end with their last name, and `LookupCorrect` assumes it.
* An attribute entry that is refused by its header is not skipped
  (`xattrs.rs:214-241`): the scan reads its name and value four bytes at a time as
  headers, which brings it to the next entry unless they hold what looks like one.
* A short fill passes for a full one (`temp_iter.rs:39`; `ByteAt` has it).
* `shared_count << 2` wraps in eight bits from 64 shared attributes on
  (`superblock.rs:418`; `SharedLen` has it): indexes at the end are lost. What `CacheExact` asks of
  a cached inode is that its indexes are the first of the image (`Faithful`), and all of them
  (`Complete`) only when there are fewer than 64; a load that kept all 70 of the inode in the run
  would satisfy it too.
* A negative `devt_slotoff` or `extra_devices` panics a mount (`superblock/file.rs:85-86`;
  `PanicCauses` names it). Without overflow checks the product would wrap instead, to another table.
* An infix without a byte is indexed out of its bounds (`xattrs.rs:107-109`): a table of prefixes
  can have one, of size zero. In `XattrScan` an infix is its first byte and the rest
  (`XattrAssumption`), so the images of `xattrs` have none.
* `list_xattrs` panics when the buffer is too small (`PanicsOnlyWhenFull` says that
  nothing else stops it).
* A table of prefixes that starts at a multiple of four panics at mount
  (`operations.rs:112`; `AlignedTablesPanic`), and its length is taken as four bytes for
  each prefix (`superblock/file.rs:78-80`), which is why `InfixesInTable` is about the table so
  understood.
* `root_nid` is sign-extended into a nid (`superblock.rs:73`, `main.rs:162, 171`; `SignExtend`): the
  root is found exactly when its sixteenth bit is clear, which is what `RootNumberExact` proves. And
  nid 0 and the root get the same number (`main.rs:165`). `NumbersExact` and the service are about
  images with neither (`ServerAssumption`): a root in the positive half, slot 0 left to the root.
* Listing a directory without data panics (`superblock.rs:362`), as does any walk over a
  layout that is not decoded (`superblock.rs:303`); `FuseService` allows both (`Fatal`).
* `blocks` of a file of 2 TiB or more is cut to 32 bits (`superblock.rs:154`); `BlocksOf`
  promises nothing of it.
* `getattr` of the root replies with its nid plus one (`main.rs:113`), where the kernel and
  listings say 1. Both lead back to it.
* `release` drops the inode from the collection whoever else has it open, and `forget` is
  not handled; later requests load it again, so that neither is seen in an answer.
* The superblock is taken as it is: neither the magic nor the checksum is looked at
  (`superblock/file.rs:75`).

The requests of `xattrs` are `Plain`: their images keep away from look-alike entries, from more
than 63 indexes and from skips over a block boundary, except in a shared entry, whose cursor is
dropped after it. What the three properties of answers say holds for such requests only, and TLC
evaluates the condition on every request of the run (`PlainRequests` in `MCXattrScan`).

## Fairness

Weak fairness is assumed of the handlers only (`Turn`, `Body`, `FillDentries`,
`Walk`, `Scan`, `Serve`, `Work`): a handler is a function that the session or the caller's thread runs to its
end. `FairSpec` of `Readdir` also assumes that a client that lists a directory goes
on. The backend may fail at every call, but failing is never fair: no loop ends only
because a backend would have to fail in the end. Nothing is assumed of the clients of
the other modules.

## Proofs

Those about reading files (`FileReadProofs`) are from the named assumptions on constants (`BlkSz` positive,
numbers natural, every inode well formed) and `SupportedImage`: no compact inode has
attributes, an indexed chunk table covers whole chunks, and the image holds the bytes
it refers to. `read_compact_attrs`, `read_partial_chunk` and the short fill above are why it is needed.

* `TypeCorrect`: `[]TypeOK`.
* `PrefixCorrect`: `[]PrefixExact`, what has been collected is the exact beginning of
  the requested range.
* `ProgressCorrect`: every turn moves forward inside the file and only appends.
* `ReadImplementsService`: the handlers implement `FileService`.

The inductive invariant `Inv` is the type invariant, `PrefixExact` and `Aligned`,
which ties the iterator to the result: `it = req.off + got` while the loop runs (and
`left` to what was asked for). Without it nothing says that the next extent continues
the bytes collected. The argument has three layers: the first part of `LayoutProofs`, about
division, remainder and rounding; its second, with `FlatLocated`, `ChunkLocated` and `YieldExact`, which say that
the map's extents are located where the format puts the bytes; and `InvNext`, one step
per action. `StepImplements` maps `Yield` to `Deliver` when it is the last turn and to
a stutter otherwise.

`SkipCursorProofs` is about the attribute cursor, for every range, block size and set of
lengths a caller may ask for, with no assumption but that they are numbers:

* `TypeCorrect`: `[]TypeOK`.
* `RangeCorrect`: `[]StaysInRange`, what a read returns is a run of bytes of the range.
* `EofCorrect`: `[]EofAtTheEnd`.
* `UnwrapUnreached`: `[]NeverUnwraps` under `LocalSpec`.
* `LocalImplementsCursor`: under `LocalSpec` the cursor implements `LinearCursor`.

Its `Inv` adds to the types that the buffer in hand ends where the iterator goes on
(`Window1`), that what a loop has copied is the run that ends there (`Loop`), and that the
last result is a run of the range (`Results`). `Asked` says that the call in progress ends
in the range; with `Inv` it excludes a loop over an exhausted iterator. `Local` adds for the
refinement that a new cursor starts at the beginning of the range (`Fresh`) and that a
comparison that goes on has passed equal bytes only (`SoFarEqual`).

For the scans that use the cursor there are lemmas about where it is in the image (`Place`):
`Moved`, a call for no more than the range has ends where it should, with the bytes that are
there, or for a comparison that fails, after at least one byte that differs and at the end of
the name or of a buffer; `UnwrapPast`, only a call for more meets the `unwrap`; `EdgeNext`, a
buffer ends with its block or with the range; `RestOfBlock`, from behind a cursor that has read
something to the end of its block everything is in the buffer in hand, so a skip that stays in
the block stays in the buffer.

`ReaddirProofs` is about listings, for every block size and any directories, offsets and
clients, from `ReaddirAssumption`: directories are well formed, supported, and have their
tail inside one block of the image.

* `TypeCorrect`: `[]TypeOK`.
* `BlocksCorrect`: `[]WholeBlocks`.
* `FillCorrect`: `[]FillExact`.
* `ListingComplete`: `[]EndsComplete`, provided the kernel's replies have room for the
  whole directory (`"fuse" \notin SmallReplies`); otherwise it is false, which is what
  `listing_replies` shows. Clients that resume by position need no such room.

The first two make up the invariant `Inv`, since the entry in hand is one of the block that
the buffer starts. `FlatBlock` and `ChunkBlock` are its core: from the start of a block of a
directory the iterator yields that block. An extent starts where a block of the image
does, except for the tail; a chunk is whole blocks; and where an extent is clipped, the
directory ends.

`Filled` adds to it where a call stands in the list of all entries: `Counted` that the
entries counted are those from the first one due up to the one in hand (`Front`) and that
the batch is these less the skipped; `Placed` that the position counted along is that of the
entry in hand, or, behind the last of a block, that it rounds to the start of the next. The
lemmas under it are about `EntriesOf`: it is the blocks' entries one after the other
(`EntriesStep`), entry `k` of block `b` has its place in it (`EntryAt`), positions grow along
it (`Sorted`), so that an offset parts it (`PartedAt`). `EntriesOf` is a recursive function, and
facts about it for every number of blocks are proved by `SetInduction`, which is stated for
sets instead of predicates.

`Listing` adds what a client has after several calls: that of a client by position is the
beginning of the list up to the entry it resumes at (`ByPosition`), since what a reply adds
starts there (`ReplyFollows`); the kernel has nothing or all (`ByCookie`).

`LookupProofs` is about path lookup, for every block size, tree and set of paths, from
`LookupAssumption`: directories are well formed, and `child` gives each name in their blocks an
inode.

* `TypeCorrect`, `PathCorrect`: `[]TypeOK`, `[]OnThePath`.
* `FoundCorrect`: `[]FoundExact`, the half of `LookupExact` about an inode that is answered.
* `LookupCorrect`: `[]LookupExact` in images with `Unpadded` directories. With padding behind
  the last name of a block the other half is false, since that name is never found
  (`dir.rs:66-72`).

What a path means is a set of walks (`Walks`), and `ResolvedStep` takes the first step off all
of them: where a path leads is where its rest leads from the inode its first component
names. `Inv` says besides `OnThePath` that the rest can still be asked for (`Askable`, so the
inode in hand is a directory when it is searched) and that the buffer in hand is the block
that ends where the iterator stands (`Buffered`). `Exact` adds `Passed`: no entry of the blocks
and of the part of a block behind the search is the component; at the end of the
directory, `EndBlock`, that is every name there is.

`MountProofs` is about every image, with any number of prefixes and devices, and every
block size that is a multiple of a device slot:

* `DevicesCorrect`, `InfixesCorrect`, `PanicsCorrect`: `[]DevicesExact`,
  `[]InfixesInTable`, `[]PanicCauses`.
* `AlignedTablesCaught`: `[]AlignedTablesPanic`.
* `TypeCorrect`, `MaskCorrect`: `[]TypeOK`, `[]MaskExact`.

Its `Inv` says where the iterators stand: `TableRange` and `SlotRange` that what is left
and what has been parsed make up the table, `Behind` that each prefix read starts behind
the one before it, and `Caught` that a scan of an aligned table has not passed its first
prefix. The signed fields are dealt with once, by `OverflowsIff`: a mount that comes to its devices has
neither a negative place nor a negative number of them, and the whole table has addresses below
2^64. `DevicesExact` is about the end of a mount and would not be inductive alone. `Sizes` keeps the
buffer inside a block and ties the mask to the number of devices found; that a mask so
computed is exact (`MaskFacts`) goes through the sixteen widths a sixteen-bit number of
devices can have.

`FuseServerProofs` is about the collection first, for every block size that is a multiple of a
slot, every inode table, and any order of calls:

* `CacheCorrect`, `AllOrNothingCorrect`, `FillsCorrect`: `[]CacheExact`,
  `[]AllOrNothing`, `[]FillsInBlock`.

`CacheExact` is about finished inodes, so `Inv` adds what each stage has read so far:
`BytesRead` (the first 32 bytes, then all) and `WordsRead` (the first indexes, and an
iterator at the next). That no fill crosses a block rests on `SlotInBlock`: slots and
blocks are multiples of 32.

and then about the server, for any number of inodes, numbers and handles, from
`ServerAssumption`: `root_nid` is not negative and nothing but the root is in slot 0, names are
distinct in a directory, a directory with entries has a decoded layout and its first block in
place, and compact inodes with a chunk table have no attributes (for those see
`read_compact_attrs`):

* `RootNumberExact`: of all values of `root_nid` the server keeps exactly those below 2^15.
* `NumbersCorrect`: `[]NumbersExact`.
* `ServedFromImage`: the server implements `LoadSpec`, so that what is proved of the
  collection holds in it.
* `ServerTypesCorrect`: `[]TypeOK`.
* `ServerImplementsService`: the server implements `FuseService`.

`ServerInv` joins the invariant of the collection with `NumbersRight` and `RequestRight`
(numbers, handles and the request go with the inode they lead to) and `HandlerRight`
(which inode the handler works on: the one the request means, or the one it found in
it). The last needs `FoundFacts`: names are distinct in a directory, so the entry found
is the one meant. A step of the server that replies is a step of the service because
`HeldFields` takes the fields a handler shows from the cached bytes, which are those of
the image by the invariant of the collection, and because `HeldWalk` shows that a walk over the
held inode meets a panic, a hole or neither where the service says so: by `RefusedIffUnmapped` of
`LayoutProofs` the map refuses an offset exactly when its byte has no place in the image.
`BlocksRight` is about `blocks`. `Bounded` is for the types:
no two open files share a handle (`HandlesApart`) and one that is being opened gets a handle of
its own (`Opening`), so there are never more than `MaxHandles`.

`XattrScanProofs` is about reading attributes, for every image, block size, table of infixes and
sequence of calls, from `XattrAssumption`: the constants have their types, and `Endless`, the
`u64::MAX` that is the length of a shared entry's range, is more than two blocks and the longest
entry. For every image, well formed or not:

* `TypeCorrect`: `[]TypeOK`.
* `FillsCorrect`: `[]FillsInAttributes`.

For the calls an image is `Plain` for, each between whatever other calls:

* `GetCorrect`: `[](Plain(req) => GetExact)`.
* `ListCorrect`: `[](Plain(req) => ListExact)`.
* `PanicsCorrect`: `[](Plain(req) => PanicsOnlyWhenFull)`.

The range of the cursor changes with each entry the scan follows, so the invariant of
`SkipCursorProofs` is stated there for any range, `InvIn(first, extent)`, and its steps are
lemmas that the scan's actions cite: in `XattrScanProofs` the range is the one of `req` and `sh`
(`InRange`). The rest of its `Inv` says that a buffer in hand lies in one block
(`InBlock`), that a call is answered as it was made (`Calls`, `Scanned`), and that the entries in line are
scanned only when the summary and the indexes fit into the attributes (`Fits`), without which
the length of their range would be negative. `TypeOK` needs `Calls` because the room
counted in `used` is that of the suffix the header announced, and the keys have the suffix that was read.

`Plain` is what the code needs of an image and does not look at. `Formed`: an inode with attributes
is extended, since those of a compact one are not read; entries in line tile the range up to its end,
there are fewer than 64 shared ones, and an index of a prefix is one of the table, though that of an
infix need not be. `SkipsInBlock`: what is skipped after a key, or after a
comparison that failed, stays in one block, since a skip over a block goes astray
(`cursor_across`); shared entries are free of it. `NoLookalike`, for `get_xattr` only: no four
bytes inside an entry pass for the header of the entry that is asked for, since refused entries are
walked through. On other images the scan can miss an entry, answer with a piece of a value, or panic.

The argument for the three theorems is one invariant, `Good`, inductive together with `Inv`. It says
of a scan on its way that there is an address `a` it is at (`Way`), and of that address:

* `Stands`: in line it is a multiple of four bytes from both ends of the range (`OnGrid`), in a
  shared entry it is that entry's. Every step in line, a header that is refused or a whole entry,
  keeps to the grid, so the scan reads no header across the end of its range.
* `NoneBefore`: what `get_xattr` has passed does not match, as entries before an address
  (`NoneTo`) or by their number (`NoneOf`). That the scan reaches every entry is `NoneAfterRefused`
  and `NoneAfterOther`: of two steps of the walk none jumps over an entry. That what it takes for an
  entry is one is `RealEntry`, from `NoLookalike`.
* `KeysBefore`: `list_xattrs` is at the entry after those listed, whose keys they are.
* `Hand`: how far into the entry at `a` the cursor is in each stage, and what a call that has
  returned has found there. The stage `name` is the hard one: a comparison of a name in two buffers
  fails at the end of the first or of the second, and `NameDiffers` says which bytes it has passed and
  that they are not those of the name.

The addresses of the entries come from a recursive function. That there is one, and that it is a
chain of entries, is proved by induction on the distance to the end of the range (`WalkExists`,
`WalkChain`); `EntryWalk` has what the steps use of it.

Every invariant that a run checks is stated by a theorem. Only model-checked is liveness, which is
outside what the prover does. Theorems with a predicate as a parameter, induction over data among
them, cannot be used either; where an induction over numbers is needed (`EntriesOf`, `WalkExists`,
the sixteen widths of a mask) it is done with sets of numbers or case by case.

## Not modelled

* Integer widths, but for those named above (`SharedLen`, `Blocks`, `SignExtend`, `AsOff`): `u64`
  offsets and `u32` block numbers are numbers. `advance_off` can
  underflow; `SkipCursor` is of a build with overflow checks, in which that panics.
* The bytes of names and dates, and the panic of a date that a `SystemTime` cannot hold
  (`main.rs:88-94`, an `i_mtime` near either end of its range); `errnos`, `alloc_helper`, `compression`,
  `mkfs`, `dump`: constants, conversions nothing calls, and stubs.
* In the server: the bytes of a read and the turns of its loop (`FileRead` has them), offsets and
  small replies of a listing (`Readdir` has them), and files within a block of 2^64 bytes, whose
  size overflows when it is rounded up.
* A walk through a component that is not a directory, which the code does not refuse.
* Several devices: `FuseFile::fill` ignores the device.

## Plan

1. The composition of `FuseServer` with `FileRead` and `Readdir`, whose handlers are one
   step of the server now.
