# A verification project for ext4fsd

ext4fsd is an unfinished Windows driver for ext4 volumes.  The repository holds
two pieces with real logic, the extent tree (`ext4_extent.c`) and the journal
(`jbd2/jbd2.c`), and around them the skeleton of a driver and its locks and
atomics.  There are no tests.  This directory holds TLA+ models of these pieces,
TLC runs that check them on small instances, and TLAPS proofs about the extent
tree, the atomics, and the opening and the recovery of a journal that hold for
every value of the constants.

## 1. Inventory

| Component | State | Operations | How it interacts | What makes it correct |
|---|---|---|---|---|
| Extent tree, `ext4_extent.c`, `ext4_fs.h:735-913` | root in the inode, tree blocks, unwritten marks in the length field; per call a path from the root to a leaf | `ext4_extent_get_blocks` (look up, allocate, convert), `ext4_extent_remove_space` | calls the allocator and the block cache, either of which can fail in the middle of a change | lookups find what was inserted; one owner per block; no dangling index; no overfull node; a failed call changes nothing |
| Block allocator and cache (not in the repository) | free blocks, cached blocks | `ext4_balloc_alloc_block`, `ext4_balloc_free_blocks`, `ext4_trans_block_get*`, `ext4_block_set` | called by the extent tree | hands out free blocks only |
| Journal recovery, `jbd2.c:1-1066` | position in the log, transaction number, `recovery_info`, revoke table | `jbd2_replay_journal`: passes SCAN, SCAN_REVOKE, REPLAY | reads the log file, writes the client file through the cache manager | committed transactions are replayed, no other; revoked blocks are not; it ends |
| Journal handle, `jbd2.c:1067-1323` | superblock copy, tables, caches, lock | `jbd2_open_handle`, `jbd2_close_handle`, `jbd2_flush` (empty) | cache manager, pool | everything acquired is released once |
| Logged buffers, `jbd2.c:127-185` | red-black tree with reference counts | `jbc2_lbcb_get`, `jbd2_lbcb_put` | no callers | an element lives as long as its references |
| Atomics, `drv_atomic.h` | a counter of 32 bits | read, set, add, sub, inc, dec and their tests; `drv_atomic_sub_and_test` is a compare-exchange loop | reference counts of revoke entries and logged buffers | every operation is atomic; the loop makes progress |
| Locks, `drv_lock.h` | NT resources, mutexes | acquire, release, downgrade | resources: no callers; mutexes: initialised by the journal handle | exclusive means exclusive |
| Driver entry, `ext4_init.c` | two device objects, registration | `DriverEntry`, unload | I/O manager | a failure undoes what was done |
| Cache wrappers and callbacks, `ext4_cachesup.c`, `jbd2_cachesup.c` | - | one-line wrappers without callers; empty callbacks | cache manager | - |
| Stubs `ext4_txn.c`, `ext4_create.c`, `ext4_fsctrl.c`, `ext4_data.c` | - | empty | - | - |
| CRC, byte order, types | - | pure functions | used by the above | - |

Little of the code runs concurrently: neither `ext4_extent.c` nor
`jbd2_replay_journal` takes a lock or starts a thread.  Threads meet in the
atomics and locks, and `jbd2_open_handle` waits for the cache manager, which
works in its own time.  What else is hard is partial
failure (any allocation or read may fail between two changes that belong
together), stale state (the path, the recovery information), circular positions
and wrapping numbers, and long sequences of calls that reach a shape of the tree
nobody tried.  `PROJECT.json` lists these hazards at the lines where they bite.

## 2. Modules

| Module | What it is |
|---|---|
| `ExtentNodes` | extents and nodes: the signed length field with its unwritten mark, the closest slot, merging |
| `ExtentTree` | the tree of one inode and `ext4_extent_get_blocks` with everything it calls |
| `ExtentMap` | abstract specification: a map from file blocks to blocks, read, extended or marked written by atomic calls, and shrunk block by block during a removal |
| `ExtentTreeMap` | the map a tree stands for, and the properties that relate tree and map |
| `ExtentRemove` | `ext4_extent_remove_space` on the same tree, the file with both operations, and the refinement of `ExtentMap` |
| `ExtentTreeMC`, `ExtentRemoveMC` | devices, allocators and files for TLC |
| `ExtentTreeProofs` | the inductive invariant of `ExtentTree` and the theorems about the shape of the tree |
| `ExtentOwnerProofs` | full and empty nodes: what is split is full, no leaf is left empty; every block has one owner |
| `ExtentOrderProofs` | the keys of the tree stay sorted: a split finds room for its index, an insertion its place |
| `ExtentSearchProofs` | nothing gets lost: binary search is right, every mapped block is found, every node keeps an index |
| `ExtentRemoveProofs` | the same and more for a file with both its operations |
| `Jbd2Recovery` | `jbd2_replay_journal` on a given journal |
| `Jbd2RecoveryMC` | journals for TLC |
| `Jbd2RecoveryProofs` | the inductive invariant of recovery and its theorems |
| `Jbd2Handle`, `Jbd2HandleProofs` | `jbd2_open_handle`, the pool and the cache manager; the theorems about them |
| `AtomicCounter` | abstract specification: a counter with atomic operations |
| `DrvAtomic`, `DrvAtomicMC`, `DrvAtomicProofs` | threads using `drv_atomic.h`, and the proof that it implements `AtomicCounter` |
| `DrvLock` | threads using `drv_lock.h` |

### ExtentTree

`node` is the inode's root (block `Root`, that is 0) and the live tree blocks;
`free` what the allocator may hand out.  The other variables are the locals of
the call in progress: `path`, `newext`, the state of a split (`at`, `key`, `np`
for `at`, `insert_index`, `npath`), of a conversion (`todo`, `saved`) and the
result.  An action is the code between two points where a call of the outside
can fail:

| Actions | Code |
|---|---|
| `ext4_extent_get_blocks` | entry, 1558-1582 |
| `ext4_find_extent_walk`, `_err`, `_leaf` | `ext4_find_extent`, once per level |
| `ReturnMapped`, `ReturnHole`, `AllocateData`, `AllocateDataFails` | the rest of `ext4_extent_get_blocks` |
| `ext4_ext_convert_to_initialized`, `ext4_ext_zero_unwritten_range_err`, `ext4_ext_split_extent_at` (`SplitExtentAt_whole`, `SplitExtentAt_cut`) | writing into an unwritten extent |
| `ext4_ext_insert_leaf` (append, prepend, insert, need a split) | one attempt of the loop in `ext4_ext_insert_extent` |
| `ext4_ext_grow_indepth`, `GrowFails` | one more level |
| `ext4_ext_split_node`, `SplitFails`, `ext4_ext_insert_index` | one level of a split; linking the new subtree |
| `FreeData`, `restore_extent_len`, `RestoreWithoutPath` | after a failed insertion |

Lengths.  The length field `ee_len` is a signed number of 16 bits in this code:
`drv_types.h:10` makes `__u16` a `__int16`, and `le16_to_cpu` casts to it.  What
is computed from it is not what the comments in `ext4_fs.h` (789-794, 843) say.
The comparison with `1UL << 15` converts a negative length to a large unsigned
one, so that

* the bit pattern 0x8000 is an unwritten extent without a block, not an
  initialised one of 32768 (`ext4_ext_is_unwritten`);
* `ext4_ext_get_actual_len` of an unwritten extent of `n` blocks is `n - 65536`;
* only `ext4_extent_get_blocks` (1595), whose variable has 16 bits, gets `n` again
  (`ee_len`).

`ExtentNodes` keeps the bit pattern (`len`, `0 .. 2 * InitMax - 1` with `InitMax`
for 32768; `AsRaw` is what a store leaves of a number) and computes the rest from
its signed value.  In `get_blocks` it follows that the test for the right-hand
part of an extent (1457) never holds, so that writing the last blocks of an
unwritten extent takes the branch for three parts, and writing all of it the one
for the left-hand part, with a second piece of length 0; that the branch of
`ext4_ext_split_extent_at` for an extent that starts at the cut is dead; and that
nothing is ever merged with an unwritten extent.  File blocks and blocks of the
device are numbers below 2^31, where the signedness of the 32-bit types does not
show.  `IN_RANGE`, `to_le16` and `EXT_MAX_BLOCKS`, which the repository uses and
does not define, are taken to be what their names say.  The assertion in
`ext4_ext_mark_unwritten`, which an empty piece would trip in a checked build, is
not modelled.

Other choices.  The allocator returns any block of `Candidates(free)`;
the goal that `ext4_ext_find_goal` computes is a hint to it.  A slot past the last
entry holds any old key (`SlotKey`).  The path that is used after it was freed (1003, 1045) either does
no harm or stops the system (`bugcheck`).  Magic numbers and checksums of tree
blocks are left out: `ext4_ext_check` only logs a checksum mismatch.  The
`calloc` of a search may fail at its start; that of a split (1018) fails like the
allocation of its first node.

### ExtentRemove

Adds `removing`, which says whose call is in progress; the request of a removal
is its first block and its number of blocks.  Its search and, for a range inside
an extent, its insertion are the actions of `ExtentTree`, as in the code.

| Actions | Code |
|---|---|
| `ext4_extent_remove_space` | entry, up to the search, 1249-1259 |
| `NothingAtFrom` | no extent at the first block, 1261-1272 |
| `RemoveInside`, `RemoveInsideFails` | the range is inside one extent, 1274-1299 |
| `RemoveInLeaf` | one leaf: 1303-1325 with `ext4_ext_remove_leaf`, `ext4_ext_remove_blocks`, `ext4_ext_remove_idx` |
| `RemoveDown`, `RemoveDownFails` | the next child is read, 1329-1351 |
| `RemoveUp` | an index node is done with, 1352-1369 |
| `RemovalDone` | 1372-1389 |

C's level `i` is the last element of `path`: going up drops it and going down
appends one.  `ext4_ext_dirty` cannot fail.  The abstract map learns from `left`
which blocks a removal still has to take out; they leave the map in the order of
the tree, and a failing read may end the removal in between.

Removals work with the negative length of an unwritten extent (`LastBlock`).  A
range that starts in one removes nothing (`FoundToRemove`).  A leaf that ends in one
is taken to end before the range and stays as it is (`RemoveInLeaf`).  An unwritten
extent in the middle of a leaf is removed whole when the range reaches it, also the
blocks behind the range, and the number of blocks to be freed is negative; the
model assumes that the allocator, which is not in the repository, then frees none
(`ext4_ext_remove_blocks`).  `ExtentMap` therefore lets a removal return with blocks
left over that lie before unwritten ones, and promises nothing for a range whose
first block is not written.

### Jbd2Recovery

`journal` is the log with the superblock's `s_start` and `s_sequence` and, for
the properties, what the writer of the journal committed, logged and revoked.
`phase`, `curr`, `tid`, `info`, `nr` and `table` are the variables of the code,
`client` the file being recovered.
One action handles one log block, or one tag in REPLAY; `EndPass` is the return
of `jbd2_replay_one_pass` together with what `jbd2_replay_journal` does next.
Data is reduced to what recovery distinguishes: block type, sequence number,
tags, revoke entries and whether a checksum matches.  `jh_csum_seed` is never
set by the code, so checksums match only in a journal whose seed is 0.

Types.  A block number is the set of its bits, in two words of `WordBits`.
`jbd2_tag_blocknr` joins the high word of a tag without shifting it to its place,
and a word is signed, so that its highest bit fills the high word; only numbers
without high word and sign bit, `Plain` ones, are read as they were written.
`drv_types.h` swaps the names of the 32-bit types, so that `__s32` is unsigned and
`jbd2_tid_cmp` is never negative.  `h_blocktype` is signed: the switch has no case
for negative types, as for superblocks, and the model counts them as such.

Positions.  The code checks neither `s_start` nor the number of tags of a
descriptor block against the log, and `jbd2_wrap` subtracts the length of the log
once, so `curr` is any integer; a read outside the log file fails (`CanRead`).
`LogFits` says of a log that its writer has kept to the limits.
`jbd2_blocks_csum_verify` leaves no room for the tail of a descriptor block without
a last tag and may take bytes of the tail for one more (`PastLastTag`).  A count of
revoke entries may be too small, fit or be too large (`RCounts`).
`jbd2_revoke_entry_blocknr` is called with one argument for two (875); the model
takes the entry to be read as the definition says.  Exceptions that the cache
manager may raise instead of returning FALSE are not modelled.

### Jbd2Handle

`pool` is the allocated memory, `lists` the lookaside lists that the system knows
of, with the memory they are in, `map`, `pins` and `event` the cache manager's
view of the log file; the rest are the locals of `jbd2_open_handle`, with the
three `..._inited` flags in `inited`.  The actions follow the code from the pool
allocation (1141) to the `__finally` (1277); an exception of `CcPinRead` unwinds
through it, one of `CcInitializeCacheMap`, called before the `__try`, does not.
The superblock is read at `blocknr_to_offset(log_size, blocksize)`, `log_size`
being in bytes: far behind the end of the file, so the model lets it pass any
set of checks.  `CacheMapTakenDown` is the cache manager, which takes a map down
once nothing is pinned.  No statement makes `status` a success, so the branch
that returns the handle is dead and `jbd2_close_handle` is never called; it is
not modelled.

### DrvAtomic and DrvLock

Every thread calls any operation at any time on one counter.  All are a single
interlocked instruction except `drv_atomic_sub_and_test`, which is entered, reads
(`ReadCounter`) and stores (`CompareExchange`, 83-86) in separate steps.  LONG is
`-LongMax - 1 .. LongMax` and wraps.  The abstract counter says when an operation
takes effect and on which value; its results are those of the code.  In one case
that is not what a comment promises: `drv_atomic_add_negative` returns the sum,
which is not zero for positive sums either, and not, as drv_atomic.h:152-153 says,
TRUE if it is negative and FALSE otherwise.  In `DrvLock` the NT resource has an
exclusive owner and counts of acquisitions, and `inside` is the access a thread was told it has.

## 3. Runs

| Run | Result | Shows |
|---|---|---|
| `extent_blocks` | pass, 43 092 states | five blocks in every order, without and with appending and in a preallocated file of which the head is written: up to four levels, every growth and split, conversion, up to two blocks per call |
| `extent_remove` | pass, 78 987 states | any range is removed at any time from three files, with a block written in between |
| `extent_faults` | pass, 594 973 states | every call of the outside may fail, several times per call, in both operations, also in a split of two levels after growing |
| `extent_prepend` | violation | a prepended block is mapped to the wrong place |
| `extent_last_blocks` | violation | writing the last block of an unwritten extent maps blocks that do not exist |
| `extent_disk_full` | violation | a split that runs out of space loses extents |
| `extent_full_length` | violation | an extent of the maximal length becomes a hole |
| `jbd2_recovery` | pass, 57 708 states | recovery stays in a log that fits, believes only committed transactions, writes only what was logged, blocks with plain numbers to their places, and ends |
| `jbd2_success` | violation | success is returned with nothing replayed |
| `jbd2_handle` | pass, 13 283 states | an open leaves nothing behind, whatever fails, and returns |
| `drv_atomic` | pass, 134 560 states | every operation takes effect at once, the compare-exchange loop is lock-free |
| `drv_exclusive` | violation | exclusive access is shared |

Bounds.  `SpaceRoot = 1` and `SpaceBlock = 2` are the smallest sizes with which
a root can overflow and a leaf can be split in two; an index node of
`extent_blocks` has three entries, the least with which binary search has a choice.
With five extents every insertion position in a tree with several index levels
occurs.  The fragmented device of that run has more blocks than any behaviour
uses; the full device of `extent_disk_full` has not.  `InitMax = 4` keeps the
lengths that appear (at most three) below the maximum, except in
`extent_full_length`, where it is 2.  In the preallocated file of `extent_blocks`
one or two blocks at the head of an extent of three are written: the conversions
that the code gets right.  A conversion that reaches the end of its extent, or lies
in its middle, breaks the map (`extent_last_blocks`).  The allocator of the removal
runs hands out scattered blocks: a block written again in front of a remainder
would be prepended to it, which is the defect of `extent_prepend`.

`extent_remove` starts from three files: a tree in which a leaf is alone under its
index node, so that one removal can empty two levels and go on, with unwritten
extents at the head of two leaves; one extent in the inode, whose middle can be
removed; and a leaf that ends in an unwritten extent.  All 28 ranges of seven
blocks are removed in any order.  `extent_faults` starts from a tree that is full on
the way to its first leaf, so that one insertion grows the tree and then splits two
levels, and every call on this way may fail.  With calls of the outside failing the
map may lose blocks, as `extent_disk_full` shows, so that this run checks the
structure of the tree and who owns what.

Not taken by any passing run are: prepending and the second cut of a conversion,
which break the map; the branch for the right-hand part (1459) and case b of
`ext4_ext_split_extent_at`, which are dead; the error for an extent that starts
where another does, and the error of `ext4_ext_insert_index` when it finds no room,
which cannot happen in a file without extents of the maximal length
(`InsertFindsPlace`, `SplitFindsRoom`).

Three pool blocks let `jbd2_open_handle` lose two handles and still need both of
its blocks.  With three threads and a counter of two bits a thread can be
overtaken by two others, and the counter can come back to a value that was read.

The journals have nine log blocks and two transactions of one or two blocks or
revocations, the second complete, cut off or torn, or only the beginning of a first
one; positions at the start and the end of the log (up to one behind it, for a wrong
`s_start`), transaction numbers 0 and the last before the wrap-around, remains of an
earlier lap, with and without checksums, revoke counts that are too small and too
large, and a descriptor block with twice as many tags as the log has blocks.  Words
have three bits, and of the four client blocks one has a number with a high word
and one a number with the sign bit.  There are more transaction numbers (16) than
log blocks, as in the code.

Deadlock is checked in `extent_blocks`, `extent_remove`, `jbd2_handle` and
`drv_atomic`.  `extent_faults` may stop at a bugcheck and recovery stops when it
has returned.

Fairness.  `FairFileSpec` has weak fairness of `FileStep`, the thread
inside the call, and none of the arrival of calls: a thread in the driver keeps
being scheduled and every call of the outside returns.  `FairSpec` of
`Jbd2Recovery` has weak fairness of the recovery loop for the same reason, and
that of `Jbd2Handle` of the opening thread and of the cache manager, which signals
the event it was given once nothing of the file is pinned.  `FairSpec` of
`DrvAtomic` is fair to every thread in the loop, not to a compare-exchange: one
thread may starve, so `LockFree` says that some call returns, and nothing bounds
the number of calls.

Each property of a passing run has a mutant, an operator named
`<definition>_<bug>` next to the definition it changes, under which TLC reports
the property violated.

## 4. What is proved

`ExtentTreeProofs` proves for `ExtentTree`, with any node sizes, device, allocator,
faults and well-formed initial file:

* `TypeCorrectness`: `Spec => []TypeOK`
* `NoDanglingIndex`: `Spec => []ChildrenLive`
* `NoNodeFreed`: `Spec => []NodesNotFree`
* `NoOverrun`: `Spec => []WithinCapacity`
* `PathNeverStale`: `Spec => []PathLive`

(`Spec` is `ext4_extent_get_blocks`; a file with removals, `FileSpec`, comes last)
from `Invariance`: `Spec => []IInv`.  None of the five is inductive by itself.
That no index dangles after a split depends on the path being that of the tree
(`PathInv`); that the path stays right depends on which levels a split will
visit and on the new nodes in `np` being live, unlinked and of depths 0, 1, ...
(`SplitInv`); growing needs a full root (`GrowInv`); and the blocks in hand must
be neither nodes nor free (`DataInv`).  `IInv` is the conjunction of these with
the types, `KidsLive`, `NodesFit` and `NodesNotFree`.  The proof has one lemma
per action (`WalkStep`, `GrowStep`, `SplitNodeStep`, `LinkStep`, ...) over lemmas
about sequences (`InsertAtProperties`, `CutSequence`), extents (`RawLengths`,
`MergedExtents`) and trees (`SameShape`, `LeafChanged`, `CorrectedIndexes`).

Assumptions: a block holds more entries than the root (`ConstantsAssumption`),
the allocator returns free blocks (`CandidatesAssumption`), the files on the disk
are well formed (`FilesAssumption`).  TLC evaluates these, and the assumptions
named below, in every run.

The other theorems about `Spec` exclude the known defects of lengths and merges, and
nothing else.  `SoundCuts`: every conversion is one cut before the end of its
extent, so none writes the last block of an unwritten extent or a range in its
middle; such a conversion makes an empty extent or a second cut, in the wrong extent
(`extent_last_blocks`).  `SoundMerges`: no extent is extended to the front, where
the code does not move its first block (`extent_prepend`), or appended to until it
has `EXT_INIT_MAX_LEN` blocks (`extent_full_length`).  Otherwise two slots
do refer to one block, extents do overlap, or blocks become holes.  Under
`Spec /\ []SoundCuts /\ []SoundMerges`, with any faults:

* `BlocksHaveOneOwner` (`ExtentOwnerProofs`): `OneOwner`
* `SplitFindsRoom` (`ExtentOrderProofs`, as the next three): `RoomForIndex`
* `InsertFindsPlace`: no extent starts where the new one does
* `SplitsAreFull`: `SplitNodesFull`
* `LeavesAreUsed`: `ConsistentLeafNotEmpty`
* `SearchesAreRight` (`ExtentSearchProofs`, as the next two): `BinSearchFindsClosest`
* `NothingIsLost`: `EveryBlockFound`
* `NoNodeIsLost`: every node keeps an index (`WholeInv`), with one more hypothesis,
  `NoHalfSplit`

They rest on three invariants, which `OrderInvariance` proves together.

*Who owns a block.*  `OwnerInv` follows a block from the allocator over the extent
in hand (`NewInv`) or the nodes of a split that are not linked yet (`ChainInv`)
into a slot, and through a conversion, where the slot and the extent in hand share
out what the slot had, and a failure gives it back (`CutInv`, `SavedInv`).

*What is full and what is empty.*  In `FillInv`, `SearchInv`
says which search the path is the result of, `FullInv` that the search after
growing meets the full nodes of the search before it one level further down,
`HalvesInv` that the half of a split leaf that the new extent belongs to has room,
`LeafInv` where an empty leaf may be while a split is under way.  By itself it
needs the hypothesis `GrowsWhereSearched`: after growing,
`ext4_ext_insert_extent` searches for the extent it inserts, and in a conversion
the path was searched for another block; both searches must go the same way.
That follows from the order (`GrowthIsSearched`).

*The order.*  `OrderInv` says that there are bounds `U` of the nodes with which the
tree is `Sorted`: in every node the entries are in order, no two extents overlap,
and a subtree starts no earlier than its index says and ends where the next index
starts.  The bounds are not in the code; a proof step shows how they change: an
allocation raises those of the path, a split gives the new node that of the old
one, linking lowers those of the left halves to the key.  For the call in progress, `PlaceInv`
says that the path is that of a search for the extent in hand, throughout a split
too, and leads to a leaf where it fits; `KeyInv` that the key of a split lies behind
the current extent and before the next, and that the new extent lies before the
key unless the right-hand leaf will be empty; `HalfInv` that the halves of a split
meet at the key; `RestoreInv` that the length that a failing conversion puts back
reaches no other extent.  The key being behind the path gives `RoomForIndex`; the
new extent having a place gives `InsertFindsPlace`.  `OrderStep` takes `OwnerInv`
and `FillInv` for granted (that an index is the only one to its child; that the
leaf of a split is full), and `FillInv` takes the order, so the three are shown
together.

*The searches.*  Both are recursive functions, binary search over the windows of
slots that are not ruled out yet, the walk and the nodes `Below` the root over the
levels of the tree.  That such a function exists and what it computes takes an
induction, which the provers cannot take from a theorem with an operator as a
parameter; `LeastOf` gets it, for sets, from the library's `WFMin` and
`NatLessThanWellFounded`, and `Induction` and the lemmas on recursion follow.
`BinSearchSorted` is then about any sorted sequence: the closest slot stays in the
window, and a window gets smaller.  For the walk, `Home` says of a node that the
walk for a block between its first one and its bound passes through it; the root
has that, and a child inherits it from its parent because the closest index is the
one to the child (`AllHome`).  Every extent of a tree at rest is in a leaf below
the root, hence found (`RestFound`).

*Whole trees.*  `WholeInv` says that every node but the root has an index or is the
topmost node of a split, that every slot refers to blocks of the device, and that a
root that is a leaf has the room of the inode.  A split of several levels that fails
half way (`extent_disk_full`) does lose nodes: it frees a new index node with the
indexes that it had moved there.  `NoHalfSplit` excludes this, that is, a failing
split that has made more than one new block.  One that fails after moving the
entries of a leaf loses extents and is not excluded: no theorem says that a failed
call leaves the map as it was.

Further assumptions: the files have no empty leaf (`FilesHaveNoEmptyLeaf`), in
them no block has two owners (`FilesOwnBlocksOnce`), their keys are sorted
(`FilesSorted`, which excludes files that hold an extent of 0x8000 blocks: the code
takes it for an empty one), and their trees are whole (`FilesWhole`).  What these
theorems say of the blocks of an extent is said of the blocks that the code sees in
it when it looks them up (`ee_len`).

`ExtentRemoveProofs` proves for `FileSpec`, any sequence of calls of
`ext4_extent_get_blocks` and `ext4_extent_remove_space` with any ranges and faults,
under `[]SoundCuts /\ []SoundMerges /\ [][NoHalfSplit]_fileVars`:

* `FileTypes`: `TypeOK`
* `RemovalLeavesNoDanglingIndex`: `ChildrenLive`
* `RemovalFreesNoNode`: `NodesNotFree`
* `FileNoOverrun`: `WithinCapacity`
* `RemovalPathNeverStale`: `PathLive`
* `RemovalFreesNoOwnedBlock`: `OneOwner` (nothing is freed that is still owned; not
  that what is unmapped gets freed, which for unwritten extents it does not)
* `FileSearchesAreRight`: `BinSearchFindsClosest`
* `NothingElseIsLost`: `EveryBlockFound` (for the blocks that are left in extents)
* `FileSplitFindsRoom`, `FileSplitsAreFull`: `RoomForIndex`, `SplitNodesFull`
* `RemovalLeavesNoEmptyNode`: `ConsistentLeafNotEmpty`
* `TruncationFreesTheTree`: `EmptyFileHasNoTree`

from `FileInvariance`: `FileInv`.  Here even the shape of the tree needs the
hypotheses, because a removal relies on the order of the keys.  `FileInv` has two
halves.  Everywhere but in the loop of a removal it is `CallInv`, the invariants
above together (`CallKept`), which the insertion of `RemoveInside` needs too
(`RemoveInsideStep`: the remainder, cut off behind the extent, has its place behind
it).  In the loop it is `RemoveInv`.  There `IInv` does not hold: an index node may
be empty, and the slot of the path may be past its entries.  What holds is that the
tree is a `GoodTree` (live, sorted, with one owner per block, within its room), that
every node has an index (`Family`) and, but for the one where the removal stands, an
entry (`Filled`), that the path is a `Route` from the root, and where it stands
(`StandsAt`, `Behind`): in a leaf, at the extent that covers the first block of the
range, or at the first extent if that is not before the range; above, at entries
that do not start before the range.  So `KeepsHead` and `KeepsTail` meet at most one
extent each, at the ends of what is cut (`CutPlaces`).

A round of the loop is put together from three changes of a tree, each with a lemma:
slots are taken out and extents shortened (`ShrunkTree`, for a leaf `LeafCutTree`),
an index and its child are taken out (`DroppedChild`), and keys rise along the path
to the first one that is left (`RekeyedTree`; by `RouteRises` it is within the bounds
of the subtrees that it becomes the key of, hence below the next key everywhere).  Then
come the place where the removal stands next (`WentUp`, `RemoveDownStep`) and the end
of the loop, where a tree without entries in its root is only that root
(`RootAlone`), which the code turns into an empty leaf.  `EmptyFileHasNoTree`
follows because every node but the root has an entry: a tree with an index has a
leaf with an extent (`LeafBelow`).

`DrvAtomicProofs` proves, for any threads, operands and width of LONG,
`CounterTypes` (`Spec => []TypeOK`) and `Linearizable` (`Spec =>
ImplementsCounter`).  The refinement mapping is the identity; a compare-exchange
that finds the counter as it was read is the abstract subtraction, every other
step of the loop a stutter.  It needs that the operand in the loop is one a caller
passed (`ArgInv`) and that subtracting is adding the negated operand, also for the
smallest LONG, which has no negative (`SubIsAddOfNegative`).

`Jbd2HandleProofs` proves, for any pool, `NothingLeft`, `NoListInFreedMemory` and
`LossOnlyOnRaise` from an invariant that tells from the point the thread has
reached what the cache manager has of the file (`CacheInv`), what is in memory
(`MemoryInv`: the lists are those of which the flags tell), and that `status` is
not a success (`StatusInv`), without which the handle would be returned with
everything in it.

`HandleTypes` is the type invariant.

Assumptions of these: `AtomicAssumption` (operands are LONGs) and
`BlockAssumption` (NULL is no block).

`Jbd2RecoveryProofs` proves, for a logging area of two or more blocks, any journals
in it, whatever their `s_start` and the tag counts of their descriptor blocks, and any
faults, from `RecoveryInvariance`: `Spec => []RecoveryInv`,

* `RecoveryTypes`: `TypeOK` (the position is an integer, inside the log or not)
* `RecoveryStaysInside`: `InsideLog`, that recovery of a log that fits (`LogFits`)
  stays in the logging area; the code checks neither of the two conditions, and
  without them it does not
* `ScanEndsAtCommitted`: `EndIsCommitted`
* `ReplayWritesLoggedCopies`: `ClientBlocksFromTheirTags`, that what is written was
  logged by the oldest transaction, and is in its own place if the number of that
  place is plain

That the end SCAN finds was committed needs a count (`ScanInv`): SCAN has passed
`k` commit blocks with the numbers from `s_sequence` on, they are different blocks
of the log, so `k` is at most its length, and as there are more numbers than
blocks none of them has come round again.  That REPLAY writes what was logged
needs that the later passes have forgotten what SCAN found (`Forgotten`), hence
look at blocks of transaction 0 only (`OnlyNumberZero`), that the block under the
tag being replayed was accepted (`AtTag`) and that the revoke table is empty
unless the system has stopped (`NothingRevoked`).  Assumptions: there are more
transaction numbers than log blocks (`ConstantsAssumption`; 2^32 in the code), and
the writer of the log, which is not this driver, numbers transactions one after
the other and puts the copies of the blocks behind their tags
(`WriterAssumption`), as the format of the journal prescribes.

Only model-checked:

* the refinement of `ExtentMap` and `LeaksOnlyInside`.  They hold where nothing
  fails and the conversions and merges are sound; a proof would have to
  follow the map and the blocks in hand through every action under these further
  hypotheses.  What the theorems say of the map is that all of it is found, not that
  it is the right one;
* liveness, which is out of the reach of the provers.

## 5. What was found

Six runs show a disagreement of the code with its comments: `extent_prepend`,
`extent_last_blocks`, `extent_disk_full`, `extent_full_length`, `jbd2_success` and
`drv_exclusive`.  The models follow the code in the rest of what was met as well:

*Extent tree.*  Writing a range in the middle of an unwritten extent goes wrong as
writing its last blocks does, in the second cut (1472).  Writing all of it leaves an
unwritten extent of length 0 behind it, against the comment in `ext4_fs.h:836`.
`restore_extent_len` (1442-1445) puts the length back
without the unwritten mark and returns success.  `ext4_ext_insert_extent` uses a freed path
after a failed search.  `ext4_extent_remove_space` removes nothing when the range
starts in a hole or in an unwritten extent, leaves a leaf that ends in an unwritten
extent as it is (1312), removes the blocks behind the range of an unwritten extent
that is followed by another (1166), frees nothing when the range lies inside an
extent, or of unwritten extents (`LeaksOnlyInside` says that these are the only
leaks), and loses what follows the range when that cannot be inserted (1297).

*Journal.*  Every pass clears `recovery_info` (908), so that the passes after SCAN do
not know what it found, although the structure is there to "carry information between
them" (14-15); SCAN ends the recovery before that shows (`jbd2_success`).
`jbd2_count_tags` (631-653, "the number of in-use tags in a journal descriptor block")
does not count the last tag, so that no pass gets beyond the first descriptor block
with one.  `jbd2_tag_blocknr` (502-511) reads numbers with a high word or a sign bit as
other numbers, and their blocks are replayed there.
The first revoke entry stops the system, because `RB_INSERT` returns NULL for a
new element; revoke entries are read from 4 bytes before the first one;
descriptor blocks that wrap around the log are read past its end; a descriptor block
with more tags than the log has blocks, or a wrong `s_start`, leads out of the log; a
clean journal with transaction number 0 is read for ever; `jbd2_open_handle` always fails:
`status` is never set to a success (1130), `jbd2_features_supported` is tested the
wrong way round (1196, 1207), and the superblock is read at a block number that is
a length in bytes (1158); it loses the handle when `CcInitializeCacheMap` raises.
`jbd2_lbcb_put` and `jbd2_revoke_entry_put` free an element when references are
left (178, 265).

*Driver.*  `drv_atomic_add_negative` returns the sum where its comment promises a test
of its sign (drv_atomic.h:152-157).  `DriverEntry` does not delete the first device
object when the second cannot be created (86), and `ext4_unload` does not
unregister the file systems that it deletes.

## 6. Not modelled, and the plan

Next:

1. Proofs: that a removal unmaps its range and nothing else, the step of the
   refinement of `ExtentMap` that is closest to the lemmas about cut leaves.
2. Recovery with exceptions raised by the cache manager.

Not modelled: `DriverEntry` and unload, a straight line of calls with a handful of
states; `jbd2_close_handle`, which no reachable state can call; the logged buffers
(`jbc2_lbcb_get` has no callers and writes through NULL on the first insertion);
the wrappers of `ext4_cachesup.c`, which have no callers and no logic.

Left out for good: the vendored red-black tree `drv_tree.h`, the CRC tables and
byte order macros (pure functions without state), the empty stubs, and debugging
output.
