---------------------------- MODULE ExtentRemove ----------------------------
(***************************************************************************)
(* ext4_extent_remove_space(), the call that removes a range of file       *)
(* blocks from the extent tree, and the file with both its operations.     *)
(*                                                                         *)
(* A removal searches the first block of its range, req.lblk, as           *)
(* get_blocks does, and then goes through the tree in the order of its     *)
(* keys.  An action is one round of that loop: one leaf, or one step down  *)
(* to a child or up from an exhausted index node.  C's level i is the last *)
(* element of path, and the loop ends when path is empty; the slot of that *)
(* last element may be past the entries of its node.                       *)
(***************************************************************************)
EXTENDS ExtentTreeMap

CONSTANT
    Ranges      \* the ranges <<from, to>> that callers remove

ASSUME RangesAssumption ==
    \A r \in Ranges : r[1] \in Nat /\ r[2] \in Nat /\ r[1] <= r[2]

VARIABLE
    removing    \* the call in progress is ext4_extent_remove_space(): the
                \* request is then its first block and its number of blocks

fileVars == <<vars, removing>>

to       == req.lblk + req.max - 1
ToRemove == req.lblk .. to

FileInit == Init /\ removing = FALSE

ext4_extent_remove_space(f, t) ==
    /\ pc = "idle"
    /\ req' = [lblk |-> f, max |-> t - f + 1, create |-> FALSE]
    /\ path' = <<[blk |-> Root, pos |-> 0]>>
    /\ pc' = "find"
    /\ removing' = TRUE
    /\ res' = EOK(0, 0)
    /\ UNCHANGED <<tree, newext, split, conv>>

Removed(r) == Return(r) /\ removing' = FALSE

-----------------------------------------------------------------------------
(* After the search.                                                       *)

\* The extent found covers the first block of the range.  None does with the
\* negative length of an unwritten extent.
FoundToRemove ==
    leaf.pos # 0 /\ Covers(ex, ext4_ext_get_actual_len(ex), req.lblk)

\* No extent covers the first block: nothing is removed.
NothingAtFrom ==
    /\ pc = "found" /\ removing /\ ~ FoundToRemove
    /\ Removed(EOK(0, 0))
    /\ UNCHANGED <<tree, split>>

\* The last file block of an extent, as the removal computes it.
LastBlock(e) == e.lblk + ext4_ext_get_actual_len(e) - 1

Inside == ex.lblk < req.lblk /\ to < LastBlock(ex)

\* The range ends before the extent does: the extent is shortened, and what
\* follows the range is inserted as a new one.  No block is freed.
RemoveInside ==
    /\ pc = "found" /\ removing /\ FoundToRemove /\ Inside
    /\ LET Cut(l, p, n) ==
             LET e == [lblk |-> l, pblk |-> p, len |-> AsRaw(n)]
             IN  IF ext4_ext_is_unwritten(ex) THEN ext4_ext_mark_unwritten(e)
                                              ELSE e
       IN  /\ node' = [node EXCEPT ![leaf.blk].ents[leaf.pos] =
                         Cut(ex.lblk, ex.pblk, req.lblk - ex.lblk)]
           /\ newext' = Cut(to + 1, to + 1 - ex.lblk + ex.pblk, LastBlock(ex) - to)
    /\ pc' = "insert"
    /\ UNCHANGED <<free, req, path, split, conv, res, removing>>

StartRemoval ==
    /\ pc = "found" /\ removing /\ FoundToRemove /\ ~ Inside
    /\ pc' = "remove"
    /\ UNCHANGED <<tree, req, path, newext, split, conv, res, removing>>

\* The insertion of what follows the range has failed: it is not put back.
RemoveInsideFails ==
    /\ pc = "fail" /\ removing
    /\ Removed(EFAIL)
    /\ UNCHANGED <<tree, split>>

-----------------------------------------------------------------------------
(* One leaf.                                                               *)

\* Of extent e only the head stays, or only the tail, when blocks f .. t go.  An
\* extent with blocks on both sides is RemoveInside's, and an unwritten one never
\* keeps a tail.
KeepsHead(e, f) == e.lblk < f
KeepsTail(e, f, t) == e.lblk >= f /\ LastBlock(e) > t

\* ext4_ext_remove_blocks: what is freed of an extent.  For an unwritten one the
\* number of blocks is negative, and the allocator (external) frees none.
ext4_ext_remove_blocks(e, f, t) ==
    LET from == IF KeepsHead(e, f) THEN f ELSE e.lblk
        last == IF KeepsTail(e, f, t) THEN t ELSE LastBlock(e)
    IN  { l - e.lblk + e.pblk : l \in from .. last }

\* Mutant: the physical start of a tail is not moved.
Remainder_samePblk(e, f, t) ==
    LET Keep(l, k) ==
          LET c == [lblk |-> l, pblk |-> e.pblk, len |-> AsRaw(k)]
          IN  IF ext4_ext_is_unwritten(e) THEN ext4_ext_mark_unwritten(c) ELSE c
    IN  CASE KeepsHead(e, f) -> Keep(e.lblk, f - e.lblk)
          [] KeepsTail(e, f, t) -> Keep(t + 1, LastBlock(e) - t)
          [] OTHER -> e

\* What is left of extent e; one of which nothing is left will be overwritten.
Remainder(e, f, t) ==
    LET Keep(l, p, k) ==
          LET c == [lblk |-> l, pblk |-> p, len |-> AsRaw(k)]
          IN  IF ext4_ext_is_unwritten(e) THEN ext4_ext_mark_unwritten(c) ELSE c
    IN  CASE KeepsHead(e, f) -> Keep(e.lblk, e.pblk, f - e.lblk)
          [] KeepsTail(e, f, t) ->
               Keep(t + 1, e.pblk + t + 1 - e.lblk, LastBlock(e) - t)
          [] OTHER -> e

\* The extents of a leaf that a removal up to block t comes to: from slot p up to
\* the first that starts beyond t.
InReach(ents, p, t) ==
    p .. Min({k \in p .. Len(ents) : ents[k].lblk > t} \cup {Len(ents) + 1}) - 1

\* The entries of a leaf after ext4_ext_remove_leaf(): the extents in reach are
\* cut, and what is behind them, the one that keeps its tail included, is moved to
\* slot p, or behind the one that keeps its head.
ext4_ext_remove_leaf(ents, p, f, t) ==
    LET reach == InReach(ents, p, t)
        cut   == [k \in DOMAIN ents |->
                    IF k \in reach THEN Remainder(ents[k], f, t) ELSE ents[k]]
        start == p + Cardinality({k \in reach : KeepsHead(ents[k], f)})
        tails == {k \in reach : KeepsTail(ents[k], f, t)}
        ex2   == IF tails = {} THEN p + Cardinality(reach) ELSE Max(tails)
    IN  SubSeq(cut, 1, start - 1) \o SubSeq(cut, ex2, Len(ents))

\* Mutant: the key goes up although the entry was not the first.
ext4_ext_remove_idx_anySlot(nd, k) ==
    LET ents  == nd[path[k].blk].ents
        pos   == path[k].pos
        first == ents[IF pos < Len(ents) THEN pos + 1 ELSE pos].lblk
    IN  [b \in DOMAIN nd \ {ents[pos].pblk} |->
           IF b = path[k].blk
           THEN [nd[b] EXCEPT !.ents = RemoveAt(@, pos)]
           ELSE [nd[b] EXCEPT !.ents =
                   [i \in DOMAIN @ |->
                      IF \E j \in 1 .. k - 1 : path[j].blk = b /\ path[j].pos = i
                      THEN [@[i] EXCEPT !.lblk = first] ELSE @[i]]]]

\* ext4_ext_remove_idx: the entry at level k of the path leaves its node and
\* its child's block is freed.  When it was the first entry, the key of the one
\* that is first now, or the old key if there is none, goes up the path.
ext4_ext_remove_idx(nd, k) ==
    LET ents  == nd[path[k].blk].ents
        pos   == path[k].pos
        first == ents[IF pos < Len(ents) THEN pos + 1 ELSE pos].lblk
        K     == {j \in 1 .. k - 1 : \A m \in j + 1 .. k : path[m].pos = 1}
    IN  [b \in DOMAIN nd \ {ents[pos].pblk} |->
           IF b = path[k].blk
           THEN [nd[b] EXCEPT !.ents = RemoveAt(@, pos)]
           ELSE [nd[b] EXCEPT !.ents =
                   [i \in DOMAIN @ |->
                      IF \E j \in K : path[j].blk = b /\ path[j].pos = i
                      THEN [@[i] EXCEPT !.lblk = first] ELSE @[i]]]]

\* Mutant: the block that remove_idx takes out of the tree is not freed.
Dropped_kept(drop) == {}

\* The block that remove_idx frees.
Dropped(drop) == IF drop THEN {leaf.blk} ELSE {}

\* Mutant: the slot above stays where it is.
Up_stays(n) == SubSeq(path, 1, Len(path) - 1)

\* Mutant: a slot is skipped when the entry before it has been dropped.
Up_skips(n) ==
    LET k == Len(path) - 1
    IN  [j \in 1 .. k |-> IF j < k THEN path[j]
                          ELSE [path[j] EXCEPT !.pos = @ + 1]]

\* The path one level up, on to the next child if n is 1.
Up(n) ==
    LET k == Len(path) - 1
    IN  [j \in 1 .. k |-> IF j < k THEN path[j]
                          ELSE [path[j] EXCEPT !.pos = @ + n]]

\* The range ends at the last block of the leaf.  When its last extent is
\* unwritten that number is 2^16 too small, and most often negative: such a leaf
\* stays as it is, whatever it holds.
\*
\* The leaf, empty, is dropped from the tree, or the keys above it are made to
\* match its first extent.
RemoveInLeaf ==
    /\ pc = "remove" /\ path # <<>>
    /\ node[leaf.blk].depth = 0
    /\ LET ents == node[leaf.blk].ents
           last == ents[Len(ents)]
           f    == Max({ents[1].lblk, req.lblk})
           t    == Min({LastBlock(last), to})
           left == ext4_ext_remove_leaf(ents, leaf.pos, f, t)
           nd   == [b \in DOMAIN node |->
                      [node[b] EXCEPT !.ents =
                         IF b = leaf.blk THEN left
                         ELSE IF left # <<>>
                         THEN ext4_ext_correct_indexes(b, left[1].lblk)
                         ELSE @]]
           drop == left = <<>> /\ leaf.blk # Root
       IN  /\ ents # <<>>
           /\ node' = IF drop THEN ext4_ext_remove_idx(nd, Len(path) - 1)
                              ELSE nd
           /\ free' = free \cup Dropped(drop)
                        \cup UNION { ext4_ext_remove_blocks(ents[k], f, t) :
                                     k \in InReach(ents, leaf.pos, t) }
           /\ path' = Up(IF drop THEN 0 ELSE 1)
    /\ UNCHANGED <<pc, req, newext, split, conv, res, removing>>

-----------------------------------------------------------------------------
(* One index node.                                                         *)

ext4_ext_more_to_rm ==
    /\ leaf.pos \in DOMAIN node[leaf.blk].ents
    /\ node[leaf.blk].ents[leaf.pos].lblk <= to

AtIndex == pc = "remove" /\ path # <<>> /\ node[leaf.blk].depth > 0

\* The next child is read.
RemoveDown ==
    /\ AtIndex /\ ext4_ext_more_to_rm
    /\ ext4_ext_check(ex.pblk, node[leaf.blk].depth - 1)
    /\ path' = Append(path, [blk |-> ex.pblk, pos |-> 1])
    /\ UNCHANGED <<tree, pc, req, newext, split, conv, res, removing>>

\* It cannot be read: what was removed so far stays removed.
RemoveDownFails ==
    /\ AtIndex /\ ext4_ext_more_to_rm
    /\ "read" \in Faults \/ ~ ext4_ext_check(ex.pblk, node[leaf.blk].depth - 1)
    /\ Removed(EFAIL)
    /\ UNCHANGED <<tree, split>>

\* The node has no more children in the range: an empty one is dropped.
RemoveUp ==
    /\ AtIndex /\ ~ ext4_ext_more_to_rm
    /\ LET drop == node[leaf.blk].ents = <<>> /\ Len(path) > 1
       IN  /\ node' = IF drop THEN ext4_ext_remove_idx(node, Len(path) - 1)
                              ELSE node
           /\ free' = free \cup Dropped(drop)
           /\ path' = Up(IF drop THEN 0 ELSE 1)
    /\ UNCHANGED <<pc, req, newext, split, conv, res, removing>>

\* Mutant: the root keeps the depth of the tree it was the root of.
RemovalDone_keepsDepth ==
    /\ pc = "remove" /\ path = <<>>
    /\ Removed(EOK(0, 0))
    /\ UNCHANGED <<node, free, split>>

\* The loop is over.  A root without entries becomes an empty leaf again.
RemovalDone ==
    /\ pc = "remove" /\ path = <<>>
    /\ node' = IF node[Root].ents = <<>>
               THEN [node EXCEPT ![Root].depth = 0, ![Root].max = SpaceRoot]
               ELSE node
    /\ Removed(EOK(0, 0))
    /\ UNCHANGED <<free, split>>

-----------------------------------------------------------------------------
RemoveStep ==
    \/ NothingAtFrom \/ RemoveInside \/ RemoveInsideFails \/ StartRemoval
    \/ RemoveInLeaf \/ RemoveDown \/ RemoveDownFails \/ RemoveUp
    \/ RemovalDone

\* The code that a removal shares with get_blocks: the search, and the
\* insertion of RemoveInside.
Shared ==
    /\ Find \/ (Insert /\ (pc = "fail" => ~ removing))
    /\ removing' = (removing /\ pc' # "idle")

GetBlocksStep == (Decide \/ Convert) /\ ~ removing /\ UNCHANGED removing

FileStep == Shared \/ GetBlocksStep \/ RemoveStep

FileNext ==
    \/ \E l \in LBlk, m \in MaxBlocks, c \in BOOLEAN :
          ext4_extent_get_blocks(l, m, c) /\ UNCHANGED removing
    \/ \E r \in Ranges : ext4_extent_remove_space(r[1], r[2])
    \/ FileStep

FileSpec == FileInit /\ [][FileNext]_fileVars

\* A thread that has entered the driver keeps being scheduled.
FairFileSpec == FileSpec /\ WF_fileVars(FileStep)

-----------------------------------------------------------------------------
(* Properties.                                                             *)

\* The blocks of the range that a removal has still to take out of the map:
\* none if its search will find that the first of them is not a written block.
StartsWritten ==
    req.lblk \in DOMAIN FileMap /\ FileMap[req.lblk].written
Left ==
    IF removing /\ (pc \in {"find", "found"} => StartsWritten)
    THEN ToRemove \cap DOMAIN FileMap ELSE {}

Abstract == INSTANCE ExtentMap WITH
    map <- FileMap,
    res <- IF Idle THEN res ELSE EOK(0, 0),
    left <- Left,
    NoRes <- EOK(0, 0)

\* The tree code implements the map: whatever splitting, growing, merging,
\* shrinking and failing goes on inside, a caller of ext4_extent_get_blocks()
\* and ext4_extent_remove_space() sees only the steps of ExtentMap: every
\* result is true of the map, and a removal unmaps its range and nothing else.
ImplementsMap == Abstract!Spec

\* "truncate to zero freed all the tree": between calls a file without blocks
\* has no tree block left and a root that is a leaf with its own room.
EmptyFileHasNoTree ==
    Idle /\ DOMAIN FileMap = {} =>
       DOMAIN node = {Root} /\ depth = 0 /\ node[Root].max = SpaceRoot

\* Blocks that are neither free, nor referred to by the tree, nor in hand.
Unaccounted ==
    PBlk \ (free \cup ToSet(np) \cup Refers(newext, 0)
              \cup UNION { OwnedBy(node, s) : s \in SlotsOf(node) })

\* Blocks of unwritten extents.
UnwrittenBlocks ==
    UNION { OwnedBy(node, s) : s \in {s \in SlotsOf(node) :
                ext4_ext_is_unwritten(node[s[1]].ents[s[2]])} }

\* The steps after which a block of the device is unaccounted for are the removal
\* of a range inside an extent, and the removal of unwritten blocks, the number
\* of which is negative for the allocator; every other removal, also one that
\* cuts an extent or drops whole levels of the tree, frees what it unmaps.
LeaksOnlyInside ==
    [][\/ RemoveInside
       \/ Unaccounted' \subseteq Unaccounted \cup UnwrittenBlocks]_fileVars

=============================================================================
