----------------------------- MODULE ExtentTree -----------------------------
(***************************************************************************)
(* The extent tree of one inode and ext4_extent_get_blocks(), the call     *)
(* that looks up, allocates and initialises its blocks.                    *)
(*                                                                         *)
(* The code is sequential and takes no lock; what makes it hard is that    *)
(* every block it allocates and every block it reads may fail to arrive,   *)
(* in the middle of a change that spans several nodes.  So an action is    *)
(* the stretch of code between two such points: one level of a search, one *)
(* level of a split, one attempt to insert into a leaf.                    *)
(*                                                                         *)
(* C's path[i] is path[i + 1] here: path[1] is the root and path[Len(path)]*)
(* the leaf.  An element holds the node's block and the slot of it that    *)
(* path[i].index or path[i].extent points to, 0 for a NULL pointer.        *)
(* npath[0] is np[1], the topmost of the blocks a split has made.          *)
(***************************************************************************)
EXTENDS ExtentNodes

CONSTANTS
    LBlk,           \* file blocks callers ask for
    PBlk,           \* physical blocks of the device
    MaxBlocks,      \* values of the max_blocks argument
    SpaceRoot,      \* extents the inode holds      (ext4_ext_space_root)
    SpaceRootIdx,   \* indexes the inode holds      (ext4_ext_space_root_idx)
    SpaceBlock,     \* extents a block holds        (ext4_ext_space_block)
    SpaceBlockIdx,  \* indexes a block holds        (ext4_ext_space_block_idx)
    Candidates(_),  \* the blocks the allocator may choose among, of those
                    \* that are free (external: ext4_balloc_alloc_block)
    Faults,         \* the device and allocator calls that may fail
    Files           \* the inodes a behaviour may start from: [node, free]

Fault == {"alloc", "calloc", "noread", "read"}

\* Root is the i_block array of the inode: its path element has lb_id 0.
Root == 0

ASSUME ConstantsAssumption ==
    /\ LBlk \subseteq Nat
    /\ PBlk \subseteq Nat \ {Root}
    /\ MaxBlocks \subseteq Nat \ {0}
    /\ SpaceRoot \in Nat \ {0}
    /\ SpaceRootIdx \in Nat \ {0}
    /\ SpaceBlock \in Nat
    /\ SpaceBlock > SpaceRoot
    /\ SpaceBlockIdx \in Nat
    /\ SpaceBlockIdx > SpaceRootIdx
    /\ Faults \subseteq Fault

ASSUME CandidatesAssumption ==
    \A S \in SUBSET PBlk : Candidates(S) \subseteq S

-----------------------------------------------------------------------------
(* Trees.  nd is a function from blocks to nodes, like the variable node.  *)

\* ext4_ext_max_entries: the room in a node of depth d when the root has
\* depth top.
ext4_ext_max_entries(top, d) ==
    CASE d = top /\ d = 0 -> SpaceRoot
      [] d = top /\ d # 0 -> SpaceRootIdx
      [] d # top /\ d = 0 -> SpaceBlock
      [] d # top /\ d # 0 -> SpaceBlockIdx

\* A tree with a new node in block b.
WithNode(nd, b, n) ==
    [c \in DOMAIN nd \cup {b} |-> IF c = b THEN n ELSE nd[c]]

\* Every index entry points to a node of the next lower depth.
KidsLive(nd) ==
    \A b \in DOMAIN nd :
       nd[b].depth > 0 =>
          \A i \in DOMAIN nd[b].ents :
             LET c == nd[b].ents[i].pblk
             IN  c \in DOMAIN nd \ {Root} /\ nd[c].depth = nd[b].depth - 1

\* Nodes below the root have a smaller depth, no node has more entries than
\* its header allows or claims more room than it has, and index nodes are not
\* empty.
NodesFit(nd) ==
    \A b \in DOMAIN nd :
       /\ b # Root => nd[b].depth < nd[Root].depth
       /\ Len(nd[b].ents) <= nd[b].max
       /\ nd[b].max \in 1 .. ext4_ext_max_entries(nd[Root].depth, nd[b].depth)
       /\ nd[b].depth > 0 => nd[b].ents # <<>>

\* A file a correct implementation may have left on the disk.
GoodFile(nd, fr) ==
    /\ Root \in DOMAIN nd
    /\ DOMAIN nd \subseteq PBlk \cup {Root}
    /\ nd \in [DOMAIN nd -> Node]
    /\ fr \subseteq PBlk
    /\ DOMAIN nd \cap fr = {}
    /\ KidsLive(nd)
    /\ NodesFit(nd)

ASSUME FilesAssumption == \A f \in Files : GoodFile(f.node, f.free)

VARIABLES
    node,       \* [block -> Node]: the inode's root and the live tree blocks
    free,       \* blocks the allocator may hand out
    pc,         \* where in the code the call is
    req,        \* the arguments of the call
    path,       \* struct ext4_extent_path *path
    newext,     \* the extent being inserted
    at,         \* split_node: topmost level to split, as an index of path
    key,        \* split_node: insert_index
    np,         \* split_node: npath, topmost first
    todo,       \* convert_to_initialized: the splits that remain
    saved,      \* split_extent_at: the slot and length to restore
    res         \* what the last call returned; during a conversion, the
                \* locals newblock and allocated

tree  == <<node, free>>
split == <<at, key, np>>
conv  == <<todo, saved>>
vars  == <<node, free, pc, req, path, newext, at, key, np, todo, saved, res>>

NoReq    == [lblk |-> 0, max |-> 0, create |-> FALSE]
NoExtent == [lblk |-> 0, pblk |-> 0, len |-> 0]
NoSlot   == [blk |-> Root, pos |-> 0, len |-> 0]

\* Results: EOK with the block found (0: a hole) and the number of blocks,
\* or an error, which leaves both output arguments 0.
EOK(b, n) == [err |-> "EOK", pblk |-> b, count |-> n]
EFAIL     == [err |-> "EFAIL", pblk |-> 0, count |-> 0]

-----------------------------------------------------------------------------
(* Abbreviations.                                                          *)

depth == node[Root].depth               \* ext_depth(inode)
leaf  == path[Len(path)]                \* path[depth]
ex    == node[leaf.blk].ents[leaf.pos]  \* *path[depth].extent

\* Mutant: a node counts as free until it is overfull.
HasFree_offByOne(k) == Len(node[path[k].blk].ents) <= node[path[k].blk].max

\* EXT_HAS_FREE_INDEX(path + k - 1)
HasFree(k) == Len(node[path[k].blk].ents) < node[path[k].blk].max

\* ext4_new_meta_blocks() returns one of the allocator's choices, and fails
\* when there is none or when the bitmap cannot be read.  The goal that
\* ext4_ext_find_goal() computes is a hint to the allocator.
ext4_new_meta_blocks(b) == b \in Candidates(free)
NewBlockFails == Candidates(free) = {} \/ "alloc" \in Faults

\* The new block of a tree node is also fetched, without reading it.
NewNodeFails == NewBlockFails \/ "noread" \in Faults

\* The insertion serves a conversion; it is then made with NO_COMBINE.
Converting == todo # <<>>

\* The call returns r.
Return(r) ==
    /\ pc' = "idle"
    /\ res' = r
    /\ req' = NoReq
    /\ path' = <<>>
    /\ newext' = NoExtent
    /\ todo' = <<>>
    /\ saved' = NoSlot

-----------------------------------------------------------------------------
Init ==
    /\ \E f \in Files : node = f.node /\ free = f.free
    /\ pc = "idle"
    /\ req = NoReq
    /\ path = <<>>
    /\ newext = NoExtent
    /\ at = 0 /\ key = 0 /\ np = <<>>
    /\ todo = <<>>
    /\ saved = NoSlot
    /\ res = EOK(0, 0)

\* ext4_extent_get_blocks(lblk, max, create) is called.
ext4_extent_get_blocks(l, m, c) ==
    /\ pc = "idle"
    /\ req' = [lblk |-> l, max |-> m, create |-> c]
    /\ path' = <<[blk |-> Root, pos |-> 0]>>
    /\ pc' = "find"
    /\ res' = EOK(0, 0)
    /\ UNCHANGED <<tree, newext, split, conv>>

-----------------------------------------------------------------------------
(* ext4_find_extent.  It is called for the file block of the request and,  *)
(* after the tree has grown, for the extent to be inserted.                *)

target == IF pc = "find" THEN req.lblk ELSE newext.lblk

\* read_extent_tree_block() accepts a block whose header fits.
ext4_ext_check(b, d) ==
    /\ b \in DOMAIN node
    /\ node[b].depth = d
    /\ node[b].max # 0
    /\ Len(node[b].ents) <= node[b].max

\* Mutant: the walk reads the child and does not go down to it.
ext4_find_extent_walk_stays ==
    /\ pc \in {"find", "refind"}
    /\ node[leaf.blk].depth > 0
    /\ UNCHANGED vars

\* Mutant: path[ppos].index is not set on the way down.
ext4_find_extent_walk_noIndex ==
    /\ pc \in {"find", "refind"}
    /\ node[leaf.blk].depth > 0
    /\ LET p     == Closest(node[leaf.blk].ents, target)
           child == node[leaf.blk].ents[p].pblk
       IN  /\ ext4_ext_check(child, node[leaf.blk].depth - 1)
           /\ path' = Append(path, [blk |-> child, pos |-> 0])
    /\ UNCHANGED <<tree, pc, req, newext, split, conv, res>>

\* One round of the walk: choose the index and read the child it points to.
ext4_find_extent_walk ==
    /\ pc \in {"find", "refind"}
    /\ node[leaf.blk].depth > 0
    /\ LET p     == Closest(node[leaf.blk].ents, target)
           child == node[leaf.blk].ents[p].pblk
       IN  /\ ext4_ext_check(child, node[leaf.blk].depth - 1)
           /\ path' = Append([path EXCEPT ![Len(path)].pos = p],
                             [blk |-> child, pos |-> 0])
    /\ UNCHANGED <<tree, pc, req, newext, split, conv, res>>

\* The path cannot be allocated, or the child cannot be read or is not a tree
\* block: the path is freed.  In
\* insert_extent the caller's copy of the freed pointer is then used, which
\* is undefined: the error is passed on or the system stops.
ext4_find_extent_err ==
    /\ pc \in {"find", "refind"}
    /\ \/ pc = "find" /\ Len(path) = 1 /\ "calloc" \in Faults
       \/ /\ node[leaf.blk].depth > 0
          /\ LET p     == Closest(node[leaf.blk].ents, target)
                 child == node[leaf.blk].ents[p].pblk
             IN  "read" \in Faults
                 \/ ~ ext4_ext_check(child, node[leaf.blk].depth - 1)
    /\ IF pc = "find"
       THEN Return(EFAIL)
       ELSE /\ path' = <<>>
            /\ pc' \in {"fail", "bugcheck"}
            /\ UNCHANGED <<req, newext, conv, res>>
    /\ UNCHANGED <<tree, split>>

\* The first block stored in a slot: past the last entry, any old one.
SlotKey(ents, i) == IF i \in DOMAIN ents THEN {ents[i].lblk} ELSE LBlk

\* Mutant: the key is that of the current extent.
StartSplit_currentKey(p, a) ==
    LET l == p[Len(p)]
    IN  /\ at' = a
        /\ key' \in SlotKey(node[l.blk].ents, l.pos)
        /\ np' = <<>>
        /\ pc' = "split"

\* Mutant: every level below the root is split.
StartSplit_allLevels(p, a) ==
    LET l    == p[Len(p)]
        ents == node[l.blk].ents
    IN  /\ at' = 2
        /\ key' \in IF l.pos # node[l.blk].max THEN SlotKey(ents, l.pos + 1)
                                               ELSE {newext.lblk}
        /\ np' = <<>>
        /\ pc' = "split"

\* split_node() starts, on a path whose levels a .. Len(p) are full: the key
\* of the right-hand subtree is that of the extent after the current one.
StartSplit(p, a) ==
    LET l    == p[Len(p)]
        ents == node[l.blk].ents
    IN  /\ at' = a
        /\ key' \in IF l.pos # node[l.blk].max THEN SlotKey(ents, l.pos + 1)
                                               ELSE {newext.lblk}
        /\ np' = <<>>
        /\ pc' = "split"

\* The leaf is reached.  After growing a tree of depth d the new child of the
\* root has room, so the levels below it are split: none of them if d was 0.
ext4_find_extent_leaf ==
    /\ pc \in {"find", "refind"}
    /\ node[leaf.blk].depth = 0
    /\ LET p == IF node[leaf.blk].ents = <<>> THEN 0
                ELSE Closest(node[leaf.blk].ents, target)
       IN  path' = [path EXCEPT ![Len(path)].pos = p]
    /\ \/ pc = "find" /\ pc' = "found" /\ UNCHANGED split
       \/ pc = "refind" /\ depth = 1 /\ pc' = "insert" /\ UNCHANGED split
       \/ pc = "refind" /\ depth > 1 /\ StartSplit(path', 3)
    /\ UNCHANGED <<tree, req, newext, conv, res>>

-----------------------------------------------------------------------------
(* ext4_extent_get_blocks after the search.                                *)

Found == leaf.pos # 0 /\ Covers(ex, ee_len(ex), req.lblk)

Remaining == Min({ee_len(ex) - (req.lblk - ex.lblk), req.max})

\* The extent covers the block: its block, or 0 if it is unwritten and the
\* caller only reads.
ReturnMapped ==
    /\ pc = "found" /\ Found
    /\ \/ ~ ext4_ext_is_unwritten(ex)
          /\ Return(EOK(req.lblk - ex.lblk + ex.pblk, Remaining))
       \/ ext4_ext_is_unwritten(ex) /\ ~ req.create
          /\ Return(EOK(0, Remaining))
    /\ UNCHANGED <<tree, split>>

ReturnHole ==
    /\ pc = "found" /\ ~ Found /\ ~ req.create
    /\ Return(EOK(0, 0))
    /\ UNCHANGED <<tree, split>>

\* Mutant: the rest of an extent whose head is written is not marked unwritten.
ConvertSteps_noMark(e, s, n) ==
    << [split |-> IF e.lblk = s THEN s + n ELSE s, flag |-> {"MARK_UNWRIT1"}] >>

\* The splits that shall turn blocks s .. s + n - 1 of unwritten extent e into an
\* initialised extent, in the order convert_to_initialized makes them.  The first
\* case is never taken for an extent whose length is negative; the last blocks of
\* an extent go through one of the other two.
ConvertSteps(e, s, n) ==
    LET u1 == "MARK_UNWRIT1"
        u2 == "MARK_UNWRIT2"
    IN  CASE s + n = e.lblk + ext4_ext_get_actual_len(e) ->
               << [split |-> s, flag |-> {u1}] >>
          [] s + n # e.lblk + ext4_ext_get_actual_len(e) /\ e.lblk = s ->
               << [split |-> s + n, flag |-> {u2}] >>
          [] OTHER ->
               << [split |-> s + n, flag |-> {u1, u2}],
                  [split |-> s, flag |-> {u1}] >>

\* An unwritten block is to be written: the range is zeroed, then converted.
ext4_ext_convert_to_initialized ==
    /\ pc = "found" /\ Found
    /\ ext4_ext_is_unwritten(ex) /\ req.create
    /\ todo' = ConvertSteps(ex, req.lblk, Remaining)
    /\ res' = EOK(req.lblk - ex.lblk + ex.pblk, Remaining)
    /\ pc' = "splitat"
    /\ UNCHANGED <<tree, req, path, newext, split, saved>>

\* A block of the range cannot be fetched or written.
ext4_ext_zero_unwritten_range_err ==
    /\ pc = "found" /\ Found
    /\ ext4_ext_is_unwritten(ex) /\ req.create
    /\ "noread" \in Faults
    /\ Return(EFAIL)
    /\ UNCHANGED <<tree, split>>

\* A hole is to be written: allocate one block for it.
AllocateData ==
    /\ pc = "found" /\ ~ Found /\ req.create
    /\ \E b \in free :
          /\ ext4_new_meta_blocks(b)
          /\ free' = free \ {b}
          /\ newext' = [lblk |-> req.lblk, pblk |-> b, len |-> 1]
    /\ pc' = "insert"
    /\ UNCHANGED <<node, req, path, split, conv, res>>

AllocateDataFails ==
    /\ pc = "found" /\ ~ Found /\ req.create
    /\ NewBlockFails
    /\ Return(EFAIL)
    /\ UNCHANGED <<tree, split>>

-----------------------------------------------------------------------------
(* ext4_ext_split_extent_at: cut the current extent at Head(todo).split.   *)
(* A NULL extent would stop the system here.                               *)

\* Case b: the extent begins there, and only its mark changes.  No conversion
\* gets here as long as none is taken for that of the last blocks.
SplitExtentAt_whole ==
    /\ node' = [node EXCEPT ![leaf.blk].ents[leaf.pos] =
                  IF "MARK_UNWRIT2" \in Head(todo).flag
                  THEN ext4_ext_mark_unwritten(@)
                  ELSE ext4_ext_mark_initialized(@)]
    /\ IF Len(todo) = 1
       THEN Return(res)
       ELSE todo' = Tail(todo)
            /\ UNCHANGED <<pc, res, req, path, newext, saved>>
    /\ UNCHANGED <<free, split>>

\* The extent is shortened in place and the rest of it is to be inserted.
\* With split before ex.lblk the difference is negative, and the field keeps it
\* modulo its range.
SplitExtentAt_cut ==
    /\ LET s    == Head(todo).split
           n    == ext4_ext_get_actual_len(ex)
           Mark(u, e) == IF u \in Head(todo).flag
                         THEN ext4_ext_mark_unwritten(e) ELSE e
       IN  /\ node' = [node EXCEPT ![leaf.blk].ents[leaf.pos] =
                         Mark("MARK_UNWRIT1",
                              [@ EXCEPT !.len = AsRaw(s - ex.lblk)])]
           /\ newext' = Mark("MARK_UNWRIT2",
                             [lblk |-> s, pblk |-> s - ex.lblk + ex.pblk,
                              len  |-> AsRaw(n - (s - ex.lblk))])
           /\ saved' = [blk |-> leaf.blk, pos |-> leaf.pos, len |-> AsRaw(n)]
    /\ pc' = "insert"
    /\ UNCHANGED <<free, req, path, split, todo, res>>

ext4_ext_split_extent_at ==
    /\ pc = "splitat" /\ leaf.pos # 0
    /\ IF Head(todo).split = ex.lblk THEN SplitExtentAt_whole
                                     ELSE SplitExtentAt_cut

-----------------------------------------------------------------------------
(* ext4_ext_insert_extent: one round of its loop per attempt on the leaf.  *)

SameStart == leaf.pos # 0 /\ ex.lblk = newext.lblk
CanAppend ==
    ~ Converting /\ leaf.pos # 0 /\ ext4_ext_can_append(ex, newext)
CanPrepend ==
    /\ ~ Converting /\ leaf.pos # 0
    /\ ~ ext4_ext_can_append(ex, newext)
    /\ ext4_ext_can_prepend(ex, newext)

\* The insertion has succeeded, with the current extent in slot p: back to
\* the caller, which is get_blocks if a block was to be created, or to the next
\* split.
Inserted(p) ==
    IF Len(todo) <= 1
    THEN Return(IF Converting \/ ~ req.create THEN res
                ELSE EOK(newext.pblk, 1))
    ELSE /\ todo' = Tail(todo)
         /\ path' = [path EXCEPT ![Len(path)].pos = p]
         /\ pc' = "splitat"
         /\ UNCHANGED <<req, newext, saved, res>>

AppendToExtent ==
    /\ CanAppend
    /\ node' = [node EXCEPT ![leaf.blk].ents[leaf.pos] = Appended(@, newext)]
    /\ Inserted(leaf.pos)
    /\ UNCHANGED <<free, split>>

PrependToExtent ==
    /\ CanPrepend
    /\ node' = [node EXCEPT ![leaf.blk].ents[leaf.pos] = Prepended(@, newext)]
    /\ Inserted(leaf.pos)
    /\ UNCHANGED <<free, split>>

\* The slot the new extent takes: after the current extent or before it.
InsertSlot ==
    IF leaf.pos = 0 THEN 1
    ELSE IF newext.lblk > ex.lblk THEN leaf.pos + 1 ELSE leaf.pos

\* Mutant: only the parent's index is corrected.
CorrectedLevels_parentOnly ==
    IF leaf.pos > 1 THEN {} ELSE {Len(path) - 1} \ {0}

\* ext4_ext_correct_indexes: when the current extent is the first of its leaf,
\* these levels have the leaf's first block written into their index.
CorrectedLevels ==
    IF leaf.pos > 1 THEN {}
    ELSE {k \in 1 .. Len(path) - 1 :
             \A j \in k + 1 .. Len(path) - 1 : path[j].pos = 1}

ext4_ext_correct_indexes(b, border) ==
    LET K == {k \in CorrectedLevels : path[k].blk = b}
    IN  [i \in DOMAIN node[b].ents |->
            IF \E k \in K : path[k].pos = i
            THEN [node[b].ents[i] EXCEPT !.lblk = border]
            ELSE node[b].ents[i]]

InsertIntoLeaf ==
    /\ ~ CanAppend /\ ~ CanPrepend
    /\ HasFree(Len(path))
    /\ LET ents == InsertAt(node[leaf.blk].ents, InsertSlot, newext)
       IN  node' = [b \in DOMAIN node |->
                      [node[b] EXCEPT !.ents =
                         IF b = leaf.blk THEN ents
                         ELSE ext4_ext_correct_indexes(b, ents[1].lblk)]]
    /\ Inserted(InsertSlot)
    /\ UNCHANGED <<free, split>>

\* The leaf is full: split from the leaf up to the deepest node with room, or
\* grow the tree when there is none.
NeedSplit ==
    /\ ~ CanAppend /\ ~ CanPrepend
    /\ ~ HasFree(Len(path))
    /\ LET room == {k \in 1 .. Len(path) : HasFree(k)}
       IN  IF room = {} THEN pc' = "grow" /\ UNCHANGED split
                        ELSE StartSplit(path, Max(room) + 1)
    /\ UNCHANGED <<tree, req, path, newext, conv, res>>

\* An extent that starts at the same block is an error.
ext4_ext_insert_leaf ==
    /\ pc = "insert"
    /\ IF SameStart
       THEN pc' = "fail"
            /\ UNCHANGED <<tree, req, path, newext, split, conv, res>>
       ELSE AppendToExtent \/ PrependToExtent \/ InsertIntoLeaf \/ NeedSplit

\* The root's content moves to a new block and the root becomes an index with
\* that block as its only child.
ext4_ext_grow_indepth ==
    /\ pc = "grow"
    /\ \E b \in free :
          /\ ext4_new_meta_blocks(b)
          /\ free' = free \ {b}
          /\ LET root  == node[Root]
                 child == [root EXCEPT !.max = IF depth = 0 THEN SpaceBlock
                                               ELSE SpaceBlockIdx]
                 top   == [depth |-> depth + 1,
                           max   |-> IF depth = 0 THEN SpaceRootIdx
                                     ELSE root.max,
                           ents  |-> << [lblk |-> root.ents[1].lblk,
                                         pblk |-> b, len |-> 0] >>]
             IN  node' = WithNode([node EXCEPT ![Root] = top], b, child)
    /\ path' = <<[blk |-> Root, pos |-> 0]>>
    /\ pc' = "refind"
    /\ UNCHANGED <<req, newext, split, conv, res>>

GrowFails ==
    /\ pc = "grow" /\ NewNodeFails
    /\ pc' = "fail"
    /\ UNCHANGED <<tree, req, path, newext, split, conv, res>>

-----------------------------------------------------------------------------
(* ext4_ext_split_node: from the leaf up to level at, move what follows    *)
(* the current slot to a new node; then link the topmost new node.         *)

level == Len(path) - Len(np)

\* Mutant: the depth is that of the level below.
ext4_ext_init_header_depth(d, ents) ==
    [depth |-> d - 1, max |-> ext4_ext_max_entries(depth, d), ents |-> ents]

\* A node made by ext4_ext_init_header, with its entries filled in.
ext4_ext_init_header(d, ents) ==
    [depth |-> d, max |-> ext4_ext_max_entries(depth, d), ents |-> ents]

\* Mutant: the new block is not taken from the allocator.
ext4_ext_split_node_notTaken ==
    /\ pc = "split"
    /\ \E b \in free :
          /\ ext4_new_meta_blocks(b)
          /\ LET old   == node[path[level].blk].ents
                 pos   == path[level].pos
                 moved == SubSeq(old, pos + 1, Len(old))
                 new   == IF np = <<>> THEN moved
                          ELSE << [lblk |-> key, pblk |-> np[1], len |-> 0] >> \o moved
             IN  node' = WithNode([node EXCEPT ![path[level].blk].ents =
                                                  SubSeq(old, 1, pos)],
                                  b, ext4_ext_init_header(Len(np), new))
          /\ np' = <<b>> \o np
    /\ pc' = IF level = at THEN "link" ELSE "split"
    /\ UNCHANGED <<free, req, path, newext, at, key, conv, res>>

ext4_ext_split_node ==
    /\ pc = "split"
    /\ \E b \in free :
          /\ ext4_new_meta_blocks(b)
          /\ free' = free \ {b}
          /\ LET old   == node[path[level].blk].ents
                 pos   == path[level].pos
                 moved == SubSeq(old, pos + 1, Len(old))
                 new   == IF np = <<>>
                          THEN moved
                          ELSE << [lblk |-> key, pblk |-> np[1],
                                   len |-> 0] >> \o moved
             IN  node' = WithNode([node EXCEPT ![path[level].blk].ents =
                                                  SubSeq(old, 1, pos)],
                                  b, ext4_ext_init_header(Len(np), new))
          /\ np' = <<b>> \o np
    /\ pc' = IF level = at THEN "link" ELSE "split"
    /\ UNCHANGED <<req, path, newext, at, key, conv, res>>

\* cleanup: the blocks made so far are freed; what moved to them is not
\* moved back.
Cleanup ==
    /\ node' = [b \in DOMAIN node \ ToSet(np) |-> node[b]]
    /\ free' = free \cup ToSet(np)
    /\ at' = 0 /\ key' = 0 /\ np' = <<>>
    /\ pc' = "fail"
    /\ UNCHANGED <<req, path, newext, conv, res>>

SplitFails == pc = "split" /\ NewNodeFails /\ Cleanup

\* Mutant: an extent that starts at the key stays on the left.
InsRight_strict == newext.lblk > key

\* newext belongs to the right-hand subtree.
InsRight == newext.lblk >= key

LinkSlot ==
    LET c == path[at - 1]
    IN  IF key > node[c.blk].ents[c.pos].lblk THEN c.pos + 1 ELSE c.pos

\* The key is taken or the node is full.
NoPlaceForIndex ==
    \/ key = node[path[at - 1].blk].ents[path[at - 1].pos].lblk
    \/ ~ HasFree(at - 1)

\* ext4_ext_insert_index, and insert_extent's update of the path.
LinkIndex ==
    /\ node' = [node EXCEPT ![path[at - 1].blk].ents =
                  InsertAt(@, LinkSlot, [lblk |-> key, pblk |-> np[1],
                                         len |-> 0])]
    /\ path' = IF InsRight
               THEN [k \in DOMAIN path |->
                       IF k < at - 1 THEN path[k]
                       ELSE IF k = at - 1 THEN [path[k] EXCEPT !.pos = LinkSlot]
                       ELSE [blk |-> np[k - at + 1],
                             pos |-> IF node[np[k - at + 1]].ents = <<>>
                                     THEN 0 ELSE 1]]
               ELSE path
    /\ at' = 0 /\ key' = 0 /\ np' = <<>>
    /\ pc' = "insert"
    /\ UNCHANGED <<free, req, newext, conv, res>>

ext4_ext_insert_index ==
    pc = "link" /\ IF NoPlaceForIndex THEN Cleanup ELSE LinkIndex

-----------------------------------------------------------------------------
(* insert_extent has returned an error.                                    *)

\* get_blocks frees the data block and returns the error.
FreeData ==
    /\ pc = "fail" /\ ~ Converting
    /\ free' = free \cup {newext.pblk}
    /\ Return(EFAIL)
    /\ UNCHANGED <<node, split>>

\* restore_extent_len: the length is put back without the unwritten mark, and
\* the status becomes that of ext4_ext_dirty, EOK.  The released path is used
\* again, with the buffers still in the cache; a path that was freed is a NULL
\* pointer here.  A slot that a failed split has moved away is written in vain.
restore_extent_len ==
    /\ pc = "fail" /\ Converting /\ path # <<>>
    /\ node' = [node EXCEPT ![saved.blk].ents[saved.pos].len = saved.len]
    /\ IF Len(todo) = 1
       THEN Return(res)
       ELSE /\ todo' = Tail(todo)
            /\ pc' = "splitat"
            /\ UNCHANGED <<req, path, newext, saved, res>>
    /\ UNCHANGED <<free, split>>

RestoreWithoutPath ==
    /\ pc = "fail" /\ Converting /\ path = <<>>
    /\ pc' = "bugcheck"
    /\ UNCHANGED <<tree, req, path, newext, split, conv, res>>

-----------------------------------------------------------------------------
Find == ext4_find_extent_walk \/ ext4_find_extent_err \/ ext4_find_extent_leaf

Decide ==
    \/ ReturnMapped \/ ReturnHole
    \/ ext4_ext_convert_to_initialized \/ ext4_ext_zero_unwritten_range_err
    \/ AllocateData \/ AllocateDataFails

Convert ==
    \/ ext4_ext_split_extent_at
    \/ restore_extent_len \/ RestoreWithoutPath

Insert ==
    \/ ext4_ext_insert_leaf
    \/ ext4_ext_grow_indepth \/ GrowFails
    \/ ext4_ext_split_node \/ SplitFails
    \/ ext4_ext_insert_index \/ FreeData

\* What the thread inside the call does next.
Step == Find \/ Decide \/ Convert \/ Insert

Next ==
    \/ \E l \in LBlk, m \in MaxBlocks, c \in BOOLEAN :
          ext4_extent_get_blocks(l, m, c)
    \/ Step

Spec == Init /\ [][Next]_vars

\* A thread that has entered the driver keeps being scheduled.
FairSpec == Spec /\ WF_vars(Step)

-----------------------------------------------------------------------------
(* Invariants.                                                             *)

PCs == {"idle", "find", "refind", "found", "splitat", "insert", "grow",
        "split", "link", "fail", "bugcheck", "remove"}

\* The variables have their types: nodes are records of entries, only blocks
\* of the device hold nodes, the path and the split refer to blocks.
TypeOK ==
    /\ DOMAIN node \subseteq PBlk \cup {Root}
    /\ Root \in DOMAIN node
    /\ node \in [DOMAIN node -> Node]
    /\ free \subseteq PBlk
    /\ pc \in PCs
    /\ req \in [lblk : Nat, max : Nat, create : BOOLEAN]
    /\ path \in Seq([blk : PBlk \cup {Root}, pos : Nat])
    /\ newext \in Entry
    /\ at \in Nat
    /\ key \in Nat
    /\ np \in Seq(PBlk)
    /\ todo \in Seq([split : Nat, flag : SUBSET {"MARK_UNWRIT1", "MARK_UNWRIT2"}])
    /\ saved \in [blk : PBlk \cup {Root}, pos : Nat, len : RawLen]
    /\ res \in [err : {"EOK", "EFAIL"}, pblk : Int, count : Int]

\* No dangling index: at every point of every call, also after a split or a
\* growth has failed half way and its blocks have been freed, an index entry
\* points to a live tree block of the next lower depth, which is what
\* ext4_ext_check() demands of the block that is read through it.
ChildrenLive == KidsLive(node)

\* The allocator never gets back, or keeps, a block that holds a live node of
\* the tree.
NodesNotFree == DOMAIN node \cap free = {}

\* No node holds more entries than it has room for: the memmove()s of
\* insert_leaf, insert_index and split_node stay inside the block.
WithinCapacity == \A b \in DOMAIN node : Len(node[b].ents) <= node[b].max

\* The path in hand never goes stale: whatever was split, grown, linked, freed
\* or given up since it was searched, each of its elements is a live node of
\* the tree at its own level, and the slots of its index nodes are in use, so
\* correct_indexes, split_node and insert_index write to the nodes they mean.
PathLive ==
    \A k \in 1 .. Len(path) :
       /\ path[k].blk \in DOMAIN node
       /\ node[path[k].blk].depth = depth - (k - 1)
       /\ k < Len(path) => path[k].pos \in DOMAIN node[path[k].blk].ents

\* "After growing the tree, there should be free space in the only child node
\* of the root": when split_node comes to link the new subtree, the node above
\* has room and no index with the same key, so the EIO exits of insert_index
\* are never taken and a split whose allocations succeed succeeds.
RoomForIndex == pc = "link" => ~ NoPlaceForIndex

\* split_node() counts what it moves from the room of a node, not from its
\* entries: so the nodes to be split are full, also those of the path that was
\* searched anew after the tree has grown.
SplitNodesFull ==
    pc = "split" => \A k \in at .. level : ~ HasFree(k)

=============================================================================
