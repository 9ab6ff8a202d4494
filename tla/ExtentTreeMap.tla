---------------------------- MODULE ExtentTreeMap ----------------------------
(***************************************************************************)
(* The file that an extent tree stands for, and the properties that relate *)
(* a tree to its file and to the blocks of the device.                     *)
(***************************************************************************)
EXTENDS ExtentTree

\* The blocks of the tree below a set of nodes, that set included.
Below(S) ==
    LET Reach[k \in Nat] ==
          IF k = 0 THEN S
          ELSE Reach[k - 1] \cup
                 UNION { { node[b].ents[i].pblk : i \in DOMAIN node[b].ents } :
                         b \in { c \in Reach[k - 1] : node[c].depth > 0 } }
    IN  Reach[depth]

ExtentsOf(S) ==
    UNION { ToSet(node[b].ents) : b \in { c \in S : node[c].depth = 0 } }

\* The extents of the file: those of the tree, those a split has moved to
\* blocks that are not linked yet, and the cut-off part of an extent that
\* split_extent_at or remove_space has shortened.
Extents ==
    ExtentsOf(Below({Root} \cup ToSet(np)))
      \cup (IF Converting \/ ~ req.create THEN {newext} ELSE {})

\* The file blocks that a reader finds in an extent: get_blocks() counts them.
FileBlocks(e) == e.lblk .. e.lblk + ee_len(e) - 1

FileMap ==
    LET E == Extents
    IN  [l \in UNION { FileBlocks(e) : e \in E } |->
           LET e == CHOOSE f \in E : l \in FileBlocks(f)
           IN  [pblk    |-> l - e.lblk + e.pblk,
                written |-> ~ ext4_ext_is_unwritten(e)]]

Idle == pc = "idle"

\* Mutant: the window shrinks at both ends when it moves to the right.
BinSearch_bothEnds(ents, block) ==
    LET Loop[l \in Nat, r \in Nat] ==
          IF l > r THEN l - 1
          ELSE LET m == l + (r - l) \div 2
               IN  IF block < ents[m].lblk THEN Loop[l, m - 1]
                                           ELSE Loop[m + 1, r - 1]
    IN  Loop[2, Len(ents)]

\* The loop of ext4_ext_binsearch_idx and ext4_ext_binsearch, on the window
\* <<l, r>> of the slots not yet ruled out.
BinSearch(ents, block) ==
    LET n == Len(ents)
        Loop[w \in (2 .. n + 1) \X (1 .. n)] ==
          LET m == w[1] + (w[2] - w[1]) \div 2
          IN  IF w[1] > w[2] THEN w[1] - 1
              ELSE IF block < ents[m].lblk THEN Loop[<<w[1], m - 1>>]
                                           ELSE Loop[<<m + 1, w[2]>>]
    IN  Loop[<<2, n>>]

-----------------------------------------------------------------------------
(* Properties.                                                             *)

\* The two binary searches find the closest slot in every node that a call may
\* search, which they do only as long as every insertion, split and correction
\* of an index leaves the node sorted.
BinSearchFindsClosest ==
    \A b \in DOMAIN node : node[b].ents # <<>> =>
       \A l \in LBlk :
          BinSearch(node[b].ents, l) = Closest(node[b].ents, l)

\* The leaf in which the walk of ext4_find_extent for file block l ends.
LeafFor(l) ==
    LET Walk[d \in 0 .. depth] ==
          IF d = depth THEN Root
          ELSE LET ents == node[Walk[d + 1]].ents
               IN  ents[Closest(ents, l)].pblk
    IN  Walk[0]

\* The extents of a finished tree are where a search looks for them: for every
\* file block that an extent of the tree covers, the walk of ext4_find_extent
\* ends at that very extent.  It is what correct_indexes and insert_index keep
\* the index keys for, and what a test sees only if it looks the block up.
EveryBlockFound ==
    Idle =>
      \A e \in Extents : \A l \in FileBlocks(e) :
         LET ents == node[LeafFor(l)].ents
         IN  ents # <<>> /\ ents[Closest(ents, l)] = e

\* The blocks an entry of a node of the given depth refers to.
Refers(e, d) == IF d > 0 THEN {e.pblk}
                ELSE e.pblk .. e.pblk + ee_len(e) - 1

\* The slots of the nodes of a tree, and the blocks that one of them refers to.
SlotsOf(nd) ==
    UNION { {<<b, i>> : i \in DOMAIN nd[b].ents} : b \in DOMAIN nd }
OwnedBy(nd, s) == Refers(nd[s[1]].ents[s[2]], nd[s[1]].depth)

\* No slot of a tree refers to a block of X.
Unowned(nd, X) == \A s \in SlotsOf(nd) : X \cap OwnedBy(nd, s) = {}

\* No two slots of a tree refer to the same block.
OwnersDiffer(nd) ==
    \A s, t \in SlotsOf(nd) : s # t => OwnedBy(nd, s) \cap OwnedBy(nd, t) = {}

\* So it is on a disk that a correct implementation has written.
ASSUME FilesOwnBlocksOnce ==
    \A f \in Files : OwnersDiffer(f.node) /\ Unowned(f.node, f.free)

\* Every block has one owner: no two entries of live nodes refer to the same
\* block, none refers to a free block, and a block allocated for an extent that
\* is not in the tree yet is neither free nor referred to.
OneOwner ==
    /\ OwnersDiffer(node)
    /\ Unowned(node, free)
    /\ pc \in {"insert", "grow", "refind", "split", "link", "fail"} =>
         Refers(newext, 0) \cap free = {} /\ Unowned(node, Refers(newext, 0))

\* So it is on a disk that a correct implementation has written.
ASSUME FilesHaveNoEmptyLeaf ==
    \A f \in Files : \A b \in DOMAIN f.node \ {Root} : f.node[b].ents # <<>>

\* The first file block behind those that an entry of a node of the given depth
\* takes: an index takes the first of its subtree.
End(e) == e.lblk + ee_len(e)
EndOf(e, d) == IF d > 0 THEN e.lblk + 1 ELSE End(e)

\* The entries of a node are in order and end before u: no extent is empty, and
\* no two of a leaf overlap.
Ordered(es, d, u) ==
    /\ \A i \in DOMAIN es : es[i].lblk < EndOf(es[i], d) /\ EndOf(es[i], d) <= u
    /\ \A i, j \in DOMAIN es : i < j => EndOf(es[i], d) <= es[j].lblk

\* The subtree below an index starts no earlier than the index says and ends
\* where the next index starts.
ChildrenFit(nd, U, b) ==
    LET es == nd[b].ents
    IN  \A i \in DOMAIN es :
           LET c == es[i].pblk
           IN  /\ U[c] <= U[b]
               /\ \A j \in DOMAIN es : i < j => U[c] <= es[j].lblk
               /\ 1 \in DOMAIN nd[c].ents => es[i].lblk <= nd[c].ents[1].lblk

\* A tree whose keys are sorted, the file blocks below node b being bounded by
\* U[b], and whose leaves have room for more than one extent.
Sorted(nd, U) ==
    \A b \in DOMAIN nd :
       /\ Ordered(nd[b].ents, nd[b].depth, U[b])
       /\ nd[b].depth > 0 => ChildrenFit(nd, U, b)
       /\ nd[b].depth = 0 /\ b # Root => nd[b].max >= 2

\* So it is on a disk that a correct implementation has written, unless it holds
\* an extent of EXT_INIT_MAX_LEN blocks, which this code takes for an empty one.
ASSUME FilesSorted ==
    \A f \in Files :
       LET ends == UNION { { EndOf(f.node[b].ents[i], f.node[b].depth) :
                             i \in DOMAIN f.node[b].ents } : b \in DOMAIN f.node }
       IN  \E U \in [DOMAIN f.node -> ends \cup {0}] : Sorted(f.node, U)

\* An index of the tree points to c.
Child(nd, c) ==
    \E b \in DOMAIN nd :
       nd[b].depth > 0 /\ \E i \in DOMAIN nd[b].ents : nd[b].ents[i].pblk = c

\* Every node below the root has an index.
Family(nd) == \A c \in DOMAIN nd \ {Root} : Child(nd, c)

\* No slot refers to a block outside the device.
InDevice(nd) ==
    \A b \in DOMAIN nd : \A i \in DOMAIN nd[b].ents :
       Refers(nd[b].ents[i], nd[b].depth) \subseteq PBlk

\* A root that is a leaf has the room of the inode.
RootRoom(nd) == nd[Root].depth = 0 => nd[Root].max = SpaceRoot

\* So it is on a disk that a correct implementation has written.
ASSUME FilesWhole ==
    \A f \in Files : Family(f.node) /\ InDevice(f.node) /\ RootRoom(f.node)

\* "consistent leaf must not be empty": between calls only the root of an empty
\* file has no entries, although an empty leaf exists during a split.
ConsistentLeafNotEmpty ==
    Idle => \A b \in DOMAIN node :
               node[b].ents = <<>> => b = Root /\ depth = 0

\* The tree forgets nothing: a call maps further blocks or none, and a block
\* once mapped stays where it is, so get_blocks() takes its branch for a block
\* that "isn't allocated yet" only for such a block.
MappingsStay ==
    [][\A l \in DOMAIN FileMap :
          l \in DOMAIN FileMap' /\ FileMap'[l].pblk = FileMap[l].pblk]_vars

\* "try to insert new extent into found leaf and return": when a call has
\* allocated a block, a search for the file block finds the block that the call
\* has returned.
InsertedWhereAllocated ==
    [][pc = "insert" /\ pc' = "idle" /\ ~ Converting
         => FileMap'[req.lblk].pblk = res'.pblk]_vars

\* "split and initialize right part": a conversion cuts an extent into pieces that
\* together map the same file blocks.
ConversionMapsNothingNew ==
    [][Converting => DOMAIN FileMap' = DOMAIN FileMap]_vars

\* Every call returns: the retry loop of insert_extent, which splits or grows
\* and starts again, ends whatever shape the tree has.
EveryCallReturns == (pc # "idle") ~> (pc = "idle")

=============================================================================
