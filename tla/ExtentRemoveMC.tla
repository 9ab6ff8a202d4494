--------------------------- MODULE ExtentRemoveMC ---------------------------
(***************************************************************************)
(* Instances of ExtentRemove for TLC.                                      *)
(***************************************************************************)
EXTENDS ExtentRemove, ExtentTreeMC

Written(l, p, n) == [lblk |-> l, pblk |-> p, len |-> n]
Index(l, p) == [lblk |-> l, pblk |-> p, len |-> 0]
Leaf(ents) == [depth |-> 0, max |-> SpaceBlock, ents |-> ents]

\* An inode with the given nodes, on a device with the given blocks.
TreeOn(blocks, nd) ==
    [node |-> nd,
     free |-> blocks \ (DOMAIN nd \cup
                UNION { UNION { Refers(e, 0) : e \in ToSet(nd[b].ents) } :
                        b \in {c \in DOMAIN nd : nd[c].depth = 0} })]

-----------------------------------------------------------------------------
(* Files for get_blocks.  The blocks that a file is given are scattered or *)
(* start with a run of eight; two more runs hold preallocated extents that *)
(* no other block is adjacent to.                                          *)

Even == {2 * i : i \in 1 .. 13}
WithRun == 1 .. 8 \cup {b \in Even : b > 14}
EvenAndRuns == Even \cup WithRun \cup 31 .. 33 \cup 35 .. 37

\* An empty file whose blocks cannot be merged, one whose blocks can, and a
\* file with two preallocated extents in its only leaf.
ThreeFiles ==
    { FileOn(Even, <<>>),
      FileOn(WithRun, <<>>),
      TreeOn(WithRun,
             Root :> [depth |-> 1, max |-> SpaceRootIdx, ents |-> <<Index(4, 1)>>]
             @@ 1 :> Leaf(<<Unwritten(4, 31, 3), Unwritten(8, 35, 3)>>)) }

-----------------------------------------------------------------------------
(* Files for removals.  The allocator takes its blocks from the scattered  *)
(* part of the device; the longer extents are in runs.                     *)

Scattered == {2 * i : i \in 1 .. 12}
ScatteredAndRuns == Scattered \cup 31 .. 33 \cup {35, 36} \cup 38 .. 40
LowestScattered(S) == LowestFirst(S \cap Scattered)

\* Three levels: a leaf with two extents, the first of them unwritten, alone
\* under its index node, and two more leaves under another, one with two extents,
\* of which the first is unwritten, and one with a longer extent.
ThreeLevels ==
    TreeOn(PBlk,
             Root :> [depth |-> 2, max |-> SpaceRootIdx,
                      ents |-> <<Index(0, 2), Index(2, 4)>>]
          @@ 2 :> [depth |-> 1, max |-> SpaceBlockIdx,
                   ents |-> <<Index(0, 6)>>]
          @@ 4 :> [depth |-> 1, max |-> SpaceBlockIdx,
                   ents |-> <<Index(2, 8), Index(4, 10)>>]
          @@ 6 :> Leaf(<<Unwritten(0, 12, 1), Written(1, 14, 1)>>)
          @@ 8 :> Leaf(<<Unwritten(2, 35, 1), Written(3, 36, 1)>>)
          @@ 10 :> Leaf(<<Written(4, 31, 3)>>))

\* A leaf that ends in an unwritten extent, and one behind it.
UnwrittenEnd ==
    TreeOn(PBlk,
             Root :> [depth |-> 1, max |-> SpaceRootIdx,
                      ents |-> <<Index(0, 2), Index(5, 4)>>]
          @@ 2 :> Leaf(<<Written(0, 31, 3), Unwritten(3, 39, 2)>>)
          @@ 4 :> Leaf(<<Written(5, 35, 2)>>))

LongExtents == {FileOn(PBlk, <<Written(1, 31, 3)>>), ThreeLevels, UnwrittenEnd}
AllRanges == {r \in (0 .. 6) \X (0 .. 6) : r[1] <= r[2]}

-----------------------------------------------------------------------------
(* Files for failing calls.                                                *)

\* Three levels without room on the way to the first leaf, whose second extent
\* is unwritten: an insertion there splits two levels, after adding a third
\* above them.
FullTrees ==
  { TreeOn(PBlk,
             Root :> [depth |-> 2, max |-> SpaceRootIdx, ents |-> <<Index(0, 2)>>]
          @@ 2 :> [depth |-> 1, max |-> SpaceBlockIdx,
                   ents |-> <<Index(0, 4), Index(6, 6)>>]
          @@ 4 :> Leaf(<<Written(0, 12, 1), Unwritten(2, 31, 3)>>)
          @@ 6 :> Leaf(<<Unwritten(6, 35, 2), Written(9, 38, 3)>>)) }
\* Ranges that empty a leaf, cut its last extent, reach into the next leaf, cut
\* the first extent of a range, and lie inside an extent.
SomeRanges == {<<0, 0>>, <<0, 2>>, <<0, 9>>, <<9, 9>>, <<10, 10>>}

=============================================================================
