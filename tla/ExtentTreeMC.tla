---------------------------- MODULE ExtentTreeMC ----------------------------
(***************************************************************************)
(* Instances of ExtentTree for TLC.                                        *)
(***************************************************************************)
EXTENDS ExtentTreeMap

\* Devices.  No two blocks of a fragmented one are adjacent, so no extents can
\* be merged; this one is full before five file blocks are mapped.
NearlyFull == {2 * i : i \in 1 .. 9}
\* Runs of adjacent blocks.
Contiguous == 1 .. 8

\* Allocators: the lowest free block, or one of the lowest two, so that a
\* later block may be the one before an earlier block.
LowestFirst(S) == IF S = {} THEN {} ELSE {Min(S)}
LowestTwo(S) == {b \in S : Cardinality({c \in S : c < b}) < 2}

\* An inode whose root is a leaf with the given extents, on a device with the
\* given blocks.
FileOn(blocks, ents) ==
    [node |-> Root :> [depth |-> 0, max |-> SpaceRoot, ents |-> ents],
     free |-> blocks \ UNION { Refers(e, 0) : e \in ToSet(ents) }]
Unwritten(l, p, n) == [lblk |-> l, pblk |-> p, len |-> InitMax + n]

EmptyFile == {FileOn(PBlk, <<>>)}
Preallocated == {FileOn(PBlk, <<Unwritten(0, 2, 3)>>)}

=============================================================================
