------------------------------ MODULE ExtentMap ------------------------------
(***************************************************************************)
(* What ext4_extent.c promises to the rest of the driver: the file is a    *)
(* map from file blocks to physical blocks, each of them written or still  *)
(* unwritten.  ext4_extent_get_blocks() reads the map, or adds one block   *)
(* to it, or marks a range of it written, and leaves it as it was when it  *)
(* fails.  ext4_extent_remove_space() takes a range of blocks out of the   *)
(* map, some at a time, provided that the first of them is mapped and      *)
(* written; it may leave blocks that lie before unwritten ones.  The tree, *)
(* its splits, its growth and its shrinking do not show.                   *)
(***************************************************************************)
EXTENDS Integers, TLC

CONSTANTS
    LBlk, PBlk, MaxBlocks,  \* as in ExtentTree
    Ranges,                 \* as in ExtentRemove
    NoReq, NoRes            \* no call in progress, no result yet

VARIABLES
    map,    \* [file block -> [pblk, written]], on the blocks that are mapped
    req,    \* the call in progress
    res,    \* the result of the last call
    removing,   \* the call in progress is a removal
    left        \* the blocks it has still to take out

vars == <<map, req, res, removing, left>>

Blocks(l, n) == {l + i : i \in 0 .. n - 1}

TypeOK ==
    /\ DOMAIN map \subseteq Nat
    /\ \A l \in DOMAIN map : map[l] \in [pblk : PBlk, written : BOOLEAN]

\* n blocks from l on are stored, written, in n consecutive blocks from p on.
MappedRun(m, l, p, n) ==
    \A i \in 0 .. n - 1 : /\ l + i \in DOMAIN m
                          /\ m[l + i] = [pblk |-> p + i, written |-> TRUE]

Init == req = NoReq /\ res = NoRes /\ removing = FALSE /\ left = {} /\ TypeOK

GetBlocks ==
    /\ req = NoReq
    /\ \E l \in LBlk, m \in MaxBlocks, c \in BOOLEAN :
          req' = [lblk |-> l, max |-> m, create |-> c]
    /\ res' = NoRes
    /\ UNCHANGED map

\* The block is mapped and written: return where, and for how many blocks.
ReturnRun ==
    /\ req # NoReq
    /\ \E n \in 1 .. req.max :
          /\ req.lblk \in DOMAIN map
          /\ MappedRun(map, req.lblk, map[req.lblk].pblk, n)
          /\ res' = [err |-> "EOK", pblk |-> map[req.lblk].pblk, count |-> n]
    /\ req' = NoReq
    /\ UNCHANGED map

\* The block is a hole, or unwritten, and the caller only wants to read.
ReturnNothing ==
    /\ req # NoReq /\ ~ req.create
    /\ \/ /\ req.lblk \notin DOMAIN map
          /\ res' = [err |-> "EOK", pblk |-> 0, count |-> 0]
       \/ \E n \in 1 .. req.max :
             /\ \A l \in Blocks(req.lblk, n) :
                   l \in DOMAIN map /\ ~ map[l].written
             /\ res' = [err |-> "EOK", pblk |-> 0, count |-> n]
    /\ req' = NoReq
    /\ UNCHANGED map

\* A hole gets a block that no other file block has.
Allocate ==
    /\ req # NoReq /\ req.create
    /\ req.lblk \notin DOMAIN map
    /\ \E p \in PBlk \ {map[l].pblk : l \in DOMAIN map} :
          /\ map' = (req.lblk :> [pblk |-> p, written |-> TRUE]) @@ map
          /\ res' = [err |-> "EOK", pblk |-> p, count |-> 1]
    /\ req' = NoReq

\* Unwritten blocks of the requested range, and no others, become written; the
\* call returns at once or later.
Initialise ==
    /\ req # NoReq /\ req.create
    /\ \E n \in 1 .. req.max :
          /\ \A l \in Blocks(req.lblk, n) : l \in DOMAIN map /\ ~ map[l].written
          /\ map' = [l \in DOMAIN map |->
                       IF l \in Blocks(req.lblk, n)
                       THEN [map[l] EXCEPT !.written = TRUE] ELSE map[l]]
          /\ \/ UNCHANGED <<req, res>>
             \/ /\ req' = NoReq
                /\ res' = [err |-> "EOK", pblk |-> map[req.lblk].pblk,
                           count |-> n]

Fail ==
    /\ req # NoReq
    /\ res' = [err |-> "EFAIL", pblk |-> 0, count |-> 0]
    /\ req' = NoReq
    /\ UNCHANGED map

Get ==
    /\ ~ removing
    /\ GetBlocks \/ ReturnRun \/ ReturnNothing \/ Allocate \/ Initialise \/ Fail
    /\ UNCHANGED <<removing, left>>

RemoveSpace ==
    /\ req = NoReq
    /\ \E r \in Ranges :
          /\ req' = [lblk |-> r[1], max |-> r[2] - r[1] + 1, create |-> FALSE]
          /\ left' = IF r[1] \in DOMAIN map /\ map[r[1]].written
                     THEN DOMAIN map \cap r[1] .. r[2] ELSE {}
    /\ removing' = TRUE
    /\ res' = NoRes
    /\ UNCHANGED map

\* Blocks of the range are taken out; all other blocks stay as they are.
Unmap ==
    /\ removing
    /\ \E S \in SUBSET left :
          /\ map' = [l \in DOMAIN map \ S |-> map[l]]
          /\ left' = left \ S
    /\ UNCHANGED <<req, res, removing>>

\* The call returns when none of them is left, or only blocks before unwritten
\* ones: it does not keep its promise for a leaf that ends in unwritten blocks.
ReturnRemoved ==
    /\ removing
    /\ \A l \in left : \E u \in DOMAIN map : l <= u /\ ~ map[u].written
    /\ req' = NoReq
    /\ res' = NoRes
    /\ removing' = FALSE
    /\ left' = {}
    /\ UNCHANGED map

Next == Get \/ RemoveSpace \/ Unmap \/ ReturnRemoved

Spec == Init /\ [][Next]_vars

=============================================================================
