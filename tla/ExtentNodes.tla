---------------------------- MODULE ExtentNodes ----------------------------
(***************************************************************************)
(* The on-disk pieces of an ext4 extent tree and the pure functions        *)
(* ext4_extent.c computes on them.                                         *)
(*                                                                         *)
(* An entry of a node is a record [lblk, pblk, len].  In a leaf it is a    *)
(* struct ext4_extent: file block lblk is stored in physical block pblk,   *)
(* and len is the bit pattern of the ee_len field, length and "unwritten"  *)
(* mark in one number.  The field is signed in this code (drv_types.h      *)
(* makes __u16 a signed __int16), so what is computed from it is not what  *)
(* the comments in ext4_fs.h say.  In an index node an entry is a struct   *)
(* ext4_extent_idx: the subtree that starts at lblk is in block pblk, and  *)
(* len is 0 and meaningless.                                               *)
(*                                                                         *)
(* A node is a record [depth, max, ents]: eh_depth, eh_max and the entries *)
(* in use, eh_entries being their number.                                  *)
(***************************************************************************)
EXTENDS Integers, SequencesExt

CONSTANTS
    InitMax         \* EXT_INIT_MAX_LEN, 2^15 in the code: the bit pattern of
                    \* ee_len is a number of twice that range (16 bits)

ASSUME InitMaxAssumption == InitMax \in Nat \ {0, 1}

RawLen == 0 .. (2 * InitMax - 1)

Entry == [lblk : Nat, pblk : Int, len : RawLen]

Node == [depth : Nat, max : Nat, ents : Seq(Entry)]

-----------------------------------------------------------------------------
(* The length field.                                                       *)

\* The bit pattern that is left of an integer stored into the field.
AsRaw(n) == n % (2 * InitMax)

\* The value that a bit pattern of the field stands for: the cast is to a signed
\* type.
le16_to_cpu(raw) == IF raw < InitMax THEN raw ELSE raw - 2 * InitMax

\* n > limit, where limit is an unsigned long, to which a negative n is
\* converted.
Exceeds(n, limit) == n < 0 \/ n > limit

\* So 0x8000 is unwritten too, and without a block.
ext4_ext_is_unwritten(e) == Exceeds(le16_to_cpu(e.len), InitMax)

\* The number of blocks of an initialised extent, and of an unwritten one that
\* number less 2^16.
ext4_ext_get_actual_len(e) ==
    LET n == le16_to_cpu(e.len)
    IN  IF Exceeds(n, InitMax) THEN n - InitMax ELSE n

\* What get_blocks() makes of it: its variable has 16 bits, and the number of
\* blocks is right again.
ee_len(e) == le16_to_cpu(AsRaw(ext4_ext_get_actual_len(e)))

\* ee_len |= EXT_INIT_MAX_LEN
ext4_ext_mark_unwritten(e) ==
    [e EXCEPT !.len = IF @ >= InitMax THEN @ ELSE @ + InitMax]

ext4_ext_mark_initialized(e) ==
    [e EXCEPT !.len = AsRaw(ext4_ext_get_actual_len(e))]

\* IN_RANGE(block, first_block of e, n)
Covers(e, n, block) == e.lblk <= block /\ block < e.lblk + n

-----------------------------------------------------------------------------
(* Searching a node.                                                       *)

\* The slot both binary searches leave in the path: the last one that does
\* not start after block, and the first one if all of them do.
Closest(ents, block) ==
    Max({1} \cup {k \in 2 .. Len(ents) : ents[k].lblk <= block})

-----------------------------------------------------------------------------
(* Merging.  ex1 is the extent in the tree and ex2 the one to be added.    *)

\* The limit depends on ex1 alone, whatever ex2's mark is.  With an unwritten
\* extent the sum is negative, which exceeds every limit.
FitsLength(ex1, ex2) ==
    ~ Exceeds(ext4_ext_get_actual_len(ex1) + ext4_ext_get_actual_len(ex2),
              IF ext4_ext_is_unwritten(ex1) THEN InitMax - 1 ELSE InitMax)

\* Mutant: the physical blocks need not be adjacent.
ext4_ext_can_append_logical(ex1, ex2) ==
    /\ FitsLength(ex1, ex2)
    /\ ex1.lblk + ext4_ext_get_actual_len(ex1) = ex2.lblk

ext4_ext_can_append(ex1, ex2) ==
    /\ ex1.pblk + ext4_ext_get_actual_len(ex1) = ex2.pblk
    /\ FitsLength(ex1, ex2)
    /\ ex1.lblk + ext4_ext_get_actual_len(ex1) = ex2.lblk

ext4_ext_can_prepend(ex1, ex2) ==
    /\ ex2.pblk + ext4_ext_get_actual_len(ex2) = ex1.pblk
    /\ FitsLength(ex1, ex2)
    /\ ex2.lblk + ext4_ext_get_actual_len(ex2) = ex1.lblk

\* The merged extent keeps ex1's mark and takes both lengths.
MergedLen(ex1, ex2) ==
    LET sum == [ex1 EXCEPT !.len = AsRaw(ext4_ext_get_actual_len(ex1) +
                                         ext4_ext_get_actual_len(ex2))]
    IN  IF ext4_ext_is_unwritten(ex1) THEN ext4_ext_mark_unwritten(sum).len
                                      ELSE sum.len

\* ex2 is appended: only the length changes.
Appended(ex1, ex2) == [ex1 EXCEPT !.len = MergedLen(ex1, ex2)]

\* ex2 is prepended: the first file block and the length change, and the
\* physical block is left as it is.
Prepended(ex1, ex2) == [ex1 EXCEPT !.lblk = ex2.lblk,
                                   !.len = MergedLen(ex1, ex2)]

=============================================================================
