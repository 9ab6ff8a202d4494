---------------------------- MODULE DrvAtomicMC ----------------------------
(***************************************************************************)
(* Instance of DrvAtomic for TLC: two-bit counters.                        *)
(***************************************************************************)
EXTENDS DrvAtomic

\* One up and the most negative LONG.
Amounts == {1, LongMin}

=============================================================================
