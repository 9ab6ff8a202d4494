-------------------------- MODULE Jbd2HandleProofs --------------------------
(***************************************************************************)
(* What jbd2_open_handle() leaves behind, for any pool.                    *)
(***************************************************************************)
EXTENDS Jbd2Handle, TLAPS

\* Where the thread is tells what the cache manager has of the file ...
CacheInv ==
    /\ pc \in {"idle", "cache"} => map = "none"
    /\ pc = "wait" => (map = "closing" \/ map = "none")
    /\ map = "closing" => pc = "wait" /\ ~ event
    /\ event => pc = "wait" /\ map = "none"
    /\ pins = IF bcb /\ pc \in {"verify", "alloc_sb", "finally"} THEN 1 ELSE 0
    /\ pc \in {"idle", "cache", "pin"} => ~ bcb

\* ... and what is in memory: the lists are those that the flags tell of.
MemoryInv ==
    /\ pc # "idle" => handle \in pool
    /\ pc = "idle" => handle = NoBlock
    /\ pc \in {"idle", "cache", "pin", "verify", "alloc_sb"} =>
         jh_sb = NoBlock /\ inited = {}
    /\ pc \in {"uninit", "wait"} => jh_sb \notin pool
    /\ jh_sb # NoBlock => jh_sb # handle
    /\ pc \notin {"finally", "release"} => lists = {}
    /\ pc \in {"finally", "release"} =>
         lists = {<<c, handle>> : c \in Cache \cap inited}

\* No statement of jbd2_open_handle() makes its status a success.
StatusInv == status # "STATUS_SUCCESS"

IInv == TypeOK /\ CacheInv /\ MemoryInv /\ StatusInv

LEMMA InitInv == Init => IInv
<1> SUFFICES ASSUME Init PROVE IInv
  OBVIOUS
<1> USE DEF Init
<1>1. TypeOK
  <2>1. event \in BOOLEAN /\ bcb \in BOOLEAN
    OBVIOUS
  <2>2. lists \subseteq Cache \X Block /\ pool \subseteq Block
    OBVIOUS
  <2>3. inited \subseteq Flags /\ sb \subseteq Check
    OBVIOUS
  <2> QED
    BY <2>1, <2>2, <2>3 DEF TypeOK, Status
<1>2. CacheInv
  BY DEF CacheInv
<1>3. MemoryInv
  BY DEF MemoryInv
<1>4. StatusInv
  BY DEF StatusInv
<1> QED
  BY <1>1, <1>2, <1>3, <1>4 DEF IInv

USE DEF NoLocals, Return, Leave, cc, locals, vars, Status, Flags, Cache

LEMMA NextInv == IInv /\ [Next]_vars => IInv'
<1> SUFFICES ASSUME IInv, [Next]_vars PROVE IInv'
  OBVIOUS
<1> USE BlockAssumption DEF IInv, TypeOK, CacheInv, MemoryInv, StatusInv
<1>1. CASE UNCHANGED vars
  BY <1>1
<1>2. CASE jbd2_open_handle
  BY <1>2 DEF jbd2_open_handle
<1>3. CASE HandleNotAllocated
  BY <1>3 DEF HandleNotAllocated
<1>4. CASE CcInitializeCacheMap
  BY <1>4 DEF CcInitializeCacheMap
<1>5. CASE CcInitializeCacheMap_raises
  BY <1>5 DEF CcInitializeCacheMap_raises
<1>6. CASE CcPinRead
  BY <1>6 DEF CcPinRead
<1>7. CASE CcPinRead_fails
  BY <1>7 DEF CcPinRead_fails
<1>8. CASE CcPinRead_raises
  BY <1>8 DEF CcPinRead_raises
<1>9. CASE VerifySuperblock
  BY <1>9 DEF VerifySuperblock
<1>10. CASE SuperblockNotAllocated
  BY <1>10 DEF SuperblockNotAllocated
<1>11. CASE InitHandle
  BY <1>11 DEF InitHandle
<1>12. CASE CcUnpinData
  BY <1>12 DEF CcUnpinData
<1>13. CASE Release
  BY <1>13 DEF Release
<1>14. CASE jbd2_cache_sync_uninit_map
  BY <1>14 DEF jbd2_cache_sync_uninit_map
<1>15. CASE CacheMapTakenDown
  BY <1>15 DEF CacheMapTakenDown
<1>16. CASE KeWaitForSingleObject
  BY <1>16 DEF KeWaitForSingleObject
<1> QED
  BY <1>1, <1>2, <1>3, <1>4, <1>5, <1>6, <1>7, <1>8, <1>9, <1>10, <1>11, <1>12,
     <1>13, <1>14, <1>15, <1>16 DEF Next, Step

THEOREM HandleInvariance == Spec => []IInv
  BY InitInv, NextInv, PTL DEF Spec

\* The type invariant.
THEOREM HandleTypes == Spec => []TypeOK
<1>1. IInv => TypeOK
  BY DEF IInv
<1> QED
  BY <1>1, HandleInvariance, PTL

\* Between calls of jbd2_open_handle() no buffer is pinned, no lookaside list is
\* initialised and the file has no cache map, whichever step failed or raised.
THEOREM NothingLeft == Spec => []NothingLeftBehind
<1>1. IInv => NothingLeftBehind
  BY DEF IInv, CacheInv, MemoryInv, NothingLeftBehind
<1> QED
  BY <1>1, HandleInvariance, PTL

\* No lookaside list is in memory that was freed or lost.
THEOREM NoListInFreedMemory == Spec => []ListsInLiveMemory
<1>1. IInv => ListsInLiveMemory
  BY DEF IInv, MemoryInv, ListsInLiveMemory
<1> QED
  BY <1>1, HandleInvariance, PTL

\* Memory is lost only when CcInitializeCacheMap() raises an exception.
THEOREM LossOnlyOnRaise == Spec => LosesOnlyOnRaise
<1>1. IInv /\ [Next]_vars => [Lost' \subseteq Lost \/ CcInitializeCacheMap_raises]_vars
  <2> SUFFICES ASSUME IInv, Next, ~ CcInitializeCacheMap_raises
               PROVE  Lost' \subseteq Lost
    OBVIOUS
  <2> USE BlockAssumption DEF IInv, TypeOK, CacheInv, MemoryInv, StatusInv, Lost
  <2>1. CASE jbd2_open_handle
    BY <2>1 DEF jbd2_open_handle
  <2>2. CASE InitHandle
    BY <2>2 DEF InitHandle
  <2>3. CASE Release
    BY <2>3 DEF Release
  <2>4. CASE KeWaitForSingleObject
    BY <2>4 DEF KeWaitForSingleObject
  <2>5. CASE CcPinRead \/ CcPinRead_fails \/ CcPinRead_raises
    BY <2>5 DEF CcPinRead, CcPinRead_fails, CcPinRead_raises
  <2>6. CASE HandleNotAllocated \/ CcInitializeCacheMap \/ CacheMapTakenDown
    BY <2>6 DEF HandleNotAllocated, CcInitializeCacheMap, CacheMapTakenDown
  <2>7. CASE VerifySuperblock \/ SuperblockNotAllocated
    BY <2>7 DEF VerifySuperblock, SuperblockNotAllocated
  <2>8. CASE CcUnpinData \/ jbd2_cache_sync_uninit_map
    BY <2>8 DEF CcUnpinData, jbd2_cache_sync_uninit_map
  <2> QED
    BY <2>1, <2>2, <2>3, <2>4, <2>5, <2>6, <2>7, <2>8 DEF Next, Step
<1> QED
  BY <1>1, HandleInvariance, PTL DEF Spec, LosesOnlyOnRaise

=============================================================================
