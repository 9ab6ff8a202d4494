----------------------------- MODULE Jbd2Handle -----------------------------
(***************************************************************************)
(* jbd2_open_handle() of jbd2.c: a caller that opens a journal file, again *)
(* when it fails, the pool it takes memory from, and the cache manager,    *)
(* which takes the cache map of the file down in its own time.             *)
(*                                                                         *)
(* Memory is a set of pool blocks.  The lookaside lists are inside the     *)
(* handle, and the system knows them by their addresses.  The superblock   *)
(* is what the checks make of it; it is read at block log_size, which is   *)
(* past the end of the file, and so may be anything.                       *)
(***************************************************************************)
EXTENDS Naturals

CONSTANTS
    Block,      \* blocks of the non-paged pool
    NoBlock     \* NULL

ASSUME BlockAssumption == NoBlock \notin Block

VARIABLES
    pc,
    pool,       \* the blocks that are allocated
    lists,      \* the initialised lookaside lists, each with the handle it is in
    map,        \* the cache map of the log file: "none", "ready" or "closing"
    pins,       \* how many of its buffers are pinned
    event,      \* uninit_complete_event is signalled
    handle, jh_sb, bcb, inited, sb, status,      \* locals; inited: the flags
    ret         \* what the last call returned, or "raised"

cc     == <<map, pins, event>>
locals == <<handle, jh_sb, bcb, inited, sb, status>>
vars   == <<pc, pool, lists, cc, locals, ret>>

Check == {"verify", "blocksize", "maxlen", "incompat", "ro_compat"}
Cache == {"jh_lbcb_cache", "jh_revoke_cache"}
Flags == Cache \cup {"lock"}
Status ==
    {"STATUS_SUCCESS", "STATUS_UNSUCCESSFUL", "STATUS_INSUFFICIENT_RESOURCES",
     "STATUS_DISK_CORRUPT_ERROR", "STATUS_UNRECOGNIZED_VOLUME", "raised"}

NoLocals ==
    /\ handle' = NoBlock /\ jh_sb' = NoBlock /\ bcb' = FALSE
    /\ inited' = {} /\ sb' = {} /\ status' = "STATUS_UNSUCCESSFUL"

Init ==
    /\ pc = "idle" /\ pool = {} /\ lists = {}
    /\ map = "none" /\ pins = 0 /\ event = FALSE
    /\ handle = NoBlock /\ jh_sb = NoBlock /\ bcb = FALSE
    /\ inited = {} /\ sb = {} /\ status = "STATUS_UNSUCCESSFUL"
    /\ ret = "STATUS_SUCCESS"

Return(r) == pc' = "idle" /\ ret' = r /\ NoLocals

-----------------------------------------------------------------------------
(* Up to the __try.                                                        *)

jbd2_open_handle ==
    /\ pc = "idle"
    /\ \E b \in Block \ pool : handle' = b /\ pool' = pool \cup {b}
    /\ pc' = "cache"
    /\ UNCHANGED <<lists, cc, jh_sb, bcb, inited, sb, status, ret>>

\* An allocation may fail at any time.
HandleNotAllocated ==
    /\ pc = "idle"
    /\ Return("STATUS_INSUFFICIENT_RESOURCES")
    /\ UNCHANGED <<pool, lists, cc>>

CcInitializeCacheMap ==
    /\ pc = "cache"
    /\ map' = "ready"
    /\ pc' = "pin"
    /\ UNCHANGED <<pool, lists, pins, event, locals, ret>>

\* It raises an exception when it finds no memory; nobody frees the handle.
CcInitializeCacheMap_raises ==
    /\ pc = "cache"
    /\ Return("raised")
    /\ UNCHANGED <<pool, lists, cc>>

-----------------------------------------------------------------------------
(* The __try block.  Leave(s) is status = s and __leave.                   *)

Leave(s) == pc' = "finally" /\ status' = s

\* sb is the set of the checks that the superblock passes.
CcPinRead ==
    /\ pc = "pin"
    /\ pins' = pins + 1 /\ bcb' = TRUE
    /\ sb' \in SUBSET Check
    /\ pc' = "verify"
    /\ UNCHANGED <<pool, lists, map, event, handle, jh_sb, inited, status, ret>>

CcPinRead_fails ==
    /\ pc = "pin"
    /\ Leave("STATUS_UNSUCCESSFUL")
    /\ UNCHANGED <<pool, lists, cc, handle, jh_sb, bcb, inited, sb, ret>>

\* An exception unwinds through the __finally and reaches the caller; status
\* is no success then either.
CcPinRead_raises ==
    /\ pc = "pin"
    /\ Leave("raised")
    /\ UNCHANGED <<pool, lists, cc, handle, jh_sb, bcb, inited, sb, ret>>

jbd2_verify_superblock == {"verify", "blocksize", "maxlen"} \subseteq sb

\* As the code calls it: it leaves when the features ARE supported.
jbd2_features_supported == {"incompat", "ro_compat"} \cap sb # {}

VerifySuperblock ==
    /\ pc = "verify"
    /\ CASE ~ jbd2_verify_superblock -> Leave("STATUS_DISK_CORRUPT_ERROR")
         [] jbd2_verify_superblock /\ jbd2_features_supported ->
              Leave("STATUS_UNRECOGNIZED_VOLUME")
         [] OTHER -> pc' = "alloc_sb" /\ UNCHANGED status
    /\ UNCHANGED <<pool, lists, cc, handle, jh_sb, bcb, inited, sb, ret>>

SuperblockNotAllocated ==
    /\ pc = "alloc_sb"
    /\ Leave("STATUS_INSUFFICIENT_RESOURCES")
    /\ UNCHANGED <<pool, lists, cc, handle, jh_sb, bcb, inited, sb, ret>>

\* Mutant: the flag of the second list is not set.
InitHandle_oneFlag ==
    /\ pc = "alloc_sb"
    /\ \E b \in Block \ pool : jh_sb' = b /\ pool' = pool \cup {b}
    /\ lists' = lists \cup {<<c, handle>> : c \in Cache}
    /\ inited' = Flags \ {"jh_revoke_cache"}
    /\ pc' = "finally"
    /\ UNCHANGED <<cc, handle, bcb, sb, status, ret>>

\* The copy of the superblock, the lock, the fields and the lists; status is
\* left as it is.
InitHandle ==
    /\ pc = "alloc_sb"
    /\ \E b \in Block \ pool : jh_sb' = b /\ pool' = pool \cup {b}
    /\ lists' = lists \cup {<<c, handle>> : c \in Cache}
    /\ inited' = Flags
    /\ pc' = "finally"
    /\ UNCHANGED <<cc, handle, bcb, sb, status, ret>>

-----------------------------------------------------------------------------
(* The __finally block.                                                    *)

\* Mutant: also unpins what was not pinned.
CcUnpinData_always ==
    /\ pc = "finally"
    /\ pins' = pins - 1
    /\ pc' = "release"
    /\ UNCHANGED <<pool, lists, map, event, locals, ret>>

\* Mutant: the buffer stays pinned until the handle is closed.
CcUnpinData_later ==
    /\ pc = "finally"
    /\ pc' = "release"
    /\ UNCHANGED <<pool, lists, cc, locals, ret>>

CcUnpinData ==
    /\ pc = "finally"
    /\ pins' = IF bcb THEN pins - 1 ELSE pins
    /\ pc' = "release"
    /\ UNCHANGED <<pool, lists, map, event, locals, ret>>

\* Mutant: the copy of the superblock is forgotten.
Release_keepsSuperblock ==
    /\ pc = "release"
    /\ lists' = lists \ {<<c, handle>> : c \in Cache \cap inited}
    /\ pc' = "uninit"
    /\ UNCHANGED <<pool, cc, locals, ret>>

\* What the flags say was initialised is undone; status is never a success.
Release ==
    /\ pc = "release"
    /\ IF status = "STATUS_SUCCESS"
       THEN pc' = "idle" /\ UNCHANGED <<pool, lists>>
       ELSE /\ pool' = pool \ {jh_sb}
            /\ lists' = lists \ {<<c, handle>> : c \in Cache \cap inited}
            /\ pc' = "uninit"
    /\ UNCHANGED <<cc, locals, ret>>

jbd2_cache_sync_uninit_map ==
    /\ pc = "uninit"
    /\ map' = "closing" /\ event' = FALSE
    /\ pc' = "wait"
    /\ UNCHANGED <<pool, lists, pins, locals, ret>>

\* The cache manager takes the map down and signals the event, once nobody has a
\* buffer of the file pinned.
CacheMapTakenDown ==
    /\ map = "closing" /\ pins = 0
    /\ map' = "none" /\ event' = TRUE
    /\ UNCHANGED <<pc, pool, lists, pins, locals, ret>>

\* Mutant: nobody waits for the event.
KeWaitForSingleObject_not ==
    /\ pc = "wait"
    /\ pool' = pool \ {handle}
    /\ event' = FALSE
    /\ Return(status)
    /\ UNCHANGED <<lists, map, pins>>

\* The wait ends, and the handle is freed.
KeWaitForSingleObject ==
    /\ pc = "wait" /\ event
    /\ event' = FALSE
    /\ pool' = pool \ {handle}
    /\ Return(status)
    /\ UNCHANGED <<lists, map, pins>>

-----------------------------------------------------------------------------
Step ==
    \/ CcInitializeCacheMap \/ CcInitializeCacheMap_raises
    \/ CcPinRead \/ CcPinRead_fails \/ CcPinRead_raises
    \/ VerifySuperblock \/ SuperblockNotAllocated \/ InitHandle
    \/ CcUnpinData \/ Release
    \/ jbd2_cache_sync_uninit_map \/ KeWaitForSingleObject

Next ==
    \/ jbd2_open_handle \/ HandleNotAllocated
    \/ Step
    \/ CacheMapTakenDown

Spec == Init /\ [][Next]_vars

\* The thread in the call keeps being scheduled, and the cache manager gets
\* round to a file of which nothing is pinned.
FairSpec == Spec /\ WF_vars(Step) /\ WF_vars(CacheMapTakenDown)

-----------------------------------------------------------------------------
(* Properties.                                                             *)

\* Type invariant.
TypeOK ==
    /\ pc \in {"idle", "cache", "pin", "verify", "alloc_sb", "finally",
               "release", "uninit", "wait"}
    /\ pool \subseteq Block
    /\ lists \subseteq Cache \X Block
    /\ map \in {"none", "ready", "closing"}
    /\ pins \in 0 .. 1
    /\ event \in BOOLEAN
    /\ handle \in Block \cup {NoBlock}
    /\ jh_sb \in Block \cup {NoBlock}
    /\ bcb \in BOOLEAN
    /\ inited \subseteq Flags
    /\ sb \subseteq Check
    /\ status \in Status
    /\ ret \in Status

\* Between calls nothing that jbd2_open_handle() set up is left: no pinned
\* buffer, no lookaside list, no cache map, whichever step failed or raised.
\* The next open of the file thus never meets the cache map of the one before.
NothingLeftBehind ==
    pc = "idle" => pins = 0 /\ lists = {} /\ map = "none"

\* The system never has a lookaside list in memory that was freed or lost: the
\* lists of jbd2_open_handle() are deleted before their handle is freed.
ListsInLiveMemory ==
    \A l \in lists : l[2] = handle /\ handle \in pool

\* Blocks that are allocated and that no variable points to.
Lost == pool \ {handle, jh_sb}

\* jbd2_open_handle() loses memory in one case only, an exception of
\* CcInitializeCacheMap(), which is called before the __try.
LosesOnlyOnRaise ==
    [][Lost' \subseteq Lost \/ CcInitializeCacheMap_raises]_vars

\* Every jbd2_open_handle() returns: the buffer is unpinned before the thread
\* waits for the cache manager, which waits for the buffer to be unpinned.
OpenReturns == pc # "idle" ~> pc = "idle"

=============================================================================
