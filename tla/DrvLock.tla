------------------------------ MODULE DrvLock ------------------------------
(***************************************************************************)
(* drv_lock.h: threads that use one drv_res_t, a lock for readers and      *)
(* writers, and one drv_mutex_t.                                           *)
(***************************************************************************)
EXTENDS Naturals

CONSTANTS
    Thread,
    NoThread,
    MaxHeld     \* how often a thread may have acquired the resource

VARIABLES
    resource,   \* ERESOURCE: its exclusive owner, if any, and how often each
                \* thread has acquired it
    mutex,      \* FAST_MUTEX: its owner, if any
    inside,     \* the access each thread has been granted, as it was asked for:
                \* "shared", "exclusive" or "none"
    status      \* what each thread's last acquisition returned

vars == <<resource, mutex, inside, status>>

drv_resource_init == [owner |-> NoThread, count |-> [t \in Thread |-> 0]]
drv_mutex_init    == NoThread

Init ==
    /\ resource = drv_resource_init
    /\ mutex = drv_mutex_init
    /\ inside = [t \in Thread |-> "none"]
    /\ status = [t \in Thread |-> "STATUS_SUCCESS"]

drv_resource_acquired_count(t) == resource.count[t]

-----------------------------------------------------------------------------
(* The resource.                                                           *)

CanShare(t) == resource.owner \in {t, NoThread}

\* ExAcquireResourceSharedLite(resource, wait), called to get the given access:
\* a thread that waits is granted it once no other thread is the exclusive owner.
ExAcquireResourceSharedLite(t, access) ==
    /\ CanShare(t) /\ resource.count[t] < MaxHeld
    /\ resource' = [resource EXCEPT !.count[t] = @ + 1]
    /\ inside' = [inside EXCEPT ![t] = IF @ = "exclusive" THEN @ ELSE access]
    /\ status' = [status EXCEPT ![t] = "STATUS_SUCCESS"]
    /\ UNCHANGED mutex

\* It is not granted, to a thread that does not wait.
ExAcquireResourceSharedLite_refused(t, wait) ==
    /\ ~ CanShare(t) /\ ~ wait
    /\ status' = [status EXCEPT ![t] = "STATUS_CANT_WAIT"]
    /\ UNCHANGED <<resource, mutex, inside>>

drv_resource_acquire_shared(t, wait) ==
    \/ ExAcquireResourceSharedLite(t, "shared")
    \/ ExAcquireResourceSharedLite_refused(t, wait)

\* It calls ExAcquireResourceSharedLite too.
drv_resource_acquire_exclusive(t, wait) ==
    \/ ExAcquireResourceSharedLite(t, "exclusive")
    \/ ExAcquireResourceSharedLite_refused(t, wait)

drv_resource_release(t) ==
    /\ drv_resource_acquired_count(t) > 0
    /\ resource' = [resource EXCEPT
                      !.count[t] = @ - 1,
                      !.owner = IF @ = t /\ resource.count[t] = 1
                                THEN NoThread ELSE @]
    /\ inside' = [inside EXCEPT ![t] = IF resource.count[t] = 1 THEN "none" ELSE @]
    /\ UNCHANGED <<mutex, status>>

\* ExConvertExclusiveToSharedLite, by a thread that was granted exclusive access.
drv_resource_acquire_downgrade(t) ==
    /\ inside[t] = "exclusive"
    /\ resource' = [resource EXCEPT !.owner = IF @ = t THEN NoThread ELSE @]
    /\ inside' = [inside EXCEPT ![t] = "shared"]
    /\ UNCHANGED <<mutex, status>>

-----------------------------------------------------------------------------
(* The mutex.                                                              *)

\* A thread that waits is granted the mutex once it is free.
drv_mutex_acquire(t, wait) ==
    /\ mutex # t
    /\ \/ /\ mutex = NoThread
          /\ mutex' = t
          /\ status' = [status EXCEPT ![t] = "STATUS_SUCCESS"]
       \/ /\ mutex # NoThread /\ ~ wait
          /\ status' = [status EXCEPT ![t] = "STATUS_CANT_WAIT"]
          /\ UNCHANGED mutex
    /\ UNCHANGED <<resource, inside>>

drv_mutex_release(t) ==
    /\ mutex = t
    /\ mutex' = NoThread
    /\ UNCHANGED <<resource, inside, status>>

-----------------------------------------------------------------------------
Next ==
    \E t \in Thread :
       \/ \E wait \in BOOLEAN :
             \/ drv_resource_acquire_shared(t, wait)
             \/ drv_resource_acquire_exclusive(t, wait)
             \/ drv_mutex_acquire(t, wait)
       \/ drv_resource_release(t)
       \/ drv_resource_acquire_downgrade(t)
       \/ drv_mutex_release(t)

Spec == Init /\ [][Next]_vars

\* "Acquire exclusive access to an resource": while a thread has the exclusive
\* access that drv_resource_acquire_exclusive() granted it, no other thread has
\* any access.
Exclusive ==
    \A t \in Thread : inside[t] = "exclusive" =>
       \A u \in Thread \ {t} : inside[u] = "none"

=============================================================================
