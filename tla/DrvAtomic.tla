----------------------------- MODULE DrvAtomic -----------------------------
(***************************************************************************)
(* drv_atomic.h: threads that operate on one drv_atomic_t.                 *)
(*                                                                         *)
(* All operations but one are a single interlocked instruction.  The       *)
(* exception, drv_atomic_sub_and_test(), reads the counter, computes the   *)
(* difference and stores it with a compare-exchange, again and again until *)
(* nobody has changed the counter in between.                              *)
(***************************************************************************)
EXTENDS Integers

CONSTANTS
    Thread,
    LongMax,    \* the largest LONG: 2^31 - 1 in the code
    Amount,     \* the operands callers use
    NoCall      \* no call has returned yet

LongMin == - LongMax - 1
Long == LongMin .. LongMax

ASSUME AtomicAssumption ==
    /\ LongMax \in Nat \ {0}
    /\ Amount \subseteq Long
    /\ 1 \in Amount

VARIABLES
    counter,    \* v->counter
    pc,         \* where each thread is in drv_atomic_sub_and_test()
    i,          \* the operand of that call, 0 when there is none
    seen,       \* its local variable counter: the value it has read, 0 before
    last        \* the call that returned last, and what it returned

vars == <<counter, pc, i, seen, last>>

\* Mutant: a counter that does not wrap.
Wrap_none(x) == x

\* The sum or the difference of two LONGs, which wraps around.
Wrap(x) == IF x > LongMax THEN x - 2 * (LongMax + 1)
           ELSE IF x < LongMin THEN x + 2 * (LongMax + 1)
           ELSE x

Truth(b) == IF b THEN 1 ELSE 0

Call(t, op, arg, result) ==
    [thread |-> t, op |-> op, arg |-> arg, result |-> result]

Return(t, op, arg, result) == last' = Call(t, op, arg, result)

\* drv_atomic_init() comes before the counter is shared.
drv_atomic_init ==
    counter \in Amount

Init ==
    /\ drv_atomic_init
    /\ pc = [t \in Thread |-> "idle"]
    /\ i = [t \in Thread |-> 0]
    /\ seen = [t \in Thread |-> 0]
    /\ last = NoCall

-----------------------------------------------------------------------------
(* The operations of one instruction.                                      *)

\* InterlockedExchangeAdd, InterlockedIncrement and InterlockedDecrement.
InterlockedAdd(n) == counter' = Wrap(counter + n)

drv_atomic_read(t, n) ==
    /\ Return(t, "read", n, counter)
    /\ UNCHANGED counter

drv_atomic_set(t, n) ==
    /\ counter' = n
    /\ Return(t, "set", n, 0)

drv_atomic_add(t, n) ==
    /\ InterlockedAdd(n)
    /\ Return(t, "add", n, 0)

drv_atomic_sub(t, n) ==
    /\ InterlockedAdd(Wrap(-1 * n))
    /\ Return(t, "sub", n, 0)

drv_atomic_inc(t, n) ==
    /\ InterlockedAdd(1)
    /\ Return(t, "inc", n, 0)

drv_atomic_dec(t, n) ==
    /\ InterlockedAdd(-1)
    /\ Return(t, "dec", n, 0)

drv_atomic_dec_and_test(t, n) ==
    /\ InterlockedAdd(-1)
    /\ Return(t, "dec_and_test", n, Truth(Wrap(counter - 1) = 0))

drv_atomic_inc_and_test(t, n) ==
    /\ InterlockedAdd(1)
    /\ Return(t, "inc_and_test", n, Truth(Wrap(counter + 1) = 0))

\* Returns the sum, not whether it is negative.
drv_atomic_add_negative(t, n) ==
    /\ InterlockedAdd(n)
    /\ Return(t, "add_negative", n, Wrap(counter + n))

-----------------------------------------------------------------------------
(* drv_atomic_sub_and_test().                                              *)

drv_atomic_sub_and_test(t, n) ==
    /\ pc' = [pc EXCEPT ![t] = "read"]
    /\ i' = [i EXCEPT ![t] = n]
    /\ UNCHANGED <<counter, seen, last>>

ReadCounter(t) ==
    /\ pc[t] = "read"
    /\ seen' = [seen EXCEPT ![t] = counter]
    /\ pc' = [pc EXCEPT ![t] = "exchange"]
    /\ UNCHANGED <<counter, i, last>>

\* Mutant: the result is stored whatever the counter has become.
CompareExchange_blind(t) ==
    LET result == Wrap(seen[t] - i[t])
    IN  /\ pc[t] = "exchange"
        /\ counter' = result
        /\ pc' = [pc EXCEPT ![t] = "idle"]
        /\ Return(t, "sub_and_test", i[t], Truth(result = 0))
        /\ i' = [i EXCEPT ![t] = 0]
        /\ seen' = [seen EXCEPT ![t] = 0]

\* Mutant: the outcome is compared with the result, not with the old value.
CompareExchange_result(t) ==
    LET result == Wrap(seen[t] - i[t])
    IN  /\ pc[t] = "exchange"
        /\ counter' = IF counter = seen[t] THEN result ELSE counter
        /\ IF counter = result
           THEN /\ pc' = [pc EXCEPT ![t] = "idle"]
                /\ Return(t, "sub_and_test", i[t], Truth(result = 0))
           ELSE /\ pc' = [pc EXCEPT ![t] = "read"]
                /\ UNCHANGED last
        /\ UNCHANGED i
        /\ seen' = [seen EXCEPT ![t] = 0]

CompareExchange(t) ==
    LET result == Wrap(seen[t] - i[t])
    IN  /\ pc[t] = "exchange"
        /\ \/ /\ counter = seen[t]
              /\ counter' = result
              /\ pc' = [pc EXCEPT ![t] = "idle"]
              /\ Return(t, "sub_and_test", i[t], Truth(result = 0))
              /\ i' = [i EXCEPT ![t] = 0]
           \/ /\ counter # seen[t]
              /\ pc' = [pc EXCEPT ![t] = "read"]
              /\ UNCHANGED <<counter, i, last>>
        /\ seen' = [seen EXCEPT ![t] = 0]

-----------------------------------------------------------------------------
OneInstruction(t, n) ==
    /\ \/ drv_atomic_read(t, n)
       \/ drv_atomic_set(t, n)
       \/ drv_atomic_add(t, n)
       \/ drv_atomic_sub(t, n)
       \/ drv_atomic_inc(t, n)
       \/ drv_atomic_dec(t, n)
       \/ drv_atomic_dec_and_test(t, n)
       \/ drv_atomic_inc_and_test(t, n)
       \/ drv_atomic_add_negative(t, n)
    /\ UNCHANGED <<pc, i, seen>>

\* The loop that a thread is in.
Loop(t) == ReadCounter(t) \/ CompareExchange(t)

Next ==
    \E t \in Thread :
       \/ /\ pc[t] = "idle"
          /\ \E n \in Amount : OneInstruction(t, n) \/ drv_atomic_sub_and_test(t, n)
       \/ Loop(t)

Spec == Init /\ [][Next]_vars

\* A thread that is in the loop keeps being scheduled.
FairSpec == Spec /\ \A t \in Thread : WF_vars(Loop(t))

-----------------------------------------------------------------------------
(* Properties.                                                             *)

\* Type invariant of the counter and of the loop's locals.
TypeOK ==
    /\ counter \in Long
    /\ pc \in [Thread -> {"idle", "read", "exchange"}]
    /\ i \in [Thread -> Long]
    /\ seen \in [Thread -> Long]

Abstract == INSTANCE AtomicCounter

\* Every operation of drv_atomic.h takes effect at once, between its call and
\* its return: the loop of drv_atomic_sub_and_test() loses no update of another
\* thread, also not one that changes the counter back, and its result is about
\* the value that this call left.
ImplementsCounter == Abstract!Spec

\* The loop of drv_atomic_sub_and_test() is lock-free: while threads go round
\* in it, calls keep returning.  (A single thread may go round for ever, as long
\* as others get their operations in between.)
LockFree ==
    \/ <>[](\A t \in Thread : pc[t] = "idle")
    \/ []<><<pc' = pc \/ \E t \in Thread : pc[t] # "idle" /\ pc'[t] = "idle">>_vars

=============================================================================
