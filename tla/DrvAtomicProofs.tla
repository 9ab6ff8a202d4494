-------------------------- MODULE DrvAtomicProofs --------------------------
(***************************************************************************)
(* drv_atomic.h implements AtomicCounter, for any number of threads, any   *)
(* operands and any width of LONG.                                         *)
(***************************************************************************)
EXTENDS DrvAtomic, TLAPS

\* A sum or difference of two LONGs wraps to a LONG.
LEMMA WrapType ==
    ASSUME NEW a \in Long, NEW b \in Long
    PROVE  Wrap(a + b) \in Long /\ Wrap(a - b) \in Long
  BY AtomicAssumption DEF Wrap, Long, LongMin

\* Subtracting is adding the negated operand, also when the operand is the
\* smallest LONG, which has no negative.
LEMMA SubIsAddOfNegative ==
    ASSUME NEW a \in Long, NEW b \in Long
    PROVE  /\ Wrap(-1 * b) \in Long
           /\ Wrap(a + Wrap(-1 * b)) = Wrap(a - b)
  BY AtomicAssumption DEF Wrap, Long, LongMin

LEMMA SmallLongs == 0 \in Long /\ 1 \in Long /\ -1 \in Long
  BY AtomicAssumption DEF Long, LongMin

\* The type invariant of the counter and of the locals of the loop.
THEOREM CounterTypes == Spec => []TypeOK
<1>1. Init => TypeOK
  BY AtomicAssumption, SmallLongs DEF Init, drv_atomic_init, TypeOK
<1>2. TypeOK /\ [Next]_vars => TypeOK'
  <2> SUFFICES ASSUME TypeOK, [Next]_vars PROVE TypeOK'
    OBVIOUS
  <2>1. CASE UNCHANGED vars
    BY <2>1 DEF TypeOK, vars
  <2>2. ASSUME NEW t \in Thread, NEW n \in Amount, OneInstruction(t, n)
        PROVE  TypeOK'
    <3>1. n \in Long
      BY AtomicAssumption
    <3>2. counter' \in Long
      BY <2>2, <3>1, WrapType, SubIsAddOfNegative, SmallLongs, SMTT(30)
      DEF OneInstruction, InterlockedAdd, TypeOK, drv_atomic_read,
          drv_atomic_set, drv_atomic_add, drv_atomic_sub, drv_atomic_inc,
          drv_atomic_dec, drv_atomic_dec_and_test, drv_atomic_inc_and_test,
          drv_atomic_add_negative
    <3> QED
      BY <2>2, <3>2 DEF OneInstruction, TypeOK
  <2>3. ASSUME NEW t \in Thread, NEW n \in Amount, drv_atomic_sub_and_test(t, n)
        PROVE  TypeOK'
    BY <2>3, AtomicAssumption DEF drv_atomic_sub_and_test, TypeOK
  <2>4. ASSUME NEW t \in Thread, ReadCounter(t) PROVE TypeOK'
    BY <2>4 DEF ReadCounter, TypeOK
  <2>5. ASSUME NEW t \in Thread, CompareExchange(t) PROVE TypeOK'
    BY <2>5, WrapType, SmallLongs DEF CompareExchange, TypeOK
  <2> QED
    BY <2>1, <2>2, <2>3, <2>4, <2>5 DEF Next, Loop
<1> QED
  BY <1>1, <1>2, PTL DEF Spec

\* The two modules wrap, record and test in the same way.
LEMMA SameArithmetic ==
    /\ \A x : Abstract!Wrap(x) = Wrap(x)
    /\ \A t, op, a, r : Abstract!Call(t, op, a, r) = Call(t, op, a, r)
    /\ \A b : Abstract!Truth(b) = Truth(b)
  BY DEF Abstract!Wrap, Abstract!LongMin, LongMin, Wrap, Abstract!Call, Call,
         Abstract!Truth, Truth

\* One instruction is one step of the abstract counter.
LEMMA InstructionStep ==
    ASSUME TypeOK, NEW t \in Thread, NEW n \in Amount, OneInstruction(t, n)
    PROVE  Abstract!Next
<1>1. counter \in Long /\ n \in Long
  BY AtomicAssumption DEF TypeOK
<1> SUFFICES \E op \in Abstract!Operations : Abstract!Operate(t, op, n)
  BY DEF Abstract!Next
<1> USE SameArithmetic
    DEF Abstract!Operations, Abstract!Operate, Abstract!NewValue,
        Abstract!Result, Return, InterlockedAdd
<1>2. CASE drv_atomic_read(t, n)
  <2>1. Abstract!Operate(t, "read", n)
    BY <1>2 DEF drv_atomic_read
  <2> QED
    BY <2>1
<1>3. CASE drv_atomic_set(t, n)
  <2>1. Abstract!Operate(t, "set", n)
    BY <1>3 DEF drv_atomic_set
  <2> QED
    BY <2>1
<1>4. CASE drv_atomic_add(t, n)
  <2>1. Abstract!Operate(t, "add", n)
    BY <1>4 DEF drv_atomic_add
  <2> QED
    BY <2>1
<1>5. CASE drv_atomic_sub(t, n)
  <2>1. counter' = Wrap(counter - n)
    BY <1>1, <1>5, SubIsAddOfNegative DEF drv_atomic_sub
  <2>2. Abstract!Operate(t, "sub", n)
    BY <1>5, <2>1 DEF drv_atomic_sub
  <2> QED
    BY <2>2
<1>6. CASE drv_atomic_inc(t, n)
  <2>1. Abstract!Operate(t, "inc", n)
    BY <1>6 DEF drv_atomic_inc
  <2> QED
    BY <2>1
<1>7. CASE drv_atomic_dec(t, n)
  <2>1. counter + (-1) = counter - 1
    BY <1>1 DEF Long, LongMin
  <2>2. Abstract!Operate(t, "dec", n)
    BY <1>7, <2>1 DEF drv_atomic_dec
  <2> QED
    BY <2>2
<1>8. CASE drv_atomic_dec_and_test(t, n)
  <2>1. counter + (-1) = counter - 1
    BY <1>1 DEF Long, LongMin
  <2>2. Abstract!Operate(t, "dec_and_test", n)
    BY <1>8, <2>1 DEF drv_atomic_dec_and_test
  <2> QED
    BY <2>2
<1>9. CASE drv_atomic_inc_and_test(t, n)
  <2>1. Abstract!Operate(t, "inc_and_test", n)
    BY <1>9 DEF drv_atomic_inc_and_test
  <2> QED
    BY <2>1
<1>10. CASE drv_atomic_add_negative(t, n)
  <2>1. Abstract!Operate(t, "add_negative", n)
    BY <1>10 DEF drv_atomic_add_negative
  <2> QED
    BY <2>1
<1> QED
  BY <1>2, <1>3, <1>4, <1>5, <1>6, <1>7, <1>8, <1>9, <1>10 DEF OneInstruction

\* The operand of a call in the loop is one that callers use.
ArgInv == \A t \in Thread : pc[t] # "idle" => i[t] \in Amount

LEMMA ArgInvariance == Spec => []ArgInv
<1>1. Init => ArgInv
  BY DEF Init, ArgInv
<1>2. TypeOK /\ ArgInv /\ [Next]_vars => ArgInv'
  <2> SUFFICES ASSUME TypeOK, ArgInv, [Next]_vars PROVE ArgInv'
    OBVIOUS
  <2>1. CASE UNCHANGED vars
    BY <2>1 DEF ArgInv, vars
  <2>2. ASSUME NEW t \in Thread, NEW n \in Amount, OneInstruction(t, n)
        PROVE  ArgInv'
    BY <2>2 DEF OneInstruction, ArgInv
  <2>3. ASSUME NEW t \in Thread, NEW n \in Amount, drv_atomic_sub_and_test(t, n)
        PROVE  ArgInv'
    BY <2>3 DEF drv_atomic_sub_and_test, ArgInv, TypeOK
  <2>4. ASSUME NEW t \in Thread, ReadCounter(t) PROVE ArgInv'
    BY <2>4 DEF ReadCounter, ArgInv, TypeOK
  <2>5. ASSUME NEW t \in Thread, CompareExchange(t) PROVE ArgInv'
    BY <2>5 DEF CompareExchange, ArgInv, TypeOK
  <2> QED
    BY <2>1, <2>2, <2>3, <2>4, <2>5 DEF Next, Loop
<1> QED
  BY <1>1, <1>2, CounterTypes, PTL DEF Spec

\* A compare-exchange that finds the counter as it was read is one subtraction
\* of the abstract counter; one that does not is no step of it.
LEMMA ExchangeStep ==
    ASSUME TypeOK, ArgInv, NEW t \in Thread, CompareExchange(t)
    PROVE  Abstract!Next \/ UNCHANGED <<counter, last>>
<1>1. CASE counter # seen[t]
  BY <1>1 DEF CompareExchange
<1>2. CASE counter = seen[t]
  <2>1. i[t] \in Amount
    BY DEF CompareExchange, ArgInv
  <2>2. Abstract!Operate(t, "sub_and_test", i[t])
    BY <1>2, SameArithmetic
    DEF CompareExchange, Return, Abstract!Operate, Abstract!NewValue,
        Abstract!Result
  <2> QED
    BY <2>1, <2>2 DEF Abstract!Next, Abstract!Operations
<1> QED
  BY <1>1, <1>2

\* Every operation of drv_atomic.h takes effect at once, the loop of
\* drv_atomic_sub_and_test() included: it implements the atomic counter.
THEOREM Linearizable == Spec => ImplementsCounter
<1>1. Init => Abstract!Init
  BY DEF Init, drv_atomic_init, Abstract!Init
<1>2. TypeOK /\ ArgInv /\ [Next]_vars => [Abstract!Next]_<<counter, last>>
  <2> SUFFICES ASSUME TypeOK, ArgInv, [Next]_vars
               PROVE  Abstract!Next \/ UNCHANGED <<counter, last>>
    OBVIOUS
  <2>1. CASE UNCHANGED vars
    BY <2>1 DEF vars
  <2>2. ASSUME NEW t \in Thread, NEW n \in Amount, OneInstruction(t, n)
        PROVE  Abstract!Next
    BY <2>2, InstructionStep
  <2>3. ASSUME NEW t \in Thread, NEW n \in Amount, drv_atomic_sub_and_test(t, n)
        PROVE  UNCHANGED <<counter, last>>
    BY <2>3 DEF drv_atomic_sub_and_test
  <2>4. ASSUME NEW t \in Thread, ReadCounter(t)
        PROVE  UNCHANGED <<counter, last>>
    BY <2>4 DEF ReadCounter
  <2>5. ASSUME NEW t \in Thread, CompareExchange(t)
        PROVE  Abstract!Next \/ UNCHANGED <<counter, last>>
    BY <2>5, ExchangeStep
  <2> QED
    BY <2>1, <2>2, <2>3, <2>4, <2>5 DEF Next, Loop
<1> QED
  BY <1>1, <1>2, CounterTypes, ArgInvariance, PTL
  DEF Spec, ImplementsCounter, Abstract!Spec

=============================================================================
