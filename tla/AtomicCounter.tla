--------------------------- MODULE AtomicCounter ---------------------------
(***************************************************************************)
(* A counter of type LONG on which every operation takes effect at once,   *)
(* on the value it finds.  Results are those of the code of drv_atomic.h;  *)
(* its comments agree, except the one on drv_atomic_add_negative(), which  *)
(* returns the sum, and not whether the sum is negative.                   *)
(***************************************************************************)
EXTENDS Integers

CONSTANTS
    Thread,
    LongMax,    \* the largest LONG: 2^31 - 1 in the code
    Amount,     \* the operands callers use
    NoCall      \* no call has returned yet

VARIABLES
    counter,
    last        \* the call that returned last, and what it returned

LongMin == - LongMax - 1
Long == LongMin .. LongMax

\* The sum or the difference of two LONGs, which wraps around.
Wrap(x) == IF x > LongMax THEN x - 2 * (LongMax + 1)
           ELSE IF x < LongMin THEN x + 2 * (LongMax + 1)
           ELSE x

Truth(b) == IF b THEN 1 ELSE 0

Call(t, op, arg, result) ==
    [thread |-> t, op |-> op, arg |-> arg, result |-> result]

Init == counter \in Amount /\ last = NoCall

-----------------------------------------------------------------------------
\* The value that an operation leaves in place of v.
NewValue(op, v, i) ==
    CASE op = "read"                      -> v
      [] op = "set"                       -> i
      [] op \in {"add", "add_negative"}   -> Wrap(v + i)
      [] op \in {"sub", "sub_and_test"}   -> Wrap(v - i)
      [] op \in {"inc", "inc_and_test"}   -> Wrap(v + 1)
      [] op \in {"dec", "dec_and_test"}   -> Wrap(v - 1)

\* What it returns, v being the new value.  A test is of the value that this
\* very operation left, not of one that another thread has made of it since.
Result(op, v) ==
    CASE op \in {"read", "add_negative"}                         -> v
      [] op \in {"sub_and_test", "inc_and_test", "dec_and_test"} -> Truth(v = 0)
      [] OTHER                                                   -> 0

Operations ==
    {"read", "set", "add", "sub", "inc", "dec",
     "sub_and_test", "inc_and_test", "dec_and_test", "add_negative"}

Operate(t, op, i) ==
    LET v == NewValue(op, counter, i)
    IN  /\ counter' = v
        /\ last' = Call(t, op, i, Result(op, v))

Next == \E t \in Thread, op \in Operations, i \in Amount : Operate(t, op, i)

Spec == Init /\ [][Next]_<<counter, last>>

=============================================================================
