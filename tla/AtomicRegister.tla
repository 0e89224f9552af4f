---------------------------- MODULE AtomicRegister ----------------------------
(***************************************************************************)
(* What std::atomic<T> promises: each operation takes effect at one moment *)
(* between its call and its return, and returns the value of that moment.  *)
(***************************************************************************)
EXTENDS Naturals

CONSTANTS
  Users,      \* the threads
  Width,      \* the values are the numbers below it, and arithmetic wraps around
  Free        \* no call, no value

ASSUME WidthType == Width \in Nat \ {0} /\ \E k \in 0 .. Width : Width = 2 ^ k

Values == 0 .. Width - 1

Fetches == {"exchange", "fetch_add", "fetch_sub", "fetch_and", "fetch_or", "fetch_xor"}

\* The operators, as ++, += and =, are fetches that return the new value.
Operators == [name : Fetches, arg : Values, returns : {"new"}]

\* Loading, storing and setting a flag are special cases of these.
Operations == Operators \cup [name : Fetches, arg : Values, returns : {"old"}]
                \cup [name : {"compare_exchange"}, expected : Values, arg : Values]
                \cup [name : {"load"}]

ASSUME FreeIsNew == Free \notin Values \cup Operations \cup Users

\* The bits that are set in v, and the value with the bits B, if there is one.
BitsOf(v) == {k \in Values : (v \div 2 ^ k) % 2 = 1}
WithBits(B) == CHOOSE v \in Values : BitsOf(v) = B \/ \A w \in Values : BitsOf(w) # B

\* What an operation makes of the value v.
Applied(op, v) ==
  CASE op.name = "exchange" -> op.arg
    [] op.name = "fetch_add" -> (v + op.arg) % Width
    [] op.name = "fetch_sub" -> (v + Width - op.arg) % Width
    [] op.name = "fetch_and" -> WithBits(BitsOf(v) \cap BitsOf(op.arg))
    [] op.name = "fetch_or" -> WithBits(BitsOf(v) \cup BitsOf(op.arg))
    [] op.name = "fetch_xor" -> WithBits((BitsOf(v) \ BitsOf(op.arg)) \cup (BitsOf(op.arg) \ BitsOf(v)))
    [] op.name = "compare_exchange" -> IF v = op.expected THEN op.arg ELSE v
    [] op.name = "load" -> v

\* What it returns if it has found v.
Returned(op, v) == IF op.name \in Fetches /\ op.returns = "new" THEN Applied(op, v) ELSE v

VARIABLES
  m_value,
  call,    \* the operation that each thread has called
  seen     \* what the operation returns, if it has taken effect

registerVars == <<m_value, call, seen>>

RegisterInit == /\ m_value = 0
                /\ call = [t \in Users |-> Free]
                /\ seen = [t \in Users |-> Free]

Invoke(t, op) == /\ call[t] = Free /\ call' = [call EXCEPT ![t] = op]
                 /\ UNCHANGED <<m_value, seen>>

Effect(t) == /\ call[t] # Free /\ seen[t] = Free
             /\ m_value' = Applied(call[t], m_value)
             /\ seen' = [seen EXCEPT ![t] = Returned(call[t], m_value)]
             /\ UNCHANGED call

Respond(t) == /\ seen[t] # Free
              /\ call' = [call EXCEPT ![t] = Free]
              /\ seen' = [seen EXCEPT ![t] = Free]
              /\ UNCHANGED m_value

\* A thread calls any operation.
Called(t) == call'[t] \in Operations /\ Invoke(t, call'[t])

RegisterNext == \E t \in Users : Called(t) \/ Effect(t) \/ Respond(t)

RegisterSpec == RegisterInit /\ [][RegisterNext]_registerVars
=============================================================================
