------------------------------ MODULE TimedWait ------------------------------
(***************************************************************************)
(* A thread that waits with a timeout: sleeping, and waiting for a token,  *)
(* a mutex or a signal (_sleep.hpp, _semaphore.cpp, _mutex.cpp,            *)
(* _thread.cpp).  The class turns the timeout into milliseconds and cuts   *)
(* it into pieces, as the kernel waits for a bounded number of ticks only, *)
(* and a piece of n ticks ends at the n-th tick that follows.              *)
(*                                                                         *)
(* Time is counted in units, the resolution of the caller's clock.         *)
(***************************************************************************)
EXTENDS Integers

CONSTANTS
  Unit,       \* the units of a millisecond, which is a tick of the kernel
  MaxPiece,   \* the longest wait of the kernel, 0xFFFE
  Durations,  \* the timeouts, in units
  MaxDelay,   \* bound: the units that a ready thread has to wait for the processor
  MaxWakeups  \* bound: how often a predicate is found false

ASSUME TimedWaitConstants ==
  {Unit, MaxPiece} \subseteq Nat \ {0} /\ Durations \subseteq Int /\ {MaxDelay, MaxWakeups} \subseteq Nat

VARIABLES
  waitOp,    \* the call, or "none"
  waitAt,    \* "call", "loop", "kernel", "got", "done"
  goal,      \* the units from the call to the end of the timeout
  elapsed,   \* the units since the call
  offset,    \* the units since the last tick
  ms,        \* what the loop still has to wait for, in milliseconds
  left,      \* the ticks to the end of the current wait of the kernel
  ready,     \* the token, mutex or signal is there
  success,   \* what the call returns
  looked,    \* history: when the kernel has looked for it last
  delay,     \* history: the units during which the thread was ready, but did not run
  wakeups    \* history: how often the predicate was found false

twVars == <<waitOp, waitAt, goal, elapsed, offset, ms, left, ready, success, looked, delay, wakeups>>

\* Semaphores, signals and the timed mutexes wait for a duration, ...
Relative == {"try_wait_for", "try_lock_for", "wait_for_pred"}
\* ... others look at the clock before each piece.
Deadline == {"try_lock_until", "try_wait_for_any_signal_until"}
Sleep == {"sleep_for", "sleep_until"}

TWInit == /\ waitOp = "none" /\ waitAt = "call" /\ goal = 0
          /\ elapsed = 0 /\ offset \in 0 .. Unit - 1
          /\ ms = 0 /\ left = 0 /\ ready = FALSE /\ success = FALSE
          /\ looked = 0 /\ delay = 0 /\ wakeups = 0

\* duration_cast<milliseconds>: towards zero.
Cast(d) == IF d >= 0 THEN d \div Unit ELSE -((-d) \div Unit)

\* ceil<milliseconds>
Ceil(d) == IF Cast(d) * Unit < d THEN Cast(d) + 1 ELSE Cast(d)

AtLeast(a, b) == IF a < b THEN b ELSE a
AtMost(a, b) == IF a > b THEN b ELSE a
-----------------------------------------------------------------------------
(* Calls. *)

Begins(op, d) == /\ waitOp = "none" /\ waitOp' = op
                 /\ goal' = d
                 /\ UNCHANGED <<elapsed, offset, left, ready, success, looked, delay, wakeups>>

Call_Relative(op, d) == /\ Begins(op, d)
                        /\ waitAt' = "loop"
                        /\ ms' = AtLeast(Ceil(d), 0)

\* A sleep that forgets the part of the current millisecond.
Call_SleepFor_NoExtra(d) == /\ Begins("sleep_for", d)
                            /\ waitAt' = (IF d <= 0 THEN "done" ELSE "loop")
                            /\ ms' = (IF d <= 0 THEN 0 ELSE Ceil(d))

\* One more millisecond, because a part of the current one has passed.
Call_SleepFor(d) == /\ Begins("sleep_for", d)
                    /\ waitAt' = (IF d <= 0 THEN "done" ELSE "loop")
                    /\ ms' = (IF d <= 0 THEN 0 ELSE Ceil(d) + 1)

Call_Until(op, d) == /\ Begins(op, d)
                     /\ waitAt' = "loop"
                     /\ UNCHANGED ms
-----------------------------------------------------------------------------
(* A piece: the thread asks the kernel to wait for n ticks. *)

Waits == waitOp \notin Sleep

\* The kernel looks for what the thread waits for. It does not block for n = 0.
Ask(n) == /\ looked' = elapsed
          /\ IF Waits /\ ready
               THEN waitAt' = "got" /\ ready' = FALSE /\ left' = 0
               ELSE /\ waitAt' = (IF n = 0 THEN "done" ELSE "kernel")
                    /\ left' = n /\ UNCHANGED ready

InPieces == Relative \cup {"sleep_for"}

\* milliseconds truncated = ...; ms -= truncated;
Piece_Relative == /\ waitAt = "loop" /\ waitOp \in InPieces
                  /\ ms' = ms - AtMost(ms, MaxPiece)
                  /\ Ask(AtMost(ms, MaxPiece))
                  /\ UNCHANGED <<waitOp, goal, elapsed, offset, success, delay, wakeups>>

Remaining == goal - elapsed

\* The remaining time, at least a millisecond; one look after the end.
Piece_Until == /\ waitAt = "loop" /\ waitOp \notin InPieces
               /\ Ask(IF Remaining <= 0 THEN 0 ELSE AtMost(AtLeast(Cast(Remaining), 1), MaxPiece))
               /\ UNCHANGED <<waitOp, goal, elapsed, offset, ms, success, delay, wakeups>>

Got == /\ waitAt = "got"
       /\ waitAt' = "done" /\ success' = TRUE
       /\ UNCHANGED <<waitOp, goal, elapsed, offset, ms, left, ready, looked, delay, wakeups>>

\* wait_for() with a predicate: it is false, and the whole timeout starts again.
Got_PredFalse == /\ waitAt = "got" /\ waitOp = "wait_for_pred" /\ wakeups < MaxWakeups
                 /\ waitAt' = "loop"
                 /\ ms' = AtLeast(Ceil(goal), 0)
                 /\ wakeups' = wakeups + 1
                 /\ UNCHANGED <<waitOp, goal, elapsed, offset, left, ready, success, looked, delay>>

Returns_Timed == /\ waitAt = "done"
                 /\ waitOp' = "none" /\ waitAt' = "call" /\ goal' = 0 /\ elapsed' = 0
                 /\ ms' = 0 /\ left' = 0 /\ success' = FALSE
                 /\ looked' = 0 /\ delay' = 0 /\ wakeups' = 0
                 /\ UNCHANGED <<offset, ready>>
-----------------------------------------------------------------------------
(* The kernel, the clock and the other threads. *)

\* A unit of time passes; with the tick the wait of the kernel may end, and
\* `while (ms > ms.zero())` decides whether there is another piece.
Pass ==
  /\ waitAt = "loop" => delay < MaxDelay
  /\ waitAt \in {"call", "loop", "kernel"}
  /\ offset' = (offset + 1) % Unit
  /\ elapsed' = IF waitOp = "none" THEN 0 ELSE elapsed + 1
  /\ delay' = IF waitAt = "loop" THEN delay + 1 ELSE delay
  /\ left' = IF waitAt = "kernel" /\ offset' = 0 THEN left - 1 ELSE left
  /\ IF waitAt = "kernel" /\ left' = 0
       THEN /\ waitAt' = (IF waitOp \in InPieces /\ ms = 0 THEN "done" ELSE "loop")
            /\ looked' = elapsed'
       ELSE UNCHANGED <<waitAt, looked>>
  /\ UNCHANGED <<waitOp, goal, ms, ready, success, wakeups>>

\* Somebody posts the token, unlocks the mutex, sets the signal or notifies, ...
Post == /\ IF waitAt = "kernel" /\ Waits
             THEN waitAt' = "got" /\ left' = 0 /\ UNCHANGED ready
             ELSE ~ready /\ ready' = TRUE /\ UNCHANGED <<waitAt, left>>
        /\ UNCHANGED <<waitOp, goal, elapsed, offset, ms, success, looked, delay, wakeups>>

\* ... and somebody else may take it.
Taken == /\ ready /\ ready' = FALSE
         /\ UNCHANGED <<waitOp, waitAt, goal, elapsed, offset, ms, left, success, looked, delay, wakeups>>

TWNext == \/ \E d \in Durations : \/ Call_SleepFor(d)
                                  \/ \E op \in Relative : Call_Relative(op, d)
                                  \/ \E op \in Deadline \cup {"sleep_until"} : Call_Until(op, d)
          \/ Piece_Relative \/ Piece_Until \/ Got \/ Got_PredFalse \/ Returns_Timed
          \/ Pass \/ Post \/ Taken

TWSpec == TWInit /\ [][TWNext]_twVars
-----------------------------------------------------------------------------
\* Types. No piece is longer than the kernel allows.
TWTypeOK ==
  /\ waitOp \in Relative \cup Deadline \cup Sleep \cup {"none"}
  /\ waitAt \in {"call", "loop", "kernel", "got", "done"}
  /\ goal \in Durations \cup {0} /\ elapsed \in Nat /\ offset \in 0 .. Unit - 1
  /\ ms \in Nat /\ left \in 0 .. MaxPiece
  /\ ready \in BOOLEAN /\ success \in BOOLEAN
  /\ looked \in 0 .. elapsed /\ delay \in 0 .. MaxDelay /\ wakeups \in 0 .. MaxWakeups

\* "Blocks the execution for the given duration", "until the given time point":
\* sleeping, and waiting for a time point, do not end before the time, and a wait
\* for a duration looks a last time less than a millisecond before its end.
\* None ends later than at the next tick but one, unless the thread was kept from
\* running or started again, however the timeout is rounded and cut.
TimeoutKept ==
  waitAt = "done" /\ ~success =>
    /\ looked >= IF waitOp \in Relative THEN goal - (Unit - 1) ELSE goal
    /\ wakeups = 0 => looked <= AtLeast(goal, 0) + delay + (IF waitOp = "sleep_for" THEN 2 ELSE 1) * Unit
=============================================================================
