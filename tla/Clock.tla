-------------------------------- MODULE Clock --------------------------------
(***************************************************************************)
(* weos_chrono_getSystemClockTicks() (_chrono_clocks.cpp): the ticks since *)
(* the start, from the kernel's os_time, which wraps around, the hardware  *)
(* counter below it, and one word in which all readers together count how  *)
(* often os_time has wrapped.  A reader may be preempted at any access.    *)
(*                                                                         *)
(* os_time has High * Low values (16 * 2^28); its high part is os_time     *)
(* divided by Low.                                                         *)
(***************************************************************************)
EXTENDS Naturals

CONSTANTS
  Readers,
  High, Low,    \* the values of the high bits, and of the rest, of os_time
  Trv,          \* os_trv: the hardware counter runs from 0 to Trv
  MaxElapsed    \* bound: the time when the model stops

ASSUME ClockConstants == /\ {Low, Trv} \subseteq Nat \ {0} /\ High \in Nat \ {0, 1}
                         /\ MaxElapsed \in Nat

VARIABLES
  passed,       \* the true time, in ticks of the hardware counter
  pending,      \* the counter has wrapped and the tick handler has not run yet
  overflowData, \* the high bits last seen, and the number of wraps
  step,         \* where each reader is: the next access, "done" or "idle"
  read,         \* its locals
  newest,       \* history: the latest interval of a call that has got past the word
  late          \* history: a call got past the word after one that saw later high bits

clockVars == <<passed, pending, overflowData, step, read, newest, late>>

Wrap == High * Low
Interval == passed \div (Trv + 1)
OsTickVal == passed % (Trv + 1)

\* os_time is the number of intervals that the tick handler knows of, modulo Wrap.
TickHandled == IF pending THEN Interval - 1 ELSE Interval

\* since and seen are histories: when ticks was read, and time without the wrap.
NothingRead == [ticks |-> 0, since |-> 0, ovf |-> FALSE, time |-> 0, seen |-> 0, ticksAgain |-> 0,
                data |-> [high |-> 0, overflows |-> 0], overflows |-> 0]

ClockInit ==
  /\ passed = 0 /\ pending = FALSE
  /\ overflowData = [high |-> 0, overflows |-> 0]
  /\ step = [r \in Readers |-> "idle"]
  /\ read = [r \in Readers |-> NothingRead]
  /\ newest = 0 /\ late = FALSE
-----------------------------------------------------------------------------
(* The hardware and the kernel. *)

\* The counter moves on. The tick handler runs before it wraps again, and "the
\* function is called often enough": once in Low intervals.
Tick ==
  /\ ~pending /\ passed < MaxElapsed
  /\ passed' = passed + 1
  /\ pending' = (OsTickVal = Trv)
  /\ pending' => Interval < newest + Low
  /\ UNCHANGED <<overflowData, step, read, newest, late>>

\* The tick handler increments os_time.
TickHandler == /\ pending /\ pending' = FALSE
               /\ UNCHANGED <<passed, overflowData, step, read, newest, late>>
-----------------------------------------------------------------------------
(* A reader. Every access to the hardware or to shared memory is a step. *)

Goes(r, a, b) == step[r] = a /\ step' = [step EXCEPT ![r] = b]
ReadsOnly == UNCHANGED <<passed, pending, overflowData, newest, late>>

\* The call begins, or begins another round.
ReadTicks(r) == /\ Goes(r, "idle", "ovf")
                /\ read' = [read EXCEPT ![r].ticks = OsTickVal, ![r].since = passed]
                /\ ReadsOnly

ReadOvf(r) == /\ \/ Goes(r, "ovf", "time")
                 \/ Goes(r, "ovf again", "time again")
              /\ read' = [read EXCEPT ![r].ovf = pending]
              /\ ReadsOnly

\* os_tick_ovf() ? os_time + 1 : os_time
TimeNow(r) == IF read[r].ovf THEN TickHandled + 1 ELSE TickHandled

ReadTime(r) == /\ Goes(r, "time", "ticks again")
               /\ read' = [read EXCEPT ![r].time = TimeNow(r) % Wrap, ![r].seen = TimeNow(r),
                                       ![r].ovf = FALSE]
               /\ ReadsOnly

\* A pair that is read once.
ReadTicksAgain_Skipped(r) == /\ Goes(r, "ticks again", "data") /\ UNCHANGED read
                             /\ ReadsOnly

ReadTicksAgain(r) == /\ Goes(r, "ticks again", "ovf again")
                     /\ read' = [read EXCEPT ![r].ticksAgain = OsTickVal]
                     /\ ReadsOnly

\* while (ticksAgain <= ticks || time != timeAgain)
ReadTimeAgain(r) ==
  /\ IF read[r].ticksAgain <= read[r].ticks \/ read[r].time # TimeNow(r) % Wrap
       THEN /\ Goes(r, "time again", "idle")
            /\ read' = [read EXCEPT ![r] = NothingRead]
       ELSE /\ Goes(r, "time again", "data")
            /\ read' = [read EXCEPT ![r].ovf = FALSE, ![r].ticksAgain = 0]
  /\ ReadsOnly

\* The reader leaves the second step.
Done(r) == /\ late' = (late \/ read[r].seen \div Low < newest \div Low)
           /\ newest' = IF read[r].seen < newest THEN newest ELSE read[r].seen

HighBits(r) == read[r].time \div Low

\* The high bits have not changed: done. Otherwise go on to replace the word.
LoadData(r) ==
  /\ IF HighBits(r) = overflowData.high
       THEN /\ Goes(r, "data", "done") /\ Done(r)
            /\ read' = [read EXCEPT ![r].overflows = overflowData.overflows, ![r].since = 0]
       ELSE /\ Goes(r, "data", "replace") /\ UNCHANGED <<newest, late>>
            /\ read' = [read EXCEPT ![r].data = overflowData, ![r].since = 0]
  /\ UNCHANGED <<passed, pending, overflowData>>

\* if (highBits < prevHighBits) ++overflows
Counted(r) == read[r].data.overflows + (IF HighBits(r) < read[r].data.high THEN 1 ELSE 0)

Replaces(r) ==
  /\ Goes(r, "replace", "done") /\ Done(r)
  /\ overflowData' = [high |-> HighBits(r), overflows |-> Counted(r)]
  /\ read' = [read EXCEPT ![r].overflows = Counted(r), ![r].data = NothingRead.data]
  /\ UNCHANGED <<passed, pending>>

\* compare_exchange_weak().
Replace(r) == overflowData = read[r].data /\ Replaces(r)

\* Another reader was faster, or it fails for no reason: start over again.
Replace_Fails(r) == /\ Goes(r, "replace", "data")
                    /\ read' = [read EXCEPT ![r].data = NothingRead.data]
                    /\ ReadsOnly

Return_Now(r) == /\ Goes(r, "done", "idle")
                 /\ read' = [read EXCEPT ![r] = NothingRead]
                 /\ ReadsOnly
-----------------------------------------------------------------------------
ClockNext == \/ Tick \/ TickHandler
             \/ \E r \in Readers : \/ ReadTicks(r) \/ ReadOvf(r) \/ ReadTime(r)
                                   \/ ReadTicksAgain(r) \/ ReadTimeAgain(r)
                                   \/ LoadData(r) \/ Replace(r) \/ Replace_Fails(r)
                                   \/ Return_Now(r)

ClockSpec == ClockInit /\ [][ClockNext]_clockVars
-----------------------------------------------------------------------------
ClockTypeOK ==
  /\ passed \in 0 .. MaxElapsed /\ pending \in BOOLEAN /\ late \in BOOLEAN
  /\ overflowData \in [high : 0 .. High - 1, overflows : Nat]
  /\ step \in [Readers -> {"idle", "ovf", "time", "ticks again", "ovf again", "time again",
                           "data", "replace", "done"}]
  /\ \A r \in Readers : read[r].time < Wrap /\ read[r].ticks <= Trv /\ read[r].since <= passed

\* The pair of (time, ticks) is a time between the first read and now, or at most
\* one interval ahead: that much it is wrong if the tick handler runs between
\* os_tick_ovf() and os_time.
PairExact ==
  \A r \in Readers : step[r] = "data" =>
    read[r].seen * (Trv + 1) + read[r].ticks \in read[r].since .. passed + Trv

\* now() has counted every wrap of os_time once, however readers interleave.
NowExact ==
  \A r \in Readers : step[r] = "done" => read[r].overflows * Wrap + read[r].time = read[r].seen

\* It is so unless a reader is overtaken by one that has seen the high bits change.
NowExactUnlessLate == PairExact /\ (~late => NowExact)
=============================================================================
