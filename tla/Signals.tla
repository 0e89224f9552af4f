------------------------------- MODULE Signals -------------------------------
(***************************************************************************)
(* The signal flags of one thread of the CMSIS-RTOS back end (_thread.hpp, *)
(* _thread.cpp): it waits for any or for all of some flags, for ever or    *)
(* with a timeout that is cut into pieces, while others set and clear them *)
(* through its handle.  How long the pieces are is in TimedWait.           *)
(***************************************************************************)
EXTENDS Naturals

CONSTANTS
  SignalFlags,
  MaxPieces     \* bound: into how many pieces a timeout is cut

ASSUME MaxPiecesType == MaxPieces \in Nat

VARIABLES
  flagsSet,     \* the flags in the control block of the kernel
  joinable,     \* the handle still has the thread
  waiting,      \* where the thread is: "out" of a call, "loop", in the "kernel"
  asked,        \* it waits for all of these flags; for any flag if there are none
  timed,        \* the call has a timeout, ...
  pieces,       \* ... with so many pieces to go
  reported,     \* the flags that the last call returned, or was content with
  owed,         \* history: what was set, and neither cleared nor answered
  found         \* history: the flags when the kernel gave its last answer

signalVars == <<flagsSet, joinable, waiting, asked, timed, pieces, reported, owed, found>>

SignalsInit == /\ flagsSet = {} /\ joinable = TRUE /\ waiting = "out"
               /\ asked = {} /\ timed = FALSE /\ pieces = 0
               /\ reported = {} /\ owed = {} /\ found = {}

\* The condition of osSignalWait for the flags w; no flag stands for any.
Ready(set, w) == IF w = {} THEN set # {} ELSE w \subseteq set

\* What it answers and resets.
Selected(set, w) == IF w = {} THEN set ELSE w
-----------------------------------------------------------------------------
\* wait_for_any_signal() passes no flags, wait_for_all_signals() at least one.
Wait_Signals(w, n, timeout) ==
  /\ waiting = "out" /\ waiting' = "loop"
  /\ asked' = w
  /\ timed' = timeout /\ pieces' = IF timeout THEN n ELSE 0
  /\ reported' = {}
  /\ UNCHANGED <<flagsSet, joinable, owed, found>>

Answer(set, o) == /\ reported' = Selected(set, asked)
                  /\ flagsSet' = set \ Selected(set, asked)
                  /\ owed' = o \ reported'
                  /\ found' = set
                  /\ waiting' = "out"

\* osSignalWait: the flags are there, or the thread blocks for a piece; a last piece
\* of zero milliseconds is one look.
Ask_Signals ==
  /\ waiting = "loop"
  /\ IF Ready(flagsSet, asked) THEN Answer(flagsSet, owed) /\ UNCHANGED pieces
     ELSE /\ waiting' = IF timed /\ pieces = 0 THEN "out" ELSE "kernel"
          /\ pieces' = IF pieces = 0 THEN 0 ELSE pieces - 1
          /\ UNCHANGED <<flagsSet, reported, owed, found>>
  /\ UNCHANGED <<joinable, asked, timed>>

\* The end of a piece.
TimeOut_Signals ==
  /\ waiting = "kernel" /\ timed
  /\ waiting' = IF pieces = 0 THEN "out" ELSE "loop"
  /\ UNCHANGED <<flagsSet, joinable, asked, timed, pieces, reported, owed, found>>

\* The end of the last piece before a time point is followed by one look.
TimeOut_Until ==
  /\ waiting = "kernel" /\ timed /\ pieces = 0
  /\ waiting' = "loop"
  /\ UNCHANGED <<flagsSet, joinable, asked, timed, pieces, reported, owed, found>>

\* set_signals() and clear_signals() throw without a thread.
Set_Signals(f) ==
  /\ joinable
  /\ LET set == flagsSet \cup f
     IN IF waiting = "kernel" /\ Ready(set, asked) THEN Answer(set, owed \cup f)
        ELSE flagsSet' = set /\ owed' = owed \cup f /\ UNCHANGED <<waiting, reported, found>>
  /\ UNCHANGED <<joinable, asked, timed, pieces>>

Clear_Signals(f) ==
  /\ joinable
  /\ flagsSet' = flagsSet \ f /\ owed' = owed \ f
  /\ UNCHANGED <<joinable, waiting, asked, timed, pieces, reported, found>>

\* detach(), or a move to another handle.
Detach_Signals ==
  /\ joinable /\ joinable' = FALSE
  /\ UNCHANGED <<flagsSet, waiting, asked, timed, pieces, reported, owed, found>>

SignalsNext ==
  \/ Ask_Signals \/ TimeOut_Signals \/ TimeOut_Until \/ Detach_Signals
  \/ \E f \in SUBSET SignalFlags \ {{}} : Set_Signals(f) \/ Clear_Signals(f)
  \/ \E w \in SUBSET SignalFlags, n \in 0 .. MaxPieces, timeout \in BOOLEAN :
       Wait_Signals(w, n, timeout)

SignalsSpec == SignalsInit /\ [][SignalsNext]_signalVars
-----------------------------------------------------------------------------
SignalsTypeOK ==
  /\ {flagsSet, asked, reported, owed, found} \subseteq SUBSET SignalFlags
  /\ {joinable, timed} \subseteq BOOLEAN
  /\ waiting \in {"out", "loop", "kernel"} /\ pieces \in 0 .. MaxPieces

\* No signal is lost, and none is reported twice or reset unasked: a wait for any
\* signal reports and resets all that are set, a wait for all of some signals returns
\* when all of them are set and leaves the others, and "in the case of a timeout
\* [...] the signal flags are not modified".  Nobody sleeps through its signal.
SignalsExact ==
  /\ owed = flagsSet
  /\ waiting = "kernel" => ~Ready(flagsSet, asked)
  /\ reported # {} => reported = IF asked = {} THEN found ELSE asked
  /\ reported \subseteq found
=============================================================================
