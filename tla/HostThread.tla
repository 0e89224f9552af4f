------------------------------ MODULE HostThread ------------------------------
(***************************************************************************)
(* A thread of the C++11 back end (_cxx11/_thread.hpp, _cxx11/_thread.cpp) *)
(* and the client that creates it, sends it signals and joins or detaches  *)
(* it.  Both share a state with one mutex and one condition variable, and  *)
(* whoever changes the state notifies one thread only.                     *)
(***************************************************************************)
EXTENDS FiniteSets, Naturals

CONSTANT Flags    \* the signals

\* The two threads.
Both == {"client", "thread"}

VARIABLES
  m_isRegistered, m_joinedOrDetached, m_signalFlags,
  registry,    \* is the state in the map of the manager?
  holder,      \* the threads that hold m_mutex
  drowsy,      \* the threads that have found their predicate false and not slept yet
  sleeping,    \* the threads that sleep on m_signal
  told,        \* those that a notification or nothing at all has woken
  hostAt,      \* where each thread is
  wanted,      \* the thread waits for any (none) or for all of these signals
  owners       \* the shared_ptrs to the state: of the handle, of the thread

flagVars == <<m_isRegistered, m_joinedOrDetached, m_signalFlags>>
condVars == <<holder, drowsy, sleeping, told>>
restVars == <<registry, wanted, owners>>
hostVars == <<flagVars, condVars, restVars, hostAt>>

HostInit == /\ m_isRegistered = FALSE /\ m_joinedOrDetached = FALSE /\ m_signalFlags = {}
            /\ registry = FALSE
            /\ holder = {} /\ drowsy = {} /\ sleeping = {} /\ told = {}
            /\ hostAt = [client |-> "no thread", thread |-> "none"]
            /\ wanted = {} /\ owners = {}

Step(t, a, b) == hostAt[t] = a /\ hostAt' = [hostAt EXCEPT ![t] = b]

LockHost(t, a, b) == /\ Step(t, a, b)
                     /\ holder = {} /\ holder' = {t}
                     /\ UNCHANGED <<flagVars, restVars, drowsy, sleeping, told>>

UnlockHost(t, a, b) == /\ Step(t, a, b)
                       /\ holder' = holder \ {t}
                       /\ UNCHANGED <<flagVars, restVars, drowsy, sleeping, told>>

\* m_signal.notify_one()
NotifyOneHost == IF sleeping = {} THEN UNCHANGED <<sleeping, told>>
                 ELSE \E t \in sleeping : sleeping' = sleeping \ {t} /\ told' = told \cup {t}

Notify_Host(t, a, b) == /\ Step(t, a, b)
                        /\ NotifyOneHost
                        /\ UNCHANGED <<flagVars, restVars, holder, drowsy>>

\* m_signal.wait(lock, pred): while the predicate is false, the thread unlocks and
\* sleeps, until it is woken, for whatever reason, ...
CondCheck(t, a, pred) == /\ Step(t, a, a) /\ t \in holder \ drowsy /\ ~pred
                         /\ drowsy' = drowsy \cup {t}
                         /\ UNCHANGED <<flagVars, restVars, holder, sleeping, told>>

CondSleep(t) == /\ t \in drowsy /\ drowsy' = drowsy \ {t}
                /\ holder' = holder \ {t} /\ sleeping' = sleeping \cup {t}
                /\ UNCHANGED <<flagVars, restVars, told, hostAt>>

Spurious(t) == /\ t \in sleeping
               /\ sleeping' = sleeping \ {t} /\ told' = told \cup {t}
               /\ UNCHANGED <<flagVars, restVars, holder, drowsy, hostAt>>

\* ... and locks and looks again.
CondRelock(t) == /\ t \in told /\ told' = told \ {t}
                 /\ holder = {} /\ holder' = {t}
                 /\ UNCHANGED <<flagVars, restVars, drowsy, sleeping, hostAt>>
-----------------------------------------------------------------------------
(* The client. *)

\* thread::create(): the state, the thread, and the wait for its registration.
Create_Host == /\ Step("client", "no thread", "create")
               /\ hostAt["thread"] = "none"
               /\ m_isRegistered' = FALSE /\ m_joinedOrDetached' = FALSE /\ m_signalFlags' = {}
               /\ owners' = {"handle", "thread"}
               /\ UNCHANGED <<condVars, registry, wanted>>

Create_Lock == LockHost("client", "create", "await")
Create_Check == CondCheck("client", "await", m_isRegistered)
Create_Registered == /\ "client" \in holder \ drowsy
                     /\ Step("client", "await", "joinable") /\ m_isRegistered
                     /\ holder' = {}
                     /\ UNCHANGED <<flagVars, restVars, drowsy, sleeping, told>>

\* set_signals() and clear_signals() notify with the mutex held.
Signals_Lock == \E a \in {"set", "clear"} : LockHost("client", "joinable", a)

Signals_Set(F) == /\ Step("client", "set", "unlock")
                  /\ m_signalFlags' = m_signalFlags \cup F
                  /\ NotifyOneHost
                  /\ UNCHANGED <<m_isRegistered, m_joinedOrDetached, restVars, holder, drowsy>>

Signals_Clear(F) == /\ Step("client", "clear", "unlock")
                    /\ m_signalFlags' = m_signalFlags \ F
                    /\ NotifyOneHost
                    /\ UNCHANGED <<m_isRegistered, m_joinedOrDetached, restVars, holder, drowsy>>

Signals_Unlock == UnlockHost("client", "unlock", "joinable")

\* join() and detach() set the flag, unlock, and notify then.
Join_Flag_Unlocked(a) ==
  /\ Step("client", "joinable", IF a = "join" THEN "notify join" ELSE "notify detach")
  /\ m_joinedOrDetached' = TRUE
  /\ UNCHANGED <<m_isRegistered, m_signalFlags, condVars, restVars>>

Join_Flag(a) ==
  /\ Step("client", "joinable", IF a = "join" THEN "notify join" ELSE "notify detach")
  /\ holder = {}
  /\ m_joinedOrDetached' = TRUE
  /\ UNCHANGED <<m_isRegistered, m_signalFlags, condVars, restVars>>

Join_Notify == \/ Notify_Host("client", "notify join", "join")
               \/ Notify_Host("client", "notify detach", "detach")

\* m_data.reset(); a joined thread has ended before.
Join_Reset == /\ \/ Step("client", "join", "no thread") /\ hostAt["thread"] = "none"
                 \/ Step("client", "detach", "no thread")
              /\ owners' = owners \ {"handle"}
              /\ UNCHANGED <<flagVars, condVars, registry, wanted>>

\* Another handle is moved to this one: nobody will join or detach the thread, whose
\* function may end, but not the thread.
MoveAssign_Host == /\ Step("client", "joinable", "no thread")
                   /\ owners' = owners \ {"handle"}
                   /\ UNCHANGED <<flagVars, condVars, registry, wanted>>
-----------------------------------------------------------------------------
(* The thread: threadedFunction(). *)

Start_Host == /\ hostAt["thread"] = "none" /\ "thread" \in owners
              /\ hostAt' = [hostAt EXCEPT !["thread"] = "register"]
              /\ registry' = TRUE
              /\ UNCHANGED <<flagVars, condVars, wanted, owners>>

Register == /\ Step("thread", "register", "registered")
            /\ holder = {}
            /\ m_isRegistered' = TRUE
            /\ UNCHANGED <<m_joinedOrDetached, m_signalFlags, condVars, restVars>>

Register_Notify == Notify_Host("thread", "registered", "run")

\* wait_for_any_signal(), wait_for_all_signals(flags), and the same with a timeout, which
\* end ...
Waits_Host == {"wait", "timed wait"}

WaitSignals(F) == /\ \E a \in Waits_Host : Step("thread", "run", a)
                  /\ holder = {} /\ holder' = {"thread"}
                  /\ wanted' = F
                  /\ UNCHANGED <<flagVars, registry, owners, drowsy, sleeping, told>>

Satisfied(F) == IF F = {} THEN m_signalFlags # {} ELSE F \subseteq m_signalFlags

WaitSignals_Check == \E a \in Waits_Host : CondCheck("thread", a, Satisfied(wanted))

\* ... with the signals taken.
WaitSignals_Take == /\ "thread" \in holder \ drowsy
                    /\ \E a \in Waits_Host : Step("thread", a, "run")
                    /\ Satisfied(wanted)
                    /\ m_signalFlags' = IF wanted = {} THEN {} ELSE m_signalFlags \ wanted
                    /\ holder' = {} /\ wanted' = {}
                    /\ UNCHANGED <<m_isRegistered, m_joinedOrDetached, registry, owners, drowsy, sleeping, told>>

\* ... or without, when the time is over and the predicate still false.
WaitSignals_TimeOut == /\ "thread" \in holder \ drowsy
                       /\ Step("thread", "timed wait", "run") /\ ~Satisfied(wanted)
                       /\ holder' = {} /\ wanted' = {}
                       /\ UNCHANGED <<flagVars, registry, owners, drowsy, sleeping, told>>

\* try_wait_for_any_signal(), try_wait_for_all_signals(flags)
TryWaitSignals(F) == /\ hostAt["thread"] = "run" /\ holder = {} /\ Satisfied(F)
                     /\ m_signalFlags' = IF F = {} THEN {} ELSE m_signalFlags \ F
                     /\ UNCHANGED <<m_isRegistered, m_joinedOrDetached, condVars, restVars, hostAt>>

\* "Keep the thread alive because someone might still set a signal."
End_Lock == LockHost("thread", "run", "keep alive")
End_Check == CondCheck("thread", "keep alive", m_joinedOrDetached)

\* The state is removed from the map, and the mutex unlocked ...
End_Remove == /\ "thread" \in holder \ drowsy
              /\ Step("thread", "keep alive", "ended") /\ m_joinedOrDetached
              /\ registry' = FALSE /\ holder' = {}
              /\ UNCHANGED <<flagVars, wanted, owners, drowsy, sleeping, told>>

\* ... and the thread's shared_ptr goes.
End_Host == /\ Step("thread", "ended", "none")
            /\ owners' = owners \ {"thread"}
            /\ UNCHANGED <<flagVars, condVars, registry, wanted>>
-----------------------------------------------------------------------------
ClientGoes == \/ Create_Lock \/ Create_Check \/ Create_Registered
              \/ \E F \in SUBSET Flags : Signals_Set(F) \/ Signals_Clear(F)
              \/ Signals_Unlock \/ Join_Notify \/ Join_Reset
              \/ CondRelock("client") \/ CondSleep("client")

ThreadGoes == \/ Start_Host \/ Register \/ Register_Notify
              \/ WaitSignals_Check \/ WaitSignals_Take \/ WaitSignals_TimeOut
              \/ End_Check \/ End_Remove \/ End_Host
              \/ CondRelock("thread") \/ CondSleep("thread")

HostNext == \/ ClientGoes \/ ThreadGoes
            \/ Create_Host \/ MoveAssign_Host \/ Signals_Lock \/ \E a \in {"join", "detach"} : Join_Flag(a)
            \/ \E F \in SUBSET Flags : WaitSignals(F) \/ TryWaitSignals(F)
            \/ End_Lock
            \/ \E t \in Both : Spurious(t)

HostSpec == HostInit /\ [][HostNext]_hostVars
-----------------------------------------------------------------------------
HostTypeOK ==
  /\ m_isRegistered \in BOOLEAN /\ m_joinedOrDetached \in BOOLEAN /\ m_signalFlags \subseteq Flags
  /\ registry \in BOOLEAN /\ owners \subseteq {"handle", "thread"} /\ wanted \subseteq Flags
  /\ holder \subseteq Both /\ Cardinality(holder) <= 1 /\ drowsy \subseteq holder
  /\ sleeping \subseteq Both /\ told \subseteq Both
  /\ hostAt.client \in {"no thread", "create", "await", "joinable", "set", "clear", "unlock",
                        "notify join", "notify detach", "join", "detach"}
  /\ hostAt.thread \in {"none", "register", "registered", "run", "wait", "timed wait",
                        "keep alive", "ended"}

\* Though creator and thread share one condition variable, everybody notifies one
\* thread only, and some after they have unlocked: nobody sleeps while its predicate
\* is true, but for as long as the notification is on its way.
NobodyOversleeps ==
  /\ "client" \in sleeping /\ m_isRegistered => hostAt.thread = "registered"
  /\ "thread" \in sleeping /\ hostAt.thread \in Waits_Host => ~Satisfied(wanted)
  /\ "thread" \in sleeping /\ hostAt.thread = "keep alive" /\ m_joinedOrDetached
       => hostAt.client \in {"notify join", "notify detach"}
=============================================================================
