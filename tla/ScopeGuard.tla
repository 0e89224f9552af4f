------------------------------- MODULE ScopeGuard -------------------------------
(***************************************************************************)
(* WEOS_SCOPE_EXIT, WEOS_SCOPE_FAILURE and WEOS_SCOPE_SUCCESS              *)
(* (scopeguard.hpp): objects whose destructors run a callable, always, only*)
(* if the scope is left by an exception, or only if it is not.  To tell    *)
(* the two they count the exceptions that are under way, as a callable may *)
(* itself run while an exception unwinds the stack, and have scopes, guards*)
(* and exceptions of its own.                                              *)
(***************************************************************************)
EXTENDS Naturals, Sequences, SequencesExt

CONSTANTS
  MaxFrames,      \* bound: the scopes and callables that are open
  MaxScopeGuards, \* bound: the guards of a scope
  MaxUncaught,    \* bound: the exceptions under way
  MovesAnyGuard   \* may guards for failure and success be moved?

ASSUME UncaughtBound == MaxUncaught \in Nat

VARIABLES
  frames,    \* the open scopes and the callables that run, the innermost last
  uncaught,  \* std::uncaught_exceptions()
  ended      \* history: the guard that was destroyed last

scopeVars == <<frames, uncaught, ended>>

\* A scope may catch exceptions; a callable may let them pass. It is left in the
\* normal way or unwound by an exception.
Frame(sort, catches) == [sort |-> sort, catches |-> catches, mode |-> "runs", guards |-> <<>>]

NoGuard == [kind |-> "none", unwound |-> FALSE, moved |-> FALSE, dismissed |-> FALSE, ran |-> FALSE]

ScopeInit == frames = <<Frame("scope", TRUE)>> /\ uncaught = 0 /\ ended = NoGuard

Top == Last(frames)
WithTop(f) == Append(Front(frames), f)
-----------------------------------------------------------------------------
(* The program. *)

Scope_Enter(catches) == /\ Top.mode = "runs" /\ Len(frames) < MaxFrames
                        /\ frames' = Append(frames, Frame("scope", catches))
                        /\ UNCHANGED <<uncaught, ended>>

Scope_Leave == /\ Top.mode = "runs"
               /\ frames' = WithTop([Top EXCEPT !.mode = "left"])
               /\ UNCHANGED <<uncaught, ended>>

\* An exception that nobody catches, or that leaves a noexcept callable, ends the program.
Scope_Throw == /\ Top.mode = "runs" /\ uncaught < MaxUncaught
               /\ \E i \in DOMAIN frames : /\ frames[i].catches
                                           /\ \A j \in i .. Len(frames) : frames[j].sort # "noexcept"
               /\ uncaught' = uncaught + 1
               /\ frames' = WithTop([Top EXCEPT !.mode = "unwound"])
               /\ UNCHANGED ended
-----------------------------------------------------------------------------
(* The guards. *)

\* moved is a history: the callable has been moved to another guard.
NewGuard(kind) == [kind |-> kind, dismissed |-> FALSE, numExceptions |-> uncaught, moved |-> FALSE]

Room == Top.mode = "runs" /\ Len(Top.guards) < MaxScopeGuards /\ Len(frames) < MaxFrames

\* WEOS_SCOPE_EXIT and so on. The object that operator+ returns is the guard itself.
Guard_Construct(kind) == /\ Room
                         /\ frames' = WithTop([Top EXCEPT !.guards = Append(@, NewGuard(kind))])
                         /\ UNCHANGED <<uncaught, ended>>

\* dismiss(), for the guard k of any frame.
Guard_Dismiss(i, k) == /\ Top.mode = "runs" /\ frames[i].guards[k].kind = "exit"
                       /\ frames' = [frames EXCEPT ![i].guards[k].dismissed = TRUE]
                       /\ UNCHANGED <<uncaught, ended>>

\* A new guard in the innermost scope, of any guard: it dismisses the other one if that
\* is for any exit.
Guard_Move(i, k) ==
  LET g == frames[i].guards[k]
      from == [frames EXCEPT ![i].guards[k] = [g EXCEPT !.dismissed = (g.kind = "exit"), !.moved = TRUE]]
  IN  /\ g.kind = "exit" \/ MovesAnyGuard
      /\ Room
      /\ frames' = [from EXCEPT ![Len(frames)].guards = Append(@, g)]
      /\ UNCHANGED <<uncaught, ended>>

\* Is any exception under way, as std::uncaught_exception() tells?
Executes_Any(g) == CASE g.kind = "exit" -> ~g.dismissed
                     [] g.kind = "failure" -> uncaught > 0
                     [] g.kind = "success" -> uncaught = 0

\* Does the destructor call the callable?
Executes(g) == CASE g.kind = "exit" -> ~g.dismissed
                 [] g.kind = "failure" -> uncaught > g.numExceptions
                 [] g.kind = "success" -> ~(uncaught > g.numExceptions)

\* The last guard of a scope that ends is destroyed.
Guard_Destruct ==
  /\ Top.mode # "runs" /\ Top.guards # <<>>
  /\ LET g == Last(Top.guards)
         rest == WithTop([Top EXCEPT !.guards = Front(@)])
     IN  /\ frames' = IF Executes(g)
                        THEN Append(rest, Frame(IF g.kind = "success" THEN "throws" ELSE "noexcept", FALSE))
                        ELSE rest
         /\ ended' = [kind |-> g.kind, unwound |-> Top.mode = "unwound", moved |-> g.moved,
                      dismissed |-> g.dismissed, ran |-> Executes(g)]
  /\ UNCHANGED uncaught

\* The scope, or callable, is over. An exception is caught, or unwinds the next one.
Scope_End ==
  /\ Top.mode # "runs" /\ Top.guards = <<>> /\ Len(frames) > 1
  /\ LET below == frames[Len(frames) - 1]
         caught == Top.mode = "unwound" /\ Top.catches
     IN  /\ frames' = IF Top.mode = "unwound" /\ ~caught
                        THEN Append(Front(Front(frames)), [below EXCEPT !.mode = "unwound"])
                        ELSE Front(frames)
         /\ uncaught' = IF caught THEN uncaught - 1 ELSE uncaught
  /\ UNCHANGED ended

\* The outermost scope is over, and entered again.
Scope_Restart == /\ Len(frames) = 1 /\ Top.mode # "runs" /\ Top.guards = <<>>
                 /\ frames' = <<Frame("scope", TRUE)>> /\ uncaught' = 0 /\ ended' = NoGuard
-----------------------------------------------------------------------------
Kinds_Scope == {"exit", "failure", "success"}

ScopeNext == \/ \E c \in BOOLEAN : Scope_Enter(c)
             \/ Scope_Leave \/ Scope_Throw \/ Scope_End \/ Scope_Restart
             \/ \E kind \in Kinds_Scope : Guard_Construct(kind)
             \/ \E i \in DOMAIN frames : \E k \in DOMAIN frames[i].guards :
                  Guard_Dismiss(i, k) \/ Guard_Move(i, k)
             \/ Guard_Destruct

ScopeSpec == ScopeInit /\ [][ScopeNext]_scopeVars
-----------------------------------------------------------------------------
ScopeTypeOK ==
  /\ uncaught \in 0 .. MaxUncaught
  /\ \A i \in DOMAIN frames :
       /\ frames[i].sort \in {"scope", "noexcept", "throws"} /\ frames[i].catches \in BOOLEAN
       /\ frames[i].mode \in {"runs", "left", "unwound"}
       /\ \A k \in DOMAIN frames[i].guards :
            frames[i].guards[k] \in [kind : Kinds_Scope, dismissed : BOOLEAN,
                                     numExceptions : 0 .. MaxUncaught, moved : BOOLEAN]
  /\ ended \in [kind : Kinds_Scope \cup {"none"}, unwound : BOOLEAN, moved : BOOLEAN,
                dismissed : BOOLEAN, ran : BOOLEAN]

\* A callable runs exactly if its scope ends as it says, whatever other exceptions are
\* under way: the count of exceptions tells whether it is this scope that is unwound.
\* And it never runs where it has been moved away from.
GuardsTell ==
  /\ ended.ran => ~ended.moved
  /\ ended.ran = CASE ended.kind = "exit" -> ~ended.dismissed
                  [] ended.kind = "failure" -> ended.unwound
                  [] ended.kind = "success" -> ~ended.unwound
                  [] OTHER -> FALSE
=============================================================================
