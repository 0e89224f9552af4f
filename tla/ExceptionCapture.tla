---------------------------- MODULE ExceptionCapture ----------------------------
(***************************************************************************)
(* current_exception() and rethrow_exception() for compilers without them  *)
(* (_armcc/_exception.hpp, _armcc/_exception.cpp).  An exception that was  *)
(* thrown with enable_current_exception() clones itself; any other is      *)
(* caught by a list of handlers, each of which keeps what its type says,   *)
(* or by the converters that the program has registered.  An exception may *)
(* carry the location of its throw (weos::exception), and a captured       *)
(* exception nested in it (nested_exception).                              *)
(*                                                                         *)
(* An exception is what can be told of it: the classes that a handler may  *)
(* name to catch it, and whether it knows its location.  A class that      *)
(* weos::exception was mixed into, for the location or by a wrapper of the *)
(* capture, is caught by handlers for either.  That nested_exception was   *)
(* mixed in is what the variable `nested' tells.                           *)
(***************************************************************************)
EXTENDS Naturals, Sequences

CONSTANTS
  UserClasses,   \* the exception classes of the program
  UserParent,    \* the base class of each
  Thrown,        \* bound: the classes of the exceptions that are thrown
  Registered,    \* bound: the classes that it registers
  MaxRegistered  \* bound: the calls of registerExceptionType()

\* The classes of the C++ library, with their base classes.
Library == [bad_alloc |-> "exception", bad_exception |-> "exception",
            logic_error |-> "exception", runtime_error |-> "exception",
            domain_error |-> "logic_error", invalid_argument |-> "logic_error",
            length_error |-> "logic_error", out_of_range |-> "logic_error",
            overflow_error |-> "runtime_error", range_error |-> "runtime_error",
            underflow_error |-> "runtime_error"]

\* weos::exception is a class of its own.
Roots == {"exception", "weos_exception"}
LibraryClasses == DOMAIN Library \cup Roots

\* Other classes that do not derive from std::exception have no base class.
NoClass == "none"

ASSUME UserParentType == /\ UserClasses \cap (LibraryClasses \cup {NoClass}) = {}
                         /\ UserParent \in [UserClasses -> UserClasses \cup LibraryClasses \cup {NoClass}]

Classes == UserClasses \cup LibraryClasses
Parent == [c \in Classes |-> IF c \in UserClasses THEN UserParent[c]
                             ELSE IF c \in Roots THEN NoClass ELSE Library[c]]

ASSUME ThrownType == Thrown \cup Registered \subseteq Classes

\* c and its base classes: what a handler may name to catch c.
BasesOf == LET Derived == {S \in SUBSET Classes :
                             \A c \in S : Parent[c] = NoClass \/ Parent[c] \in S}
           IN  [c \in Classes |-> {b \in Classes : \A S \in Derived : c \in S => b \in S}]
Bases(c) == BasesOf[c]

\* c with weos::exception mixed into it.
Decorated(c) == Bases(c) \cup {"weos_exception"}

\* An exception: the classes of the handlers that catch it, does it know its location,
\* does it derive from CaptureableExceptionBase? And its history: what the program threw,
\* and the classes of what the first capture made of it ({} before it).
Origins == [names : SUBSET Classes, located : BOOLEAN, captureable : BOOLEAN]
Exception(n, l, e, f, m) ==
  [names |-> n, located |-> l, captureable |-> e, from |-> f, first |-> m]
Fresh_Exception(o) == Exception(o.names, o.located, o.captureable, o,
                                IF o.captureable THEN o.names ELSE {})

NoException == Fresh_Exception([names |-> {}, located |-> FALSE, captureable |-> FALSE])

VARIABLES
  thrown,       \* the exception that a handler of the program handles, or NoException
  nested,       \* the captured exception that is nested in it, or NoException
  eptr,         \* the exception in the exception_ptr, or NoException
  converters    \* g_exceptionConverterRegistry

captureVars == <<thrown, nested, eptr, converters>>

CaptureInit == /\ thrown = NoException /\ nested = NoException /\ eptr = NoException
               /\ converters = <<>>
-----------------------------------------------------------------------------
\* What the handlers of getCurrentException() name, in their order.
Handlers_BaseFirst ==
  <<"bad_alloc", "bad_exception",
    "logic_error", "domain_error", "invalid_argument", "length_error", "out_of_range",
    "overflow_error", "range_error", "underflow_error", "runtime_error">>

Handlers ==
  <<"bad_alloc", "bad_exception",
    "domain_error", "invalid_argument", "length_error", "out_of_range", "logic_error",
    "overflow_error", "range_error", "underflow_error", "runtime_error">>

\* The first element of s that is one of the names of an exception: a list of catch
\* clauses, and tryConvert().
FirstOf(s, names) == LET ks == {k \in DOMAIN s : s[k] \in names}
                     IN  IF ks = {} THEN NoClass ELSE s[CHOOSE k \in ks : \A j \in ks : k <= j]

ListedAs(names) == FirstOf(Handlers, names)
ConvertedTo(names) == IF "exception" \in names THEN FirstOf(converters, names) ELSE NoClass

\* Names and location of the clone. A handler wraps its class, a converter copies the
\* registered class only; UnknownStdException and UnknownException are alike.
Clone(e) ==
  IF e.captureable THEN <<e.names, e.located>>
  ELSE IF ListedAs(e.names) # NoClass THEN <<Decorated(ListedAs(e.names)), e.located>>
  ELSE IF ConvertedTo(e.names) # NoClass THEN <<Bases(ConvertedTo(e.names)), FALSE>>
  ELSE <<Decorated("exception"), FALSE>>

Captured(e) == Exception(Clone(e)[1], Clone(e)[2], TRUE, e.from,
                         IF e.first = {} THEN Clone(e)[1] ELSE e.first)

\* Is a constructor of the program called when such an exception is copied?
CopiedByProgram(names) == names \cap UserClasses # {}

\* There is no memory for the clone, or the program's constructor that copies it throws
\* in clone(): one of two exceptions that were made at start-up.
Substitutes(names) ==
  {Fresh_Exception([names |-> Decorated(b), located |-> FALSE, captureable |-> TRUE]) :
     b \in {"bad_alloc"} \cup (IF CopiedByProgram(names) THEN {"bad_exception"} ELSE {})}

\* What current_exception() returns for e when no other exception comes in between.
Results(e) == {Captured(e)} \cup Substitutes(Clone(e)[1])
-----------------------------------------------------------------------------
\* What is thrown by c, enable_current_exception(c) and the macro WEOS_EXCEPTION(c). The
\* macro mixes in weos::exception and adds the location; but operator<< returns a bare
\* weos::exception if the class derives from it.
Raised(c, enabled, located) ==
  Fresh_Exception([names |-> IF ~located THEN Bases(c)
                             ELSE IF "weos_exception" \in Bases(c) THEN {"weos_exception"}
                             ELSE Decorated(c),
                   located |-> located, captureable |-> enabled])

\* make_exception_ptr() throws a copy and catches what is thrown: the copy, or what its
\* constructor throws, which is captured in its place.
Interferes(names) ==
  IF CopiedByProgram(names)
  THEN UNION {Results(Raised(c, enabled, located)) :
                c \in Thrown, enabled \in BOOLEAN, located \in BOOLEAN}
  ELSE {}

\* What current_exception() returns for e. The converters call make_exception_ptr(); of
\* the clones that are not captureable only theirs are of a class of the program.
Captures(e) == Results(e) \cup (IF e.captureable THEN {} ELSE Interferes(Clone(e)[1]))

Throw(c, enabled, located) == /\ thrown' = Raised(c, enabled, located)
                              /\ nested' = NoException
                              /\ UNCHANGED <<eptr, converters>>

\* The handler of the program is left.
Handled == /\ thrown # NoException
           /\ thrown' = NoException /\ nested' = NoException
           /\ UNCHANGED <<eptr, converters>>

\* eptr = current_exception(), in a handler. The clone has nothing nested in it.
CurrentException == /\ thrown # NoException
                    /\ eptr' \in Captures(thrown)
                    /\ UNCHANGED <<thrown, nested, converters>>

\* eptr = make_exception_ptr(c): thrown, captured and caught in there.
MakeExceptionPtr(c) == /\ eptr' \in Results(Raised(c, TRUE, FALSE)) \cup Interferes(Bases(c))
                       /\ UNCHANGED <<thrown, nested, converters>>

\* eptr = nullptr
ResetExceptionPtr == /\ eptr # NoException /\ eptr' = NoException
                     /\ UNCHANGED <<thrown, nested, converters>>

\* rethrow_exception(eptr), which throws a copy of the clone. (If the constructor that
\* copies it throws, that is a Throw of the program.)
Rethrow(e) == /\ e # NoException
              /\ thrown' = e /\ nested' = NoException

RethrowException == Rethrow(eptr) /\ UNCHANGED <<eptr, converters>>

\* throw_with_nested(c), in a handler: the exception handled there is captured first.
ThrowWithNested(c, enabled, located) ==
  /\ thrown # NoException
  /\ nested' \in Captures(thrown)
  /\ thrown' = Raised(c, enabled, located)
  /\ UNCHANGED <<eptr, converters>>

\* rethrow_nested(), eptr = nested_ptr()
RethrowNested == Rethrow(nested) /\ UNCHANGED <<eptr, converters>>

NestedPtr == /\ nested # NoException /\ eptr' = nested
             /\ UNCHANGED <<thrown, nested, converters>>

\* registerExceptionType<c>(): push_front
RegisterExceptionType(c) == /\ Len(converters) < MaxRegistered
                            /\ "exception" \in Bases(c)
                            /\ converters' = <<c>> \o converters
                            /\ UNCHANGED <<thrown, nested, eptr>>

CaptureNext == \/ \E c \in Thrown :
                    \/ MakeExceptionPtr(c)
                    \/ \E enabled, located \in BOOLEAN : \/ Throw(c, enabled, located)
                                                       \/ ThrowWithNested(c, enabled, located)
               \/ Handled \/ CurrentException \/ ResetExceptionPtr
               \/ RethrowException \/ RethrowNested \/ NestedPtr
               \/ \E c \in Registered : RegisterExceptionType(c)

CaptureSpec == CaptureInit /\ [][CaptureNext]_captureVars
-----------------------------------------------------------------------------
Exceptions == [names : SUBSET Classes, located : BOOLEAN, captureable : BOOLEAN,
               from : Origins, first : SUBSET Classes]

CaptureTypeOK == /\ {thrown, nested, eptr} \subseteq Exceptions
                 /\ converters \in Seq(Classes)

Listed(names) == ListedAs(names) # NoClass

\* However often an exception is captured, nested, rethrown and captured again, in
\* whatever order the program registers its classes: it is caught by a handler for a
\* class of the list exactly if the exception that was thrown would have been, and then
\* it knows its location. With enable_current_exception() it is caught by exactly the
\* handlers that would have caught what was thrown; without, it may become a
\* std::exception, and a weos::exception, which all wrappers and substitutes derive from
\* -- but nothing else. Only the first capture changes anything; and no exception gets
\* the location of another one.
CaptureFaithful ==
  \A e \in {thrown, nested, eptr} \ {NoException} :
    /\ \A k \in DOMAIN Handlers : Handlers[k] \in e.from.names <=> Handlers[k] \in e.names
    /\ Listed(e.names) => e.located = e.from.located
    /\ e.from.captureable => e.names = e.from.names /\ e.located = e.from.located
    /\ e.names \subseteq e.from.names \cup {"exception", "weos_exception"}
    /\ e.first # {} => e.names = e.first
    /\ e.located => e.from.located
=============================================================================
