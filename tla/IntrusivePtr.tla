----------------------------- MODULE IntrusivePtr -----------------------------
(***************************************************************************)
(* intrusive_ptr (intrusive_ptr.hpp) with the count and the destruction of *)
(* the objects that exception_ptr shares (_armcc/_exception.hpp).          *)
(*                                                                         *)
(* A pointer is used by one thread at a time, and the threads share the    *)
(* objects.  A step is one change of the pointer, or of the atomic count.  *)
(***************************************************************************)
EXTENDS Naturals, FiniteSets

CONSTANTS
  Pointers, Objects,
  NoObject,    \* nullptr
  MaxRaw       \* bound: the references to an object that release() has handed out

ASSUME NoObjectIsNew == NoObject \notin Objects
ASSUME MaxRawType == MaxRaw \in Nat

VARIABLES
  m_pointer,
  m_refCount,
  exists,      \* the objects between their construction and destruction
  raw,         \* the references that release() has handed to its callers, by object
  does,        \* what the call on each pointer does next
  other,       \* the argument of the call
  misused      \* history: an object that does not exist was counted or destroyed

ptrVars == <<m_pointer, m_refCount, exists, raw, does, other, misused>>

PtrInit == /\ m_pointer = [p \in Pointers |-> NoObject]
           /\ m_refCount = [o \in Objects |-> 0]
           /\ exists = {} /\ raw = [o \in Objects |-> 0]
           /\ does = [p \in Pointers |-> "nothing"]
           /\ other = [p \in Pointers |-> p]
           /\ misused = FALSE

\* No call is using p, not as its argument either.
Unused(p) == does[p] = "nothing" /\ \A q \in Pointers \ {p} : other[q] # p

Do(p, a) == does' = [does EXCEPT ![p] = a]
Point(p, o) == m_pointer' = [m_pointer EXCEPT ![p] = o]
-----------------------------------------------------------------------------
(* Calls on a pointer p. *)

\* exception_ptr(pointer_type(exc.clone())): a new object without references.
Construct_Ptr(p, o) == /\ Unused(p) /\ m_pointer[p] = NoObject
                       /\ o \notin exists /\ exists' = exists \cup {o}
                       /\ m_refCount' = [m_refCount EXCEPT ![o] = 0]
                       /\ Point(p, o) /\ Do(p, "add")
                       /\ UNCHANGED <<raw, other, misused>>

\* The copy constructor of p.
Copy_Ptr(p, q) == /\ p # q /\ Unused(p) /\ Unused(q)
                  /\ m_pointer[p] = NoObject /\ m_pointer[q] # NoObject
                  /\ other' = [other EXCEPT ![p] = q]
                  /\ Point(p, m_pointer[q]) /\ Do(p, "add")
                  /\ UNCHANGED <<m_refCount, exists, raw, misused>>

\* The move constructor of p, and swap.
Move_Ptr(p, q) == /\ Unused(p) /\ Unused(q)
                  /\ m_pointer' = [m_pointer EXCEPT ![p] = m_pointer[q], ![q] = m_pointer[p]]
                  /\ UNCHANGED <<m_refCount, exists, raw, does, other, misused>>

\* An assignment releases first. Assigned to itself, a pointer is left alone. The
\* call reset(q.get()) takes the same steps.
Assign_Ptr(p, q) == /\ p # q /\ Unused(p) /\ Unused(q)
                    /\ other' = [other EXCEPT ![p] = q]
                    /\ Do(p, IF m_pointer[p] = NoObject THEN "copy" ELSE "release, copy")
                    /\ UNCHANGED <<m_pointer, m_refCount, exists, raw, misused>>

MoveAssign_Ptr(p, q) == /\ p # q /\ Unused(p) /\ Unused(q)
                        /\ other' = [other EXCEPT ![p] = q]
                        /\ Do(p, IF m_pointer[p] = NoObject THEN "move" ELSE "release, move")
                        /\ UNCHANGED <<m_pointer, m_refCount, exists, raw, misused>>

\* The destructor, reset(), = nullptr.
Reset_Ptr(p) == /\ Unused(p) /\ m_pointer[p] # NoObject
                /\ Do(p, "release, clear")
                /\ UNCHANGED <<m_pointer, m_refCount, exists, raw, other, misused>>

\* release(): the caller gets the reference, and may give it to another pointer
\* with keep_reference_count.
Release_Ptr(p) == /\ Unused(p) /\ m_pointer[p] # NoObject
                  /\ raw[m_pointer[p]] < MaxRaw
                  /\ raw' = [raw EXCEPT ![m_pointer[p]] = @ + 1]
                  /\ Point(p, NoObject)
                  /\ UNCHANGED <<m_refCount, exists, does, other, misused>>

Keep_Ptr(p, o) == /\ Unused(p) /\ m_pointer[p] = NoObject /\ raw[o] > 0
                  /\ raw' = [raw EXCEPT ![o] = @ - 1]
                  /\ Point(p, o)
                  /\ UNCHANGED <<m_refCount, exists, does, other, misused>>
-----------------------------------------------------------------------------
(* Inside a call. *)

Touches(o) == misused' = (misused \/ o \notin exists)

Ends(p) == Do(p, "nothing") /\ other' = [other EXCEPT ![p] = p]

\* ++exc->m_refCount
AddRef(p) == /\ does[p] = "add" /\ Ends(p)
             /\ m_refCount' = [m_refCount EXCEPT ![m_pointer[p]] = @ + 1]
             /\ Touches(m_pointer[p])
             /\ UNCHANGED <<m_pointer, exists, raw>>

\* What follows the release.
Releasing == [a \in {"release, copy", "release, move", "release, clear"} |->
                CASE a = "release, copy" -> "copy" [] a = "release, move" -> "move" [] OTHER -> "clear"]

\* A count that is read again after it was decremented.
ReleaseRef_ReadAgain(p) ==
  \/ /\ does[p] \in DOMAIN Releasing /\ m_refCount[m_pointer[p]] > 0
     /\ m_refCount' = [m_refCount EXCEPT ![m_pointer[p]] = @ - 1]
     /\ Do(p, "look") /\ Touches(m_pointer[p])
     /\ UNCHANGED <<m_pointer, exists, raw, other>>
  \/ /\ does[p] = "look"
     /\ exists' = IF m_refCount[m_pointer[p]] = 0 THEN exists \ {m_pointer[p]} ELSE exists
     /\ Do(p, "clear") /\ Touches(m_pointer[p])
     /\ UNCHANGED <<m_pointer, m_refCount, raw, other>>

\* if (--exc->m_refCount == 0) delete exc: only one thread finds zero.
ReleaseRef(p) ==
  \E o \in Objects :
    /\ does[p] \in DOMAIN Releasing /\ o = m_pointer[p]
    /\ m_refCount' = [m_refCount EXCEPT ![o] = IF @ = 0 THEN 0 ELSE @ - 1]
    /\ exists' = IF m_refCount'[o] = 0 THEN exists \ {o} ELSE exists
    /\ Do(p, Releasing[does[p]]) /\ Touches(o)
    /\ UNCHANGED <<m_pointer, raw, other>>

\* m_pointer = other.m_pointer; the reference is counted after it.
PointCopy(p) == /\ does[p] = "copy"
                /\ Point(p, m_pointer[other[p]])
                /\ IF m_pointer[other[p]] = NoObject THEN Ends(p) ELSE Do(p, "add") /\ UNCHANGED other
                /\ UNCHANGED <<m_refCount, exists, raw, misused>>

PointMove(p) == /\ does[p] = "move" /\ Ends(p)
                /\ m_pointer' = [m_pointer EXCEPT ![p] = m_pointer[other[p]], ![other[p]] = NoObject]
                /\ UNCHANGED <<m_refCount, exists, raw, misused>>

PointClear(p) == /\ does[p] = "clear" /\ Ends(p)
                 /\ Point(p, NoObject)
                 /\ UNCHANGED <<m_refCount, exists, raw, misused>>
-----------------------------------------------------------------------------
PtrNext == \E p \in Pointers :
             \/ \E o \in Objects : Construct_Ptr(p, o) \/ Keep_Ptr(p, o)
             \/ \E q \in Pointers : Copy_Ptr(p, q) \/ Move_Ptr(p, q) \/ Assign_Ptr(p, q) \/ MoveAssign_Ptr(p, q)
             \/ Reset_Ptr(p) \/ Release_Ptr(p)
             \/ AddRef(p) \/ ReleaseRef(p) \/ PointCopy(p) \/ PointMove(p) \/ PointClear(p)

PtrSpec == PtrInit /\ [][PtrNext]_ptrVars
-----------------------------------------------------------------------------
PtrTypeOK ==
  /\ m_pointer \in [Pointers -> Objects \cup {NoObject}]
  /\ m_refCount \in [Objects -> Nat] /\ raw \in [Objects -> Nat]
  /\ exists \subseteq Objects
  /\ does \in [Pointers -> {"nothing", "add", "copy", "move", "clear"} \cup DOMAIN Releasing]
  /\ other \in [Pointers -> Pointers]
  /\ misused \in BOOLEAN

\* The pointers whose reference to o is counted.
Counted_Ptr(o) == {p \in Pointers : m_pointer[p] = o /\ does[p] \in {"nothing"} \cup DOMAIN Releasing}

\* The count of an object is the number of its references, an object that nobody
\* refers to or is about to does not exist, and none is used after it has been
\* destroyed, or destroyed twice, whoever drops the last reference.
ReferencesExact ==
  /\ ~misused
  /\ \A o \in Objects :
       /\ o \in exists => m_refCount[o] = Cardinality(Counted_Ptr(o)) + raw[o]
       /\ o \in exists /\ m_refCount[o] = 0 => \E p \in Pointers : m_pointer[p] = o /\ does[p] = "add"
       /\ o \notin exists => Counted_Ptr(o) = {} /\ raw[o] = 0
=============================================================================
