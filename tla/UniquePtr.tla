------------------------------ MODULE UniquePtr ------------------------------
(***************************************************************************)
(* unique_ptr (_armcc/_memory.hpp) with deleters that differ: each object  *)
(* comes from one of several pools and has to go back to it.  An object    *)
(* has a unique_ptr for a member, as in a list, so that its destructor     *)
(* destroys others.  All is done by one thread; a step is one change of a  *)
(* pointer, or the destruction of one object.                              *)
(***************************************************************************)
EXTENDS Naturals, Sequences, FiniteSets

CONSTANTS
  UniquePtrs,     \* the pointers of the program
  Owned,          \* memory for objects; each stands for its member, too
  Deleters,
  Nullptr

ASSUME NullptrIsNew == Nullptr \notin UniquePtrs \cup Owned /\ UniquePtrs \cap Owned = {}
ASSUME OwnedFinite == IsFiniteSet(Owned) /\ Deleters # {}

PtrPlaces == UniquePtrs \cup Owned

VARIABLES
  uPointer, uDeleter,   \* the two members of m_pointerDeleter
  origin,               \* where each existing object comes from
  live,                 \* the objects that exist
  handedOut,            \* those that release() has handed to the program
  dying,                \* the deleters that are being called, with their arguments
  after,                \* the assignment of a deleter that follows: <<from, to>>
  wrong                 \* history: an object was deleted twice or by another deleter

uniqueVars == <<uPointer, uDeleter, origin, live, handedOut, dying, after, wrong>>

SomeDeleter == CHOOSE d \in Deleters : TRUE

UniqueInit == /\ uPointer = [h \in PtrPlaces |-> Nullptr]
              /\ uDeleter = [h \in PtrPlaces |-> SomeDeleter]
              /\ origin = [o \in Owned |-> SomeDeleter]
              /\ live = {} /\ handedOut = {} /\ dying = <<>> /\ after = <<>>
              /\ wrong = FALSE

\* No call is under way, and h exists.
Usable_Unique(h) == dying = <<>> /\ after = <<>> /\ h \in UniquePtrs \cup live

\* No object owns itself, directly or through others: the program sees to it.  There is
\* a rank that falls from each object to the one it owns.
OwnsNoCycle(ptrs) ==
  \E rank \in [Owned -> 0 .. Cardinality(Owned)] :
    \A o \in Owned : ptrs[o] # Nullptr => rank[ptrs[o]] < rank[o]

\* reset(ptr) stores ptr, and then deletes what was there before.
Reset_To(ptrs, h, ptr, next) ==
  /\ uPointer' = [ptrs EXCEPT ![h] = ptr]
  /\ dying' = IF ptrs[h] \in {ptr, Nullptr} THEN <<>> ELSE << <<ptrs[h], uDeleter[h]>> >>
  /\ after' = next
-----------------------------------------------------------------------------
\* unique_ptr(ptr, deleter) and make_unique().
Unique_Construct(h, o, d) ==
  /\ Usable_Unique(h) /\ uPointer[h] = Nullptr
  /\ o \notin live /\ live' = live \cup {o}
  /\ origin' = [origin EXCEPT ![o] = d]
  /\ uPointer' = [uPointer EXCEPT ![h] = o, ![o] = Nullptr]
  /\ uDeleter' = [uDeleter EXCEPT ![h] = d, ![o] = d]
  /\ UNCHANGED <<handedOut, dying, after, wrong>>

\* unique_ptr(unique_ptr&&)
Unique_Move(h, q) ==
  /\ h # q /\ Usable_Unique(h) /\ Usable_Unique(q) /\ uPointer[h] = Nullptr
  /\ uPointer' = [uPointer EXCEPT ![h] = uPointer[q], ![q] = Nullptr]
  /\ OwnsNoCycle(uPointer')
  /\ uDeleter' = [uDeleter EXCEPT ![h] = uDeleter[q]]
  /\ UNCHANGED <<origin, live, handedOut, dying, after, wrong>>

\* ~unique_ptr, = nullptr, reset()
Unique_Reset(h) ==
  /\ Usable_Unique(h) /\ uPointer[h] # Nullptr
  /\ Reset_To(uPointer, h, Nullptr, <<>>)
  /\ UNCHANGED <<uDeleter, origin, live, handedOut, wrong>>

\* reset(ptr), with an object that the deleter of h can delete.
Unique_ResetTo(h, o) ==
  /\ Usable_Unique(h) /\ o \in handedOut /\ origin[o] = uDeleter[h]
  /\ Reset_To(uPointer, h, o, <<>>) /\ OwnsNoCycle(uPointer')
  /\ handedOut' = handedOut \ {o}
  /\ UNCHANGED <<uDeleter, origin, live, wrong>>

Unique_Release(h) ==
  /\ Usable_Unique(h) /\ uPointer[h] # Nullptr
  /\ handedOut' = handedOut \cup {uPointer[h]}
  /\ uPointer' = [uPointer EXCEPT ![h] = Nullptr]
  /\ UNCHANGED <<uDeleter, origin, live, dying, after, wrong>>

\* An assignment that takes the deleter first.
Unique_Assign_DeleterFirst(h, q) ==
  /\ Usable_Unique(h) /\ Usable_Unique(q)
  /\ uDeleter' = [uDeleter EXCEPT ![h] = uDeleter[q]]
  /\ uPointer' = [uPointer EXCEPT ![q] = Nullptr, ![h] = uPointer[q]]
  /\ dying' = IF h = q \/ uPointer[h] = Nullptr THEN <<>> ELSE << <<uPointer[h], uDeleter[q]>> >>
  /\ OwnsNoCycle(uPointer')
  /\ UNCHANGED <<origin, live, handedOut, after, wrong>>

\* operator=(unique_ptr&&): reset(other.release()), and then the deleter of other, which
\* must still exist: it is no member of an object that goes.
Unique_Assign(h, q) ==
  /\ Usable_Unique(h) /\ Usable_Unique(q)
  /\ h # q /\ uPointer[h] # Nullptr => q \notin Owned
  /\ Reset_To([uPointer EXCEPT ![q] = Nullptr], h, uPointer[q], <<q, h>>)
  /\ OwnsNoCycle(uPointer')
  /\ UNCHANGED <<uDeleter, origin, live, handedOut, wrong>>

Unique_Swap(h, q) ==
  /\ h # q /\ Usable_Unique(h) /\ Usable_Unique(q)
  /\ uPointer' = [uPointer EXCEPT ![h] = uPointer[q], ![q] = uPointer[h]]
  /\ uDeleter' = [uDeleter EXCEPT ![h] = uDeleter[q], ![q] = uDeleter[h]]
  /\ OwnsNoCycle(uPointer')
  /\ UNCHANGED <<origin, live, handedOut, dying, after, wrong>>

\* The deleter destroys the object, whose member then resets itself.
Unique_Delete ==
  /\ dying # <<>>
  /\ LET o == Head(dying)[1]
         later == Tail(dying)
     IN /\ wrong' = (wrong \/ o \notin live \/ origin[o] # Head(dying)[2]
                       \/ \E h \in UniquePtrs \cup live : uPointer[h] = o)
        /\ live' = live \ {o}
        /\ uPointer' = [uPointer EXCEPT ![o] = Nullptr]
        /\ uDeleter' = [uDeleter EXCEPT ![o] = SomeDeleter]
        /\ origin' = [origin EXCEPT ![o] = SomeDeleter]
        /\ dying' = IF uPointer[o] = Nullptr THEN later ELSE << <<uPointer[o], uDeleter[o]>> >> \o later
  /\ UNCHANGED <<handedOut, after>>

Unique_TakeDeleter ==
  /\ dying = <<>> /\ after # <<>> /\ after' = <<>>
  /\ uDeleter' = [uDeleter EXCEPT ![after[2]] = uDeleter[after[1]]]
  /\ UNCHANGED <<uPointer, origin, live, handedOut, dying, wrong>>

UniqueNext ==
  \/ Unique_Delete \/ Unique_TakeDeleter
  \/ \E h \in PtrPlaces :
       \/ Unique_Reset(h) \/ Unique_Release(h)
       \/ \E o \in Owned : Unique_ResetTo(h, o) \/ \E d \in Deleters : Unique_Construct(h, o, d)
       \/ \E q \in PtrPlaces : Unique_Move(h, q) \/ Unique_Assign(h, q) \/ Unique_Swap(h, q)

UniqueSpec == UniqueInit /\ [][UniqueNext]_uniqueVars
-----------------------------------------------------------------------------
UniqueTypeOK ==
  /\ uPointer \in [PtrPlaces -> Owned \cup {Nullptr}] /\ uDeleter \in [PtrPlaces -> Deleters]
  /\ origin \in [Owned -> Deleters]
  /\ live \subseteq Owned /\ handedOut \subseteq live
  /\ dying \in Seq(Owned \X Deleters) /\ after \in {<<>>} \cup (PtrPlaces \X PtrPlaces)
  /\ wrong \in BOOLEAN

\* However pointers are moved, reset, assigned and swapped, each object has exactly
\* one owner, or is just being deleted; when it is deleted nobody points to it, and
\* the deleter is the one it belongs to.
UniqueExact ==
  /\ ~wrong
  /\ \A o \in live : Cardinality({h \in UniquePtrs \cup live : uPointer[h] = o})
                       + Cardinality({i \in DOMAIN dying : dying[i][1] = o})
                       = IF o \in handedOut THEN 0 ELSE 1
  /\ dying = <<>> /\ after = <<>> =>
       \A h \in UniquePtrs \cup live : uPointer[h] # Nullptr => origin[uPointer[h]] = uDeleter[h]
=============================================================================
