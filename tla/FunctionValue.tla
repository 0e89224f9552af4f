----------------------------- MODULE FunctionValue -----------------------------
(***************************************************************************)
(* std::function (_armcc/_functional.hpp): who owns which copy of a        *)
(* callable.  A small callable lives in the storage of the function        *)
(* object, any other on the heap.  m_invoker points to the one or to the   *)
(* other, and its value decides how the callable is copied and destroyed.  *)
(***************************************************************************)
EXTENDS Naturals, FiniteSets

CONSTANTS
  Functions,     \* the function objects of the client
  Temporary,     \* the function object that an assignment makes
  tempStorage,   \* the storage on the stack of swap()
  Heap,          \* the heap blocks for callables
  Small,         \* callables that fit in place and are copied without exceptions
  Large,         \* the others
  NoCallable     \* a null pointer; a place where no callable lives

FunctionObjects == Functions \cup {Temporary}

ASSUME HeapSuffices == /\ IsFiniteSet(Heap) /\ IsFiniteSet(Functions)
                       /\ Cardinality(Heap) > Cardinality(Functions)
ASSUME PlacesDiffer == /\ Temporary \notin Functions /\ FunctionObjects \cap Heap = {}
                       /\ tempStorage \notin FunctionObjects \cup Heap
ASSUME NoCallableIsNew ==
  NoCallable \notin FunctionObjects \cup {tempStorage} \cup Heap \cup Small \cup Large

Places == FunctionObjects \cup {tempStorage} \cup Heap   \* f is the storage of f, too

VARIABLES
  m_invoker,   \* the place to which each function object points
  lives,       \* the callable that lives in each place
  clobbered,   \* history: a callable was made on top of one, or copied or destroyed where none is
  means        \* history: what the C++ standard says each function holds

functionVars == <<m_invoker, lives, clobbered, means>>

\* The memory is one record, so that the steps of a call compose.
Memory == [invoker |-> m_invoker, at |-> lives, bad |-> clobbered]

FunctionInit == /\ m_invoker = [f \in FunctionObjects |-> NoCallable]
                /\ lives = [p \in Places |-> NoCallable]
                /\ clobbered = FALSE
                /\ means = [f \in Functions |-> NoCallable]
-----------------------------------------------------------------------------
(* Invoker: copies and destroys one callable. *)

\* new (to) Invoker(c)
Make(s, c, to) == [s EXCEPT !.at[to] = c, !.bad = @ \/ s.at[to] # NoCallable]

\* clone(memory)
CloneTo(s, from, to) == [Make(s, s.at[from], to) EXCEPT !.bad = @ \/ s.at[from] = NoCallable]

\* destroy(), and destroyAndDeallocate() of a heap block
DestroyAt(s, p) == [s EXCEPT !.at[p] = NoCallable, !.bad = @ \/ s.at[p] = NoCallable]

PointTo(s, f, p) == [s EXCEPT !.invoker[f] = p]

\* allocate(1)
NewBlock(s) == CHOOSE p \in Heap : s.at[p] = NoCallable

Inplace(s, f) == s.invoker[f] = f
Empty(s, f) == s.invoker[f] = NoCallable
-----------------------------------------------------------------------------
(* The members of function, on the memory s. *)

\* function(TCallable): in place or on the heap.
Constructed(s, f, c) ==
  LET p == IF c \in Small THEN f ELSE NewBlock(s)
  IN  IF c = NoCallable THEN PointTo(s, f, NoCallable) ELSE Make(PointTo(s, f, p), c, p)

\* function(const function&)
Copied(s, f, g) ==
  LET p == IF Inplace(s, g) THEN f ELSE NewBlock(s)
  IN  IF Empty(s, g) THEN PointTo(s, f, NoCallable) ELSE CloneTo(PointTo(s, f, p), s.invoker[g], p)

\* function(function&&): a small callable is copied and stays in other, too.
Moved_Keep(s, f, g) == IF Inplace(s, g) THEN CloneTo(PointTo(s, f, f), g, f)
                       ELSE PointTo(s, f, s.invoker[g])

Moved(s, f, g) == IF Inplace(s, g) THEN CloneTo(PointTo(s, f, f), g, f)
                  ELSE PointTo(PointTo(s, f, s.invoker[g]), g, NoCallable)

\* release()
Released(s, f) == PointTo(IF Empty(s, f) THEN s ELSE DestroyAt(s, s.invoker[f]), f, NoCallable)

Relocated(s, from, to) == DestroyAt(CloneTo(s, from, to), from)

\* swap(): two small callables change places through some temporary storage.
Swapped(s, f, g) ==
  IF Inplace(s, f) /\ Inplace(s, g)
    THEN Relocated(Relocated(Relocated(s, f, tempStorage), g, f), tempStorage, g)
  ELSE IF Inplace(s, g)
    THEN PointTo(PointTo(Relocated(s, g, f), g, s.invoker[f]), f, f)
  ELSE IF Inplace(s, f)
    THEN PointTo(PointTo(Relocated(s, f, g), f, s.invoker[g]), g, g)
  ELSE PointTo(PointTo(s, f, s.invoker[g]), g, s.invoker[f])
-----------------------------------------------------------------------------
(* The calls of the client.  What throws, an allocation or the copy of a   *)
(* large callable, throws before anything has changed.                      *)

Becomes(s) == m_invoker' = s.invoker /\ lives' = s.at /\ clobbered' = s.bad

\* A function that was destroyed, or not yet constructed, owns nothing.
Construct_Function(f, c) == /\ Empty(Memory, f)
                            /\ Becomes(Constructed(Memory, f, c))
                            /\ means' = [means EXCEPT ![f] = c]

Copy_Function(f, g) == /\ f # g /\ Empty(Memory, f)
                       /\ Becomes(Copied(Memory, f, g))
                       /\ means' = [means EXCEPT ![f] = means[g]]

\* What is left in g is not specified, it is the code's business.
Left(g, s) == IF Empty(s, g) THEN NoCallable ELSE s.at[s.invoker[g]]

Move_Function(f, g) == /\ f # g /\ Empty(Memory, f)
                       /\ Becomes(Moved(Memory, f, g))
                       /\ means' = [means EXCEPT ![f] = means[g], ![g] = Left(g, Moved(Memory, f, g))]

\* operator=(function&&), where other may be *this: first release(), then as in the
\* constructor.
MoveAssign_Function(f, g) ==
  LET s == Moved(Released(Memory, f), f, g)
  IN  /\ Becomes(IF f = g THEN Released(Memory, f) ELSE s)
      /\ means' = IF f = g THEN [means EXCEPT ![f] = NoCallable]
                  ELSE [means EXCEPT ![f] = means[g], ![g] = Left(g, s)]

\* function(x).swap(*this)
SwapWith(s, f) == Becomes(Released(Swapped(s, Temporary, f), Temporary))

Assign_Function(f, g) == /\ SwapWith(Copied(Memory, Temporary, g), f)
                         /\ means' = [means EXCEPT ![f] = means[g]]

Assign_Callable(f, c) == /\ SwapWith(Constructed(Memory, Temporary, c), f)
                         /\ means' = [means EXCEPT ![f] = c]

Swap_Functions(f, g) == /\ f # g
                        /\ Becomes(Swapped(Memory, f, g))
                        /\ means' = [means EXCEPT ![f] = means[g], ![g] = means[f]]

\* ~function(), = nullptr
Release_Function(f) == /\ Becomes(Released(Memory, f))
                       /\ means' = [means EXCEPT ![f] = NoCallable]

FunctionNext == \E f \in Functions :
  \/ \E c \in Small \cup Large \cup {NoCallable} : Construct_Function(f, c) \/ Assign_Callable(f, c)
  \/ \E g \in Functions : \/ Copy_Function(f, g) \/ Move_Function(f, g)
                          \/ Assign_Function(f, g) \/ MoveAssign_Function(f, g)
                          \/ Swap_Functions(f, g)
  \/ Release_Function(f)

FunctionSpec == FunctionInit /\ [][FunctionNext]_functionVars
-----------------------------------------------------------------------------
FunctionTypeOK ==
  /\ m_invoker \in [FunctionObjects -> FunctionObjects \cup Heap \cup {NoCallable}]
  /\ lives \in [Places -> Small \cup Large \cup {NoCallable}]
  /\ clobbered \in BOOLEAN
  /\ means \in [Functions -> Small \cup Large \cup {NoCallable}]

\* After any sequence of copies, moves, swaps and assignments, a function holds the
\* callable that C++ says it holds; every callable that lives belongs to one
\* function, so that it is destroyed once and none leaks; nobody points into the
\* storage of another function or of a call that has returned.
CallablesOwned ==
  /\ ~clobbered
  /\ \A f \in Functions : means[f] = (IF m_invoker[f] = NoCallable THEN NoCallable ELSE lives[m_invoker[f]])
  /\ \A f \in FunctionObjects : m_invoker[f] \in {f, NoCallable} \cup Heap
  /\ \A p \in Places : Cardinality({f \in FunctionObjects : m_invoker[f] = p})
                         = (IF lives[p] = NoCallable THEN 0 ELSE 1)
=============================================================================
