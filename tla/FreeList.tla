------------------------------ MODULE FreeList ------------------------------
(***************************************************************************)
(* The free list of a memory pool (memorypool.hpp).  The pointer to the    *)
(* next free chunk is stored in the chunk itself, in the same memory that  *)
(* holds the element while the chunk is allocated.  The kernel works on    *)
(* the same list for the shared pools, each call being one critical        *)
(* section.                                                                *)
(***************************************************************************)
EXTENDS Naturals

CONSTANTS
  NumElem,  \* the number of chunks
  Null      \* nullptr

ASSUME NumElemType == NumElem \in Nat \ {0}
ASSUME NullIsNoChunk == Null \notin 1 .. NumElem

Chunks == 1 .. NumElem   \* by address
Links == Chunks \cup {Null}

VARIABLES
  m_first,  \* the first free chunk
  memory    \* the contents of each chunk: a pointer or an element

poolVars == <<m_first, memory>>

\* The constructor links the chunks from the last one to the first.
FreeListInit == /\ m_first = 1
                /\ memory = [c \in Chunks |-> IF c = NumElem THEN Null ELSE c + 1]

\* try_allocate() of a pool that is not empty; the chunk is m_first.
PopChunk == /\ m_first # Null
            /\ m_first' = memory[m_first]
            /\ UNCHANGED memory

\* free(chunk)
PushChunk(c) == /\ memory' = [memory EXCEPT ![c] = m_first]
                /\ m_first' = c

\* The chunks that can still be allocated, by following the pointers from the first
\* one. What is no pointer, an element in a chunk that was not given back, ends the
\* list.
FreeChunks ==
  LET at[k \in Chunks] == IF k = 1 THEN m_first
                          ELSE IF at[k - 1] \in Chunks THEN memory[at[k - 1]] ELSE Null
  IN {at[k] : k \in Chunks} \cap Chunks
=============================================================================
