------------------------------- MODULE ObjectPool -------------------------------
(***************************************************************************)
(* Object pools (objectpool.hpp) on the memory pools.  A chunk belongs to  *)
(* a unique_ptr, whose deleter gives it back, until the object in it has   *)
(* been constructed.  Several threads share the pool; each operation of    *)
(* the memory pool is atomic, the constructors and destructors between     *)
(* them are not.                                                           *)
(***************************************************************************)
EXTENDS FreeList, FiniteSets

CONSTANTS
  PoolUsers,   \* the threads
  Element      \* what an object leaves in its memory

ASSUME ElementIsNoLink == Element \notin Links

VARIABLES
  poolAt,    \* where each thread is: "out", "construct", or "free"
  chunk,     \* the chunk in its unique_ptr, or the one it destroys
  objects    \* the objects that the client has and may destroy

objectPoolVars == <<poolVars, poolAt, chunk, objects>>

ObjectPoolInit == /\ FreeListInit
                  /\ poolAt = [u \in PoolUsers |-> "out"]
                  /\ chunk = [u \in PoolUsers |-> Null]
                  /\ objects = {}

PoolStep(u, a, b) == poolAt[u] = a /\ poolAt' = [poolAt EXCEPT ![u] = b]

\* try_construct() with a chunk; without one it returns a null-pointer, and so
\* does try_construct_for(), whose timeout nobody reads.
TryConstruct_Allocate(u) == /\ PoolStep(u, "out", "construct")
                            /\ PopChunk
                            /\ chunk' = [chunk EXCEPT ![u] = m_first]
                            /\ UNCHANGED objects

\* new (mem.get()) element_type(...), and mem.release() ...
TryConstruct_Release(u) == /\ PoolStep(u, "construct", "out")
                           /\ memory' = [memory EXCEPT ![chunk[u]] = Element]
                           /\ objects' = objects \cup {chunk[u]}
                           /\ chunk' = [chunk EXCEPT ![u] = Null]
                           /\ UNCHANGED m_first

\* ... or the constructor throws, when it has already written to the chunk.
TryConstruct_Throws_Released(u) == /\ PoolStep(u, "construct", "out")
                                   /\ memory' = [memory EXCEPT ![chunk[u]] = Element]
                                   /\ chunk' = [chunk EXCEPT ![u] = Null]
                                   /\ UNCHANGED <<m_first, objects>>

TryConstruct_Throws(u) == /\ PoolStep(u, "construct", "free")
                          /\ memory' = [memory EXCEPT ![chunk[u]] = Element]
                          /\ UNCHANGED <<m_first, chunk, objects>>

\* destroy(): the destructor of the element.
Destroy_Element(u, c) == /\ c \in objects
                         /\ PoolStep(u, "out", "free")
                         /\ chunk' = [chunk EXCEPT ![u] = c]
                         /\ objects' = objects \ {c}
                         /\ UNCHANGED poolVars

\* m_pool.free(p)
Free_Chunk(u) == /\ PoolStep(u, "free", "out")
                 /\ PushChunk(chunk[u])
                 /\ chunk' = [chunk EXCEPT ![u] = Null]
                 /\ UNCHANGED objects

ObjectPoolNext == \E u \in PoolUsers :
  \/ TryConstruct_Allocate(u) \/ TryConstruct_Release(u) \/ TryConstruct_Throws(u)
  \/ \E c \in Chunks : Destroy_Element(u, c)
  \/ Free_Chunk(u)

ObjectPoolSpec == ObjectPoolInit /\ [][ObjectPoolNext]_objectPoolVars
-----------------------------------------------------------------------------
ObjectPoolTypeOK == /\ m_first \in Links
                    /\ memory \in [Chunks -> Links \cup {Element}]
                    /\ poolAt \in [PoolUsers -> {"out", "construct", "free"}]
                    /\ chunk \in [PoolUsers -> Links]
                    /\ objects \subseteq Chunks

\* Whatever constructors throw, and while others construct and destroy: no chunk is
\* free and in use, or used twice, none is lost, and no object that the client has
\* is overwritten by a link of the free list.
PoolExact ==
  LET inCalls == {chunk[u] : u \in PoolUsers} \ {Null}
  IN  /\ \A u, v \in PoolUsers : chunk[u] = chunk[v] /\ chunk[u] # Null => u = v
      /\ FreeChunks \cap inCalls = {} /\ FreeChunks \cap objects = {} /\ inCalls \cap objects = {}
      /\ FreeChunks \cup inCalls \cup objects = Chunks
      /\ \A c \in objects : memory[c] = Element
=============================================================================
