---------------------------- MODULE MessageQueue ----------------------------
(***************************************************************************)
(* The message queue for elements that do not fit into a word              *)
(* (LargeMessageQueue in _cmsis_rtos/messagequeue.hpp) with its parts: the *)
(* semaphore that counts the free slots, the shared memory pool, and the   *)
(* SmallMessageQueue, which passes the pointers through the kernel's ring. *)
(*                                                                         *)
(* A step is one call of the kernel, or the construction or destruction of *)
(* an element in a chunk that the thread holds. The constructors of the    *)
(* element may throw.                                                      *)
(***************************************************************************)
EXTENDS FreeList, Sequences, FiniteSets

CONSTANTS Senders, Receivers, Elements

ASSUME SendersAreNoReceivers == Senders \cap Receivers = {}
ASSUME ElementsAreNoPointers == Elements \cap Links = {}

Threads == Senders \cup Receivers

VARIABLES
  m_numAvailable,  \* the tokens of the semaphore
  m_pointerQueue,  \* the ring of pointers
  pc,              \* where each thread is
  mem,             \* its local mem
  value,           \* the element it sends or has received
  lostTokens,      \* the tokens and
  lostChunks       \* the chunks that throwing constructors have cost so far

lostVars == <<lostTokens, lostChunks>>
vars == <<poolVars, m_numAvailable, m_pointerQueue, pc, mem, value, lostVars>>

Init ==
  /\ FreeListInit
  /\ m_numAvailable = NumElem
  /\ m_pointerQueue = <<>>
  /\ pc = [t \in Threads |-> "idle"]
  /\ mem = [t \in Threads |-> Null]
  /\ value = [t \in Threads |-> Null]
  /\ lostTokens = 0
  /\ lostChunks = 0

From(t, l, m) == pc[t] = l /\ pc' = [pc EXCEPT ![t] = m]
Hold(t, c) == mem' = [mem EXCEPT ![t] = c]
Value(t, e) == value' = [value EXCEPT ![t] = e]
-----------------------------------------------------------------------------
(* send(element) and try_send(element), by copy or by move. *)

Send(s) ==
  /\ \E l \in {"wait", "try_wait"} : From(s, "idle", l)
  /\ \E e \in Elements : Value(s, e)
  /\ UNCHANGED <<poolVars, m_numAvailable, m_pointerQueue, mem, lostVars>>

\* A sender that looks at the semaphore but takes no token.
Send_Wait_NoToken(s) ==
  /\ From(s, pc[s], "alloc") /\ pc[s] \in {"wait", "try_wait"}
  /\ m_numAvailable > 0
  /\ UNCHANGED <<poolVars, m_numAvailable, m_pointerQueue, mem, value, lostVars>>

\* m_numAvailable.wait() or try_wait()
Send_Wait(s) ==
  /\ From(s, pc[s], "alloc") /\ pc[s] \in {"wait", "try_wait"}
  /\ m_numAvailable > 0
  /\ m_numAvailable' = m_numAvailable - 1
  /\ UNCHANGED <<poolVars, m_pointerQueue, mem, value, lostVars>>

\* try_send() on a full queue
Send_Full(s) ==
  /\ From(s, "try_wait", "idle")
  /\ m_numAvailable = 0
  /\ Value(s, Null)
  /\ UNCHANGED <<poolVars, m_numAvailable, m_pointerQueue, mem, lostVars>>

Send_Allocate(s) ==
  /\ From(s, "alloc", "construct")
  /\ PopChunk
  /\ Hold(s, m_first)
  /\ UNCHANGED <<m_numAvailable, m_pointerQueue, value, lostVars>>

Send_Construct(s) ==
  /\ From(s, "construct", "put")
  /\ memory' = [memory EXCEPT ![mem[s]] = value[s]]
  /\ UNCHANGED <<m_first, m_numAvailable, m_pointerQueue, mem, value, lostVars>>

\* A sender without unique_ptr.
Send_Throws_NoFree(s) ==
  /\ From(s, "construct", "idle")
  /\ Hold(s, Null) /\ Value(s, Null)
  /\ lostTokens' = lostTokens + 1
  /\ UNCHANGED <<poolVars, m_numAvailable, m_pointerQueue, lostChunks>>

\* The constructor throws: unique_ptr gives the chunk back; the token is gone.
Send_Throws(s) ==
  /\ From(s, "construct", "idle")
  /\ PushChunk(mem[s])
  /\ Hold(s, Null) /\ Value(s, Null)
  /\ lostTokens' = lostTokens + 1
  /\ UNCHANGED <<m_numAvailable, m_pointerQueue, lostChunks>>

\* The pointer goes into the ring.
Send_Put(s) ==
  /\ From(s, "put", "idle")
  /\ Len(m_pointerQueue) < NumElem
  /\ m_pointerQueue' = Append(m_pointerQueue, mem[s])
  /\ Hold(s, Null) /\ Value(s, Null)
  /\ UNCHANGED <<poolVars, m_numAvailable, lostVars>>
-----------------------------------------------------------------------------
(* receive() and try_receive(value). *)

Receive(r) ==
  /\ \E l \in {"get", "try_get"} : From(r, "idle", l)
  /\ UNCHANGED <<poolVars, m_numAvailable, m_pointerQueue, mem, value, lostVars>>

\* A receiver that gives the chunk back as soon as it has the pointer.
Receive_Get_Free(r) ==
  /\ From(r, pc[r], "move") /\ pc[r] \in {"get", "try_get"}
  /\ m_pointerQueue # <<>>
  /\ Hold(r, Head(m_pointerQueue))
  /\ PushChunk(Head(m_pointerQueue))
  /\ m_pointerQueue' = Tail(m_pointerQueue)
  /\ UNCHANGED <<m_numAvailable, value, lostVars>>

Receive_Get(r) ==
  /\ From(r, pc[r], "move") /\ pc[r] \in {"get", "try_get"}
  /\ m_pointerQueue # <<>>
  /\ Hold(r, Head(m_pointerQueue))
  /\ m_pointerQueue' = Tail(m_pointerQueue)
  /\ UNCHANGED <<poolVars, m_numAvailable, value, lostVars>>

\* A try_receive() that posts whether it has received or not.
Receive_Empty_Post(r) ==
  /\ From(r, "try_get", "idle")
  /\ m_pointerQueue = <<>>
  /\ m_numAvailable' = m_numAvailable + 1
  /\ UNCHANGED <<poolVars, m_pointerQueue, mem, value, lostVars>>

\* try_receive() on an empty queue
Receive_Empty(r) ==
  /\ From(r, "try_get", "idle")
  /\ m_pointerQueue = <<>>
  /\ UNCHANGED <<poolVars, m_numAvailable, m_pointerQueue, mem, value, lostVars>>

\* The element is moved out of the chunk, and the rest of it destroyed.
Receive_Move(r) ==
  /\ From(r, "move", "free")
  /\ Value(r, memory[mem[r]])
  /\ UNCHANGED <<poolVars, m_numAvailable, m_pointerQueue, mem, lostVars>>

\* The move throws: there is no unique_ptr here, so the chunk and its token are gone.
Receive_Throws(r) ==
  /\ From(r, "move", "idle")
  /\ Hold(r, Null)
  /\ lostTokens' = lostTokens + 1 /\ lostChunks' = lostChunks + 1
  /\ UNCHANGED <<poolVars, m_numAvailable, m_pointerQueue, value>>

Receive_Free(r) ==
  /\ From(r, "free", "post")
  /\ PushChunk(mem[r])
  /\ Hold(r, Null)
  /\ UNCHANGED <<m_numAvailable, m_pointerQueue, value, lostVars>>

\* A receiver that forgets the semaphore.
Receive_Post_None(r) ==
  /\ From(r, "post", "idle")
  /\ Value(r, Null)
  /\ UNCHANGED <<poolVars, m_numAvailable, m_pointerQueue, mem, lostVars>>

\* The element is the caller's.
Receive_Post(r) ==
  /\ From(r, "post", "idle")
  /\ m_numAvailable' = m_numAvailable + 1
  /\ Value(r, Null)
  /\ UNCHANGED <<poolVars, m_pointerQueue, mem, lostVars>>
-----------------------------------------------------------------------------

Sender(s) == \/ Send_Wait(s) \/ Send_Full(s) \/ Send_Allocate(s)
             \/ Send_Construct(s) \/ Send_Throws(s) \/ Send_Put(s)

Receiver(r) == \/ Receive_Get(r) \/ Receive_Empty(r) \/ Receive_Move(r)
               \/ Receive_Throws(r) \/ Receive_Free(r) \/ Receive_Post(r)

Next == \/ \E s \in Senders : Send(s) \/ Sender(s)
        \/ \E r \in Receivers : Receive(r) \/ Receiver(r)

Spec == Init /\ [][Next]_vars

\* Threads go on; of those that wait for a token or a pointer, each is served at
\* some time. Nobody has to call.
Fairness == /\ \A s \in Senders : WF_vars(Sender(s)) /\ SF_vars(Send_Wait(s))
            /\ \A r \in Receivers : WF_vars(Receiver(r)) /\ SF_vars(Receive_Get(r))

FairSpec == Spec /\ Fairness
-----------------------------------------------------------------------------
(* Properties *)

\* Types; the semaphore never counts more slots than there are.
TypeOK ==
  /\ m_first \in Links
  /\ memory \in [Chunks -> Links \cup Elements]
  /\ m_numAvailable \in 0 .. NumElem
  /\ m_pointerQueue \in Seq(Chunks)
  /\ \A s \in Senders : pc[s] \in {"idle", "wait", "try_wait", "alloc", "construct", "put"}
  /\ \A r \in Receivers : pc[r] \in {"idle", "get", "try_get", "move", "free", "post"}
  /\ mem \in [Threads -> Links]
  /\ value \in [Threads -> Elements \cup {Null}]
  /\ lostTokens \in 0 .. NumElem /\ lostChunks \in 0 .. NumElem

\* The chunks in use: by a thread, or by an element in the ring.
Held == {mem[t] : t \in Threads} \ {Null}
Queued == {m_pointerQueue[k] : k \in 1 .. Len(m_pointerQueue)}

\* No chunk is in two places at once, on the free list, in the ring or in the
\* hands of a thread, and none disappears but by a receiver whose move throws. So
\* the two assertions of send() and try_send() hold: a thread that got a token
\* finds a free chunk and, once it has filled it, room in the ring.
ChunksExact ==
  /\ \A t, u \in Threads : mem[t] = mem[u] /\ mem[t] # Null => t = u
  /\ Cardinality(Queued) = Len(m_pointerQueue)
  /\ Held \cap Queued = {} /\ FreeChunks \cap (Held \cup Queued) = {}
  /\ Cardinality(FreeChunks \cup Held \cup Queued) = NumElem - lostChunks
  /\ \A s \in Senders : /\ pc[s] = "alloc" => m_first # Null
                        /\ pc[s] = "put" => Len(m_pointerQueue) < NumElem

\* The message queue is a bounded queue. It contains what is in the chunks of the
\* ring, and a receiver has its element from the moment it takes the pointer, though
\* it reads the chunk later.
Abstract == INSTANCE BoundedQueue WITH
  Capacity <- NumElem, Nothing <- Null,
  queue <- [k \in 1 .. Len(m_pointerQueue) |-> memory[m_pointerQueue[k]]],
  got <- [r \in Receivers |-> IF pc[r] = "move" THEN memory[mem[r]] ELSE value[r]]
ImplementsQueue == Abstract!BQSpec

\* As long as all receivers keep calling, a sender that waits for a slot gets one,
\* unless throwing constructors have used them up.
SenderServed ==
  (\A r \in Receivers : []<>(pc[r] # "idle")) =>
    \A s \in Senders : pc[s] = "wait" ~> pc[s] # "wait" \/ lostTokens = NumElem
=============================================================================
