------------------------- MODULE MessageQueue_proofs -------------------------
(***************************************************************************)
(* The safety of the large message queue, and that it is a bounded queue,  *)
(* for any number of slots, senders, receivers and elements.  The          *)
(* argument: every slot is accounted for twice, as a token and as a chunk. *)
(* A thread that has a token but no chunk is between the two parts, so     *)
(* there is a chunk for it; and a chunk in use is in the ring or with one  *)
(* thread, so there is room in the ring for it.                            *)
(***************************************************************************)
EXTENDS MessageQueue, Memory_proofs, SequenceTheorems

-----------------------------------------------------------------------------
(* The invariant. *)

\* Where a thread has a chunk.
Using == {"construct", "put", "move", "free"}

\* What a thread at l holds and has: its chunk c and its element v.
Local(t, l, c, v) ==
  /\ t \in Senders => /\ l \in {"idle", "wait", "try_wait", "alloc", "construct", "put"}
                      /\ l # "idle" => v \in Elements
  /\ t \in Receivers => /\ l \in {"idle", "get", "try_get", "move", "free", "post"}
                        /\ l \notin {"free", "post"} => v = Null
  /\ c \in Links /\ v \in Elements \cup {Null}
  /\ c # Null <=> l \in Using

\* The functions, with their domains.
Locals ==
  /\ pc = [t \in Threads |-> pc[t]] /\ mem = [t \in Threads |-> mem[t]]
  /\ value = [t \in Threads |-> value[t]]
  /\ \A t \in Threads : Local(t, pc[t], mem[t], value[t])

\* The threads that have a token, but no chunk.
Between == {t \in Threads : pc[t] \in {"alloc", "post"}}

\* The chunks that are not free, unless they are lost.
InUse == Held \cup Queued

\* No chunk is in two places.
Apart ==
  /\ \A t, u \in Threads : mem[t] = mem[u] /\ mem[t] # Null => t = u
  /\ \A i, j \in 1 .. Len(m_pointerQueue) : m_pointerQueue[i] = m_pointerQueue[j] => i = j
  /\ Held \cap Queued = {} /\ FreeChunks \cap InUse = {}

\* Every chunk, and every token, is somewhere or lost.
ChunkSum ==
  /\ IsFiniteSet(FreeChunks \cup InUse)
  /\ Cardinality(FreeChunks \cup InUse) + lostChunks = NumElem
  /\ lostChunks <= lostTokens
TokenSum ==
  /\ IsFiniteSet(InUse) /\ IsFiniteSet(Between)
  /\ m_numAvailable + Cardinality(Between) + Cardinality(InUse) + lostTokens = NumElem
  /\ IsFiniteSet(Queued) /\ Cardinality(Queued) = Len(m_pointerQueue)

\* What is in the ring, or on its way to it or from it, is an element.
Written(t) == /\ pc[t] = "put" => memory[mem[t]] = value[t]
              /\ pc[t] = "move" => memory[mem[t]] \in Elements
Contents == /\ \A t \in Threads : Written(t)
            /\ \A c \in Queued : memory[c] \in Elements

\* The types.
QTypes ==
  /\ memory \in [Chunks -> Links \cup Elements]
  /\ m_numAvailable \in Nat /\ lostTokens \in Nat /\ lostChunks \in Nat
  /\ m_pointerQueue \in Seq(Chunks)

\* The inductive invariant.
IInv == QTypes /\ Linked /\ Locals /\ Apart /\ ChunkSum /\ TokenSum /\ Contents
-----------------------------------------------------------------------------
(* Lemmas. *)

\* One element more ...
LEMMA Q_Added ==
  ASSUME NEW S, IsFiniteSet(S), NEW x, x \notin S, NEW T, T = S \cup {x}
  PROVE  /\ IsFiniteSet(T) /\ Cardinality(S) \in Nat /\ Cardinality(T) \in Nat
         /\ Cardinality(T) = Cardinality(S) + 1
BY FS_AddElement, FS_CardinalityType

\* ... and one less.
LEMMA Q_Removed ==
  ASSUME NEW S, IsFiniteSet(S), NEW x \in S, NEW T, T = S \ {x}
  PROVE  /\ IsFiniteSet(T) /\ Cardinality(S) \in Nat /\ Cardinality(T) \in Nat
         /\ Cardinality(S) = Cardinality(T) + 1
<1>1. IsFiniteSet(T) /\ Cardinality(S) \in Nat /\ Cardinality(T) \in Nat
  BY FS_RemoveElement, FS_CardinalityType
<1>2. Cardinality(T) = Cardinality(S) - 1
  BY FS_RemoveElement
<1> QED
  BY <1>1, <1>2

\* One thread goes on, with another chunk and another element.
LEMMA Q_Locals ==
  ASSUME Locals, NEW t \in Threads, NEW l, NEW c, NEW v, Local(t, l, c, v),
         pc' = [pc EXCEPT ![t] = l], mem' = [mem EXCEPT ![t] = c], value' = [value EXCEPT ![t] = v]
  PROVE  Locals'
<1>1. /\ pc' = [u \in Threads |-> pc'[u]] /\ mem' = [u \in Threads |-> mem'[u]]
      /\ value' = [u \in Threads |-> value'[u]]
  BY DEF Locals
<1>2. ASSUME NEW u \in Threads PROVE Local(u, pc'[u], mem'[u], value'[u])
  <2>1. CASE u = t
    <3>1. pc'[u] = l /\ mem'[u] = c /\ value'[u] = v
      BY <2>1 DEF Locals
    <3> QED
      BY <3>1, <2>1
  <2>2. CASE u # t
    <3>1. pc'[u] = pc[u] /\ mem'[u] = mem[u] /\ value'[u] = value[u]
      BY <2>2 DEF Locals
    <3> QED
      BY <3>1 DEF Locals
  <2> QED
    BY <2>1, <2>2
<1> QED
  BY <1>1, <1>2 DEF Locals, Local

\* A thread takes a chunk that none holds, ...
LEMMA Q_Take ==
  ASSUME Locals, Apart, NEW t \in Threads, NEW c \in Chunks, c \notin Held, mem[t] = Null,
         mem' = [mem EXCEPT ![t] = c]
  PROVE  /\ Held' = Held \cup {c}
         /\ \A u, w \in Threads : mem'[u] = mem'[w] /\ mem'[u] # Null => u = w
<1>1. mem'[t] = c /\ \A u \in Threads \ {t} : mem'[u] = mem[u]
  BY DEF Locals
<1>2. c # Null
  BY NullIsNoChunk DEF Chunks
<1>3. Held' = Held \cup {c}
  BY <1>1, <1>2 DEF Held
<1>4. ASSUME NEW u \in Threads, NEW w \in Threads, mem'[u] = mem'[w], mem'[u] # Null PROVE u = w
  <2>1. \A x \in Threads \ {t} : mem'[x] # c
    BY <1>1, <1>2 DEF Held
  <2> QED
    BY <1>1, <1>4, <2>1 DEF Apart
<1> QED
  BY <1>3, <1>4

\* ... or gives it up.
LEMMA Q_Give ==
  ASSUME Locals, Apart, NEW t \in Threads, mem[t] # Null, mem' = [mem EXCEPT ![t] = Null]
  PROVE  /\ mem[t] \in Held /\ Held' = Held \ {mem[t]}
         /\ \A u, w \in Threads : mem'[u] = mem'[w] /\ mem'[u] # Null => u = w
<1>1. mem'[t] = Null /\ \A u \in Threads \ {t} : mem'[u] = mem[u]
  BY DEF Locals
<1>2. \A u \in Threads \ {t} : mem[u] # mem[t]
  BY DEF Apart
<1>3. Held' = Held \ {mem[t]} /\ mem[t] \in Held
  BY <1>1, <1>2 DEF Held
<1>4. ASSUME NEW u \in Threads, NEW w \in Threads, mem'[u] = mem'[w], mem'[u] # Null PROVE u = w
  BY <1>1, <1>4 DEF Apart
<1> QED
  BY <1>3, <1>4

\* A chunk enters the ring, ...
LEMMA Q_Append ==
  ASSUME QTypes, Apart, NEW c \in Chunks, c \notin Queued,
         m_pointerQueue' = Append(m_pointerQueue, c)
  PROVE  /\ m_pointerQueue' \in Seq(Chunks) /\ Len(m_pointerQueue') = Len(m_pointerQueue) + 1
         /\ Queued' = Queued \cup {c}
         /\ \A i, j \in 1 .. Len(m_pointerQueue') : m_pointerQueue'[i] = m_pointerQueue'[j] => i = j
<1>1. m_pointerQueue \in Seq(Chunks) /\ Len(m_pointerQueue) \in Nat
  BY DEF QTypes
<1>2. m_pointerQueue' \in Seq(Chunks) /\ Len(m_pointerQueue') = Len(m_pointerQueue) + 1
  BY <1>1
<1>3. /\ m_pointerQueue'[Len(m_pointerQueue) + 1] = c
      /\ \A i \in 1 .. Len(m_pointerQueue) : m_pointerQueue'[i] = m_pointerQueue[i]
  BY <1>1
<1>4. \A i \in 1 .. Len(m_pointerQueue') :
          i \in 1 .. Len(m_pointerQueue) \/ i = Len(m_pointerQueue) + 1
  BY <1>1, <1>2
<1>5. Queued' = Queued \cup {c}
  <2>1. ASSUME NEW k \in 1 .. Len(m_pointerQueue') PROVE m_pointerQueue'[k] \in Queued \cup {c}
    BY <1>3, <1>4 DEF Queued
  <2>2. \A k \in 1 .. Len(m_pointerQueue) : k \in 1 .. Len(m_pointerQueue')
    BY <1>1, <1>2
  <2>3. Len(m_pointerQueue) + 1 \in 1 .. Len(m_pointerQueue')
    BY <1>1, <1>2
  <2> QED
    BY <1>3, <2>1, <2>2, <2>3 DEF Queued
<1>6. ASSUME NEW i \in 1 .. Len(m_pointerQueue'), NEW j \in 1 .. Len(m_pointerQueue'),
             m_pointerQueue'[i] = m_pointerQueue'[j]
      PROVE  i = j
  <2>1. \A k \in 1 .. Len(m_pointerQueue) : m_pointerQueue'[k] # c
    BY <1>3 DEF Queued
  <2> QED
    BY <1>3, <1>4, <1>6, <2>1 DEF Apart
<1> QED
  BY <1>2, <1>5, <1>6

\* ... or leaves it.
LEMMA Q_Tail ==
  ASSUME QTypes, Apart, m_pointerQueue # <<>>, m_pointerQueue' = Tail(m_pointerQueue)
  PROVE  /\ m_pointerQueue' \in Seq(Chunks) /\ Len(m_pointerQueue) = Len(m_pointerQueue') + 1
         /\ Head(m_pointerQueue) \in Queued /\ Head(m_pointerQueue) \in Chunks
         /\ Queued' = Queued \ {Head(m_pointerQueue)}
         /\ \A i, j \in 1 .. Len(m_pointerQueue') : m_pointerQueue'[i] = m_pointerQueue'[j] => i = j
<1> DEFINE c == Head(m_pointerQueue)
<1>1. m_pointerQueue \in Seq(Chunks) /\ Len(m_pointerQueue) \in Nat /\ Len(m_pointerQueue) # 0
  BY DEF QTypes
<1>2. /\ m_pointerQueue' \in Seq(Chunks) /\ Len(m_pointerQueue) = Len(m_pointerQueue') + 1
      /\ Len(m_pointerQueue') \in Nat
  BY <1>1
<1>3. /\ m_pointerQueue[1] = c /\ c \in Chunks
      /\ \A i \in 1 .. Len(m_pointerQueue') : m_pointerQueue'[i] = m_pointerQueue[i + 1]
  BY <1>1
<1>4. /\ \A i \in 1 .. Len(m_pointerQueue') : i + 1 \in 1 .. Len(m_pointerQueue) /\ i + 1 # 1
      /\ \A i \in 1 .. Len(m_pointerQueue) : i # 1 =>
             i - 1 \in 1 .. Len(m_pointerQueue') /\ (i - 1) + 1 = i
      /\ 1 \in 1 .. Len(m_pointerQueue)
  BY <1>1, <1>2
<1> HIDE DEF c
<1>5. c \in Queued
  BY <1>3, <1>4 DEF Queued
<1>6. ASSUME NEW k \in 1 .. Len(m_pointerQueue') PROVE m_pointerQueue'[k] \in Queued \ {c}
  BY <1>3, <1>4 DEF Queued, Apart
<1>7. ASSUME NEW k \in 1 .. Len(m_pointerQueue), m_pointerQueue[k] # c
      PROVE  m_pointerQueue[k] \in Queued'
  <2>1. k - 1 \in 1 .. Len(m_pointerQueue') /\ m_pointerQueue'[k - 1] = m_pointerQueue[k]
    BY <1>3, <1>4, <1>7
  <2> QED
    BY <2>1 DEF Queued
<1>8. Queued' = Queued \ {c}
  BY <1>6, <1>7 DEF Queued
<1>9. ASSUME NEW i \in 1 .. Len(m_pointerQueue'), NEW j \in 1 .. Len(m_pointerQueue'),
             m_pointerQueue'[i] = m_pointerQueue'[j]
      PROVE  i = j
  <2>1. i + 1 = j + 1
    BY <1>3, <1>4, <1>9 DEF Apart
  <2> QED
    BY <2>1, <1>2
<1> QED
  BY <1>2, <1>3, <1>5, <1>8, <1>9 DEF c

\* A chunk that a thread holds is nowhere else.
LEMMA Q_Free ==
  ASSUME IInv, NEW t \in Threads, mem[t] # Null
  PROVE  mem[t] \in Chunks /\ mem[t] \in Held /\ mem[t] \notin Queued /\ mem[t] \notin FreeChunks
<1>1. mem[t] \in Chunks /\ mem[t] \in Held
  BY DEF IInv, Locals, Local, Held, Links
<1> QED
  BY <1>1 DEF IInv, Apart, InUse

\* One thread goes on.
LEMMA Q_Between ==
  ASSUME Locals, NEW t \in Threads, NEW l, pc' = [pc EXCEPT ![t] = l]
  PROVE  /\ pc[t] \in {"alloc", "post"} /\ l \notin {"alloc", "post"} =>
                t \in Between /\ Between' = Between \ {t}
         /\ pc[t] \notin {"alloc", "post"} /\ l \in {"alloc", "post"} =>
                t \notin Between /\ Between' = Between \cup {t}
         /\ pc[t] \notin {"alloc", "post"} /\ l \notin {"alloc", "post"} => Between' = Between
<1>1. pc'[t] = l /\ \A u \in Threads \ {t} : pc'[u] = pc[u]
  BY DEF Locals
<1> QED
  BY <1>1 DEF Between

\* A call begins or ends, or the element is moved: no chunk and no token moves.
LEMMA Q_Quiet ==
  ASSUME IInv, NEW t \in Threads, NEW l, NEW v, Local(t, l, mem[t], v),
         pc' = [pc EXCEPT ![t] = l], value' = [value EXCEPT ![t] = v],
         pc[t] \notin {"alloc", "post"}, l \notin {"alloc", "post", "put", "move"},
         UNCHANGED <<poolVars, m_numAvailable, m_pointerQueue, mem, lostVars>>
  PROVE  IInv'
<1>1. QTypes /\ Linked /\ Locals /\ Apart /\ ChunkSum /\ TokenSum /\ Contents
  BY DEF IInv
<1>2. UNCHANGED <<m_first, memory, m_numAvailable, m_pointerQueue, mem, lostTokens, lostChunks>>
  BY DEF poolVars, lostVars
<1>3. QTypes'
  BY <1>1, <1>2 DEF QTypes
<1>4. Linked' /\ FreeChunks' = FreeChunks
  BY <1>1, <1>2, Free_Write
<1>5. Locals'
  <2>1. mem' = [mem EXCEPT ![t] = mem[t]]
    BY <1>1, <1>2 DEF Locals
  <2> QED
    BY <2>1, <1>1, Q_Locals
<1>6. Held' = Held /\ Queued' = Queued /\ InUse' = InUse
  BY <1>2 DEF Held, Queued, InUse
<1>7. Between' = Between
  BY <1>1, Q_Between
<1>8. Apart'
  BY <1>1, <1>2, <1>4, <1>6 DEF Apart
<1>9. ChunkSum' /\ TokenSum'
  BY <1>1, <1>2, <1>4, <1>6, <1>7 DEF ChunkSum, TokenSum
<1>10. ASSUME NEW u \in Threads PROVE Written(u)'
  <2>1. CASE u = t
    BY <2>1, <1>1 DEF Locals, Written
  <2>2. CASE u # t
    BY <2>2, <1>1, <1>2 DEF Locals, Written, Contents
  <2> QED
    BY <2>1, <2>2
<1>11. Contents'
  BY <1>1, <1>2, <1>6, <1>10 DEF Contents
<1> QED
  BY <1>3, <1>4, <1>5, <1>8, <1>9, <1>11 DEF IInv

\* A token is taken: its thread is between the token and the chunk.
LEMMA Q_Send_Wait ==
  ASSUME IInv, NEW s \in Senders, Send_Wait(s)
  PROVE  IInv'
<1>1. QTypes /\ Linked /\ Locals /\ Apart /\ ChunkSum /\ TokenSum /\ Contents /\ s \in Threads
  BY DEF IInv, Threads
<1>2. /\ pc[s] \in {"wait", "try_wait"} /\ pc' = [pc EXCEPT ![s] = "alloc"]
      /\ m_numAvailable > 0 /\ m_numAvailable' = m_numAvailable - 1
      /\ UNCHANGED <<m_first, memory, m_pointerQueue, mem, value, lostTokens, lostChunks>>
  BY DEF Send_Wait, From, poolVars, lostVars
<1>3. m_numAvailable \in Nat /\ m_numAvailable' \in Nat /\ m_numAvailable = m_numAvailable' + 1
  BY <1>1, <1>2 DEF QTypes
<1>4. QTypes'
  BY <1>1, <1>2, <1>3 DEF QTypes
<1>5. Linked' /\ FreeChunks' = FreeChunks
  BY <1>1, <1>2, Free_Write
<1>6. Locals'
  <2>1. mem' = [mem EXCEPT ![s] = mem[s]] /\ value' = [value EXCEPT ![s] = value[s]]
    BY <1>1, <1>2 DEF Locals
  <2>2. Local(s, "alloc", mem[s], value[s])
    BY <1>1, <1>2, SendersAreNoReceivers DEF Locals, Local, Using
  <2> QED
    BY <2>1, <2>2, <1>1, <1>2, Q_Locals
<1>7. Held' = Held /\ Queued' = Queued /\ InUse' = InUse
  BY <1>2 DEF Held, Queued, InUse
<1>8. s \notin Between /\ Between' = Between \cup {s}
  BY <1>1, <1>2, Q_Between
<1>9. Apart' /\ ChunkSum'
  BY <1>1, <1>2, <1>5, <1>7 DEF Apart, ChunkSum
<1>10. TokenSum'
  <2>1. /\ IsFiniteSet(Between') /\ Cardinality(Between) \in Nat
        /\ Cardinality(Between') = Cardinality(Between) + 1
    BY <1>1, <1>8, Q_Added DEF TokenSum
  <2>2. Cardinality(InUse) \in Nat /\ lostTokens \in Nat /\ NumElem \in Nat
    BY <1>1, NumElemType, FS_CardinalityType DEF TokenSum, QTypes
  <2>3. m_numAvailable' + Cardinality(Between') + Cardinality(InUse) + lostTokens = NumElem
    BY <2>1, <2>2, <1>1, <1>3 DEF TokenSum
  <2> QED
    BY <2>1, <2>3, <1>1, <1>2, <1>7 DEF TokenSum
<1>11. ASSUME NEW u \in Threads PROVE Written(u)'
  <2>1. CASE u = s
    BY <2>1, <1>1, <1>2 DEF Locals, Written
  <2>2. CASE u # s
    BY <2>2, <1>1, <1>2 DEF Locals, Written, Contents
  <2> QED
    BY <2>1, <2>2
<1>12. Contents'
  BY <1>1, <1>2, <1>7, <1>11 DEF Contents
<1> QED
  BY <1>4, <1>5, <1>6, <1>9, <1>10, <1>12 DEF IInv

\* A thread between the chunk and the token gives the token back.
LEMMA Q_Receive_Post ==
  ASSUME IInv, NEW r \in Receivers, Receive_Post(r)
  PROVE  IInv'
<1>1. QTypes /\ Linked /\ Locals /\ Apart /\ ChunkSum /\ TokenSum /\ Contents /\ r \in Threads
  BY DEF IInv, Threads
<1>2. /\ pc[r] = "post" /\ pc' = [pc EXCEPT ![r] = "idle"] /\ value' = [value EXCEPT ![r] = Null]
      /\ m_numAvailable' = m_numAvailable + 1
      /\ UNCHANGED <<m_first, memory, m_pointerQueue, mem, lostTokens, lostChunks>>
  BY DEF Receive_Post, From, Value, poolVars, lostVars
<1>3. m_numAvailable \in Nat /\ m_numAvailable' \in Nat
  BY <1>1, <1>2 DEF QTypes
<1>4. QTypes'
  BY <1>1, <1>2, <1>3 DEF QTypes
<1>5. Linked' /\ FreeChunks' = FreeChunks
  BY <1>1, <1>2, Free_Write
<1>6. Locals'
  <2>1. mem' = [mem EXCEPT ![r] = mem[r]]
    BY <1>1, <1>2 DEF Locals
  <2>2. Local(r, "idle", mem[r], Null)
    BY <1>1, <1>2, SendersAreNoReceivers DEF Locals, Local, Using
  <2> QED
    BY <2>1, <2>2, <1>1, <1>2, Q_Locals
<1>7. Held' = Held /\ Queued' = Queued /\ InUse' = InUse
  BY <1>2 DEF Held, Queued, InUse
<1>8. r \in Between /\ Between' = Between \ {r}
  <2>1. pc[r] \in {"alloc", "post"} /\ "idle" \notin {"alloc", "post"}
    BY <1>2
  <2> QED
    BY <2>1, <1>1, <1>2, Q_Between
<1>9. Apart' /\ ChunkSum'
  BY <1>1, <1>2, <1>5, <1>7 DEF Apart, ChunkSum
<1>10. TokenSum'
  <2>1. /\ IsFiniteSet(Between') /\ Cardinality(Between') \in Nat
        /\ Cardinality(Between) = Cardinality(Between') + 1
    BY <1>1, <1>8, Q_Removed DEF TokenSum
  <2>2. Cardinality(InUse) \in Nat /\ lostTokens \in Nat /\ NumElem \in Nat
    BY <1>1, NumElemType, FS_CardinalityType DEF TokenSum, QTypes
  <2>3. m_numAvailable' + Cardinality(Between') + Cardinality(InUse) + lostTokens = NumElem
    BY <2>1, <2>2, <1>1, <1>2, <1>3 DEF TokenSum
  <2> QED
    BY <2>1, <2>3, <1>1, <1>2, <1>7 DEF TokenSum
<1>11. ASSUME NEW u \in Threads PROVE Written(u)'
  <2>1. CASE u = r
    BY <2>1, <1>1, <1>2 DEF Locals, Written
  <2>2. CASE u # r
    BY <2>2, <1>1, <1>2 DEF Locals, Written, Contents
  <2> QED
    BY <2>1, <2>2
<1>12. Contents'
  BY <1>1, <1>2, <1>7, <1>11 DEF Contents
<1> QED
  BY <1>4, <1>5, <1>6, <1>9, <1>10, <1>12 DEF IInv

\* The steps that move neither a chunk nor a token.
LEMMA Q_Calls ==
  ASSUME IInv
  PROVE  /\ \A s \in Senders : Send(s) \/ Send_Full(s) => IInv'
         /\ \A r \in Receivers : Receive(r) \/ Receive_Empty(r) \/ Receive_Move(r) => IInv'
<1>1. Locals /\ Contents
  BY DEF IInv
<1>2. ASSUME NEW s \in Senders, Send(s) PROVE IInv'
  <2>1. PICK l \in {"wait", "try_wait"} : pc' = [pc EXCEPT ![s] = l] /\ pc[s] = "idle"
    BY <1>2 DEF Send, From
  <2>2. PICK v \in Elements : value' = [value EXCEPT ![s] = v]
    BY <1>2 DEF Send, Value
  <2>3. Local(s, l, mem[s], v)
    BY <2>1, <1>1, SendersAreNoReceivers DEF Locals, Local, Threads, Using
  <2>4. UNCHANGED <<poolVars, m_numAvailable, m_pointerQueue, mem, lostVars>>
    BY <1>2 DEF Send
  <2> QED
    BY <2>1, <2>2, <2>3, <2>4, Q_Quiet DEF Threads
<1>3. ASSUME NEW s \in Senders, Send_Full(s) PROVE IInv'
  <2>1. pc' = [pc EXCEPT ![s] = "idle"] /\ pc[s] = "try_wait" /\ value' = [value EXCEPT ![s] = Null]
    BY <1>3 DEF Send_Full, From, Value
  <2>2. Local(s, "idle", mem[s], Null)
    BY <2>1, <1>1, SendersAreNoReceivers DEF Locals, Local, Threads, Using
  <2>3. UNCHANGED <<poolVars, m_numAvailable, m_pointerQueue, mem, lostVars>>
    BY <1>3 DEF Send_Full
  <2> QED
    BY <2>1, <2>2, <2>3, Q_Quiet DEF Threads
<1>4. ASSUME NEW r \in Receivers, Receive(r) \/ Receive_Empty(r) PROVE IInv'
  <2>1. PICK l \in {"get", "try_get", "idle"} :
            pc' = [pc EXCEPT ![r] = l] /\ pc[r] \in {"idle", "try_get"}
    BY <1>4 DEF Receive, Receive_Empty, From
  <2>2. value' = [value EXCEPT ![r] = value[r]]
    BY <1>1, <1>4 DEF Receive, Receive_Empty, Locals
  <2>3. Local(r, l, mem[r], value[r])
    BY <2>1, <1>1, SendersAreNoReceivers DEF Locals, Local, Threads, Using
  <2>4. UNCHANGED <<poolVars, m_numAvailable, m_pointerQueue, mem, lostVars>>
    BY <1>4 DEF Receive, Receive_Empty
  <2> QED
    BY <2>1, <2>2, <2>3, <2>4, Q_Quiet DEF Threads
<1>5. ASSUME NEW r \in Receivers, Receive_Move(r) PROVE IInv'
  <2>1. /\ pc' = [pc EXCEPT ![r] = "free"] /\ pc[r] = "move"
        /\ value' = [value EXCEPT ![r] = memory[mem[r]]]
        /\ UNCHANGED <<poolVars, m_numAvailable, m_pointerQueue, mem, lostVars>>
    BY <1>5 DEF Receive_Move, From, Value
  <2>2. memory[mem[r]] \in Elements
    BY <2>1, <1>1 DEF Contents, Written, Threads
  <2>3. Local(r, "free", mem[r], memory[mem[r]])
    BY <2>1, <2>2, <1>1, SendersAreNoReceivers DEF Locals, Local, Threads, Using
  <2> QED
    BY <2>1, <2>3, Q_Quiet DEF Threads
<1> QED
  BY <1>2, <1>3, <1>4, <1>5

\* A thread with a token takes the first free chunk.
LEMMA Q_Send_Allocate ==
  ASSUME IInv, NEW s \in Senders, Send_Allocate(s)
  PROVE  IInv'
<1>1. QTypes /\ Linked /\ Locals /\ Apart /\ ChunkSum /\ TokenSum /\ Contents /\ s \in Threads
  BY DEF IInv, Threads
<1>2. /\ pc[s] = "alloc" /\ pc' = [pc EXCEPT ![s] = "construct"] /\ PopChunk
      /\ mem' = [mem EXCEPT ![s] = m_first]
      /\ UNCHANGED <<memory, m_numAvailable, m_pointerQueue, value, lostTokens, lostChunks>>
  BY DEF Send_Allocate, From, Hold, lostVars, PopChunk
<1>3. QTypes'
  BY <1>1, <1>2 DEF QTypes
<1>4. Linked' /\ m_first \in FreeChunks /\ FreeChunks' = FreeChunks \ {m_first}
  BY <1>1, <1>2, Free_Pop
<1>5. m_first \in Chunks /\ m_first # Null /\ m_first \notin Held /\ m_first \notin Queued
  BY <1>1, <1>4, NullIsNoChunk, Free_First DEF Apart, InUse, Chunks
<1>6. mem[s] = Null
  BY <1>1, <1>2 DEF Locals, Local, Using
<1>7. Locals'
  <2>1. value' = [value EXCEPT ![s] = value[s]]
    BY <1>1, <1>2 DEF Locals
  <2>2. Local(s, "construct", m_first, value[s])
    BY <1>1, <1>2, <1>5, SendersAreNoReceivers DEF Locals, Local, Using, Links
  <2> QED
    BY <2>1, <2>2, <1>1, <1>2, Q_Locals
<1>8. /\ Held' = Held \cup {m_first}
      /\ \A t, u \in Threads : mem'[t] = mem'[u] /\ mem'[t] # Null => t = u
  BY <1>1, <1>2, <1>5, <1>6, Q_Take
<1>9. Queued' = Queued
  BY <1>2 DEF Queued
<1>10. InUse' = InUse \cup {m_first} /\ FreeChunks' \cup InUse' = FreeChunks \cup InUse
           /\ m_first \notin InUse
  BY <1>4, <1>5, <1>8, <1>9 DEF InUse
<1>11. Apart'
  BY <1>1, <1>2, <1>4, <1>5, <1>8, <1>9, <1>10 DEF Apart
<1>12. ChunkSum'
  BY <1>1, <1>2, <1>10 DEF ChunkSum
<1>13. TokenSum'
  <2>1. s \in Between /\ Between' = Between \ {s}
    BY <1>1, <1>2, Q_Between
  <2>2. /\ IsFiniteSet(Between') /\ Cardinality(Between') \in Nat
        /\ Cardinality(Between) = Cardinality(Between') + 1
    BY <1>1, <2>1, Q_Removed DEF TokenSum
  <2>3. /\ IsFiniteSet(InUse') /\ Cardinality(InUse) \in Nat /\ Cardinality(InUse') \in Nat
        /\ Cardinality(InUse') = Cardinality(InUse) + 1
    BY <1>1, <1>10, Q_Added DEF TokenSum
  <2>4. m_numAvailable \in Nat /\ lostTokens \in Nat /\ NumElem \in Nat
    BY <1>1, NumElemType DEF QTypes
  <2>5. m_numAvailable + Cardinality(Between') + Cardinality(InUse') + lostTokens = NumElem
    BY <2>2, <2>3, <2>4, <1>1 DEF TokenSum
  <2> QED
    BY <2>2, <2>3, <2>5, <1>1, <1>2, <1>9 DEF TokenSum
<1>14. ASSUME NEW u \in Threads PROVE Written(u)'
  <2>1. CASE u = s
    BY <2>1, <1>1, <1>2 DEF Locals, Written
  <2>2. CASE u # s
    BY <2>2, <1>1, <1>2 DEF Locals, Written, Contents
  <2> QED
    BY <2>1, <2>2
<1>15. Contents'
  BY <1>1, <1>2, <1>9, <1>14 DEF Contents
<1> QED
  BY <1>3, <1>4, <1>7, <1>11, <1>12, <1>13, <1>15 DEF IInv

\* It writes its element to the chunk that it holds.
LEMMA Q_Send_Construct ==
  ASSUME IInv, NEW s \in Senders, Send_Construct(s)
  PROVE  IInv'
<1>1. QTypes /\ Linked /\ Locals /\ Apart /\ ChunkSum /\ TokenSum /\ Contents /\ s \in Threads
  BY DEF IInv, Threads
<1>2. /\ pc[s] = "construct" /\ pc' = [pc EXCEPT ![s] = "put"]
      /\ memory' = [memory EXCEPT ![mem[s]] = value[s]]
      /\ UNCHANGED <<m_first, m_numAvailable, m_pointerQueue, mem, value, lostTokens, lostChunks>>
  BY DEF Send_Construct, From, lostVars
<1>3. mem[s] # Null /\ value[s] \in Elements
  BY <1>1, <1>2 DEF Locals, Local, Using
<1>4. mem[s] \in Chunks /\ mem[s] \in Held /\ mem[s] \notin Queued /\ mem[s] \notin FreeChunks
  BY <1>1, <1>3, Q_Free
<1>5. QTypes'
  BY <1>1, <1>2, <1>3 DEF QTypes
<1>6. memory'[mem[s]] = value[s] /\ \A c \in Chunks \ {mem[s]} : memory'[c] = memory[c]
  BY <1>1, <1>2, <1>4 DEF QTypes
<1>7. Linked' /\ FreeChunks' = FreeChunks
  <2>1. \A c \in FreeChunks : memory'[c] = memory[c]
    BY <1>1, <1>4, <1>6, Free_First
  <2> QED
    BY <2>1, <1>1, <1>2, Free_Write
<1>8. Locals'
  <2>1. value' = [value EXCEPT ![s] = value[s]] /\ mem' = [mem EXCEPT ![s] = mem[s]]
    BY <1>1, <1>2 DEF Locals
  <2>2. Local(s, "put", mem[s], value[s])
    BY <1>1, <1>2, SendersAreNoReceivers DEF Locals, Local, Using
  <2> QED
    BY <2>1, <2>2, <1>1, <1>2, Q_Locals
<1>9. Held' = Held /\ Queued' = Queued /\ InUse' = InUse
  BY <1>2 DEF Held, Queued, InUse
<1>10. Between' = Between
  <2>1. Locals /\ s \in Threads /\ pc' = [pc EXCEPT ![s] = "put"]
    BY <1>1, <1>2
  <2>2. pc[s] \notin {"alloc", "post"} /\ "put" \notin {"alloc", "post"}
    BY <1>2
  <2> QED
    BY <2>1, <2>2, Q_Between
<1>11. Apart'
  BY <1>1, <1>2, <1>7, <1>9 DEF Apart
<1>12. ChunkSum' /\ TokenSum'
  BY <1>1, <1>2, <1>7, <1>9, <1>10 DEF ChunkSum, TokenSum
<1>13. ASSUME NEW u \in Threads PROVE Written(u)'
  <2>1. CASE u = s
    BY <2>1, <1>1, <1>2, <1>6 DEF Locals, Written
  <2>2. CASE u # s
    <3>1. pc'[u] = pc[u] /\ mem'[u] = mem[u] /\ value'[u] = value[u] /\ Written(u)
      BY <2>2, <1>1, <1>2 DEF Locals, Contents
    <3>2. CASE mem[u] = Null
      BY <3>1, <3>2, <1>1 DEF Locals, Local, Using, Written
    <3>3. CASE mem[u] # Null
      <4>1. mem[u] \in Chunks \ {mem[s]}
        BY <2>2, <3>3, <1>1, Q_Free DEF Apart
      <4> QED
        BY <4>1, <3>1, <1>6 DEF Written
    <3> QED
      BY <3>2, <3>3
  <2> QED
    BY <2>1, <2>2
<1>14. Contents'
  <2>1. \A c \in Queued : c \in Chunks
    BY <1>1 DEF QTypes, Queued
  <2> QED
    BY <2>1, <1>1, <1>4, <1>6, <1>9, <1>13 DEF Contents
<1> QED
  BY <1>5, <1>7, <1>8, <1>11, <1>12, <1>14 DEF IInv

\* The constructor throws: the chunk is free again, the token is lost.
LEMMA Q_Send_Throws ==
  ASSUME IInv, NEW s \in Senders, Send_Throws(s)
  PROVE  IInv'
<1>1. QTypes /\ Linked /\ Locals /\ Apart /\ ChunkSum /\ TokenSum /\ Contents /\ s \in Threads
  BY DEF IInv, Threads
<1>2. /\ pc[s] = "construct" /\ pc' = [pc EXCEPT ![s] = "idle"]
      /\ PushChunk(mem[s]) /\ mem' = [mem EXCEPT ![s] = Null] /\ value' = [value EXCEPT ![s] = Null]
      /\ lostTokens' = lostTokens + 1
      /\ UNCHANGED <<m_numAvailable, m_pointerQueue, lostChunks>>
  BY DEF Send_Throws, From, Hold, Value
<1>3. mem[s] # Null
  BY <1>1, <1>2 DEF Locals, Local, Using
<1>4. mem[s] \in Chunks /\ mem[s] \in Held /\ mem[s] \notin Queued /\ mem[s] \notin FreeChunks
  BY <1>1, <1>3, Q_Free
<1>5. memory' = [memory EXCEPT ![mem[s]] = m_first] /\ m_first \in Links
  BY <1>1, <1>2, Free_First DEF PushChunk, Links
<1>6. QTypes'
  <2>1. lostTokens' \in Nat
    BY <1>1, <1>2 DEF QTypes
  <2> QED
    BY <2>1, <1>1, <1>2, <1>5 DEF QTypes
<1>7. \A c \in Chunks \ {mem[s]} : memory'[c] = memory[c]
  BY <1>1, <1>5 DEF QTypes
<1>8. Linked' /\ FreeChunks' = FreeChunks \cup {mem[s]}
  <2>1. memory = [k \in Chunks |-> memory[k]]
    BY <1>1 DEF QTypes
  <2> QED
    BY <2>1, <1>1, <1>2, <1>4, Free_Push
<1>9. Locals'
  <2>1. Local(s, "idle", Null, Null)
    BY SendersAreNoReceivers DEF Local, Using, Links
  <2> QED
    BY <2>1, <1>1, <1>2, Q_Locals
<1>10. /\ Held' = Held \ {mem[s]}
       /\ \A t, u \in Threads : mem'[t] = mem'[u] /\ mem'[t] # Null => t = u
  BY <1>1, <1>2, <1>3, Q_Give
<1>11. Queued' = Queued
  BY <1>2 DEF Queued
<1>12. InUse' = InUse \ {mem[s]} /\ FreeChunks' \cup InUse' = FreeChunks \cup InUse
           /\ mem[s] \in InUse
  BY <1>4, <1>8, <1>10, <1>11 DEF InUse
<1>13. Apart'
  BY <1>1, <1>2, <1>8, <1>10, <1>11, <1>12 DEF Apart
<1>14. ChunkSum'
  <2>1. lostTokens \in Nat /\ lostChunks \in Nat
    BY <1>1 DEF QTypes
  <2>2. lostChunks <= lostTokens + 1
    BY <2>1, <1>1 DEF ChunkSum
  <2> QED
    BY <2>2, <1>1, <1>2, <1>12 DEF ChunkSum
<1>15. TokenSum'
  <2>1. Between' = Between
    <3>1. Locals /\ s \in Threads /\ pc' = [pc EXCEPT ![s] = "idle"]
      BY <1>1, <1>2
    <3>2. pc[s] \notin {"alloc", "post"} /\ "idle" \notin {"alloc", "post"}
      BY <1>2
    <3> QED
      BY <3>1, <3>2, Q_Between
  <2>2. Cardinality(Between) \in Nat
    BY <1>1, FS_CardinalityType DEF TokenSum
  <2>3. /\ IsFiniteSet(InUse') /\ Cardinality(InUse) \in Nat /\ Cardinality(InUse') \in Nat
        /\ Cardinality(InUse) = Cardinality(InUse') + 1
    BY <1>1, <1>12, Q_Removed DEF TokenSum
  <2>4. m_numAvailable \in Nat /\ lostTokens \in Nat /\ NumElem \in Nat
    BY <1>1, NumElemType DEF QTypes
  <2>5. m_numAvailable + Cardinality(Between) + Cardinality(InUse) + lostTokens = NumElem
    BY <1>1 DEF TokenSum
  <2>6. m_numAvailable + Cardinality(Between) + Cardinality(InUse') + (lostTokens + 1) = NumElem
    BY <2>2, <2>3, <2>4, <2>5
  <2> QED
    BY <2>1, <2>3, <2>6, <1>1, <1>2, <1>11 DEF TokenSum
<1>16. ASSUME NEW u \in Threads PROVE Written(u)'
  <2>1. CASE u = s
    BY <2>1, <1>1, <1>2 DEF Locals, Written
  <2>2. CASE u # s
    <3>1. pc'[u] = pc[u] /\ mem'[u] = mem[u] /\ value'[u] = value[u] /\ Written(u)
      BY <2>2, <1>1, <1>2 DEF Locals, Contents
    <3>2. CASE mem[u] = Null
      BY <3>1, <3>2, <1>1 DEF Locals, Local, Using, Written
    <3>3. CASE mem[u] # Null
      <4>1. mem[u] \in Chunks \ {mem[s]}
        BY <2>2, <3>3, <1>1, Q_Free DEF Apart
      <4> QED
        BY <4>1, <3>1, <1>7 DEF Written
    <3> QED
      BY <3>2, <3>3
  <2> QED
    BY <2>1, <2>2
<1>17. Contents'
  <2>1. \A c \in Queued : c \in Chunks
    BY <1>1 DEF QTypes, Queued
  <2> QED
    BY <2>1, <1>1, <1>4, <1>7, <1>11, <1>16 DEF Contents
<1> QED
  BY <1>6, <1>8, <1>9, <1>13, <1>14, <1>15, <1>17 DEF IInv

\* A receiver gives its chunk back and owes the token.
LEMMA Q_Receive_Free ==
  ASSUME IInv, NEW r \in Receivers, Receive_Free(r)
  PROVE  IInv'
<1>1. QTypes /\ Linked /\ Locals /\ Apart /\ ChunkSum /\ TokenSum /\ Contents /\ r \in Threads
  BY DEF IInv, Threads
<1>2. /\ pc[r] = "free" /\ pc' = [pc EXCEPT ![r] = "post"]
      /\ PushChunk(mem[r]) /\ mem' = [mem EXCEPT ![r] = Null]
      /\ UNCHANGED <<m_numAvailable, m_pointerQueue, value, lostTokens, lostChunks>>
  BY DEF Receive_Free, From, Hold, lostVars
<1>3. mem[r] # Null
  BY <1>1, <1>2 DEF Locals, Local, Using
<1>4. mem[r] \in Chunks /\ mem[r] \in Held /\ mem[r] \notin Queued /\ mem[r] \notin FreeChunks
  BY <1>1, <1>3, Q_Free
<1>5. memory' = [memory EXCEPT ![mem[r]] = m_first] /\ m_first \in Links
  BY <1>1, <1>2, Free_First DEF PushChunk, Links
<1>6. QTypes'
  BY <1>1, <1>2, <1>5 DEF QTypes
<1>7. \A c \in Chunks \ {mem[r]} : memory'[c] = memory[c]
  BY <1>1, <1>5 DEF QTypes
<1>8. Linked' /\ FreeChunks' = FreeChunks \cup {mem[r]}
  <2>1. memory = [k \in Chunks |-> memory[k]]
    BY <1>1 DEF QTypes
  <2> QED
    BY <2>1, <1>1, <1>2, <1>4, Free_Push
<1>9. Locals'
  <2>1. value' = [value EXCEPT ![r] = value[r]]
    BY <1>1, <1>2 DEF Locals
  <2>2. Local(r, "post", Null, value[r])
    BY <1>1, <1>2, SendersAreNoReceivers DEF Locals, Local, Using, Links
  <2> QED
    BY <2>1, <2>2, <1>1, <1>2, Q_Locals
<1>10. /\ Held' = Held \ {mem[r]}
       /\ \A t, u \in Threads : mem'[t] = mem'[u] /\ mem'[t] # Null => t = u
  BY <1>1, <1>2, <1>3, Q_Give
<1>11. Queued' = Queued
  BY <1>2 DEF Queued
<1>12. InUse' = InUse \ {mem[r]} /\ FreeChunks' \cup InUse' = FreeChunks \cup InUse
           /\ mem[r] \in InUse
  BY <1>4, <1>8, <1>10, <1>11 DEF InUse
<1>13. Apart'
  BY <1>1, <1>2, <1>8, <1>10, <1>11, <1>12 DEF Apart
<1>14. ChunkSum'
  BY <1>1, <1>2, <1>12 DEF ChunkSum
<1>15. TokenSum'
  <2>1. r \notin Between /\ Between' = Between \cup {r}
    BY <1>1, <1>2, Q_Between
  <2>2. /\ IsFiniteSet(Between') /\ Cardinality(Between) \in Nat
        /\ Cardinality(Between') = Cardinality(Between) + 1
    BY <1>1, <2>1, Q_Added DEF TokenSum
  <2>3. /\ IsFiniteSet(InUse') /\ Cardinality(InUse) \in Nat /\ Cardinality(InUse') \in Nat
        /\ Cardinality(InUse) = Cardinality(InUse') + 1
    BY <1>1, <1>12, Q_Removed DEF TokenSum
  <2>4. m_numAvailable \in Nat /\ lostTokens \in Nat /\ NumElem \in Nat
    BY <1>1, NumElemType DEF QTypes
  <2>5. m_numAvailable + Cardinality(Between') + Cardinality(InUse') + lostTokens = NumElem
    BY <2>2, <2>3, <2>4, <1>1 DEF TokenSum
  <2> QED
    BY <2>2, <2>3, <2>5, <1>1, <1>2, <1>11 DEF TokenSum
<1>16. ASSUME NEW u \in Threads PROVE Written(u)'
  <2>1. CASE u = r
    BY <2>1, <1>1, <1>2 DEF Locals, Written
  <2>2. CASE u # r
    <3>1. pc'[u] = pc[u] /\ mem'[u] = mem[u] /\ value'[u] = value[u] /\ Written(u)
      BY <2>2, <1>1, <1>2 DEF Locals, Contents
    <3>2. CASE mem[u] = Null
      BY <3>1, <3>2, <1>1 DEF Locals, Local, Using, Written
    <3>3. CASE mem[u] # Null
      <4>1. mem[u] \in Chunks \ {mem[r]}
        BY <2>2, <3>3, <1>1, Q_Free DEF Apart
      <4> QED
        BY <4>1, <3>1, <1>7 DEF Written
    <3> QED
      BY <3>2, <3>3
  <2> QED
    BY <2>1, <2>2
<1>17. Contents'
  <2>1. \A c \in Queued : c \in Chunks
    BY <1>1 DEF QTypes, Queued
  <2> QED
    BY <2>1, <1>1, <1>4, <1>7, <1>11, <1>16 DEF Contents
<1> QED
  BY <1>6, <1>8, <1>9, <1>13, <1>14, <1>15, <1>17 DEF IInv

\* The sums of the tokens and of the chunks.
LEMMA Q_Excess ==
  ASSUME NEW a \in Nat, NEW b \in Nat, NEW c \in Nat, NEW d \in Nat, NEW e \in Nat, NEW n \in Nat,
         a + b + c + d = n, e <= d, c + e = n, b # 0
  PROVE  FALSE
OBVIOUS

\* There is room for one that is in use, but not in the ring.
LEMMA Q_Room ==
  ASSUME NEW a \in Nat, NEW b \in Nat, NEW c \in Nat, NEW d \in Nat, NEW e \in Nat, NEW n \in Nat,
         a + b + c + d = n, e + 1 <= c
  PROVE  e < n
OBVIOUS

\* What follows from the two sums: a thread between the token and the chunk finds a
\* chunk, and one that holds a chunk finds room in the ring.
LEMMA Q_Bounds ==
  ASSUME IInv
  PROVE  /\ m_numAvailable \in 0 .. NumElem /\ lostTokens \in 0 .. NumElem
                /\ lostChunks \in 0 .. NumElem
         /\ \A s \in Senders : pc[s] = "alloc" => m_first # Null
         /\ \A s \in Senders : pc[s] = "put" => Len(m_pointerQueue) < NumElem
<1>1. QTypes /\ Linked /\ Locals /\ Apart /\ ChunkSum /\ TokenSum
  BY DEF IInv
<1>2. /\ m_numAvailable \in Nat /\ lostTokens \in Nat /\ lostChunks \in Nat /\ NumElem \in Nat
      /\ Cardinality(Between) \in Nat /\ Cardinality(InUse) \in Nat
  BY <1>1, NumElemType, FS_CardinalityType DEF QTypes, TokenSum
<1>3. /\ m_numAvailable + Cardinality(Between) + Cardinality(InUse) + lostTokens = NumElem
      /\ lostChunks <= lostTokens
  BY <1>1 DEF TokenSum, ChunkSum
<1>4. m_numAvailable \in 0 .. NumElem /\ lostTokens \in 0 .. NumElem /\ lostChunks \in 0 .. NumElem
  BY <1>2, <1>3
<1>5. ASSUME NEW s \in Senders, pc[s] = "alloc", m_first = Null PROVE FALSE
  <2>1. FreeChunks \cup InUse = InUse
    BY <1>1, <1>5, Free_First
  <2>2. Cardinality(InUse) + lostChunks = NumElem
    BY <1>1, <2>1 DEF ChunkSum
  <2>3. s \in Between
    BY <1>5 DEF Between, Threads
  <2>4. Cardinality(Between) # 0
    BY <1>1, <2>3, FS_EmptySet DEF TokenSum
  <2> QED
    BY <1>2, <1>3, <2>2, <2>4, Q_Excess
<1>6. ASSUME NEW s \in Senders, pc[s] = "put" PROVE Len(m_pointerQueue) < NumElem
  <2>1. s \in Threads /\ mem[s] # Null
    BY <1>1, <1>6 DEF Threads, Locals, Local, Using
  <2>2. mem[s] \in InUse /\ mem[s] \notin Queued
    BY <2>1, Q_Free DEF InUse
  <2> DEFINE T == Queued \cup {mem[s]}
  <2>3. /\ IsFiniteSet(T) /\ Cardinality(Queued) \in Nat /\ Cardinality(T) \in Nat
        /\ Cardinality(T) = Cardinality(Queued) + 1
    BY <1>1, <2>2, Q_Added DEF TokenSum
  <2>4. T \subseteq InUse
    BY <2>2 DEF InUse
  <2> HIDE DEF T
  <2>5. Cardinality(T) <= Cardinality(InUse)
    BY <1>1, <2>4, FS_Subset DEF TokenSum
  <2>6. Cardinality(Queued) = Len(m_pointerQueue)
    BY <1>1 DEF TokenSum
  <2>7. Len(m_pointerQueue) + 1 <= Cardinality(InUse)
    BY <2>3, <2>5, <2>6
  <2>8. Len(m_pointerQueue) \in Nat
    BY <2>3, <2>6
  <2> HIDE DEF T
  <2> QED
    BY <1>2, <1>3, <2>7, <2>8, Q_Room
<1> QED
  BY <1>4, <1>5, <1>6

\* The pointer enters the ring: its chunk was held, now it is queued.
LEMMA Q_Send_Put ==
  ASSUME IInv, NEW s \in Senders, Send_Put(s)
  PROVE  IInv'
<1>1. QTypes /\ Linked /\ Locals /\ Apart /\ ChunkSum /\ TokenSum /\ Contents /\ s \in Threads
  BY DEF IInv, Threads
<1>2. /\ pc[s] = "put" /\ pc' = [pc EXCEPT ![s] = "idle"]
      /\ m_pointerQueue' = Append(m_pointerQueue, mem[s])
      /\ mem' = [mem EXCEPT ![s] = Null] /\ value' = [value EXCEPT ![s] = Null]
      /\ UNCHANGED <<m_first, memory, m_numAvailable, lostTokens, lostChunks>>
  BY DEF Send_Put, From, Hold, Value, poolVars, lostVars
<1>3. mem[s] # Null
  BY <1>1, <1>2 DEF Locals, Local, Using
<1>4. mem[s] \in Chunks /\ mem[s] \in Held /\ mem[s] \notin Queued /\ mem[s] \notin FreeChunks
  BY <1>1, <1>3, Q_Free
<1>5. /\ m_pointerQueue' \in Seq(Chunks) /\ Len(m_pointerQueue') = Len(m_pointerQueue) + 1
      /\ Queued' = Queued \cup {mem[s]}
      /\ \A i, j \in 1 .. Len(m_pointerQueue') : m_pointerQueue'[i] = m_pointerQueue'[j] => i = j
  BY <1>1, <1>2, <1>4, Q_Append
<1>6. QTypes'
  BY <1>1, <1>2, <1>5 DEF QTypes
<1>7. Linked' /\ FreeChunks' = FreeChunks
  BY <1>1, <1>2, Free_Write
<1>8. Locals'
  <2>1. Local(s, "idle", Null, Null)
    BY SendersAreNoReceivers DEF Local, Using, Links
  <2> QED
    BY <2>1, <1>1, <1>2, Q_Locals
<1>9. /\ Held' = Held \ {mem[s]}
      /\ \A t, u \in Threads : mem'[t] = mem'[u] /\ mem'[t] # Null => t = u
  BY <1>1, <1>2, <1>3, Q_Give
<1>10. InUse' = InUse
  BY <1>4, <1>5, <1>9 DEF InUse
<1>11. Apart'
  BY <1>1, <1>4, <1>5, <1>7, <1>9, <1>10 DEF Apart
<1>12. Between' = Between
  <2>1. Locals /\ s \in Threads /\ pc' = [pc EXCEPT ![s] = "idle"]
    BY <1>1, <1>2
  <2>2. pc[s] \notin {"alloc", "post"} /\ "idle" \notin {"alloc", "post"}
    BY <1>2
  <2> QED
    BY <2>1, <2>2, Q_Between
<1>13. ChunkSum'
  BY <1>1, <1>2, <1>7, <1>10 DEF ChunkSum
<1>14. TokenSum'
  <2>1. IsFiniteSet(Queued') /\ Cardinality(Queued') = Cardinality(Queued) + 1
    BY <1>1, <1>4, <1>5, Q_Added DEF TokenSum
  <2>2. Cardinality(Queued') = Len(m_pointerQueue')
    BY <2>1, <1>1, <1>5 DEF TokenSum
  <2> QED
    BY <2>1, <2>2, <1>1, <1>2, <1>10, <1>12 DEF TokenSum
<1>15. ASSUME NEW u \in Threads PROVE Written(u)'
  <2>1. CASE u = s
    BY <2>1, <1>1, <1>2 DEF Locals, Written
  <2>2. CASE u # s
    BY <2>2, <1>1, <1>2 DEF Locals, Written, Contents
  <2> QED
    BY <2>1, <2>2
<1>16. Contents'
  <2>1. memory[mem[s]] \in Elements
    BY <1>1, <1>2 DEF Contents, Written, Locals, Local
  <2> QED
    BY <2>1, <1>1, <1>2, <1>5, <1>15 DEF Contents
<1> QED
  BY <1>6, <1>7, <1>8, <1>11, <1>13, <1>14, <1>16 DEF IInv

\* A receiver takes the first pointer.
LEMMA Q_Receive_Get ==
  ASSUME IInv, NEW r \in Receivers, Receive_Get(r)
  PROVE  IInv'
<1> DEFINE c == Head(m_pointerQueue)
<1>1. QTypes /\ Linked /\ Locals /\ Apart /\ ChunkSum /\ TokenSum /\ Contents /\ r \in Threads
  BY DEF IInv, Threads
<1>2. /\ pc[r] \in {"get", "try_get"} /\ pc' = [pc EXCEPT ![r] = "move"]
      /\ m_pointerQueue # <<>> /\ m_pointerQueue' = Tail(m_pointerQueue)
      /\ mem' = [mem EXCEPT ![r] = c]
      /\ UNCHANGED <<m_first, memory, m_numAvailable, value, lostTokens, lostChunks>>
  BY DEF Receive_Get, From, Hold, poolVars, lostVars
<1>3. mem[r] = Null
  BY <1>1, <1>2 DEF Locals, Local, Using
<1>4. /\ m_pointerQueue' \in Seq(Chunks) /\ Len(m_pointerQueue) = Len(m_pointerQueue') + 1
      /\ c \in Queued /\ c \in Chunks /\ Queued' = Queued \ {c}
      /\ \A i, j \in 1 .. Len(m_pointerQueue') : m_pointerQueue'[i] = m_pointerQueue'[j] => i = j
  BY <1>1, <1>2, Q_Tail
<1>5. c \notin Held /\ c \notin FreeChunks /\ c # Null
  BY <1>1, <1>4, NullIsNoChunk DEF Apart, InUse, Chunks
<1> HIDE DEF c
<1>6. QTypes'
  BY <1>1, <1>2, <1>4 DEF QTypes
<1>7. Linked' /\ FreeChunks' = FreeChunks
  BY <1>1, <1>2, Free_Write
<1>8. Locals'
  <2>1. value' = [value EXCEPT ![r] = value[r]]
    BY <1>1, <1>2 DEF Locals
  <2>2. Local(r, "move", c, value[r])
    BY <1>1, <1>2, <1>4, <1>5, SendersAreNoReceivers DEF Locals, Local, Using, Links
  <2> QED
    BY <2>1, <2>2, <1>1, <1>2, Q_Locals
<1>9. /\ Held' = Held \cup {c}
      /\ \A t, u \in Threads : mem'[t] = mem'[u] /\ mem'[t] # Null => t = u
  BY <1>1, <1>2, <1>3, <1>4, <1>5, Q_Take
<1>10. InUse' = InUse
  BY <1>4, <1>9 DEF InUse
<1>11. Apart'
  BY <1>1, <1>4, <1>5, <1>7, <1>9, <1>10 DEF Apart
<1>12. Between' = Between
  <2>1. pc[r] \notin {"alloc", "post"} /\ "move" \notin {"alloc", "post"}
    BY <1>2
  <2> QED
    BY <2>1, <1>1, <1>2, Q_Between
<1>13. ChunkSum'
  BY <1>1, <1>2, <1>7, <1>10 DEF ChunkSum
<1>14. TokenSum'
  <2>1. /\ IsFiniteSet(Queued') /\ Cardinality(Queued') \in Nat
        /\ Cardinality(Queued) = Cardinality(Queued') + 1
    BY <1>1, <1>4, Q_Removed DEF TokenSum
  <2>2. Len(m_pointerQueue') \in Nat
    BY <1>4
  <2>3. Cardinality(Queued') = Len(m_pointerQueue')
    BY <2>1, <2>2, <1>1, <1>4 DEF TokenSum
  <2> QED
    BY <2>1, <2>3, <1>1, <1>2, <1>10, <1>12 DEF TokenSum
<1>15. ASSUME NEW u \in Threads PROVE Written(u)'
  <2>1. CASE u = r
    BY <2>1, <1>1, <1>2, <1>4 DEF Locals, Written, Contents
  <2>2. CASE u # r
    BY <2>2, <1>1, <1>2 DEF Locals, Written, Contents
  <2> QED
    BY <2>1, <2>2
<1>16. Contents'
  BY <1>1, <1>2, <1>4, <1>15 DEF Contents
<1> QED
  BY <1>6, <1>7, <1>8, <1>11, <1>13, <1>14, <1>16 DEF IInv

\* The move throws: a chunk and a token are lost together.
LEMMA Q_Receive_Throws ==
  ASSUME IInv, NEW r \in Receivers, Receive_Throws(r)
  PROVE  IInv'
<1>1. QTypes /\ Linked /\ Locals /\ Apart /\ ChunkSum /\ TokenSum /\ Contents /\ r \in Threads
  BY DEF IInv, Threads
<1>2. /\ pc[r] = "move" /\ pc' = [pc EXCEPT ![r] = "idle"]
      /\ mem' = [mem EXCEPT ![r] = Null]
      /\ lostTokens' = lostTokens + 1 /\ lostChunks' = lostChunks + 1
      /\ UNCHANGED <<m_first, memory, m_numAvailable, m_pointerQueue, value>>
  BY DEF Receive_Throws, From, Hold, poolVars
<1>3. mem[r] # Null
  BY <1>1, <1>2 DEF Locals, Local, Using
<1>4. mem[r] \in Chunks /\ mem[r] \in Held /\ mem[r] \notin Queued /\ mem[r] \notin FreeChunks
  BY <1>1, <1>3, Q_Free
<1>5. QTypes'
  <2>1. lostTokens' \in Nat /\ lostChunks' \in Nat
    BY <1>1, <1>2 DEF QTypes
  <2> QED
    BY <2>1, <1>1, <1>2 DEF QTypes
<1>6. Linked' /\ FreeChunks' = FreeChunks
  BY <1>1, <1>2, Free_Write
<1>7. Locals'
  <2>1. value' = [value EXCEPT ![r] = value[r]]
    BY <1>1, <1>2 DEF Locals
  <2>2. Local(r, "idle", Null, value[r])
    BY <1>1, <1>2, SendersAreNoReceivers DEF Locals, Local, Using, Links
  <2> QED
    BY <2>1, <2>2, <1>1, <1>2, Q_Locals
<1>8. /\ Held' = Held \ {mem[r]}
      /\ \A t, u \in Threads : mem'[t] = mem'[u] /\ mem'[t] # Null => t = u
  BY <1>1, <1>2, <1>3, Q_Give
<1>9. Queued' = Queued
  BY <1>2 DEF Queued
<1>10. /\ InUse' = InUse \ {mem[r]} /\ mem[r] \in InUse
       /\ FreeChunks' \cup InUse' = (FreeChunks \cup InUse) \ {mem[r]}
  BY <1>4, <1>6, <1>8, <1>9 DEF InUse
<1>11. Apart'
  BY <1>1, <1>2, <1>6, <1>8, <1>9, <1>10 DEF Apart
<1>12. ChunkSum'
  <2> DEFINE S == FreeChunks \cup InUse
  <2> DEFINE T == (FreeChunks \cup InUse)'
  <2>1. IsFiniteSet(S) /\ mem[r] \in S /\ T = S \ {mem[r]} /\ Cardinality(S) + lostChunks = NumElem
    BY <1>1, <1>10 DEF ChunkSum
  <2> HIDE DEF S, T
  <2>2. /\ IsFiniteSet(T) /\ Cardinality(T) \in Nat /\ Cardinality(S) \in Nat
        /\ Cardinality(S) = Cardinality(T) + 1
    BY <2>1, Q_Removed
  <2>3. lostTokens \in Nat /\ lostChunks \in Nat /\ lostChunks <= lostTokens
    BY <1>1 DEF QTypes, ChunkSum
  <2>4. Cardinality(T) + lostChunks' = NumElem /\ lostChunks' <= lostTokens'
    BY <2>1, <2>2, <2>3, <1>2
  <2> QED
    BY <2>2, <2>4 DEF ChunkSum, T
<1>13. TokenSum'
  <2>1. Between' = Between
    <3>1. Locals /\ r \in Threads /\ pc' = [pc EXCEPT ![r] = "idle"]
      BY <1>1, <1>2
    <3>2. pc[r] \notin {"alloc", "post"} /\ "idle" \notin {"alloc", "post"}
      BY <1>2
    <3> QED
      BY <3>1, <3>2, Q_Between
  <2>2. Cardinality(Between) \in Nat
    BY <1>1, FS_CardinalityType DEF TokenSum
  <2>3. /\ IsFiniteSet(InUse') /\ Cardinality(InUse) \in Nat /\ Cardinality(InUse') \in Nat
        /\ Cardinality(InUse) = Cardinality(InUse') + 1
    BY <1>1, <1>10, Q_Removed DEF TokenSum
  <2>4. m_numAvailable \in Nat /\ lostTokens \in Nat /\ NumElem \in Nat
    BY <1>1, NumElemType DEF QTypes
  <2>5. m_numAvailable + Cardinality(Between) + Cardinality(InUse) + lostTokens = NumElem
    BY <1>1 DEF TokenSum
  <2>6. m_numAvailable + Cardinality(Between) + Cardinality(InUse') + (lostTokens + 1) = NumElem
    BY <2>2, <2>3, <2>4, <2>5
  <2> QED
    BY <2>1, <2>3, <2>6, <1>1, <1>2, <1>9 DEF TokenSum
<1>14. ASSUME NEW u \in Threads PROVE Written(u)'
  <2>1. CASE u = r
    BY <2>1, <1>1, <1>2 DEF Locals, Written
  <2>2. CASE u # r
    BY <2>2, <1>1, <1>2 DEF Locals, Written, Contents
  <2> QED
    BY <2>1, <2>2
<1>15. Contents'
  BY <1>1, <1>2, <1>9, <1>14 DEF Contents
<1> QED
  BY <1>5, <1>6, <1>7, <1>11, <1>12, <1>13, <1>15 DEF IInv

\* At first all chunks are free and all tokens there.
LEMMA Q_Init == Init => IInv
<1> SUFFICES ASSUME Init PROVE IInv
  OBVIOUS
<1>1. Linked /\ FreeChunks = Chunks
  BY Free_Init DEF Init
<1>2. Held = {} /\ Queued = {} /\ InUse = {} /\ Between = {}
  BY DEF Init, Held, Queued, InUse, Between
<1>3. QTypes
  BY NumElemType, <1>1, Free_First DEF Init, QTypes, FreeListInit, Chunks, Links
<1>4. Locals
  BY NullIsNoChunk DEF Init, Locals, Local, Links, Using, Threads
<1>5. Apart
  BY <1>2 DEF Init, Apart
<1>6. IsFiniteSet(Chunks) /\ Cardinality(Chunks) = NumElem
  BY NumElemType, UpTo DEF Chunks
<1>7. ChunkSum
  <2>1. FreeChunks \cup InUse = Chunks /\ lostChunks = 0 /\ lostTokens = 0
    BY <1>1, <1>2 DEF Init
  <2> QED
    BY <2>1, <1>6, NumElemType DEF ChunkSum
<1>8. TokenSum
  <2>1. IsFiniteSet({}) /\ Cardinality({}) = 0
    BY FS_EmptySet
  <2>2. m_numAvailable = NumElem /\ lostTokens = 0 /\ m_pointerQueue = <<>>
            /\ Len(m_pointerQueue) = 0
    BY DEF Init
  <2> QED
    BY <1>2, <2>1, <2>2, NumElemType DEF TokenSum
<1>9. Contents
  BY <1>2 DEF Init, Contents, Written
<1> QED
  BY <1>1, <1>3, <1>4, <1>5, <1>7, <1>8, <1>9 DEF IInv

\* IInv is inductive.
LEMMA Q_Next == IInv /\ [Next]_vars => IInv'
<1> SUFFICES ASSUME IInv, [Next]_vars PROVE IInv'
  OBVIOUS
<1>1. CASE UNCHANGED vars
  <2>1. /\ UNCHANGED <<m_first, memory, m_numAvailable, m_pointerQueue, pc, mem, value>>
        /\ UNCHANGED <<lostTokens, lostChunks>>
    BY <1>1 DEF vars, poolVars, lostVars
  <2>2. Linked' /\ FreeChunks' = FreeChunks
    BY <2>1, Free_Write DEF IInv
  <2>3. Held' = Held /\ Queued' = Queued /\ InUse' = InUse /\ Between' = Between
    BY <2>1 DEF Held, Queued, InUse, Between
  <2>4. QTypes' /\ Locals' /\ Contents'
    BY <2>1, <2>3 DEF IInv, QTypes, Locals, Contents, Written
  <2>5. Apart' /\ ChunkSum' /\ TokenSum'
    BY <2>1, <2>2, <2>3 DEF IInv, Apart, ChunkSum, TokenSum
  <2> QED
    BY <2>2, <2>4, <2>5 DEF IInv
<1>2. ASSUME NEW s \in Senders, Send(s) \/ Sender(s) PROVE IInv'
  BY <1>2, Q_Calls, Q_Send_Wait, Q_Send_Allocate, Q_Send_Construct, Q_Send_Throws, Q_Send_Put
     DEF Sender
<1>3. ASSUME NEW r \in Receivers, Receive(r) \/ Receiver(r) PROVE IInv'
  BY <1>3, Q_Calls, Q_Receive_Get, Q_Receive_Throws, Q_Receive_Free, Q_Receive_Post DEF Receiver
<1> QED
  BY <1>1, <1>2, <1>3 DEF Next

\* The inductive invariant holds of every behaviour of Spec.
THEOREM Invariance == Spec => []IInv
BY Q_Init, Q_Next, PTL DEF Spec

\* TypeOK: the types, and the semaphore never counts more slots than there are
\* (messagequeue.hpp, LargeMessageQueue).
THEOREM TypeCorrect == Spec => []TypeOK
<1>1. IInv => TypeOK
  <2> SUFFICES ASSUME IInv PROVE TypeOK
    OBVIOUS
  <2>1. m_first \in Links
    BY Free_First DEF IInv, Links
  <2>2. /\ \A s \in Senders : pc[s] \in {"idle", "wait", "try_wait", "alloc", "construct", "put"}
        /\ \A r \in Receivers : pc[r] \in {"idle", "get", "try_get", "move", "free", "post"}
    BY DEF IInv, Locals, Local, Threads
  <2>3. mem \in [Threads -> Links] /\ value \in [Threads -> Elements \cup {Null}]
    BY DEF IInv, Locals, Local
  <2> QED
    BY <2>1, <2>2, <2>3, Q_Bounds DEF TypeOK, IInv, QTypes
<1> QED
  BY <1>1, Invariance, PTL

\* ChunksExact: no chunk is in two places and none disappears but by a throwing move,
\* so the assertions of send() and try_send() hold (messagequeue.hpp).
THEOREM ChunksKept == Spec => []ChunksExact
<1>1. IInv => ChunksExact
  <2> SUFFICES ASSUME IInv PROVE ChunksExact
    OBVIOUS
  <2>1. /\ \A t, u \in Threads : mem[t] = mem[u] /\ mem[t] # Null => t = u
        /\ Held \cap Queued = {} /\ FreeChunks \cap (Held \cup Queued) = {}
    BY DEF IInv, Apart, InUse
  <2>2. Cardinality(Queued) = Len(m_pointerQueue)
    BY DEF IInv, TokenSum
  <2>3. Cardinality(FreeChunks \cup Held \cup Queued) = NumElem - lostChunks
    <3> DEFINE T == FreeChunks \cup InUse
    <3>1. T = FreeChunks \cup Held \cup Queued
      BY DEF InUse
    <3>2. IsFiniteSet(T) /\ Cardinality(T) + lostChunks = NumElem /\ lostChunks \in Nat
      BY DEF IInv, ChunkSum, QTypes
    <3> HIDE DEF T
    <3>3. Cardinality(T) = NumElem - lostChunks
      BY <3>2, FS_CardinalityType, NumElemType
    <3> QED
      BY <3>1, <3>3
  <2> QED
    BY <2>1, <2>2, <2>3, Q_Bounds DEF ChunksExact
<1> QED
  BY <1>1, Invariance, PTL
-----------------------------------------------------------------------------
(* The refinement. *)

\* The elements in the ring, and what each receiver has.
QueueOf == [k \in 1 .. Len(m_pointerQueue) |-> memory[m_pointerQueue[k]]]
GotOf == [r \in Receivers |-> IF pc[r] = "move" THEN memory[mem[r]] ELSE value[r]]

\* A step that writes to no chunk of the ring, and none that a receiver has taken.
LEMMA Q_Same ==
  ASSUME IInv, NEW t \in Threads, NEW l, NEW v,
         m_pointerQueue' = m_pointerQueue,
         \A c \in Queued : memory'[c] = memory[c],
         \A r \in Receivers \ {t} : /\ pc'[r] = pc[r] /\ mem'[r] = mem[r] /\ value'[r] = value[r]
                                    /\ pc[r] = "move" => memory'[mem[r]] = memory[mem[r]]
  PROVE  /\ QueueOf' = QueueOf
         /\ t \notin Receivers => GotOf' = GotOf
         /\ t \in Receivers => GotOf' = [GotOf EXCEPT ![t] =
                                 IF pc'[t] = "move" THEN memory'[mem'[t]] ELSE value'[t]]
<1>1. \A k \in 1 .. Len(m_pointerQueue) : m_pointerQueue[k] \in Queued
  BY DEF Queued
<1>2. QueueOf' = QueueOf
  BY <1>1 DEF QueueOf
<1>3. ASSUME NEW r \in Receivers, r # t PROVE GotOf'[r] = GotOf[r]
  BY <1>3 DEF GotOf
<1>4. t \in Receivers => GotOf'[t] = IF pc'[t] = "move" THEN memory'[mem'[t]] ELSE value'[t]
  BY DEF GotOf
<1>5. GotOf = [r \in Receivers |-> GotOf[r]] /\ GotOf' = [r \in Receivers |-> GotOf'[r]]
  BY DEF GotOf
<1> QED
  BY <1>2, <1>3, <1>4, <1>5

\* The contents of the chunks, with one more ...
LEMMA Q_MapAppend ==
  ASSUME NEW q \in Seq(Chunks), NEW c \in Chunks, NEW f
  PROVE  [k \in 1 .. Len(Append(q, c)) |-> f[Append(q, c)[k]]] 
         = Append([k \in 1 .. Len(q) |-> f[q[k]]], f[c])
<1> DEFINE m == [k \in 1 .. Len(q) |-> f[q[k]]]
<1> DEFINE n == [k \in 1 .. Len(Append(q, c)) |-> f[Append(q, c)[k]]]
<1>1. Len(q) \in Nat /\ Len(Append(q, c)) = Len(q) + 1
  OBVIOUS
<1>2. m \in Seq({f[x] : x \in Chunks}) /\ Len(m) = Len(q)
  OBVIOUS
<1>3. n \in Seq({f[x] : x \in Chunks}) /\ Len(n) = Len(q) + 1
  BY <1>1
<1>4. Append(m, f[c]) \in Seq({f[x] : x \in Chunks}) /\ Len(Append(m, f[c])) = Len(q) + 1
  BY <1>2
<1>5. ASSUME NEW k \in 1 .. Len(q) + 1 PROVE n[k] = Append(m, f[c])[k]
  BY <1>1, <1>2
<1> HIDE DEF m, n
<1>6. n = Append(m, f[c])
  BY <1>1, <1>3, <1>4, <1>5, SeqEqual
<1> QED
  BY <1>6 DEF m, n

\* ... or without the first.
LEMMA Q_MapTail ==
  ASSUME NEW q \in Seq(Chunks), q # <<>>, NEW f
  PROVE  /\ [k \in 1 .. Len(q) |-> f[q[k]]] # <<>>
         /\ Head([k \in 1 .. Len(q) |-> f[q[k]]]) = f[Head(q)]
         /\ [k \in 1 .. Len(Tail(q)) |-> f[Tail(q)[k]]] = Tail([k \in 1 .. Len(q) |-> f[q[k]]])
<1> DEFINE m == [k \in 1 .. Len(q) |-> f[q[k]]]
<1> DEFINE n == [k \in 1 .. Len(Tail(q)) |-> f[Tail(q)[k]]]
<1>1. Len(q) \in Nat /\ Len(q) # 0 /\ Tail(q) \in Seq(Chunks) /\ Len(Tail(q)) = Len(q) - 1
  OBVIOUS
<1>2. m \in Seq({f[x] : x \in Chunks}) /\ Len(m) = Len(q)
  OBVIOUS
<1>3. n \in Seq({f[x] : x \in Chunks}) /\ Len(n) = Len(q) - 1
  BY <1>1
<1>4. m # <<>> /\ Head(m) = f[Head(q)]
  BY <1>1, <1>2
<1>5. Tail(m) \in Seq({f[x] : x \in Chunks}) /\ Len(Tail(m)) = Len(q) - 1
  BY <1>1, <1>2
<1>6. ASSUME NEW k \in 1 .. Len(q) - 1 PROVE n[k] = Tail(m)[k]
  BY <1>1, <1>2
<1> HIDE DEF m, n
<1>7. n = Tail(m)
  BY <1>1, <1>3, <1>5, <1>6, SeqEqual
<1> QED
  BY <1>4, <1>7 DEF m, n


\* A thread writes to its chunk: no other chunk in use changes.
LEMMA Q_Writes ==
  ASSUME IInv, NEW t \in Threads, mem[t] # Null, NEW x, memory' = [memory EXCEPT ![mem[t]] = x]
  PROVE  /\ \A c \in Queued : memory'[c] = memory[c]
         /\ \A r \in Receivers \ {t} : pc[r] = "move" => memory'[mem[r]] = memory[mem[r]]
<1>1. mem[t] \in Chunks /\ mem[t] \notin Queued
  BY Q_Free
<1>2. \A c \in Queued : c \in Chunks
  BY DEF Queued, IInv, QTypes
<1>3. memory = [c \in Chunks |-> memory[c]]
  BY DEF IInv, QTypes
<1>4. ASSUME NEW r \in Receivers \ {t}, pc[r] = "move" PROVE mem[r] \in Chunks /\ mem[r] # mem[t]
  BY <1>4 DEF IInv, Locals, Local, Using, Links, Apart, Threads
<1> QED
  BY <1>1, <1>2, <1>3, <1>4

\* What the bounded queue sees of a step: nothing, or one of its operations.
Stays == QueueOf' = QueueOf /\ GotOf' = GotOf
Puts == \E e \in Elements : Len(QueueOf) < NumElem /\ QueueOf' = Append(QueueOf, e)
    /\ GotOf' = GotOf
Gets == \E r \in Receivers : /\ QueueOf # <<>> /\ GotOf' = [GotOf EXCEPT ![r] = Head(QueueOf)]
                             /\ QueueOf' = Tail(QueueOf)
Forgets == \E r \in Receivers : GotOf' = [GotOf EXCEPT ![r] = Null] /\ QueueOf' = QueueOf

\* The bounded queue sees nothing of a sender before the pointer is in the ring, ...
LEMMA Q_Sender_Stays ==
  ASSUME IInv, NEW s \in Senders,
         \/ Send(s) \/ Send_Wait(s) \/ Send_Full(s) \/ Send_Allocate(s) \/ Send_Construct(s)
                \/ Send_Throws(s)
  PROVE  Stays
<1>1. s \in Threads /\ s \notin Receivers /\ \A r \in Receivers : r \in Threads /\ r # s
  BY SendersAreNoReceivers DEF Threads
<1>2. m_pointerQueue' = m_pointerQueue
  BY DEF Send, Send_Wait, Send_Full, Send_Allocate, Send_Construct, Send_Throws, poolVars
<1>3. ASSUME NEW r \in Receivers PROVE pc'[r] = pc[r] /\ mem'[r] = mem[r] /\ value'[r] = value[r]
  <2>1. r \in Threads /\ r # s /\ Locals
    BY <1>1 DEF IInv
  <2> QED
    BY <2>1 DEF Send, Send_Wait, Send_Full, Send_Allocate, Send_Construct, Send_Throws, From, Hold,
               Value, Locals
<1>4. /\ \A c \in Queued : memory'[c] = memory[c]
      /\ \A r \in Receivers \ {s} : pc[r] = "move" => memory'[mem[r]] = memory[mem[r]]
  <2>1. CASE memory' = memory
    BY <2>1
  <2>2. CASE Send_Construct(s) \/ Send_Throws(s)
    <3>1. pc[s] = "construct" /\ \E x : memory' = [memory EXCEPT ![mem[s]] = x]
      BY <2>2 DEF Send_Construct, Send_Throws, From, PushChunk
    <3>2. mem[s] # Null
      BY <3>1, <1>1 DEF IInv, Locals, Local, Using
    <3> QED
      BY <3>1, <3>2, <1>1, Q_Writes
  <2> QED
    BY <2>1, <2>2 DEF Send, Send_Wait, Send_Full, Send_Allocate, PopChunk, poolVars
<1> QED
  BY <1>1, <1>2, <1>3, <1>4, Q_Same DEF Stays

\* What a receiver has is that which its step leaves.
LEMMA Q_Receiver_Same ==
  ASSUME IInv, NEW r \in Receivers,
         m_pointerQueue' = m_pointerQueue,
         memory' = memory \/ (mem[r] # Null /\ \E x : memory' = [memory EXCEPT ![mem[r]] = x]),
         \A u \in Receivers \ {r} : pc'[u] = pc[u] /\ mem'[u] = mem[u] /\ value'[u] = value[u]
  PROVE  /\ QueueOf' = QueueOf
         /\ GotOf' = [GotOf EXCEPT ![r] = IF pc'[r] = "move" THEN memory'[mem'[r]] ELSE value'[r]]
<1>1. r \in Threads
  BY DEF Threads
<1>2. /\ \A c \in Queued : memory'[c] = memory[c]
      /\ \A u \in Receivers \ {r} : pc[u] = "move" => memory'[mem[u]] = memory[mem[u]]
  <2>1. CASE memory' = memory
    BY <2>1
  <2>2. CASE mem[r] # Null /\ \E x : memory' = [memory EXCEPT ![mem[r]] = x]
    BY <2>2, <1>1, Q_Writes
  <2> QED
    BY <2>1, <2>2
<1> QED
  BY <1>1, <1>2, Q_Same

\* Nor does it see when the element is moved out of the chunk, ...
LEMMA Q_Receiver_Stays ==
  ASSUME IInv, NEW r \in Receivers,
         Receive(r) \/ Receive_Empty(r) \/ Receive_Move(r) \/ Receive_Free(r)
  PROVE  Stays
<1>1. r \in Threads /\ Locals /\ Local(r, pc[r], mem[r], value[r])
  BY DEF Threads, IInv, Locals
<1>2. m_pointerQueue' = m_pointerQueue
  BY DEF Receive, Receive_Empty, Receive_Move, Receive_Free, poolVars
<1>3. memory' = memory \/ (mem[r] # Null /\ \E x : memory' = [memory EXCEPT ![mem[r]] = x])
  <2>1. CASE Receive_Free(r)
    <3>1. pc[r] = "free" /\ \E x : memory' = [memory EXCEPT ![mem[r]] = x]
      BY <2>1 DEF Receive_Free, From, PushChunk
    <3> QED
      BY <3>1, <1>1 DEF Local, Using
  <2> QED
    BY <2>1 DEF Receive, Receive_Empty, Receive_Move, poolVars
<1>4. \A u \in Receivers \ {r} : pc'[u] = pc[u] /\ mem'[u] = mem[u] /\ value'[u] = value[u]
  BY <1>1 DEF Receive, Receive_Empty, Receive_Move, Receive_Free, From, Hold, Value, Locals, Threads
<1> DEFINE now == IF pc[r] = "move" THEN memory[mem[r]] ELSE value[r]
<1> DEFINE then == IF pc'[r] = "move" THEN memory'[mem'[r]] ELSE value'[r]
<1>5. then = now
  <2>1. CASE Receive_Move(r)
    <3>1. /\ pc[r] = "move" /\ pc'[r] = "free" /\ value'[r] = memory[mem[r]]
      BY <2>1, <1>1 DEF Receive_Move, From, Value, Locals
    <3> QED
      BY <3>1
  <2>2. CASE Receive(r) \/ Receive_Empty(r) \/ Receive_Free(r)
    <3>1. /\ pc[r] # "move" /\ pc'[r] # "move" /\ value'[r] = value[r]
      BY <2>2, <1>1 DEF Receive, Receive_Empty, Receive_Free, From, Value, Locals
    <3> QED
      BY <3>1
  <2> QED
    BY <2>1, <2>2
<1>6. GotOf[r] = now /\ GotOf = [u \in Receivers |-> GotOf[u]]
  BY DEF GotOf
<1>7. QueueOf' = QueueOf /\ GotOf' = [GotOf EXCEPT ![r] = then]
  BY <1>2, <1>3, <1>4, Q_Receiver_Same
<1> HIDE DEF now, then
<1> QED
  BY <1>5, <1>6, <1>7 DEF Stays

\* ... but that the call ends.
LEMMA Q_Receiver_Forgets ==
  ASSUME IInv, NEW r \in Receivers, Receive_Throws(r) \/ Receive_Post(r)
  PROVE  Forgets
<1>1. r \in Threads /\ Locals /\ Local(r, pc[r], mem[r], value[r])
  BY DEF Threads, IInv, Locals
<1>2. m_pointerQueue' = m_pointerQueue /\ memory' = memory
  BY DEF Receive_Throws, Receive_Post, poolVars
<1>3. \A u \in Receivers \ {r} : pc'[u] = pc[u] /\ mem'[u] = mem[u] /\ value'[u] = value[u]
  BY <1>1 DEF Receive_Throws, Receive_Post, From, Hold, Value, Locals, Threads
<1>4. pc'[r] = "idle" /\ value'[r] = Null
  <2>1. CASE Receive_Throws(r)
    BY <2>1, <1>1 DEF Receive_Throws, From, Local, Locals
  <2>2. CASE Receive_Post(r)
    BY <2>2, <1>1 DEF Receive_Post, From, Value, Locals
  <2> QED
    BY <2>1, <2>2
<1>5. QueueOf' = QueueOf
  BY <1>2, <1>3, Q_Receiver_Same
<1>6. GotOf' = [GotOf EXCEPT ![r] = Null]
  BY <1>2, <1>3, <1>4, Q_Receiver_Same
<1> QED
  BY <1>5, <1>6 DEF Forgets

\* The element is in the queue when the pointer is in the ring, ...
LEMMA Q_Sender_Puts ==
  ASSUME IInv, NEW s \in Senders, Send_Put(s)
  PROVE  Puts
<1>1. s \in Threads /\ s \notin Receivers /\ Locals /\ Local(s, pc[s], mem[s], value[s])
  BY SendersAreNoReceivers DEF Threads, IInv, Locals
<1>2. /\ pc[s] = "put" /\ Len(m_pointerQueue) < NumElem
      /\ m_pointerQueue' = Append(m_pointerQueue, mem[s]) /\ memory' = memory
  BY DEF Send_Put, From, poolVars
<1>3. memory[mem[s]] \in Elements
  BY <1>1, <1>2 DEF IInv, Contents, Written, Local
<1>4. \A u \in Receivers : pc'[u] = pc[u] /\ mem'[u] = mem[u] /\ value'[u] = value[u]
  BY <1>1 DEF Send_Put, From, Hold, Value, Locals, Threads
<1>5. GotOf' = GotOf
  BY <1>2, <1>4 DEF GotOf
<1>6. m_pointerQueue \in Seq(Chunks) /\ Len(m_pointerQueue) \in Nat /\ mem[s] \in Chunks
  BY <1>1, <1>2 DEF IInv, QTypes, Local, Using, Links
<1>7. Len(QueueOf) = Len(m_pointerQueue)
  BY <1>6 DEF QueueOf
<1>8. QueueOf' = Append(QueueOf, memory[mem[s]])
  BY <1>2, <1>6, Q_MapAppend DEF QueueOf
<1> QED
  BY <1>2, <1>3, <1>5, <1>7, <1>8 DEF Puts

\* ... and out of it when a receiver has the pointer.
LEMMA Q_Receiver_Gets ==
  ASSUME IInv, NEW r \in Receivers, Receive_Get(r)
  PROVE  Gets
<1>1. r \in Threads /\ Locals
  BY DEF Threads, IInv
<1>2. /\ m_pointerQueue # <<>> /\ m_pointerQueue' = Tail(m_pointerQueue) /\ memory' = memory
      /\ mem' = [mem EXCEPT ![r] = Head(m_pointerQueue)] /\ pc' = [pc EXCEPT ![r] = "move"]
      /\ value' = value
  BY DEF Receive_Get, From, Hold, poolVars
<1>3. /\ \A u \in Receivers \ {r} : pc'[u] = pc[u] /\ mem'[u] = mem[u] /\ value'[u] = value[u]
      /\ pc'[r] = "move" /\ mem'[r] = Head(m_pointerQueue)
  BY <1>1, <1>2 DEF Locals, Threads
<1>4. m_pointerQueue \in Seq(Chunks)
  BY DEF IInv, QTypes
<1>5. /\ QueueOf # <<>> /\ Head(QueueOf) = memory[Head(m_pointerQueue)]
      /\ QueueOf' = Tail(QueueOf)
  BY <1>2, <1>4, Q_MapTail DEF QueueOf
<1>6. GotOf' = [GotOf EXCEPT ![r] = memory[Head(m_pointerQueue)]]
  <2>1. GotOf'[r] = memory[Head(m_pointerQueue)]
    BY <1>2, <1>3 DEF GotOf
  <2>2. \A u \in Receivers \ {r} : GotOf'[u] = GotOf[u]
    BY <1>2, <1>3 DEF GotOf
  <2>3. GotOf = [u \in Receivers |-> GotOf[u]] /\ GotOf' = [u \in Receivers |-> GotOf'[u]]
    BY DEF GotOf
  <2> QED
    BY <2>1, <2>2, <2>3
<1> QED
  BY <1>5, <1>6 DEF Gets

\* Every step is one of the bounded queue, or none.
LEMMA Q_Maps == IInv /\ [Next]_vars => Stays \/ Puts \/ Gets \/ Forgets
<1> SUFFICES ASSUME IInv, [Next]_vars PROVE Stays \/ Puts \/ Gets \/ Forgets
  OBVIOUS
<1>1. CASE UNCHANGED vars
  BY <1>1 DEF vars, poolVars, Stays, QueueOf, GotOf
<1>2. ASSUME NEW s \in Senders, Send(s) \/ Sender(s) PROVE Stays \/ Puts
  BY <1>2, Q_Sender_Stays, Q_Sender_Puts DEF Sender
<1>3. ASSUME NEW r \in Receivers, Receive(r) \/ Receiver(r) PROVE Stays \/ Gets \/ Forgets
  BY <1>3, Q_Receiver_Stays, Q_Receiver_Gets, Q_Receiver_Forgets DEF Receiver
<1> QED
  BY <1>1, <1>2, <1>3 DEF Next

\* ImplementsQueue: each element is received once, by one receiver, in the order and
\* with the value in which it was sent (messagequeue.hpp, LargeMessageQueue).
THEOREM QueueCorrect == Spec => ImplementsQueue
<1>1. Init => Abstract!BQInit
  <2> SUFFICES ASSUME Init PROVE Abstract!BQInit
    OBVIOUS
  <2>1. m_pointerQueue = <<>> /\ Len(m_pointerQueue) = 0
    BY DEF Init
  <2>2. [k \in 1 .. Len(m_pointerQueue) |-> memory[m_pointerQueue[k]]] = <<>>
    BY <2>1
  <2>3. \A r \in Receivers : pc[r] = "idle" /\ value[r] = Null
    BY DEF Init, Threads
  <2> QED
    BY <2>2, <2>3 DEF Abstract!BQInit
<1>2. IInv /\ [Next]_vars => [Abstract!BQNext]_(Abstract!bqVars)
  <2> SUFFICES ASSUME Stays \/ Puts \/ Gets \/ Forgets PROVE [Abstract!BQNext]_(Abstract!bqVars)
    BY Q_Maps
  <2>1. CASE Stays
    BY <2>1 DEF Stays, QueueOf, GotOf, Abstract!bqVars
  <2>2. CASE Puts
    BY <2>2 DEF Puts, QueueOf, GotOf, Abstract!BQNext, Abstract!Put
  <2>3. CASE Gets
    BY <2>3 DEF Gets, QueueOf, GotOf, Abstract!BQNext, Abstract!Get
  <2>4. CASE Forgets
    BY <2>4 DEF Forgets, QueueOf, GotOf, Abstract!BQNext, Abstract!Forget
  <2> QED
    BY <2>1, <2>2, <2>3, <2>4
<1> QED
  BY <1>1, <1>2, Invariance, PTL DEF Spec, ImplementsQueue, Abstract!BQSpec
=============================================================================
