---------------------------- MODULE Memory_proofs ----------------------------
(***************************************************************************)
(* The safety of what owns memory and of what is linked in it: the free    *)
(* list of a memory pool, object_pool, the list of threads, the stacks,    *)
(* intrusive_ptr, unique_ptr and function.  Each has an inductive          *)
(* invariant of its own, for any number of chunks, threads, pointers and   *)
(* objects.                                                                *)
(***************************************************************************)
EXTENDS ObjectPool, ThreadList, StackLayout, IntrusivePtr, UniquePtr, FunctionValue,
        FiniteSetTheorems, WellFoundedInduction, TLAPS

(* The free list: a chain that ends with Null.  FreeChunks, which follows the pointers  *)
(* from m_first on, are its chunks, so an allocation takes one and free() adds one.     *)

\* A non-empty set of natural numbers has a least element.
LEMMA LeastNatural ==
  ASSUME NEW S \in SUBSET Nat, S # {}
  PROVE  \E m \in S : \A k \in S : m <= k
<1>1. PICK m \in S : \A k \in S : ~(<<k, m>> \in OpToRel(<, Nat))
  BY NatLessThanWellFounded, WFMin
<1>2. \A k \in S : ~(k < m)
  BY <1>1 DEF OpToRel
<1> QED
  BY <1>2

\* The chunks are finitely many.
LEMMA UpTo ==
  ASSUME NEW n \in Nat
  PROVE  IsFiniteSet(1 .. n) /\ Cardinality(1 .. n) = n
<1>1. IsFiniteSet(1 .. n) /\ Cardinality(1 .. n) = IF 1 > n THEN 0 ELSE n - 1 + 1
  BY FS_Interval
<1>2. (IF 1 > n THEN 0 ELSE n - 1 + 1) = n
  OBVIOUS
<1> QED
  BY <1>1, <1>2

\* The chunks f[1] .. f[n] are the chain that starts with first, linked by links.
IsChain(f, n, first, links) ==
  /\ n \in 0 .. NumElem /\ f \in [1 .. n -> Chunks]
  /\ \A i, j \in 1 .. n : f[i] = f[j] => i = j
  /\ first = IF n = 0 THEN Null ELSE f[1]
  /\ \A i \in 1 .. n : links[f[i]] = IF i = n THEN Null ELSE f[i + 1]

\* What FreeChunks follows, from first on: g is the chain, and Null behind it.
FreeFollows(g, first, links) ==
  g = [k \in Chunks |-> IF k = 1 THEN first
                        ELSE IF g[k - 1] \in Chunks THEN links[g[k - 1]] ELSE Null]

\* The chain with Null behind it.
Padded(f, n) == [k \in Chunks |-> IF k <= n THEN f[k] ELSE Null]

\* The recursive function of FreeChunks has one solution, the chain with Null behind
\* it: two solutions would differ in a first place.
LEMMA ChainFollowed ==
  ASSUME NEW f, NEW n, NEW first, NEW links, IsChain(f, n, first, links), NEW g
  PROVE  FreeFollows(g, first, links) <=> g = Padded(f, n)
<1> DEFINE h == Padded(f, n)
<1>1. n \in Nat /\ n <= NumElem /\ f \in [1 .. n -> Chunks] /\ NumElem \in Nat /\ NumElem # 0
  BY NumElemType DEF IsChain
<1>2. ASSUME NEW k \in Chunks
      PROVE  h[k] = IF k = 1 THEN first
                             ELSE IF h[k - 1] \in Chunks THEN links[h[k - 1]] ELSE Null
  <2>1. CASE k = 1
    BY <1>1, <2>1 DEF IsChain, Chunks, Padded
  <2>2. CASE k # 1
    <3>1. k - 1 \in Chunks /\ k \in Nat /\ k - 1 \in Nat
      BY <2>2, <1>1 DEF Chunks
    <3>2. CASE k - 1 <= n
      <4>1. h[k - 1] = f[k - 1] /\ f[k - 1] \in Chunks /\ k - 1 \in 1 .. n
        BY <3>1, <3>2, <1>1 DEF Chunks, Padded
      <4>2. links[f[k - 1]] = IF k - 1 = n THEN Null ELSE f[(k - 1) + 1]
        BY <4>1 DEF IsChain
      <4>3. (k - 1) + 1 = k /\ (k - 1 = n <=> ~(k <= n))
        BY <3>1, <3>2, <1>1
      <4> QED
        BY <2>2, <4>1, <4>2, <4>3 DEF Padded
    <3>3. CASE ~(k - 1 <= n)
      <4>1. h[k - 1] = Null /\ h[k] = Null
        BY <3>1, <3>3, <1>1 DEF Padded
      <4> QED
        BY <2>2, <4>1, NullIsNoChunk DEF Chunks
    <3> QED
      BY <3>2, <3>3
  <2> QED
    BY <2>1, <2>2
<1>3. ASSUME g = h PROVE FreeFollows(g, first, links)
  <2>1. \A k \in Chunks : g[k] = IF k = 1 THEN first
                                 ELSE IF g[k - 1] \in Chunks THEN links[g[k - 1]] ELSE Null
    BY <1>2, <1>3
  <2>2. g = [k \in Chunks |-> g[k]]
    BY <1>3 DEF Padded
  <2> QED
    BY <2>1, <2>2 DEF FreeFollows
<1>4. ASSUME FreeFollows(g, first, links) PROVE g = h
  <2> DEFINE Differ == {k \in Chunks : g[k] # h[k]}
  <2>1. CASE Differ = {}
    BY <1>4, <2>1 DEF FreeFollows, Padded
  <2>2. CASE Differ # {}
    <3>1. Differ \in SUBSET Nat
      BY <1>1 DEF Chunks
    <3>2. PICK m \in Differ : \A k \in Differ : m <= k
      BY <2>2, <3>1, LeastNatural
    <3>3. m # 1
      BY <3>2, <1>2, <1>4 DEF FreeFollows
    <3>4. m - 1 \in Chunks /\ m - 1 \notin Differ
      BY <1>1, <3>2, <3>3 DEF Chunks
    <3>5. g[m - 1] = h[m - 1]
      BY <3>4
    <3>6. m \in Chunks /\ g[m] # h[m]
      BY <3>2
    <3>7. g[m] = IF g[m - 1] \in Chunks THEN links[g[m - 1]] ELSE Null
      BY <3>3, <3>6, <1>4 DEF FreeFollows
    <3>8. h[m] = IF h[m - 1] \in Chunks THEN links[h[m - 1]] ELSE Null
      BY <3>3, <3>6, <1>2
    <3> QED
      BY <3>5, <3>6, <3>7, <3>8
  <2> QED
    BY <2>1, <2>2
<1> QED
  BY <1>3, <1>4

\* Null is no chunk.
LEMMA PaddedChunks ==
  ASSUME NEW f, NEW n, NEW first, NEW links, IsChain(f, n, first, links)
  PROVE  {Padded(f, n)[k] : k \in Chunks} \cap Chunks = {f[i] : i \in 1 .. n}
<1>1. n \in Nat /\ n <= NumElem /\ NumElem \in Nat /\ f \in [1 .. n -> Chunks] /\ Null \notin Chunks
  BY NullIsNoChunk, NumElemType DEF IsChain, Chunks
<1>2. \A k \in Chunks : Padded(f, n)[k] = IF k <= n THEN f[k] ELSE Null
  BY DEF Padded
<1>3. ASSUME NEW k \in Chunks, Padded(f, n)[k] \in Chunks
      PROVE  k \in 1 .. n /\ Padded(f, n)[k] = f[k]
  BY <1>1, <1>2, <1>3 DEF Chunks
<1>4. ASSUME NEW i \in 1 .. n
      PROVE  i \in Chunks /\ Padded(f, n)[i] = f[i] /\ f[i] \in Chunks
  BY <1>1, <1>2 DEF Chunks
<1> QED
  BY <1>3, <1>4

\* FreeChunks are the chunks of the chain, before a step ...
LEMMA FreeChunksAre ==
  ASSUME NEW f, NEW n, IsChain(f, n, m_first, memory)
  PROVE  FreeChunks = {f[i] : i \in 1 .. n}
<1> DEFINE at == CHOOSE g : g = [k \in Chunks |-> IF k = 1 THEN m_first
                                ELSE IF g[k - 1] \in Chunks THEN memory[g[k - 1]] ELSE Null]
<1>1. at = Padded(f, n)
  BY ChainFollowed DEF FreeFollows
<1>2. FreeChunks = {at[k] : k \in Chunks} \cap Chunks
  BY DEF FreeChunks
<1>3. {Padded(f, n)[k] : k \in Chunks} \cap Chunks = {f[i] : i \in 1 .. n}
  BY PaddedChunks
<1> HIDE DEF at
<1> QED
  BY <1>1, <1>2, <1>3

\* ... and after it.
LEMMA FreeChunksBecome ==
  ASSUME NEW f, NEW n, IsChain(f, n, m_first', memory')
  PROVE  FreeChunks' = {f[i] : i \in 1 .. n}
<1> DEFINE at == CHOOSE g : g = [k \in Chunks |-> IF k = 1 THEN m_first'
                                ELSE IF g[k - 1] \in Chunks THEN memory'[g[k - 1]] ELSE Null]
<1>1. at = Padded(f, n)
  BY ChainFollowed DEF FreeFollows
<1>2. FreeChunks' = {at[k] : k \in Chunks} \cap Chunks
  BY DEF FreeChunks
<1>3. {Padded(f, n)[k] : k \in Chunks} \cap Chunks = {f[i] : i \in 1 .. n}
  BY PaddedChunks
<1> HIDE DEF at
<1> QED
  BY <1>1, <1>2, <1>3

\* The free list is a chain.
Linked == \E n \in 0 .. NumElem : \E f \in [1 .. n -> Chunks] : IsChain(f, n, m_first, memory)

\* The constructor links all chunks.
LEMMA Free_Init == FreeListInit => Linked /\ FreeChunks = Chunks
<1> SUFFICES ASSUME FreeListInit PROVE Linked /\ FreeChunks = Chunks
  OBVIOUS
<1> DEFINE f == [i \in 1 .. NumElem |-> i]
<1>1. IsChain(f, NumElem, m_first, memory)
  <2>1. NumElem \in 0 .. NumElem /\ f \in [1 .. NumElem -> Chunks]
    BY NumElemType DEF Chunks
  <2>2. m_first = IF NumElem = 0 THEN Null ELSE f[1]
    BY NumElemType DEF FreeListInit
  <2>3. \A i \in 1 .. NumElem : memory[f[i]] = IF i = NumElem THEN Null ELSE f[i + 1]
    BY NumElemType DEF FreeListInit, Chunks
  <2>4. \A i, j \in 1 .. NumElem : f[i] = f[j] => i = j
    OBVIOUS
  <2> HIDE DEF f
  <2> QED
    BY <2>1, <2>2, <2>3, <2>4 DEF IsChain
<1>2. f \in [1 .. NumElem -> Chunks] /\ NumElem \in 0 .. NumElem
  BY NumElemType DEF Chunks
<1>3. FreeChunks = {f[i] : i \in 1 .. NumElem}
  BY <1>1, FreeChunksAre
<1> QED
  BY <1>1, <1>2, <1>3 DEF Linked, Chunks

\* The list is empty or starts with a free chunk.
LEMMA Free_First ==
  ASSUME Linked
  PROVE  /\ FreeChunks \subseteq Chunks
         /\ m_first \in FreeChunks \cup {Null}
         /\ m_first = Null => FreeChunks = {}
<1>1. PICK n \in 0 .. NumElem : \E f \in [1 .. n -> Chunks] : IsChain(f, n, m_first, memory)
  BY DEF Linked
<1>2. PICK f \in [1 .. n -> Chunks] : IsChain(f, n, m_first, memory)
  BY <1>1
<1>3. FreeChunks = {f[i] : i \in 1 .. n}
  BY <1>2, FreeChunksAre
<1>4. m_first = IF n = 0 THEN Null ELSE f[1]
  BY <1>2 DEF IsChain
<1>5. n \in Nat
  BY NumElemType
<1> QED
  BY <1>3, <1>4, <1>5, NullIsNoChunk DEF Chunks

\* A step that writes to no free chunk.
LEMMA Free_Write ==
  ASSUME Linked, m_first' = m_first, \A c \in FreeChunks : memory'[c] = memory[c]
  PROVE  Linked' /\ FreeChunks' = FreeChunks
<1>1. PICK n \in 0 .. NumElem : \E f \in [1 .. n -> Chunks] : IsChain(f, n, m_first, memory)
  BY DEF Linked
<1>2. PICK f \in [1 .. n -> Chunks] : IsChain(f, n, m_first, memory)
  BY <1>1
<1>3. FreeChunks = {f[i] : i \in 1 .. n}
  BY <1>2, FreeChunksAre
<1>4. \A i \in 1 .. n : memory'[f[i]] = memory[f[i]]
  BY <1>3
<1>5. IsChain(f, n, m_first', memory')
  BY <1>2, <1>4 DEF IsChain
<1>6. FreeChunks' = {f[i] : i \in 1 .. n}
  BY <1>5, FreeChunksBecome
<1> QED
  BY <1>3, <1>5, <1>6 DEF Linked

\* try_allocate() takes the first chunk.
LEMMA Free_Pop ==
  ASSUME Linked, PopChunk
  PROVE  /\ Linked' /\ m_first \in FreeChunks /\ FreeChunks' = FreeChunks \ {m_first}
<1>1. PICK n \in 0 .. NumElem : \E f \in [1 .. n -> Chunks] : IsChain(f, n, m_first, memory)
  BY DEF Linked
<1>2. PICK f \in [1 .. n -> Chunks] : IsChain(f, n, m_first, memory)
  BY <1>1
<1>3. FreeChunks = {f[i] : i \in 1 .. n}
  BY <1>2, FreeChunksAre
<1>4. n \in Nat /\ n # 0 /\ m_first = f[1] /\ m_first' = memory[f[1]] /\ memory' = memory
  BY <1>2, NumElemType DEF IsChain, PopChunk
<1> DEFINE g == [i \in 1 .. (n - 1) |-> f[i + 1]]
<1>5. IsChain(g, n - 1, m_first', memory')
  <2>1. n - 1 \in 0 .. NumElem /\ g \in [1 .. (n - 1) -> Chunks]
    BY <1>4, NumElemType
  <2>2. \A i, j \in 1 .. (n - 1) : g[i] = g[j] => i = j
    BY <1>2, <1>4 DEF IsChain
  <2>3. memory'[f[1]] = IF 1 = n THEN Null ELSE f[2]
    BY <1>2, <1>4 DEF IsChain
  <2>4. m_first' = IF n - 1 = 0 THEN Null ELSE g[1]
    BY <1>4, <2>3
  <2>5. ASSUME NEW i \in 1 .. (n - 1) PROVE memory'[g[i]] = IF i = n - 1 THEN Null ELSE g[i + 1]
    <3>1. memory[f[i + 1]] = IF i + 1 = n THEN Null ELSE f[(i + 1) + 1]
      BY <1>2, <1>4 DEF IsChain
    <3> QED
      BY <3>1, <1>4
  <2> HIDE DEF g
  <2> QED
    BY <2>1, <2>2, <2>4, <2>5 DEF IsChain
<1>6. FreeChunks' = {g[i] : i \in 1 .. (n - 1)}
  <2> HIDE DEF g
  <2> QED
    BY <1>5, FreeChunksBecome
<1>7. {g[i] : i \in 1 .. (n - 1)} = {f[i] : i \in 1 .. n} \ {f[1]}
  <2>1. ASSUME NEW i \in 1 .. (n - 1)
        PROVE  i + 1 \in 1 .. n /\ i + 1 # 1 /\ g[i] = f[i + 1] /\ g[i] # f[1]
    BY <1>2, <1>4 DEF IsChain
  <2>2. ASSUME NEW i \in 1 .. n, f[i] # f[1] PROVE i - 1 \in 1 .. (n - 1) /\ g[i - 1] = f[i]
    BY <1>4, <2>2
  <2> HIDE DEF g
  <2> QED
    BY <2>1, <2>2
<1>8. Linked'
  <2>1. n - 1 \in 0 .. NumElem /\ g \in [1 .. (n - 1) -> Chunks]
    BY <1>5 DEF IsChain
  <2> HIDE DEF g
  <2> QED
    BY <1>5, <2>1 DEF Linked
<1>9. m_first \in FreeChunks
  BY <1>3, <1>4
<1> QED
  BY <1>3, <1>4, <1>6, <1>7, <1>8, <1>9

\* free() adds a chunk that was not in the list.
LEMMA Free_Push ==
  ASSUME Linked, NEW c \in Chunks, c \notin FreeChunks, PushChunk(c),
         memory = [k \in Chunks |-> memory[k]]
  PROVE  Linked' /\ FreeChunks' = FreeChunks \cup {c}
<1>1. PICK n \in 0 .. NumElem : \E f \in [1 .. n -> Chunks] : IsChain(f, n, m_first, memory)
  BY DEF Linked
<1>2. PICK f \in [1 .. n -> Chunks] : IsChain(f, n, m_first, memory)
  BY <1>1
<1>3. FreeChunks = {f[i] : i \in 1 .. n}
  BY <1>2, FreeChunksAre
<1>4. /\ n \in Nat /\ m_first = IF n = 0 THEN Null ELSE f[1]
      /\ m_first' = c /\ memory' = [memory EXCEPT ![c] = m_first]
  BY <1>2, NumElemType DEF IsChain, PushChunk
<1> DEFINE g == [i \in 1 .. (n + 1) |-> IF i = 1 THEN c ELSE f[i - 1]]
<1>5. g \in [1 .. (n + 1) -> Chunks] /\ g[1] = c /\ \A i \in 1 .. n : g[i + 1] = f[i]
  BY <1>4
<1>6. \A i, j \in 1 .. (n + 1) : g[i] = g[j] => i = j
  <2>1. ASSUME NEW i \in 1 .. (n + 1), i # 1 PROVE i - 1 \in 1 .. n /\ g[i] = f[i - 1] /\ g[i] # c
    BY <1>3, <1>4, <2>1
  <2>2. \A i, j \in 1 .. n : f[i] = f[j] => i = j
    BY <1>2 DEF IsChain
  <2> HIDE DEF g
  <2>3. ASSUME NEW i \in 1 .. (n + 1), NEW j \in 1 .. (n + 1), g[i] = g[j], i # 1, j # 1 PROVE i = j
    <3>1. i - 1 = j - 1
      BY <2>1, <2>2, <2>3
    <3> QED
      BY <3>1, <1>4
  <2> QED
    BY <2>1, <2>3, <1>5
<1>7. n + 1 \in 0 .. NumElem
  <2>1. IsFiniteSet(1 .. (n + 1)) /\ Cardinality(1 .. (n + 1)) = n + 1
    BY <1>4, UpTo
  <2>2. IsFiniteSet(Chunks) /\ Cardinality(Chunks) = NumElem
    BY NumElemType, UpTo DEF Chunks
  <2> HIDE DEF g
  <2>3. g \in Injection(1 .. (n + 1), Chunks)
    BY <1>5, <1>6 DEF Injection, IsInjective
  <2>4. Cardinality(1 .. (n + 1)) <= Cardinality(Chunks)
    BY <2>2, <2>3, FS_Injection
  <2> QED
    BY <2>1, <2>2, <2>4, <1>4, NumElemType
<1>8. ASSUME NEW i \in 1 .. (n + 1) PROVE memory'[g[i]] = IF i = n + 1 THEN Null ELSE g[i + 1]
  <2>1. CASE i = 1
    <3>1. memory'[c] = m_first
      BY <1>4
    <3> QED
      BY <3>1, <2>1, <1>4, <1>5
  <2>2. CASE i # 1
    <3>1. i - 1 \in 1 .. n /\ g[i] = f[i - 1] /\ f[i - 1] # c /\ f[i - 1] \in Chunks
      BY <1>3, <1>4, <2>2
    <3>2. memory'[f[i - 1]] = memory[f[i - 1]]
      BY <3>1, <1>4
    <3>3. memory[f[i - 1]] = IF i - 1 = n THEN Null ELSE f[(i - 1) + 1]
      BY <3>1, <1>2 DEF IsChain
    <3>4. (i - 1) + 1 = i /\ (i - 1 = n <=>
              i = n + 1) /\ (i # n + 1 => i + 1 \in 1 .. (n + 1) /\ g[i + 1] = f[i])
      BY <1>4, <2>2
    <3> QED
      BY <3>1, <3>2, <3>3, <3>4
  <2> QED
    BY <2>1, <2>2
<1>9. IsChain(g, n + 1, m_first', memory')
  <2>1. m_first' = IF n + 1 = 0 THEN Null ELSE g[1]
    BY <1>4, <1>5
  <2> HIDE DEF g
  <2> QED
    BY <1>5, <1>6, <1>7, <1>8, <2>1 DEF IsChain
<1>10. FreeChunks' = {g[i] : i \in 1 .. (n + 1)}
  <2> HIDE DEF g
  <2> QED
    BY <1>9, FreeChunksBecome
<1>11. {g[i] : i \in 1 .. (n + 1)} = {f[i] : i \in 1 .. n} \cup {c}
  <2>1. ASSUME NEW i \in 1 .. (n + 1) PROVE g[i] \in {f[j] : j \in 1 .. n} \cup {c}
    <3>1. i = 1 \/ i - 1 \in 1 .. n
      BY <1>4
    <3> QED
      BY <3>1
  <2>2. ASSUME NEW i \in 1 .. n PROVE i + 1 \in 1 .. (n + 1) /\ g[i + 1] = f[i]
    BY <1>4, <1>5
  <2>3. 1 \in 1 .. (n + 1)
    BY <1>4
  <2> HIDE DEF g
  <2> QED
    BY <2>1, <2>2, <2>3, <1>5
<1>12. Linked'
  <2> HIDE DEF g
  <2> QED
    BY <1>5, <1>7, <1>9 DEF Linked
<1> QED
  BY <1>3, <1>10, <1>11, <1>12
-----------------------------------------------------------------------------
(* ObjectPool. *)

\* A thread holds a chunk while it constructs or frees.
PoolHeld == \A u \in PoolUsers : chunk[u] = Null <=> poolAt[u] = "out"

\* The chunks that calls have in their hands.
InCalls == {chunk[u] : u \in PoolUsers} \ {Null}

\* The inductive invariant.
PoolIInv == ObjectPoolTypeOK /\ Linked /\ PoolHeld /\ PoolExact

\* Every chunk is free, in the hands of one thread, or an object.
LEMMA Pool_Init == ObjectPoolInit => PoolIInv
<1> SUFFICES ASSUME ObjectPoolInit PROVE PoolIInv
  OBVIOUS
<1>1. Linked /\ FreeChunks = Chunks
  BY Free_Init DEF ObjectPoolInit
<1>2. ObjectPoolTypeOK
  BY NumElemType DEF ObjectPoolTypeOK, ObjectPoolInit, FreeListInit, Links, Chunks
<1>3. PoolHeld
  BY DEF PoolHeld, ObjectPoolInit
<1>4. InCalls = {} /\ objects = {} /\ \A u \in PoolUsers : chunk[u] = Null
  BY DEF InCalls, ObjectPoolInit
<1>5. PoolExact
  BY <1>1, <1>4 DEF PoolExact, InCalls
<1> QED
  BY <1>1, <1>2, <1>3, <1>5 DEF PoolIInv

\* The invariant with the chunks in calls by their name.
LEMMA Pool_Parts ==
  ASSUME PoolIInv
  PROVE  /\ \A u, v \in PoolUsers : chunk[u] = chunk[v] /\ chunk[u] # Null => u = v
         /\ FreeChunks \cap InCalls = {} /\ FreeChunks \cap objects = {}
         /\ InCalls \cap objects = {} /\ FreeChunks \cup InCalls \cup objects = Chunks
         /\ \A c \in objects : memory[c] = Element
         /\ \A u \in PoolUsers : chunk[u] = Null <=> poolAt[u] = "out"
         /\ m_first \in Links /\ memory \in [Chunks -> Links \cup {Element}]
         /\ poolAt \in [PoolUsers -> {"out", "construct", "free"}]
         /\ chunk \in [PoolUsers -> Links] /\ objects \subseteq Chunks
         /\ Null \notin Chunks
BY NullIsNoChunk DEF PoolIInv, PoolExact, InCalls, PoolHeld, ObjectPoolTypeOK, Chunks

\* The list starts with a chunk or is empty.
LEMMA Pool_First == Linked => m_first \in Links
BY Free_First DEF Links

\* A thread takes a chunk c, which is in no call: the chunks in calls become one more.
LEMMA Pool_Takes ==
  ASSUME PoolIInv, NEW u \in PoolUsers, chunk[u] = Null, NEW c \in Chunks, c \notin InCalls,
         chunk' = [chunk EXCEPT ![u] = c]
  PROVE  /\ InCalls' = InCalls \cup {c}
         /\ \A x, v \in PoolUsers : chunk'[x] = chunk'[v] /\ chunk'[x] # Null => x = v
         /\ chunk' \in [PoolUsers -> Links]
<1>1. chunk \in [PoolUsers -> Links] /\ c # Null
  BY Pool_Parts
<1>2. chunk'[u] = c /\ \A v \in PoolUsers \ {u} : chunk'[v] = chunk[v] /\ chunk[v] # c
  BY <1>1 DEF InCalls
<1>3. ASSUME NEW d PROVE d \in InCalls' <=> d \in InCalls \cup {c}
  <2>1. d \in InCalls' <=> d # Null /\ \E v \in PoolUsers : chunk'[v] = d
    BY DEF InCalls
  <2>2. d \in InCalls <=> d # Null /\ \E v \in PoolUsers : chunk[v] = d
    BY DEF InCalls
  <2> QED
    BY <2>1, <2>2, <1>1, <1>2
<1>4. \A x, v \in PoolUsers : chunk[x] = chunk[v] /\ chunk[x] # Null => x = v
  BY Pool_Parts
<1>5. chunk' \in [PoolUsers -> Links]
  BY <1>1 DEF Links
<1> QED
  BY <1>2, <1>3, <1>4, <1>5

\* A thread gives its chunk away: the chunks in calls become one less.
LEMMA Pool_Gives ==
  ASSUME PoolIInv, NEW u \in PoolUsers, chunk[u] # Null, chunk' = [chunk EXCEPT ![u] = Null]
  PROVE  /\ InCalls' = InCalls \ {chunk[u]} /\ chunk[u] \in InCalls
         /\ \A x, v \in PoolUsers : chunk'[x] = chunk'[v] /\ chunk'[x] # Null => x = v
         /\ chunk' \in [PoolUsers -> Links]
<1>1. chunk \in [PoolUsers -> Links]
  BY Pool_Parts
<1>2. chunk'[u] = Null /\ \A v \in PoolUsers \ {u} : chunk'[v] = chunk[v] /\ chunk[v] # chunk[u]
  BY <1>1, Pool_Parts
<1>3. ASSUME NEW d PROVE d \in InCalls' <=> d \in InCalls \ {chunk[u]}
  <2>1. d \in InCalls' <=> d # Null /\ \E v \in PoolUsers : chunk'[v] = d
    BY DEF InCalls
  <2>2. d \in InCalls <=> d # Null /\ \E v \in PoolUsers : chunk[v] = d
    BY DEF InCalls
  <2> QED
    BY <2>1, <2>2, <1>1, <1>2
<1>4. \A x, v \in PoolUsers : chunk[x] = chunk[v] /\ chunk[x] # Null => x = v
  BY Pool_Parts
<1>5. chunk' \in [PoolUsers -> Links]
  BY <1>1 DEF Links
<1>6. chunk[u] \in InCalls
  BY DEF InCalls
<1> QED
  BY <1>2, <1>3, <1>4, <1>5, <1>6

\* try_construct() with a chunk.
LEMMA Pool_Allocate ==
  ASSUME PoolIInv, NEW u \in PoolUsers, TryConstruct_Allocate(u)
  PROVE  PoolIInv'
<1> DEFINE c == m_first
<1>1. PopChunk /\ poolAt[u] = "out" /\ poolAt' = [poolAt EXCEPT ![u] = "construct"]
      /\ chunk' = [chunk EXCEPT ![u] = c] /\ objects' = objects /\ memory' = memory
  BY DEF TryConstruct_Allocate, PoolStep, PopChunk
<1>2. Linked' /\ c \in FreeChunks /\ FreeChunks' = FreeChunks \ {c}
  BY <1>1, Free_Pop DEF PoolIInv
<1> HIDE DEF c
<1>3. chunk[u] = Null /\ c \in Chunks /\ c \notin InCalls /\ c \notin objects /\ c # Null
  BY <1>1, <1>2, Pool_Parts
<1>4. /\ InCalls' = InCalls \cup {c}
      /\ \A x, v \in PoolUsers : chunk'[x] = chunk'[v] /\ chunk'[x] # Null => x = v
      /\ chunk' \in [PoolUsers -> Links]
  BY <1>1, <1>3, Pool_Takes
<1>5. m_first' \in Links
  <2>1. (Linked => m_first \in Links)'
    BY Pool_First, PTL
  <2> QED
    BY <1>2, <2>1 DEF Links, Chunks
<1>6. ObjectPoolTypeOK'
  <2>1. poolAt' \in [PoolUsers -> {"out", "construct", "free"}]
            /\ memory' \in [Chunks -> Links \cup {Element}]
    BY <1>1, Pool_Parts
  <2> QED
    BY <2>1, <1>1, <1>4, <1>5, Pool_Parts DEF ObjectPoolTypeOK, Chunks, Links
<1>7. PoolHeld'
  BY <1>1, <1>3, Pool_Parts DEF PoolHeld
<1>8. PoolExact'
  <2>1. FreeChunks' \cap InCalls' = {} /\ FreeChunks' \cap objects' = {}
            /\ InCalls' \cap objects' = {}
    BY <1>1, <1>2, <1>3, <1>4, Pool_Parts
  <2>2. FreeChunks' \cup InCalls' \cup objects' = Chunks
    BY <1>1, <1>2, <1>3, <1>4, Pool_Parts
  <2>3. \A d \in objects' : memory'[d] = Element
    BY <1>1, Pool_Parts
  <2> QED
    BY <2>1, <2>2, <2>3, <1>4 DEF PoolExact, InCalls, Chunks
<1> QED
  BY <1>2, <1>6, <1>7, <1>8 DEF PoolIInv

\* A constructor that returns or throws has written to the chunk of its thread only.
LEMMA Pool_Writes ==
  ASSUME PoolIInv, NEW u \in PoolUsers, chunk[u] # Null, m_first' = m_first,
         memory' = [memory EXCEPT ![chunk[u]] = Element]
  PROVE  /\ Linked' /\ FreeChunks' = FreeChunks /\ memory' \in [Chunks -> Links \cup {Element}]
         /\ \A c \in objects \cup {chunk[u]} : memory'[c] = Element
<1>1. chunk[u] \in InCalls /\ chunk[u] \notin FreeChunks /\ chunk[u] \in Chunks
      /\ memory \in [Chunks -> Links \cup {Element}] /\ FreeChunks \subseteq Chunks
  BY Pool_Parts DEF InCalls
<1>2. \A c \in FreeChunks : memory'[c] = memory[c]
  BY <1>1
<1>3. Linked' /\ FreeChunks' = FreeChunks
  BY <1>2, Free_Write DEF PoolIInv
<1>4. memory' \in [Chunks -> Links \cup {Element}]
  BY <1>1
<1>5. \A c \in objects \cup {chunk[u]} : memory'[c] = Element
  BY <1>1, Pool_Parts
<1> QED
  BY <1>3, <1>4, <1>5

\* The constructor returns.
LEMMA Pool_Release ==
  ASSUME PoolIInv, NEW u \in PoolUsers, TryConstruct_Release(u)
  PROVE  PoolIInv'
<1>1. /\ poolAt[u] = "construct" /\ poolAt' = [poolAt EXCEPT ![u] = "out"]
      /\ memory' = [memory EXCEPT ![chunk[u]] = Element] /\ objects' = objects \cup {chunk[u]}
      /\ chunk' = [chunk EXCEPT ![u] = Null] /\ m_first' = m_first
  BY DEF TryConstruct_Release, PoolStep
<1>2. "construct" # "out"
  OBVIOUS
<1>3. chunk[u] # Null
  BY <1>1, <1>2, Pool_Parts
<1>4. /\ Linked' /\ FreeChunks' = FreeChunks /\ memory' \in [Chunks -> Links \cup {Element}]
      /\ \A c \in objects \cup {chunk[u]} : memory'[c] = Element
  BY <1>1, <1>3, Pool_Writes
<1>5. /\ InCalls' = InCalls \ {chunk[u]} /\ chunk[u] \in InCalls
      /\ \A x, v \in PoolUsers : chunk'[x] = chunk'[v] /\ chunk'[x] # Null => x = v
      /\ chunk' \in [PoolUsers -> Links]
  BY <1>1, <1>3, Pool_Gives
<1>6. ObjectPoolTypeOK'
  <2>1. poolAt' \in [PoolUsers -> {"out", "construct", "free"}]
    BY <1>1, Pool_Parts
  <2>2. objects' \subseteq Chunks
    BY <1>1, <1>5, Pool_Parts
  <2> QED
    BY <2>1, <2>2, <1>1, <1>4, <1>5, Pool_Parts DEF ObjectPoolTypeOK, Chunks, Links
<1>7. PoolHeld'
  BY <1>1, Pool_Parts DEF PoolHeld
<1>8. PoolExact'
  <2>1. FreeChunks' \cap InCalls' = {} /\ FreeChunks' \cap objects' = {}
            /\ InCalls' \cap objects' = {}
    BY <1>1, <1>4, <1>5, Pool_Parts
  <2>2. FreeChunks' \cup InCalls' \cup objects' = Chunks
    BY <1>1, <1>4, <1>5, Pool_Parts
  <2>3. \A d \in objects' : memory'[d] = Element
    BY <1>1, <1>4
  <2> QED
    BY <2>1, <2>2, <2>3, <1>5 DEF PoolExact, InCalls, Chunks
<1> QED
  BY <1>4, <1>6, <1>7, <1>8 DEF PoolIInv

\* The constructor throws: the chunk stays in the hands of the thread.
LEMMA Pool_Throws ==
  ASSUME PoolIInv, NEW u \in PoolUsers, TryConstruct_Throws(u)
  PROVE  PoolIInv'
<1>1. /\ poolAt[u] = "construct" /\ poolAt' = [poolAt EXCEPT ![u] = "free"]
      /\ memory' = [memory EXCEPT ![chunk[u]] = Element] /\ objects' = objects
      /\ chunk' = chunk /\ m_first' = m_first
  BY DEF TryConstruct_Throws, PoolStep
<1>2. "construct" # "out" /\ "free" # "out"
  OBVIOUS
<1>3. chunk[u] # Null
  BY <1>1, <1>2, Pool_Parts
<1>4. /\ Linked' /\ FreeChunks' = FreeChunks /\ memory' \in [Chunks -> Links \cup {Element}]
      /\ \A c \in objects \cup {chunk[u]} : memory'[c] = Element
  BY <1>1, <1>3, Pool_Writes
<1>5. InCalls' = InCalls
  BY <1>1 DEF InCalls
<1>6. ObjectPoolTypeOK'
  <2>1. poolAt' \in [PoolUsers -> {"out", "construct", "free"}]
    BY <1>1, Pool_Parts
  <2> QED
    BY <2>1, <1>1, <1>4, Pool_Parts DEF ObjectPoolTypeOK, Chunks, Links
<1>7. PoolHeld'
  BY <1>1, <1>2, Pool_Parts DEF PoolHeld
<1>8. PoolExact'
  <2>1. \A x, v \in PoolUsers : chunk'[x] = chunk'[v] /\ chunk'[x] # Null => x = v
    BY <1>1, Pool_Parts
  <2>2. \A d \in objects' : memory'[d] = Element
    BY <1>1, <1>4
  <2> QED
    BY <2>1, <2>2, <1>1, <1>4, <1>5, Pool_Parts DEF PoolExact, InCalls, Chunks
<1> QED
  BY <1>4, <1>6, <1>7, <1>8 DEF PoolIInv

\* The destructor of an element runs: its chunk is in the hands of the thread.
LEMMA Pool_Destroy ==
  ASSUME PoolIInv, NEW u \in PoolUsers, NEW c \in Chunks, Destroy_Element(u, c)
  PROVE  PoolIInv'
<1>1. /\ poolAt[u] = "out" /\ poolAt' = [poolAt EXCEPT ![u] = "free"]
      /\ memory' = memory /\ objects' = objects \ {c} /\ c \in objects
      /\ chunk' = [chunk EXCEPT ![u] = c] /\ m_first' = m_first
  BY DEF Destroy_Element, PoolStep, poolVars
<1>2. "free" # "out"
  OBVIOUS
<1>3. chunk[u] = Null /\ c \notin InCalls /\ c # Null
  BY <1>1, Pool_Parts
<1>4. /\ InCalls' = InCalls \cup {c}
      /\ \A x, v \in PoolUsers : chunk'[x] = chunk'[v] /\ chunk'[x] # Null => x = v
      /\ chunk' \in [PoolUsers -> Links]
  BY <1>1, <1>3, Pool_Takes
<1>5. Linked' /\ FreeChunks' = FreeChunks
  BY <1>1, Free_Write DEF PoolIInv
<1>6. ObjectPoolTypeOK'
  <2>1. poolAt' \in [PoolUsers -> {"out", "construct", "free"}]
    BY <1>1, Pool_Parts
  <2>2. objects' \subseteq Chunks
    BY <1>1, Pool_Parts
  <2> QED
    BY <2>1, <2>2, <1>1, <1>4, Pool_Parts DEF ObjectPoolTypeOK, Chunks, Links
<1>7. PoolHeld'
  BY <1>1, <1>2, <1>3, Pool_Parts DEF PoolHeld
<1>8. PoolExact'
  <2>1. FreeChunks' \cap InCalls' = {} /\ FreeChunks' \cap objects' = {}
            /\ InCalls' \cap objects' = {}
    BY <1>1, <1>3, <1>4, <1>5, Pool_Parts
  <2>2. FreeChunks' \cup InCalls' \cup objects' = Chunks
    BY <1>1, <1>4, <1>5, Pool_Parts
  <2>3. \A d \in objects' : memory'[d] = Element
    BY <1>1, Pool_Parts
  <2> QED
    BY <2>1, <2>2, <2>3, <1>4 DEF PoolExact, InCalls, Chunks
<1> QED
  BY <1>5, <1>6, <1>7, <1>8 DEF PoolIInv

\* m_pool.free(p)
LEMMA Pool_Free ==
  ASSUME PoolIInv, NEW u \in PoolUsers, Free_Chunk(u)
  PROVE  PoolIInv'
<1> DEFINE c == chunk[u]
<1>1. /\ poolAt[u] = "free" /\ poolAt' = [poolAt EXCEPT ![u] = "out"]
      /\ PushChunk(c) /\ objects' = objects /\ chunk' = [chunk EXCEPT ![u] = Null]
  BY DEF Free_Chunk, PoolStep
<1>2. "free" # "out"
  OBVIOUS
<1>3. c # Null /\ c \in InCalls
  BY <1>1, <1>2, Pool_Parts DEF InCalls
<1>4. /\ InCalls' = InCalls \ {c}
      /\ \A x, v \in PoolUsers : chunk'[x] = chunk'[v] /\ chunk'[x] # Null => x = v
      /\ chunk' \in [PoolUsers -> Links]
  BY <1>1, <1>3, Pool_Gives
<1> HIDE DEF c
<1>5. c \in Chunks /\ c \notin FreeChunks /\ c \notin objects
  BY <1>3, Pool_Parts
<1>6. memory = [k \in Chunks |-> memory[k]]
  BY Pool_Parts
<1>7. Linked' /\ FreeChunks' = FreeChunks \cup {c}
  BY <1>1, <1>5, <1>6, Free_Push DEF PoolIInv
<1>8. m_first' = c /\ memory' = [memory EXCEPT ![c] = m_first]
  BY <1>1 DEF PushChunk
<1>9. ObjectPoolTypeOK'
  <2>1. poolAt' \in [PoolUsers -> {"out", "construct", "free"}]
    BY <1>1, Pool_Parts
  <2>2. memory' \in [Chunks -> Links \cup {Element}]
    BY <1>5, <1>8, Pool_Parts
  <2>3. m_first' \in Links
    BY <1>5, <1>8 DEF Links
  <2> QED
    BY <2>1, <2>2, <2>3, <1>1, <1>4, Pool_Parts DEF ObjectPoolTypeOK, Chunks, Links
<1>10. PoolHeld'
  BY <1>1, Pool_Parts DEF PoolHeld
<1>11. PoolExact'
  <2>1. FreeChunks' \cap InCalls' = {} /\ FreeChunks' \cap objects' = {}
            /\ InCalls' \cap objects' = {}
    BY <1>1, <1>4, <1>5, <1>7, Pool_Parts
  <2>2. FreeChunks' \cup InCalls' \cup objects' = Chunks
    BY <1>1, <1>3, <1>4, <1>7, Pool_Parts
  <2>3. \A d \in objects' : memory'[d] = Element
    BY <1>1, <1>5, <1>8, Pool_Parts
  <2> QED
    BY <2>1, <2>2, <2>3, <1>4 DEF PoolExact, InCalls, Chunks
<1> QED
  BY <1>7, <1>9, <1>10, <1>11 DEF PoolIInv

\* No variable changes.
LEMMA Pool_Stutter ==
  ASSUME PoolIInv, UNCHANGED objectPoolVars
  PROVE  PoolIInv'
<1>1. m_first' = m_first /\ memory' = memory /\ poolAt' = poolAt /\ chunk' = chunk
      /\ objects' = objects
  BY DEF objectPoolVars, poolVars
<1>2. Linked' /\ FreeChunks' = FreeChunks
  BY <1>1, Free_Write DEF PoolIInv
<1>3. ObjectPoolTypeOK' /\ PoolHeld'
  BY <1>1 DEF PoolIInv, ObjectPoolTypeOK, PoolHeld, Links, Chunks
<1>4. PoolExact'
  BY <1>1, <1>2 DEF PoolIInv, PoolExact, Chunks
<1> QED
  BY <1>2, <1>3, <1>4 DEF PoolIInv

\* Every step keeps the invariant.
LEMMA Pool_Next == PoolIInv /\ [ObjectPoolNext]_objectPoolVars => PoolIInv'
BY Pool_Allocate, Pool_Release, Pool_Throws, Pool_Destroy, Pool_Free, Pool_Stutter
   DEF ObjectPoolNext

\* No chunk of an object pool is free and in use, in use twice, or lost, and no object
\* of the client is overwritten by a link of the free list, for any number of threads
\* and chunks.
THEOREM PoolCorrect == ObjectPoolSpec => [](ObjectPoolTypeOK /\ PoolExact)
<1>1. PoolIInv => ObjectPoolTypeOK /\ PoolExact
  BY DEF PoolIInv
<1> QED
  BY <1>1, Pool_Init, Pool_Next, PTL DEF ObjectPoolSpec
-----------------------------------------------------------------------------
\* The number of steps that an interrupt walks at most.
WalkSteps == 1 .. Cardinality(ThreadStates) + 1

\* The states f[1] .. f[n] are the list that starts with first, linked by links.
IsList(f, n, first, links) ==
  /\ n \in Nat /\ f \in [1 .. n -> ThreadStates]
  /\ \A i, j \in 1 .. n : f[i] = f[j] => i = j
  /\ first = IF n = 0 THEN Nil ELSE f[1]
  /\ \A i \in 1 .. n : links[f[i]] = IF i = n THEN Nil ELSE f[i + 1]

\* The first n states.
Members(f, n) == {f[i] : i \in 1 .. n}

\* What Walk follows, from first on: w is the list, and Nil behind it.
Walks(w, first, links) ==
  w = [k \in WalkSteps |-> IF k = 1 THEN first
                           ELSE IF w[k - 1] \in ThreadStates THEN links[w[k - 1]] ELSE Nil]

\* The list with Nil behind it.
Continued(f, n) == [k \in WalkSteps |-> IF k <= n THEN f[k] ELSE Nil]

\* No list is longer than there are states.
LEMMA List_Length ==
  ASSUME NEW f, NEW n, NEW first, NEW links, IsList(f, n, first, links)
  PROVE  /\ Cardinality(ThreadStates) \in Nat /\ n \in Nat
         /\ n <= Cardinality(ThreadStates) /\ 1 .. n \subseteq WalkSteps
<1>1. n \in Nat /\ f \in [1 .. n -> ThreadStates] /\ \A i, j \in 1 .. n : f[i] = f[j] => i = j
  BY DEF IsList
<1>2. IsFiniteSet(1 .. n) /\ Cardinality(1 .. n) = n
  BY <1>1, UpTo
<1>3. f \in Injection(1 .. n, ThreadStates)
  BY <1>1 DEF Injection, IsInjective
<1>4. Cardinality(1 .. n) <= Cardinality(ThreadStates)
  BY <1>3, FS_Injection, StatesFinite
<1>5. Cardinality(ThreadStates) \in Nat
  BY FS_CardinalityType, StatesFinite
<1> QED
  BY <1>1, <1>2, <1>4, <1>5 DEF WalkSteps

\* The recursive function Walk has one solution, the list with Nil behind it.
LEMMA List_Followed ==
  ASSUME NEW f, NEW n, NEW first, NEW links, IsList(f, n, first, links), NEW w
  PROVE  Walks(w, first, links) <=> w = Continued(f, n)
<1> DEFINE h == Continued(f, n)
           N == Cardinality(ThreadStates)
<1>1. n \in Nat /\ N \in Nat /\ n <= N
  BY List_Length
<1>2. n \in Nat /\ N \in Nat /\ n <= N /\ f \in [1 .. n -> ThreadStates]
  BY <1>1 DEF IsList
<1>3. WalkSteps = 1 .. N + 1
  BY DEF WalkSteps
<1> HIDE DEF N
<1>4. ASSUME NEW k \in WalkSteps
      PROVE  h[k] = IF k = 1 THEN first
                             ELSE IF h[k - 1] \in ThreadStates THEN links[h[k - 1]] ELSE Nil
  <2>1. CASE k = 1
    BY <1>2, <1>3, <2>1 DEF IsList, Continued
  <2>2. CASE k # 1
    <3>1. k - 1 \in WalkSteps /\ k \in Nat /\ k - 1 \in Nat
      BY <2>2, <1>2, <1>3
    <3>2. CASE k - 1 <= n
      <4>1. h[k - 1] = f[k - 1] /\ f[k - 1] \in ThreadStates /\ k - 1 \in 1 .. n
        BY <3>1, <3>2, <1>2, <1>3 DEF Continued
      <4>2. links[f[k - 1]] = IF k - 1 = n THEN Nil ELSE f[(k - 1) + 1]
        BY <4>1 DEF IsList
      <4>3. (k - 1) + 1 = k /\ (k - 1 = n <=> ~(k <= n))
        BY <3>1, <3>2, <1>2
      <4> QED
        BY <2>2, <4>1, <4>2, <4>3 DEF Continued
    <3>3. CASE ~(k - 1 <= n)
      <4>1. h[k - 1] = Nil /\ h[k] = Nil
        BY <3>1, <3>3, <1>2 DEF Continued
      <4> QED
        BY <2>2, <4>1, NilIsNoState
    <3> QED
      BY <3>2, <3>3
  <2> QED
    BY <2>1, <2>2
<1>5. ASSUME w = h PROVE Walks(w, first, links)
  <2>1. \A k \in WalkSteps : w[k] = IF k = 1 THEN first
                               ELSE IF w[k - 1] \in ThreadStates THEN links[w[k - 1]] ELSE Nil
    BY <1>4, <1>5
  <2>2. w = [k \in WalkSteps |-> w[k]]
    BY <1>5 DEF Continued
  <2> QED
    BY <2>1, <2>2 DEF Walks
<1>6. ASSUME Walks(w, first, links) PROVE w = h
  <2> DEFINE Differ == {k \in WalkSteps : w[k] # h[k]}
  <2>1. CASE Differ = {}
    BY <1>6, <2>1 DEF Walks, Continued
  <2>2. CASE Differ # {}
    <3>1. Differ \in SUBSET Nat
      BY <1>2, <1>3
    <3>2. PICK m \in Differ : \A k \in Differ : m <= k
      BY <2>2, <3>1, LeastNatural
    <3>3. m # 1
      BY <3>2, <1>4, <1>6 DEF Walks
    <3>4. m - 1 \in WalkSteps /\ m - 1 \notin Differ
      BY <1>2, <1>3, <3>2, <3>3
    <3>5. w[m - 1] = h[m - 1]
      BY <3>4
    <3>6. m \in WalkSteps /\ w[m] # h[m]
      BY <3>2
    <3>7. w[m] = IF w[m - 1] \in ThreadStates THEN links[w[m - 1]] ELSE Nil
      BY <3>3, <3>6, <1>6 DEF Walks
    <3>8. h[m] = IF h[m - 1] \in ThreadStates THEN links[h[m - 1]] ELSE Nil
      BY <3>3, <3>6, <1>4
    <3> QED
      BY <3>5, <3>6, <3>7, <3>8
  <2> QED
    BY <2>1, <2>2
<1> QED
  BY <1>5, <1>6

\* Walk comes by the list.
LEMMA List_WalkIs ==
  ASSUME NEW f, NEW n, IsList(f, n, g_sharedThreadStates, m_next)
  PROVE  Walk = Continued(f, n)
<1> DEFINE walk == CHOOSE w : w = [k \in WalkSteps |-> IF k = 1 THEN g_sharedThreadStates
                         ELSE IF w[k - 1] \in ThreadStates THEN m_next[w[k - 1]] ELSE Nil]
<1>1. walk = Continued(f, n)
  BY List_Followed DEF Walks
<1>2. Walk = walk
  BY DEF Walk, WalkSteps
<1> HIDE DEF walk
<1> QED
  BY <1>1, <1>2

\* So it comes by each of its states once, and by nothing else.
LEMMA List_Seen ==
  ASSUME NEW f, NEW n, IsList(f, n, g_sharedThreadStates, m_next)
  PROVE  /\ \A i, k \in WalkSteps : Walk[i] = Walk[k] /\ Walk[i] # Nil => i = k
         /\ {Walk[k] : k \in WalkSteps} \ {Nil} = Members(f, n)
<1>1. Walk = Continued(f, n)
  BY List_WalkIs
<1>2. n \in Nat /\ 1 .. n \subseteq WalkSteps
  BY List_Length
<1>3. /\ n \in Nat /\ 1 .. n \subseteq WalkSteps /\ f \in [1 .. n -> ThreadStates]
      /\ \A i, j \in 1 .. n : f[i] = f[j] => i = j
  BY <1>2 DEF IsList
<1>4. ASSUME NEW k \in WalkSteps
      PROVE  Walk[k] # Nil => k \in 1 .. n /\ Walk[k] = f[k]
  <2>1. k \in Nat /\ k >= 1
    BY List_Length DEF WalkSteps
  <2> QED
    BY <2>1, <1>1, <1>3 DEF Continued
<1>5. \A i \in 1 .. n : i \in WalkSteps /\ Walk[i] = f[i] /\ f[i] # Nil
  BY <1>1, <1>3, NilIsNoState DEF Continued
<1>6. \A i, k \in WalkSteps : Walk[i] = Walk[k] /\ Walk[i] # Nil => i = k
  BY <1>3, <1>4
<1>7. {Walk[k] : k \in WalkSteps} \ {Nil} = Members(f, n)
  BY <1>4, <1>5 DEF Members
<1> QED
  BY <1>6, <1>7

\* A state that is not in the list is put before it.
LEMMA List_Pushed ==
  ASSUME NEW f, NEW n, NEW first, NEW links, IsList(f, n, first, links),
         NEW s \in ThreadStates, s \notin Members(f, n), links[s] = first
  PROVE  \E g :
           /\ IsList(g, n + 1, s, links)
           /\ Members(g, n + 1) = Members(f, n) \cup {s}
<1> DEFINE g == [i \in 1 .. n + 1 |-> IF i = 1 THEN s ELSE f[i - 1]]
<1>1. /\ n \in Nat /\ f \in [1 .. n -> ThreadStates] /\ \A i, j \in 1 .. n : f[i] = f[j] => i = j
      /\ first = (IF n = 0 THEN Nil ELSE f[1])
      /\ \A i \in 1 .. n : links[f[i]] = IF i = n THEN Nil ELSE f[i + 1]
  BY DEF IsList
<1>2. g \in [1 .. n + 1 -> ThreadStates] /\ g[1] = s
  BY <1>1
<1>3. \A i \in 1 .. n : i + 1 \in 1 .. n + 1 /\ g[i + 1] = f[i]
  BY <1>1
<1>4. ASSUME NEW i \in 1 .. n + 1, i # 1 PROVE i - 1 \in 1 .. n /\ g[i] = f[i - 1] /\ g[i] # s
  BY <1>1, <1>4 DEF Members
<1> HIDE DEF g
<1>5. \A i, j \in 1 .. n + 1 : g[i] = g[j] => i = j
  <2>1. ASSUME NEW i \in 1 .. n + 1, NEW j \in 1 .. n + 1, g[i] = g[j], i # 1, j # 1 PROVE i = j
    <3>1. i - 1 = j - 1
      BY <2>1, <1>1, <1>4
    <3> QED
      BY <3>1, <1>1
  <2> QED
    BY <2>1, <1>2, <1>4
<1>6. ASSUME NEW i \in 1 .. n + 1
      PROVE  links[g[i]] = IF i = n + 1 THEN Nil ELSE g[i + 1]
  <2>1. CASE i = 1
    BY <2>1, <1>1, <1>2, <1>3
  <2>2. CASE i # 1
    <3>1. links[f[i - 1]] = IF i - 1 = n THEN Nil ELSE f[(i - 1) + 1]
      BY <2>2, <1>1, <1>4
    <3>2. (i - 1) + 1 = i /\ (i - 1 = n <=> i = n + 1) /\ (i # n + 1 => g[i + 1] = f[i])
      BY <1>1, <1>3
    <3> QED
      BY <3>1, <3>2, <1>4, <2>2
  <2> QED
    BY <2>1, <2>2
<1>7. IsList(g, n + 1, s, links)
  <2>1. s = (IF n + 1 = 0 THEN Nil ELSE g[1]) /\ n + 1 \in Nat
    BY <1>1, <1>2
  <2> QED
    BY <2>1, <1>2, <1>5, <1>6 DEF IsList
<1>8. Members(g, n + 1) = Members(f, n) \cup {s}
  <2>1. 1 \in 1 .. n + 1
    BY <1>1
  <2> QED
    BY <2>1, <1>2, <1>3, <1>4 DEF Members
<1> QED
  BY <1>2, <1>7, <1>8

\* The state j is taken out of the list, whose order stays.
LEMMA List_Removed ==
  ASSUME NEW f, NEW n, NEW first, NEW links, IsList(f, n, first, links),
         NEW j \in 1 .. n, NEW behind, NEW linked,
         behind = (IF j = 1 THEN links[f[1]] ELSE first),
         \A i \in 1 .. n : i # j => linked[f[i]] = (IF i = j - 1 THEN links[f[j]] ELSE links[f[i]])
  PROVE  \E g :
           /\ IsList(g, n - 1, behind, linked)
           /\ Members(g, n - 1) = Members(f, n) \ {f[j]}
<1> DEFINE g == [i \in 1 .. n - 1 |-> IF i < j THEN f[i] ELSE f[i + 1]]
<1>1. /\ n \in Nat /\ f \in [1 .. n -> ThreadStates] /\ \A i, k \in 1 .. n : f[i] = f[k] => i = k
      /\ first = (IF n = 0 THEN Nil ELSE f[1])
      /\ \A i \in 1 .. n : links[f[i]] = IF i = n THEN Nil ELSE f[i + 1]
  BY DEF IsList
<1>2. n \in Nat /\ n - 1 \in Nat /\ j \in Nat /\ 1 <= j /\ j <= n
  BY <1>1
<1>3. ASSUME NEW i \in 1 .. n - 1
      PROVE  /\ i < j => i \in 1 .. n /\ i # j /\ g[i] = f[i]
             /\ ~(i < j) => i + 1 \in 1 .. n /\ i + 1 # j /\ g[i] = f[i + 1]
  BY <1>1, <1>2
<1>4. g \in [1 .. n - 1 -> ThreadStates]
  <2>1. \A i \in 1 .. n - 1 : g[i] \in ThreadStates
    BY <1>1, <1>3
  <2> QED
    BY <2>1
<1> HIDE DEF g
<1>5. \A i, k \in 1 .. n - 1 : g[i] = g[k] => i = k
  <2> TAKE i \in 1 .. n - 1, k \in 1 .. n - 1
  <2> DEFINE ii == IF i < j THEN i ELSE i + 1
             kk == IF k < j THEN k ELSE k + 1
  <2>1. ii \in 1 .. n /\ g[i] = f[ii]
    BY <1>3
  <2>2. kk \in 1 .. n /\ g[k] = f[kk]
    BY <1>3
  <2>3. ii = kk => i = k
    BY <1>2
  <2> HIDE DEF ii, kk
  <2>4. f[ii] = f[kk] => ii = kk
    BY <2>1, <2>2, <1>1
  <2> QED
    BY <2>1, <2>2, <2>3, <2>4
<1>6. ASSUME NEW i \in 1 .. n - 1
      PROVE  linked[g[i]] = IF i = n - 1 THEN Nil ELSE g[i + 1]
  <2>1. i \in Nat /\ i <= n - 1 /\ (i # n - 1 => i + 1 \in 1 .. n - 1)
    BY <1>2
  <2>2. CASE i < j /\ i # j - 1
    <3>1. g[i] = f[i] /\ i \in 1 .. n /\ i # j /\ i + 1 < j
      BY <2>2, <1>2, <1>3
    <3>2. linked[f[i]] = links[f[i]]
      BY <2>2, <3>1
    <3>3. links[f[i]] = f[i + 1]
      BY <3>1, <1>1, <1>2
    <3>4. i # n - 1
      BY <3>1, <1>2, <2>1
    <3>5. g[i + 1] = f[i + 1]
      BY <3>1, <3>4, <2>1, <1>3
    <3> QED
      BY <3>1, <3>2, <3>3, <3>4, <3>5
  <2>3. CASE i = j - 1
    <3>1. g[i] = f[i] /\ i \in 1 .. n /\ i # j
      BY <2>3, <1>2, <1>3
    <3>2. linked[f[i]] = links[f[j]]
      BY <2>3, <3>1
    <3>3. links[f[j]] = IF j = n THEN Nil ELSE f[j + 1]
      BY <1>1
    <3>4. (j = n <=> i = n - 1) /\ ~(i + 1 < j) /\ (i + 1) + 1 = j + 1
      BY <2>3, <1>2
    <3>5. i # n - 1 => g[i + 1] = f[(i + 1) + 1]
      BY <3>4, <2>1, <1>3
    <3> QED
      BY <3>1, <3>2, <3>3, <3>4, <3>5
  <2>4. CASE ~(i < j)
    <3>1. g[i] = f[i + 1] /\ i + 1 \in 1 .. n /\ i + 1 # j /\ i + 1 # j - 1
      BY <2>4, <1>2, <1>3
    <3>2. linked[f[i + 1]] = links[f[i + 1]]
      BY <3>1
    <3>3. links[f[i + 1]] = IF i + 1 = n THEN Nil ELSE f[(i + 1) + 1]
      BY <3>1, <1>1
    <3>4. (i + 1 = n <=> i = n - 1) /\ ~(i + 1 < j)
      BY <2>4, <1>2, <2>1
    <3>5. i # n - 1 => g[i + 1] = f[(i + 1) + 1]
      BY <3>4, <2>1, <1>3
    <3> QED
      BY <3>1, <3>2, <3>3, <3>4, <3>5
  <2> QED
    BY <2>2, <2>3, <2>4, <1>2
<1>7. behind = IF n - 1 = 0 THEN Nil ELSE g[1]
  <2>1. CASE j = 1
    <3>1. behind = IF 1 = n THEN Nil ELSE f[1 + 1]
      BY <2>1, <1>1
    <3>2. n - 1 # 0 => 1 \in 1 .. n - 1 /\ ~(1 < j)
      BY <2>1, <1>2
    <3>3. n - 1 # 0 => g[1] = f[1 + 1]
      BY <3>2, <1>3
    <3> QED
      BY <3>1, <3>3, <1>2
  <2>2. CASE j # 1
    <3>1. behind = f[1] /\ n - 1 # 0
      BY <2>2, <1>1, <1>2
    <3>2. 1 \in 1 .. n - 1 /\ 1 < j
      BY <2>2, <1>2
    <3>3. g[1] = f[1]
      BY <3>2, <1>3
    <3> QED
      BY <3>1, <3>3
  <2> QED
    BY <2>1, <2>2
<1>8. IsList(g, n - 1, behind, linked)
  BY <1>2, <1>4, <1>5, <1>6, <1>7 DEF IsList
<1>9. Members(g, n - 1) = Members(f, n) \ {f[j]}
  <2>1. ASSUME NEW i \in 1 .. n - 1 PROVE g[i] \in Members(f, n) \ {f[j]}
    BY <1>1, <1>3 DEF Members
  <2>2. ASSUME NEW k \in 1 .. n, k # j PROVE f[k] \in Members(g, n - 1)
    <3>1. CASE k < j
      <4>1. k \in 1 .. n - 1
        BY <3>1, <1>2
      <4> QED
        BY <3>1, <4>1, <1>3 DEF Members
    <3>2. CASE ~(k < j)
      <4>1. k - 1 \in 1 .. n - 1 /\ ~(k - 1 < j) /\ (k - 1) + 1 = k
        BY <2>2, <3>2, <1>2
      <4>2. g[k - 1] = f[(k - 1) + 1]
        BY <4>1, <1>3
      <4> QED
        BY <4>1, <4>2 DEF Members
    <3> QED
      BY <3>1, <3>2
  <2>3. Members(f, n) \ {f[j]} \subseteq Members(g, n - 1)
    BY <2>2 DEF Members
  <2>4. Members(g, n - 1) \subseteq Members(f, n) \ {f[j]}
    BY <2>1 DEF Members
  <2> QED
    BY <2>3, <2>4
<1> QED
  BY <1>4, <1>8, <1>9

\* The state before j now points behind it.
PointsBehind(f, n, j, links, linked) ==
  \A i \in 1 .. n : i # j => linked[f[i]] = (IF i = j - 1 THEN links[f[j]] ELSE links[f[i]])

\* A state other than the first is taken out.
LEMMA List_RemovedBehind ==
  ASSUME NEW f, NEW n, NEW first, NEW links, IsList(f, n, first, links),
         NEW j \in 1 .. n, j # 1, NEW linked, PointsBehind(f, n, j, links, linked)
  PROVE  \E g :
           /\ IsList(g, n - 1, first, linked)
           /\ Members(g, n - 1) = Members(f, n) \ {f[j]}
<1>1. first = (IF j = 1 THEN links[f[1]] ELSE first)
  OBVIOUS
<1>2. \A i \in 1 .. n : i # j => linked[f[i]] = (IF i = j - 1 THEN links[f[j]] ELSE links[f[i]])
  BY DEF PointsBehind
<1> QED
  BY <1>1, <1>2, List_Removed

\* Links that agree on the list.
LEMMA List_Same ==
  ASSUME NEW f, NEW n, NEW first, NEW links, IsList(f, n, first, links),
         NEW linked, \A i \in 1 .. n : linked[f[i]] = links[f[i]]
  PROVE  IsList(f, n, first, linked)
BY DEF IsList
-----------------------------------------------------------------------------
\* What a handler knows of the list f[1] .. f[n] when it is at its iterator: unlink is
\* before the state it looks for, and for_each_thread() has come by those before.
AtIterator(f, n) ==
  /\ handler = "unlink" /\ svcArg \in started =>
       \E i, j \in 1 .. n : i < j /\ iter = f[i] /\ svcArg = f[j]
  /\ handler = "unlink" => iter = Nil \/ \E i \in 1 .. n : iter = f[i]
  /\ handler = "forEach" =>
       \E k \in 1 .. n + 1 : /\ iter = IF k = n + 1 THEN Nil ELSE f[k]
                             /\ \A i \in 1 .. n : visits[f[i]] = IF i < k THEN 1 ELSE 0
  /\ handler # "forEach" => visits = NoVisits
  /\ \A s \in ThreadStates \ started : visits[s] = 0

\* The states in the list are those whose task was created; a state that is being
\* destroyed has left it.
ListShape(f, n) ==
  /\ IsList(f, n, g_sharedThreadStates, m_next)
  /\ Members(f, n) = IF handler = "destroy" THEN started \ {svcArg} ELSE started
  /\ handler = "create" => /\ svcArg \in constructed \ (started \cup unlinked)
                           /\ m_next[svcArg] = g_sharedThreadStates
  /\ handler \in {"unlink", "destroy"} => svcArg \in constructed
  /\ AtIterator(f, n)

\* The inductive invariant.
ListIInv == ListTypeOK /\ \E n \in Nat : \E f \in [1 .. n -> ThreadStates] : ListShape(f, n)

\* The parts of the type.
LEMMA List_Types ==
  ASSUME ListTypeOK
  PROVE  /\ g_sharedThreadStates \in ThreadStates \cup {Nil} /\ svcArg \in ThreadStates \cup {Nil}
         /\ iter \in ThreadStates \cup {Nil}
         /\ m_next \in [ThreadStates -> ThreadStates \cup {Nil}]
         /\ constructed \subseteq ThreadStates /\ started \subseteq constructed
         /\ unlinked \subseteq constructed \ started
         /\ handler \in {"none", "create", "unlink", "destroy", "forEach"}
         /\ visits \in [ThreadStates -> Nat]
BY DEF ListTypeOK

\* At the start the list is empty.
LEMMA List_Init == ListInit => ListIInv
<1> SUFFICES ASSUME ListInit PROVE ListIInv
  OBVIOUS
<1> DEFINE f == [i \in 1 .. 0 |-> Nil]
<1>1. ListTypeOK
  BY DEF ListInit, ListTypeOK, NoVisits
<1>2. f \in [1 .. 0 -> ThreadStates] /\ 0 \in Nat /\ 1 .. 0 = {}
  OBVIOUS
<1> HIDE DEF f
<1>3. IsList(f, 0, g_sharedThreadStates, m_next)
  BY <1>2 DEF ListInit, IsList
<1>4. AtIterator(f, 0)
  BY DEF ListInit, AtIterator, NoVisits
<1>5. {f[i] : i \in 1 .. 0} = {} /\ started = {} /\ handler = "none"
  BY <1>2 DEF ListInit
<1>6. ListShape(f, 0)
  BY <1>3, <1>4, <1>5, <1>2 DEF ListShape, Members
<1> QED
  BY <1>1, <1>2, <1>6 DEF ListIInv

\* The constructor of a state, which is in no list.
LEMMA List_ConstructKeeps ==
  ASSUME ListIInv, NEW s \in ThreadStates, List_Construct(s)
  PROVE  ListIInv'
<1>1. PICK n \in Nat : \E f \in [1 .. n -> ThreadStates] : ListShape(f, n)
  BY DEF ListIInv
<1>2. PICK f \in [1 .. n -> ThreadStates] : ListShape(f, n)
  BY <1>1
<1>3. /\ ListShape(f, n) /\ IsList(f, n, g_sharedThreadStates, m_next) /\ AtIterator(f, n)
      /\ Members(f, n) = IF handler = "destroy" THEN started \ {svcArg} ELSE started
      /\ \A i, j \in 1 .. n : f[i] = f[j] => i = j
  BY <1>2 DEF ListShape, IsList
<1>4. /\ handler = "none" /\ handler' = handler /\ constructed' = constructed \cup {s}
      /\ m_next' = [m_next EXCEPT ![s] = Nil] /\ s \notin constructed
      /\ g_sharedThreadStates' = g_sharedThreadStates /\ started' = started
      /\ svcArg' = svcArg /\ iter' = iter /\ visits' = visits /\ unlinked' = unlinked
  BY DEF List_Construct
<1>5. ListTypeOK /\ m_next \in [ThreadStates -> ThreadStates \cup {Nil}]
          /\ started \subseteq constructed
  BY DEF ListIInv, ListTypeOK
<1>6. ListTypeOK'
  BY <1>4, <1>5 DEF ListTypeOK
<1>7. \A i \in 1 .. n : m_next'[f[i]] = m_next[f[i]]
  <2>1. \A i \in 1 .. n : f[i] \in started
    BY <1>3, <1>4 DEF Members
  <2> QED
    BY <2>1, <1>4, <1>5
<1>8. IsList(f, n, g_sharedThreadStates', m_next')
  BY <1>3, <1>4, <1>7, List_Same
<1>9. AtIterator(f, n)'
  BY <1>3, <1>4 DEF AtIterator, NoVisits
<1>10. ListShape(f, n)'
  BY <1>3, <1>4, <1>8, <1>9 DEF ListShape, IsList
<1> QED
  BY <1>6, <1>10 DEF ListIInv

\* weos_createTask: the new state gets the list.
LEMMA List_CreateKeeps ==
  ASSUME ListIInv, NEW s \in ThreadStates, List_Create(s)
  PROVE  ListIInv'
<1>1. PICK n \in Nat : \E f \in [1 .. n -> ThreadStates] : ListShape(f, n)
  BY DEF ListIInv
<1>2. PICK f \in [1 .. n -> ThreadStates] : ListShape(f, n)
  BY <1>1
<1>3. /\ ListShape(f, n) /\ IsList(f, n, g_sharedThreadStates, m_next) /\ AtIterator(f, n)
      /\ Members(f, n) = IF handler = "destroy" THEN started \ {svcArg} ELSE started
      /\ \A i, j \in 1 .. n : f[i] = f[j] => i = j
  BY <1>2 DEF ListShape, IsList
<1>4. /\ handler = "none" /\ handler' = "create" /\ svcArg' = s /\ iter' = Nil
      /\ m_next' = [m_next EXCEPT ![s] = g_sharedThreadStates] /\ s \in constructed \ started
      /\ s \notin unlinked /\ unlinked' = unlinked /\ g_sharedThreadStates' = g_sharedThreadStates /\ started' = started
      /\ constructed' = constructed /\ visits' = visits
  BY DEF List_Create, Svc
<1>5. /\ ListTypeOK /\ m_next \in [ThreadStates -> ThreadStates \cup {Nil}]
      /\ g_sharedThreadStates \in ThreadStates \cup {Nil}
  BY DEF ListIInv, ListTypeOK
<1>6. ListTypeOK'
  BY <1>4, <1>5 DEF ListTypeOK
<1>7. \A i \in 1 .. n : m_next'[f[i]] = m_next[f[i]]
  <2>1. \A i \in 1 .. n : f[i] \in started
    BY <1>3, <1>4 DEF Members
  <2> QED
    BY <2>1, <1>4, <1>5
<1>8. IsList(f, n, g_sharedThreadStates', m_next')
  BY <1>3, <1>4, <1>7, List_Same
<1>9. AtIterator(f, n)'
  BY <1>3, <1>4 DEF AtIterator, NoVisits
<1>10. m_next'[s] = g_sharedThreadStates
  BY <1>4, <1>5
<1>11. ListShape(f, n)'
  BY <1>3, <1>4, <1>8, <1>9, <1>10 DEF ListShape, IsList
<1> QED
  BY <1>6, <1>11 DEF ListIInv

\* ... and becomes its head.
LEMMA List_HeadKeeps ==
  ASSUME ListIInv, List_Head
  PROVE  ListIInv'
<1>1. PICK n \in Nat : \E f \in [1 .. n -> ThreadStates] : ListShape(f, n)
  BY DEF ListIInv
<1>2. PICK f \in [1 .. n -> ThreadStates] : ListShape(f, n)
  BY <1>1
<1>3. /\ ListShape(f, n) /\ IsList(f, n, g_sharedThreadStates, m_next) /\ AtIterator(f, n)
      /\ Members(f, n) = IF handler = "destroy" THEN started \ {svcArg} ELSE started
      /\ \A i, j \in 1 .. n : f[i] = f[j] => i = j
  BY <1>2 DEF ListShape, IsList
<1> DEFINE s == svcArg
<1>4. /\ handler = "create" /\ handler' = "none" /\ svcArg' = Nil /\ iter' = Nil
      /\ g_sharedThreadStates' = s /\ started' = started \cup {s}
      /\ m_next' = m_next /\ constructed' = constructed /\ visits' = visits
      /\ unlinked' = unlinked
  BY DEF List_Head, SvcReturns
<1>5. ListTypeOK /\ constructed \subseteq ThreadStates /\ visits = NoVisits
  BY <1>3, <1>4 DEF ListIInv, ListTypeOK, AtIterator
<1>6. s \in constructed \ (started \cup unlinked) /\ m_next[s] = g_sharedThreadStates
  BY <1>3, <1>4 DEF ListShape
<1>7. ListTypeOK'
  BY <1>4, <1>5, <1>6 DEF ListTypeOK
<1>8. Members(f, n) = started
  BY <1>3, <1>4
<1> HIDE DEF s
<1>9. PICK g :
        /\ IsList(g, n + 1, s, m_next)
        /\ Members(g, n + 1) = Members(f, n) \cup {s}
  <2>1. s \in ThreadStates /\ s \notin Members(f, n)
    BY <1>5, <1>6, <1>8
  <2>2. IsList(f, n, g_sharedThreadStates, m_next) /\ m_next[s] = g_sharedThreadStates
    BY <1>3, <1>6
  <2> QED
    BY <2>1, <2>2, List_Pushed
<1>10. AtIterator(g, n + 1)'
  BY <1>4, <1>5 DEF AtIterator, NoVisits
<1>11. ListShape(g, n + 1)'
  BY <1>4, <1>8, <1>9, <1>10 DEF ListShape, IsList
<1>12. n + 1 \in Nat /\ g \in [1 .. n + 1 -> ThreadStates]
  BY <1>9 DEF IsList
<1> QED
  BY <1>7, <1>11, <1>12 DEF ListIInv

\* Unlinking the first state of the list is done at once.
LEMMA List_UnlinkKeeps ==
  ASSUME ListIInv, NEW s \in ThreadStates, List_Unlink(s)
  PROVE  ListIInv'
<1>1. PICK n \in Nat : \E f \in [1 .. n -> ThreadStates] : ListShape(f, n)
  BY DEF ListIInv
<1>2. PICK f \in [1 .. n -> ThreadStates] : ListShape(f, n)
  BY <1>1
<1>3. /\ ListShape(f, n) /\ IsList(f, n, g_sharedThreadStates, m_next) /\ AtIterator(f, n)
      /\ Members(f, n) = IF handler = "destroy" THEN started \ {svcArg} ELSE started
      /\ \A i, j \in 1 .. n : f[i] = f[j] => i = j
  BY <1>2 DEF ListShape, IsList
<1>4. /\ handler = "none" /\ s \in constructed /\ svcArg' = s
      /\ m_next' = m_next /\ constructed' = constructed /\ started' = started /\ visits' = visits
      /\ unlinked' = unlinked
  BY DEF List_Unlink, Svc
<1>5. /\ ListTypeOK /\ started \subseteq constructed /\ constructed \subseteq ThreadStates
      /\ g_sharedThreadStates \in ThreadStates \cup {Nil} /\ s # Nil
      /\ m_next \in [ThreadStates -> ThreadStates \cup {Nil}]
  BY NilIsNoState DEF ListIInv, ListTypeOK
<1>6. Members(f, n) = started /\ visits = NoVisits
  BY <1>3, <1>4 DEF AtIterator
<1>7. g_sharedThreadStates = IF n = 0 THEN Nil ELSE f[1]
  BY <1>3 DEF IsList
<1>8. CASE g_sharedThreadStates = s
  <2>1. /\ g_sharedThreadStates' = m_next[s] /\ handler' = "destroy"
        /\ iter' \in {g_sharedThreadStates', Nil}
    BY <1>8 DEF List_Unlink, Svc
  <2>2. n # 0 /\ f[1] = s /\ 1 \in 1 .. n
    BY <1>5, <1>7, <1>8
  <2>3. PICK g : /\ IsList(g, n - 1, m_next[s], m_next)
                 /\ Members(g, n - 1) = Members(f, n) \ {s}
    <3> DEFINE behind == m_next[s]
    <3>1. \A i \in 1 .. n : i # 1 =>
              m_next[f[i]] = (IF i = 1 - 1 THEN m_next[f[1]] ELSE m_next[f[i]])
      OBVIOUS
    <3>2. behind = (IF 1 = 1 THEN m_next[f[1]] ELSE g_sharedThreadStates)
      BY <2>2
    <3> HIDE DEF behind
    <3>3. \E g : /\ IsList(g, n - 1, behind, m_next) /\ Members(g, n - 1) = Members(f, n) \ {f[1]}
      BY <1>3, <2>2, <3>1, <3>2, List_Removed
    <3> QED
      BY <3>3, <2>2 DEF behind
  <2>4. ListTypeOK'
    BY <1>4, <1>5, <2>1 DEF ListTypeOK
  <2>5. AtIterator(g, n - 1)'
    BY <1>4, <1>6, <2>1, <2>2, <1>3 DEF AtIterator, NoVisits
  <2>6. ListShape(g, n - 1)'
    BY <1>4, <1>6, <2>1, <2>3, <2>5 DEF ListShape, IsList, Members
  <2>7. n - 1 \in Nat /\ g \in [1 .. n - 1 -> ThreadStates]
    BY <2>3 DEF IsList
  <2> QED
    BY <2>4, <2>6, <2>7 DEF ListIInv
<1>9. CASE g_sharedThreadStates # s
  <2>1. /\ g_sharedThreadStates' = g_sharedThreadStates /\ handler' = "unlink"
        /\ iter' = g_sharedThreadStates
    BY <1>9 DEF List_Unlink, Svc
  <2>2. ListTypeOK'
    BY <1>4, <1>5, <2>1 DEF ListTypeOK
  <2>3. s \in started => \E i, j \in 1 .. n : i < j /\ g_sharedThreadStates = f[i] /\ s = f[j]
    <3> SUFFICES ASSUME s \in started
                 PROVE  \E i, j \in 1 .. n : i < j /\ g_sharedThreadStates = f[i] /\ s = f[j]
      OBVIOUS
    <3>1. PICK j \in 1 .. n : f[j] = s
      BY <1>6 DEF Members
    <3>2. j # 1 /\ n # 0 /\ 1 \in 1 .. n /\ 1 < j
      BY <3>1, <1>7, <1>9
    <3> QED
      BY <3>1, <3>2, <1>7
  <2>4. g_sharedThreadStates = Nil \/ \E i \in 1 .. n : g_sharedThreadStates = f[i]
    <3>1. n # 0 => 1 \in 1 .. n
      OBVIOUS
    <3> QED
      BY <3>1, <1>7
  <2>5. AtIterator(f, n)'
    BY <1>3, <1>4, <1>6, <2>1, <2>3, <2>4 DEF AtIterator, NoVisits
  <2>6. ListShape(f, n)'
    BY <1>3, <1>4, <1>6, <2>1, <2>5 DEF ListShape, IsList, Members
  <2> QED
    BY <2>2, <2>6 DEF ListIInv
<1> QED
  BY <1>8, <1>9

\* A step of the walk that looks for the state before svcArg.
LEMMA List_WalkKeeps ==
  ASSUME ListIInv, List_Walk
  PROVE  ListIInv'
<1>1. PICK n \in Nat : \E f \in [1 .. n -> ThreadStates] : ListShape(f, n)
  BY DEF ListIInv
<1>2. PICK f \in [1 .. n -> ThreadStates] : ListShape(f, n)
  BY <1>1
<1>3. /\ ListShape(f, n) /\ IsList(f, n, g_sharedThreadStates, m_next) /\ AtIterator(f, n)
      /\ Members(f, n) = IF handler = "destroy" THEN started \ {svcArg} ELSE started
      /\ \A i, j \in 1 .. n : f[i] = f[j] => i = j
  BY <1>2 DEF ListShape, IsList
<1>4. /\ handler = "unlink" /\ svcArg' = svcArg /\ g_sharedThreadStates' = g_sharedThreadStates
      /\ constructed' = constructed /\ started' = started /\ visits' = visits
      /\ unlinked' = unlinked
  BY DEF List_Walk
<1>5. /\ ListTypeOK /\ started \subseteq constructed /\ constructed \subseteq ThreadStates
      /\ g_sharedThreadStates \in ThreadStates \cup {Nil} /\ iter \in ThreadStates \cup {Nil}
      /\ m_next \in [ThreadStates -> ThreadStates \cup {Nil}] /\ Nil \notin ThreadStates
  BY NilIsNoState DEF ListIInv, ListTypeOK
<1>6. Members(f, n) = started /\ svcArg \in constructed /\ svcArg \in ThreadStates
  BY <1>3, <1>4, <1>5 DEF ListShape
<1>7. /\ svcArg \in started => \E i, j \in 1 .. n : i < j /\ iter = f[i] /\ svcArg = f[j]
      /\ iter = Nil \/ \E i \in 1 .. n : iter = f[i]
      /\ visits = NoVisits
  BY <1>3, <1>4 DEF AtIterator
<1>8. \A i \in 1 .. n : f[i] \in ThreadStates /\ f[i] # Nil
          /\ m_next[f[i]] = IF i = n THEN Nil ELSE f[i + 1]
  BY <1>3, <1>5 DEF IsList
<1>9. CASE iter = Nil
  <2>1. handler' = "destroy" /\ m_next' = m_next /\ iter' = iter
    BY <1>9 DEF List_Walk
  <2>2. svcArg \notin started
    BY <1>7, <1>8, <1>9
  <2>3. ListTypeOK'
    BY <1>4, <1>5, <2>1 DEF ListTypeOK
  <2>4. AtIterator(f, n)'
    BY <1>3, <1>4, <1>7, <2>1 DEF AtIterator, NoVisits
  <2>5. started = started \ {svcArg}
    BY <2>2
  <2>6. ListShape(f, n)'
    BY <1>3, <1>4, <1>6, <2>1, <2>4, <2>5 DEF ListShape, IsList, Members
  <2> QED
    BY <2>3, <2>6 DEF ListIInv
<1>10. CASE iter # Nil /\ m_next[iter] = svcArg
  <2>1. handler' = "destroy" /\ m_next' = [m_next EXCEPT ![iter] = m_next[svcArg]] /\ iter' = iter
    BY <1>10 DEF List_Walk
  <2>2. PICK i \in 1 .. n : iter = f[i]
    BY <1>7, <1>10
  <2>3. i # n /\ i + 1 \in 1 .. n /\ f[i + 1] = svcArg
    <3>1. i # n
      BY <1>5, <1>6, <1>8, <1>10, <2>2
    <3> QED
      BY <3>1, <1>8, <1>10, <2>2
  <2> DEFINE j == i + 1
  <2>4. j \in 1 .. n /\ f[j] = svcArg /\ j # 1 /\ i = j - 1
    BY <2>2, <2>3
  <2>5. ListTypeOK'
    BY <1>4, <1>5, <1>6, <1>10, <2>1 DEF ListTypeOK
  <2>6. \A k \in 1 .. n : m_next'[f[k]] = IF k = i THEN m_next[svcArg] ELSE m_next[f[k]]
    BY <1>3, <1>5, <1>8, <2>1, <2>2
  <2> HIDE DEF j
  <2>7. PICK g : /\ IsList(g, n - 1, g_sharedThreadStates, m_next')
                 /\ Members(g, n - 1) = Members(f, n) \ {svcArg}
    <3>1. \A k \in 1 .. n : k # j =>
              m_next'[f[k]] = (IF k = j - 1 THEN m_next[f[j]] ELSE m_next[f[k]])
      BY <2>4, <2>6
    <3> DEFINE linked == m_next'
               first == g_sharedThreadStates
    <3>2. PointsBehind(f, n, j, m_next, linked)
      BY <3>1 DEF PointsBehind
    <3>3. IsList(f, n, first, m_next)
      BY <1>3
    <3> HIDE DEF linked, first
    <3>4. \E g : /\ IsList(g, n - 1, first, linked)
                 /\ Members(g, n - 1) = Members(f, n) \ {f[j]}
      BY <2>4, <3>2, <3>3, List_RemovedBehind
    <3> QED
      BY <3>4, <2>4 DEF linked, first
  <2>8. AtIterator(g, n - 1)'
    BY <1>3, <1>4, <1>7, <2>1 DEF AtIterator, NoVisits
  <2>9. ListShape(g, n - 1)'
    BY <1>4, <1>6, <2>1, <2>7, <2>8 DEF ListShape, IsList, Members
  <2>10. n - 1 \in Nat /\ g \in [1 .. n - 1 -> ThreadStates]
    BY <2>7 DEF IsList
  <2> QED
    BY <2>5, <2>9, <2>10 DEF ListIInv
<1>11. CASE iter # Nil /\ m_next[iter] # svcArg
  <2>1. handler' = handler /\ m_next' = m_next /\ iter' = m_next[iter]
    BY <1>11 DEF List_Walk
  <2>2. PICK i \in 1 .. n : iter = f[i]
    BY <1>7, <1>11
  <2>3. iter' = IF i = n THEN Nil ELSE f[i + 1]
    BY <1>8, <2>1, <2>2
  <2>4. ListTypeOK'
    BY <1>4, <1>5, <1>11, <2>1 DEF ListTypeOK
  <2>5. svcArg \in started => \E k, j \in 1 .. n : k < j /\ iter' = f[k] /\ svcArg = f[j]
    <3> SUFFICES ASSUME svcArg \in started
                 PROVE  \E k, j \in 1 .. n : k < j /\ iter' = f[k] /\ svcArg = f[j]
      OBVIOUS
    <3>1. PICK k \in 1 .. n : \E j \in 1 .. n : k < j /\ iter = f[k] /\ svcArg = f[j]
      BY <1>7
    <3>2. PICK j \in 1 .. n : k < j /\ iter = f[k] /\ svcArg = f[j]
      BY <3>1
    <3>3. k = i
      BY <3>2, <2>2, <1>3
    <3>4. i # n /\ i + 1 \in 1 .. n /\ iter' = f[i + 1]
      BY <3>2, <3>3, <2>3
    <3>5. i + 1 # j
      BY <3>2, <3>4, <1>11, <2>1
    <3>6. i + 1 < j
      BY <3>2, <3>3, <3>5
    <3> QED
      BY <3>2, <3>4, <3>6
  <2>6. iter' = Nil \/ \E k \in 1 .. n : iter' = f[k]
    <3>1. i # n => i + 1 \in 1 .. n
      OBVIOUS
    <3> QED
      BY <3>1, <2>3
  <2>7. AtIterator(f, n)'
    BY <1>4, <1>7, <1>3, <2>1, <2>5, <2>6 DEF AtIterator, NoVisits
  <2>8. ListShape(f, n)'
    BY <1>3, <1>4, <1>6, <2>1, <2>7 DEF ListShape, IsList, Members
  <2> QED
    BY <2>4, <2>8 DEF ListIInv
<1> QED
  BY <1>9, <1>10, <1>11

\* The handler has unlinked the state.
LEMMA List_ReturnKeeps ==
  ASSUME ListIInv, List_Return
  PROVE  ListIInv'
<1>1. PICK n \in Nat : \E f \in [1 .. n -> ThreadStates] : ListShape(f, n)
  BY DEF ListIInv
<1>2. PICK f \in [1 .. n -> ThreadStates] : ListShape(f, n)
  BY <1>1
<1>3. /\ ListShape(f, n) /\ IsList(f, n, g_sharedThreadStates, m_next) /\ AtIterator(f, n)
      /\ Members(f, n) = IF handler = "destroy" THEN started \ {svcArg} ELSE started
      /\ \A i, j \in 1 .. n : f[i] = f[j] => i = j
  BY <1>2 DEF ListShape, IsList
<1>4. /\ handler = "destroy" /\ handler' = "none" /\ svcArg' = Nil /\ iter' = Nil
      /\ constructed' = constructed /\ started' = started \ {svcArg}
      /\ unlinked' = unlinked \cup {svcArg}
      /\ m_next' = m_next /\ g_sharedThreadStates' = g_sharedThreadStates /\ visits' = visits
  BY DEF List_Return, SvcReturns
<1>5. ListTypeOK /\ svcArg \in constructed
  BY <1>3, <1>4 DEF ListIInv, ListShape
<1>6. Members(f, n) = started \ {svcArg} /\ visits = NoVisits
  BY <1>3, <1>4 DEF AtIterator
<1>7. ListTypeOK'
  BY <1>4, <1>5 DEF ListTypeOK
<1>8. AtIterator(f, n)'
  BY <1>4, <1>6 DEF AtIterator, NoVisits
<1>9. ListShape(f, n)'
  BY <1>3, <1>4, <1>6, <1>8 DEF ListShape, IsList, Members
<1> QED
  BY <1>7, <1>9 DEF ListIInv

\* The state is destroyed.
LEMMA List_DestroyKeeps ==
  ASSUME ListIInv, NEW s \in ThreadStates, List_Destroy(s)
  PROVE  ListIInv'
<1>1. PICK n \in Nat : \E f \in [1 .. n -> ThreadStates] : ListShape(f, n)
  BY DEF ListIInv
<1>2. PICK f \in [1 .. n -> ThreadStates] : ListShape(f, n)
  BY <1>1
<1>3. IsList(f, n, g_sharedThreadStates, m_next) /\ AtIterator(f, n)
      /\ Members(f, n) = IF handler = "destroy" THEN started \ {svcArg} ELSE started
  BY <1>2 DEF ListShape
<1>4. /\ handler = "none" /\ handler' = handler /\ svcArg' = svcArg /\ iter' = iter
      /\ s \in unlinked /\ constructed' = constructed \ {s} /\ unlinked' = unlinked \ {s}
      /\ m_next' = m_next /\ g_sharedThreadStates' = g_sharedThreadStates /\ visits' = visits
      /\ started' = started
  BY DEF List_Destroy
<1>5. ListTypeOK
  BY DEF ListIInv
<1>6. ListTypeOK'
  BY <1>4, <1>5 DEF ListTypeOK
<1>7. AtIterator(f, n)'
  BY <1>3, <1>4 DEF AtIterator, NoVisits
<1>8. ListShape(f, n)'
  BY <1>3, <1>4, <1>7 DEF ListShape, IsList, Members
<1> QED
  BY <1>6, <1>8 DEF ListIInv

\* for_each_thread() starts.
LEMMA List_ForEachKeeps ==
  ASSUME ListIInv, List_ForEach
  PROVE  ListIInv'
<1>1. PICK n \in Nat : \E f \in [1 .. n -> ThreadStates] : ListShape(f, n)
  BY DEF ListIInv
<1>2. PICK f \in [1 .. n -> ThreadStates] : ListShape(f, n)
  BY <1>1
<1>3. /\ ListShape(f, n) /\ IsList(f, n, g_sharedThreadStates, m_next) /\ AtIterator(f, n)
      /\ Members(f, n) = IF handler = "destroy" THEN started \ {svcArg} ELSE started
      /\ \A i, j \in 1 .. n : f[i] = f[j] => i = j
  BY <1>2 DEF ListShape, IsList
<1>4. /\ handler = "none" /\ handler' = "forEach" /\ svcArg' = Nil
      /\ iter' = g_sharedThreadStates /\ visits' = NoVisits
      /\ m_next' = m_next /\ g_sharedThreadStates' = g_sharedThreadStates
      /\ constructed' = constructed /\ started' = started /\ unlinked' = unlinked
  BY DEF List_ForEach, Svc
<1>5. ListTypeOK
  BY DEF ListIInv
<1>6. Members(f, n) = started
  BY <1>3, <1>4
<1>7. ListTypeOK'
  BY <1>4, <1>5 DEF ListTypeOK, NoVisits
<1>8. \A i \in 1 .. n : ~(i < 1) /\ NoVisits[f[i]] = 0
  BY DEF NoVisits
<1>9. 1 \in 1 .. n + 1 /\ g_sharedThreadStates = IF 1 = n + 1 THEN Nil ELSE f[1]
  BY <1>3 DEF IsList
<1>10. AtIterator(f, n)'
  BY <1>4, <1>8, <1>9 DEF AtIterator, NoVisits
<1>11. ListShape(f, n)'
  BY <1>3, <1>4, <1>6, <1>10 DEF ListShape, IsList, Members
<1> QED
  BY <1>7, <1>11 DEF ListIInv

\* It comes by a thread.
LEMMA List_VisitKeeps ==
  ASSUME ListIInv, List_Visit
  PROVE  ListIInv'
<1>1. PICK n \in Nat : \E f \in [1 .. n -> ThreadStates] : ListShape(f, n)
  BY DEF ListIInv
<1>2. PICK f \in [1 .. n -> ThreadStates] : ListShape(f, n)
  BY <1>1
<1>3. /\ ListShape(f, n) /\ IsList(f, n, g_sharedThreadStates, m_next) /\ AtIterator(f, n)
      /\ Members(f, n) = IF handler = "destroy" THEN started \ {svcArg} ELSE started
      /\ \A i, j \in 1 .. n : f[i] = f[j] => i = j
  BY <1>2 DEF ListShape, IsList
<1>4. /\ handler = "forEach" /\ iter # Nil /\ handler' = handler /\ svcArg' = svcArg
      /\ iter' = m_next[iter] /\ visits' = [visits EXCEPT ![iter] = @ + 1]
      /\ m_next' = m_next /\ g_sharedThreadStates' = g_sharedThreadStates
      /\ constructed' = constructed /\ started' = started /\ unlinked' = unlinked
  BY DEF List_Visit
<1>5. /\ ListTypeOK /\ visits \in [ThreadStates -> Nat] /\ iter \in ThreadStates \cup {Nil}
      /\ m_next \in [ThreadStates -> ThreadStates \cup {Nil}]
  BY DEF ListIInv, ListTypeOK
<1>6. Members(f, n) = started
  BY <1>3, <1>4
<1>7. ListTypeOK'
  BY <1>4, <1>5 DEF ListTypeOK
<1>8. PICK k \in 1 .. n + 1 : /\ iter = IF k = n + 1 THEN Nil ELSE f[k]
                              /\ \A i \in 1 .. n : visits[f[i]] = IF i < k THEN 1 ELSE 0
  BY <1>3, <1>4 DEF AtIterator
<1>9. k \in 1 .. n /\ k # n + 1 /\ k + 1 \in 1 .. n + 1 /\ iter = f[k]
  BY <1>4, <1>8
<1>10. m_next[f[k]] = IF k = n THEN Nil ELSE f[k + 1]
  BY <1>3, <1>9 DEF IsList
<1>11. iter' = IF k + 1 = n + 1 THEN Nil ELSE f[k + 1]
  BY <1>4, <1>9, <1>10
<1>12. ASSUME NEW i \in 1 .. n PROVE visits'[f[i]] = IF i < k + 1 THEN 1 ELSE 0
  <2>1. f[i] \in ThreadStates
    OBVIOUS
  <2>2. CASE i = k
    <3>1. visits[f[k]] = 0
      BY <1>8, <1>9
    <3>2. visits'[f[k]] = 0 + 1
      BY <3>1, <2>1, <2>2, <1>4, <1>5, <1>9
    <3> QED
      BY <3>2, <2>2
  <2>3. CASE i # k
    <3>1. f[i] # f[k]
      BY <2>3, <1>3, <1>9
    <3>2. visits'[f[i]] = visits[f[i]]
      BY <3>1, <2>1, <1>4, <1>5, <1>9
    <3>3. i < k + 1 <=> i < k
      BY <2>3
    <3> QED
      BY <3>2, <3>3, <1>8
  <2> QED
    BY <2>2, <2>3
<1>13. \A s \in ThreadStates \ started : visits'[s] = 0
  <2>1. iter \in started
    BY <1>6, <1>9 DEF Members
  <2>2. \A s \in ThreadStates \ started : visits[s] = 0
    BY <1>3 DEF AtIterator
  <2> QED
    BY <2>1, <2>2, <1>4, <1>5
<1>14. AtIterator(f, n)'
  BY <1>4, <1>9, <1>11, <1>12, <1>13 DEF AtIterator
<1>15. ListShape(f, n)'
  BY <1>3, <1>4, <1>6, <1>14 DEF ListShape, IsList, Members
<1> QED
  BY <1>7, <1>15 DEF ListIInv

\* It ends.
LEMMA List_ForEachEndsKeeps ==
  ASSUME ListIInv, List_ForEachEnds
  PROVE  ListIInv'
<1>1. PICK n \in Nat : \E f \in [1 .. n -> ThreadStates] : ListShape(f, n)
  BY DEF ListIInv
<1>2. PICK f \in [1 .. n -> ThreadStates] : ListShape(f, n)
  BY <1>1
<1>3. /\ ListShape(f, n) /\ IsList(f, n, g_sharedThreadStates, m_next) /\ AtIterator(f, n)
      /\ Members(f, n) = IF handler = "destroy" THEN started \ {svcArg} ELSE started
      /\ \A i, j \in 1 .. n : f[i] = f[j] => i = j
  BY <1>2 DEF ListShape, IsList
<1>4. /\ handler = "forEach" /\ handler' = "none" /\ svcArg' = Nil /\ iter' = Nil
      /\ visits' = NoVisits
      /\ m_next' = m_next /\ g_sharedThreadStates' = g_sharedThreadStates
      /\ constructed' = constructed /\ started' = started /\ unlinked' = unlinked
  BY DEF List_ForEachEnds, SvcReturns
<1>5. ListTypeOK
  BY DEF ListIInv
<1>6. Members(f, n) = started
  BY <1>3, <1>4
<1>7. ListTypeOK'
  BY <1>4, <1>5 DEF ListTypeOK, NoVisits
<1>8. AtIterator(f, n)'
  BY <1>4 DEF AtIterator, NoVisits
<1>9. ListShape(f, n)'
  BY <1>3, <1>4, <1>6, <1>8 DEF ListShape, IsList, Members
<1> QED
  BY <1>7, <1>9 DEF ListIInv

\* No variable changes.
LEMMA List_Stutter ==
  ASSUME ListIInv, UNCHANGED listVars
  PROVE  ListIInv'
<1>1. PICK n \in Nat : \E f \in [1 .. n -> ThreadStates] : ListShape(f, n)
  BY DEF ListIInv
<1>2. PICK f \in [1 .. n -> ThreadStates] : ListShape(f, n)
  BY <1>1
<1>3. /\ ListShape(f, n) /\ IsList(f, n, g_sharedThreadStates, m_next) /\ AtIterator(f, n)
      /\ Members(f, n) = IF handler = "destroy" THEN started \ {svcArg} ELSE started
      /\ \A i, j \in 1 .. n : f[i] = f[j] => i = j
  BY <1>2 DEF ListShape, IsList
<1>4. /\ handler' = handler /\ svcArg' = svcArg /\ iter' = iter /\ visits' = visits
      /\ m_next' = m_next /\ g_sharedThreadStates' = g_sharedThreadStates
      /\ constructed' = constructed /\ started' = started /\ unlinked' = unlinked
  BY DEF listVars
<1>5. ListTypeOK'
  BY <1>4 DEF ListIInv, ListTypeOK
<1>6. AtIterator(f, n)'
  BY <1>3, <1>4 DEF AtIterator, NoVisits
<1>7. ListShape(f, n)'
  BY <1>3, <1>4, <1>6 DEF ListShape, IsList, Members
<1> QED
  BY <1>5, <1>7 DEF ListIInv

\* Every step keeps the invariant.
LEMMA List_Next == ListIInv /\ [ListNext]_listVars => ListIInv'
<1> QED
  BY List_Stutter, List_ConstructKeeps, List_CreateKeeps, List_UnlinkKeeps, List_HeadKeeps,
     List_WalkKeeps,
     List_ReturnKeeps, List_DestroyKeeps, List_ForEachKeeps, List_VisitKeeps, List_ForEachEndsKeeps
     DEF ListNext

\* What the shape of the list means for those who walk it.
LEMMA List_Exact == ListIInv => ListExact
<1> SUFFICES ASSUME ListIInv PROVE ListExact
  OBVIOUS
<1>1. PICK n \in Nat : \E f \in [1 .. n -> ThreadStates] : ListShape(f, n)
  BY DEF ListIInv
<1>2. PICK f \in [1 .. n -> ThreadStates] : ListShape(f, n)
  BY <1>1
<1>3. /\ ListShape(f, n) /\ IsList(f, n, g_sharedThreadStates, m_next) /\ AtIterator(f, n)
      /\ Members(f, n) = IF handler = "destroy" THEN started \ {svcArg} ELSE started
      /\ \A i, j \in 1 .. n : f[i] = f[j] => i = j
  BY <1>2 DEF ListShape, IsList
<1>4. /\ \A i, k \in WalkSteps : Walk[i] = Walk[k] /\ Walk[i] # Nil => i = k
      /\ {Walk[k] : k \in WalkSteps} \ {Nil} = Members(f, n)
  BY <1>3, List_Seen
<1>5. ASSUME NEW s \in ThreadStates PROVE visits[s] <= 1
  <2>1. CASE s \notin started \/ handler # "forEach"
    <3>1. visits[s] = 0
      BY <2>1, <1>3 DEF AtIterator, NoVisits
    <3> QED
      BY <3>1
  <2>2. CASE s \in started /\ handler = "forEach"
    <3>1. PICK i \in 1 .. n : f[i] = s
      BY <2>2, <1>3 DEF Members
    <3>2. visits[f[i]] = 0 \/ visits[f[i]] = 1
      BY <2>2, <1>3 DEF AtIterator
    <3> QED
      BY <3>1, <3>2
  <2> QED
    BY <2>1, <2>2
<1>6. ASSUME handler = "forEach", iter = Nil, NEW s \in started PROVE visits[s] = 1
  <2>1. PICK i \in 1 .. n : f[i] = s
    BY <1>6, <1>3 DEF Members
  <2>2. PICK k \in 1 .. n + 1 : /\ iter = IF k = n + 1 THEN Nil ELSE f[k]
                                /\ \A j \in 1 .. n : visits[f[j]] = IF j < k THEN 1 ELSE 0
    BY <1>6, <1>3 DEF AtIterator
  <2>3. k = n + 1
    <3>1. k # n + 1 => k \in 1 .. n
      OBVIOUS
    <3> QED
      BY <3>1, <2>2, <1>6, NilIsNoState
  <2> QED
    BY <2>1, <2>2, <2>3
<1> QED
  BY <1>3, <1>4, <1>5, <1>6 DEF ListExact, WalkSteps

\* Whoever walks the list of the threads, an interrupt in the middle of a handler too,
\* comes by every thread once, for any number of threads.
THEOREM ListCorrect == ListSpec => [](ListTypeOK /\ ListExact)
<1>1. ListIInv => ListTypeOK
  BY DEF ListIInv
<1> QED
  BY <1>1, List_Exact, List_Init, List_Next, PTL DEF ListSpec
-----------------------------------------------------------------------------
(* StackLayout. *)

\* The types; an address that is not known yet is NoStack.
StackTypes ==
  /\ stage \in {"attributes", "allocate", "align", "construct", "offset", "max_align", "check",
                "run"}
  /\ g_stack_allocation_enabled \in BOOLEAN /\ g_default_stack_size \in Nat
  /\ m_stackBegin \in Address /\ m_initialStackBase \in Address /\ m_ownedStack \in Address
  /\ stateAt \in Address /\ m_stackSize \in Nat /\ lowest \in Nat
  /\ m_usedStack \in Nat \cup {-1} /\ granted \in Nat \X Nat

\* Where the memory is, and that all of it is granted.
MemoryShape ==
  /\ stage = "attributes" => m_stackBegin = NoStack
  /\ stage = "allocate" => /\ m_initialStackBase = m_stackBegin
                           /\ m_stackBegin # NoStack => granted = <<m_stackBegin, End>>
  /\ stage \notin {"attributes", "allocate"} =>
       /\ m_stackBegin \in Nat /\ m_initialStackBase \in Nat /\ m_initialStackBase <= m_stackBegin
       /\ Undersized \/ granted = <<m_initialStackBase, End>>

\* Where the shared state is, and what comes behind it.
StateShape ==
  /\ stage \in {"construct", "offset"} => m_stackBegin % StateAlign = 0 /\ m_stackSize >= StateSize
  /\ stage \in {"attributes", "allocate", "align", "construct"} => stateAt = NoStack
  /\ stage = "offset" => stateAt = m_stackBegin
  /\ stage \in {"max_align", "check", "run"} =>
       /\ stateAt \in Nat /\ stateAt % StateAlign = 0
       /\ stateAt >= m_initialStackBase /\ stateAt + StateSize <= m_stackBegin

\* The stack of the task, which is used word by word.
TaskShape ==
  /\ stage # "run" => lowest = 0 /\ m_usedStack = -1
  /\ stage \in {"check", "run"} => m_stackBegin % LongDouble = 0
  /\ stage = "run" =>
       /\ m_stackSize \in MinStack .. TooLarge - 1
       /\ \E k \in Nat : lowest = m_stackBegin + k * Word
       /\ lowest + MinStack <= End
       /\ m_usedStack # -1 => /\ m_usedStack <= StackSize - (lowest - m_stackBegin)
                              /\ m_usedStack >= StateSize + MinStack

\* The inductive invariant.
StackIInv == StackTypes /\ MemoryShape /\ StateShape /\ TaskShape

\* The constants.
LEMMA Stack_Constants ==
  /\ Word \in Nat /\ Word # 0 /\ StateAlign \in Nat /\ StateAlign # 0 /\ StateSize \in Nat
  /\ LongDouble \in Nat /\ LongDouble # 0 /\ MinStack \in Nat /\ MinStack # 0 /\ TooLarge \in Nat
  /\ NoStack \notin Nat /\ StackBegins \subseteq Nat /\ StackSizes \subseteq Nat
  /\ MinStack % Word = 0
BY StackConstants

\* A quotient times its divisor.
LEMMA Stack_Multiple ==
  ASSUME NEW x \in Nat, NEW a \in Nat, a # 0
  PROVE  /\ x \div a \in Nat /\ (x \div a) * a \in Nat
         /\ (x \div a) * a <= x /\ x < (x \div a) * a + a
         /\ (x % a = 0 => (x \div a) * a = x)
OBVIOUS

\* Multiplying keeps the order.
LEMMA Stack_Monotone ==
  ASSUME NEW x \in Nat, NEW y \in Nat, NEW a \in Nat, x <= y
  PROVE  x * a <= y * a
OBVIOUS

\* A multiple has no remainder.
LEMMA Stack_Remainder ==
  ASSUME NEW k \in Nat, NEW a \in Nat, a # 0
  PROVE  (k * a) % a = 0
OBVIOUS

\* Aligning goes up, to a multiple.
LEMMA Stack_Aligned ==
  ASSUME NEW x \in Nat, NEW a \in Nat, a # 0
  PROVE  AlignedUp(x, a) \in Nat /\ AlignedUp(x, a) >= x /\ AlignedUp(x, a) % a = 0
<1> DEFINE y == x + a - 1
           k == y \div a
<1>1. y \in Nat
  OBVIOUS
<1>2. k \in Nat /\ k * a \in Nat /\ y < k * a + a
  BY <1>1, Stack_Multiple
<1>3. AlignedUp(x, a) = k * a
  BY DEF AlignedUp
<1> HIDE DEF k
<1>4. (k * a) % a = 0
  BY <1>2, Stack_Remainder
<1>5. k * a >= x
  BY <1>2
<1> QED
  BY <1>2, <1>3, <1>4, <1>5

\* The types of the parts and of the whole.
LEMMA Stack_Types == StackTypes => StackTypeOK
BY DEF StackTypes, StackTypeOK

\* The end of an attempt.
LEMMA Stack_Gone ==
  ASSUME StackIInv, Gone
  PROVE  StackIInv'
<1>1. /\ stage' = "attributes" /\ m_stackBegin' = NoStack /\ m_stackSize' = 0
      /\ m_initialStackBase' = NoStack /\ m_ownedStack' = NoStack /\ stateAt' = NoStack
      /\ granted' = <<0, 0>> /\ lowest' = 0 /\ m_usedStack' = -1
      /\ g_stack_allocation_enabled' = g_stack_allocation_enabled
      /\ g_default_stack_size' = g_default_stack_size
  BY DEF Gone, settings
<1>2. StackTypes'
  BY <1>1 DEF StackIInv, StackTypes, Address
<1>3. MemoryShape' /\ StateShape' /\ TaskShape'
  BY <1>1 DEF MemoryShape, StateShape, TaskShape
<1> QED
  BY <1>2, <1>3 DEF StackIInv

\* At the start nothing is there.
LEMMA Stack_Init == StackInit => StackIInv
<1> SUFFICES ASSUME StackInit PROVE StackIInv
  OBVIOUS
<1>1. /\ stage = "attributes" /\ m_stackBegin = NoStack /\ m_stackSize = 0
      /\ m_initialStackBase = NoStack /\ m_ownedStack = NoStack /\ stateAt = NoStack
      /\ granted = <<0, 0>> /\ lowest = 0 /\ m_usedStack = -1
      /\ g_stack_allocation_enabled = FALSE /\ g_default_stack_size = 0
  BY DEF StackInit, Nothing
<1>2. StackTypes
  BY <1>1 DEF StackTypes, Address
<1>3. MemoryShape /\ StateShape /\ TaskShape
  BY <1>1 DEF MemoryShape, StateShape, TaskShape
<1> QED
  BY <1>2, <1>3 DEF StackIInv

\* The settings are read by Allocate only.
LEMMA Stack_Settings ==
  ASSUME StackIInv,
         \/ \E enable \in BOOLEAN : set_stack_allocation_enabled(enable)
         \/ \E bytes \in StackSizes : set_default_stack_size(bytes)
         \/ UNCHANGED stackVars
  PROVE  StackIInv'
<1>1. /\ stage' = stage /\ m_stackBegin' = m_stackBegin /\ m_stackSize' = m_stackSize
      /\ m_initialStackBase' = m_initialStackBase /\ m_ownedStack' = m_ownedStack
      /\ stateAt' = stateAt /\ granted' = granted /\ lowest' = lowest /\ m_usedStack' = m_usedStack
  BY DEF set_stack_allocation_enabled, set_default_stack_size, stackVars, inTask
<1>2. g_stack_allocation_enabled' \in BOOLEAN /\ g_default_stack_size' \in Nat
  BY Stack_Constants DEF set_stack_allocation_enabled, set_default_stack_size, stackVars,
                         StackIInv, StackTypes
<1>3. StackTypes'
  BY <1>1, <1>2 DEF StackIInv, StackTypes
<1>4. MemoryShape' /\ StateShape' /\ TaskShape'
  BY <1>1 DEF StackIInv, MemoryShape, StateShape, TaskShape, End, Undersized, StackSize
<1> QED
  BY <1>3, <1>4 DEF StackIInv

\* The attributes of the next thread.
LEMMA Stack_Attributes ==
  ASSUME StackIInv, NEW bytes \in StackSizes, NEW begin \in StackBegins \cup {NoStack},
         Attributes(begin, bytes)
  PROVE  StackIInv'
<1>1. /\ stage = "attributes" /\ stage' = "allocate" /\ m_stackBegin' = begin
      /\ m_stackSize' = bytes /\ m_initialStackBase' = begin
      /\ granted' = IF begin = NoStack THEN <<0, 0>> ELSE <<begin, begin + bytes>>
      /\ m_ownedStack' = m_ownedStack /\ stateAt' = stateAt /\ lowest' = lowest
      /\ m_usedStack' = m_usedStack /\ g_stack_allocation_enabled' = g_stack_allocation_enabled
      /\ g_default_stack_size' = g_default_stack_size
  BY DEF Attributes, settings, inTask
<1>2. bytes \in Nat /\ begin \in Address /\ (begin # NoStack => begin \in Nat)
  BY Stack_Constants DEF Address
<1>3. granted' \in Nat \X Nat
  BY <1>1, <1>2
<1>4. StackTypes'
  BY <1>1, <1>2, <1>3 DEF StackIInv, StackTypes
<1>5. MemoryShape' /\ StateShape' /\ TaskShape'
  BY <1>1 DEF StackIInv, MemoryShape, StateShape, TaskShape, End
<1> QED
  BY <1>4, <1>5 DEF StackIInv

\* The memory that the program has given.
LEMMA Stack_AllocateCustom ==
  ASSUME StackIInv, Allocate_Custom
  PROVE  StackIInv'
<1>1. /\ stage = "allocate" /\ m_stackBegin # NoStack /\ stage' = "align"
      /\ m_stackBegin' = m_stackBegin /\ m_stackSize' = m_stackSize
      /\ m_initialStackBase' = m_initialStackBase /\ m_ownedStack' = m_ownedStack
      /\ stateAt' = stateAt /\ granted' = granted /\ lowest' = lowest /\ m_usedStack' = m_usedStack
      /\ g_stack_allocation_enabled' = g_stack_allocation_enabled
      /\ g_default_stack_size' = g_default_stack_size
  BY DEF Allocate_Custom, settings, inTask
<1>2. m_stackBegin \in Nat
  BY <1>1 DEF StackIInv, StackTypes, Address
<1>3. StackTypes'
  BY <1>1 DEF StackIInv, StackTypes
<1>4. MemoryShape' /\ StateShape' /\ TaskShape'
  BY <1>1, <1>2 DEF StackIInv, MemoryShape, StateShape, TaskShape, End
<1> QED
  BY <1>3, <1>4 DEF StackIInv

\* The memory that is allocated: of the size that was asked for, which may be zero.
LEMMA Stack_Allocate ==
  ASSUME StackIInv, Allocate
  PROVE  StackIInv'
<1> DEFINE bytes == IF m_stackSize = 0 THEN g_default_stack_size ELSE m_stackSize
<1>1. CASE ~g_stack_allocation_enabled \/ bytes = 0
  BY <1>1, Stack_Gone DEF Allocate
<1>2. CASE ~(~g_stack_allocation_enabled \/ bytes = 0)
  <2>1. /\ stage = "allocate" /\ stage' = "align"
        /\ m_stackBegin' = LongDouble /\ m_initialStackBase' = LongDouble
        /\ m_ownedStack' = LongDouble /\ granted' = <<LongDouble, LongDouble + m_stackSize>>
        /\ m_stackSize' = bytes
        /\ stateAt' = stateAt /\ lowest' = lowest /\ m_usedStack' = m_usedStack
        /\ g_stack_allocation_enabled' = g_stack_allocation_enabled
        /\ g_default_stack_size' = g_default_stack_size
    BY <1>2 DEF Allocate, settings, inTask
  <2>2. LongDouble \in Nat /\ NoStack # LongDouble /\ m_stackSize \in Nat /\ bytes \in Nat
    BY Stack_Constants DEF StackIInv, StackTypes
  <2>3. granted'[1] = LongDouble /\ granted'[2] = LongDouble + m_stackSize
    BY <2>1
  <2>4. m_stackSize = 0 => Undersized'
    BY <2>1, <2>2, <2>3 DEF Undersized
  <2>5. m_stackSize # 0 => granted' = <<m_initialStackBase', End'>>
    BY <2>1 DEF End
  <2> HIDE DEF bytes
  <2>6. StackTypes'
    BY <2>1, <2>2 DEF StackIInv, StackTypes, Address
  <2>7. MemoryShape'
    BY <2>1, <2>2, <2>4, <2>5 DEF MemoryShape
  <2>8. StateShape' /\ TaskShape'
    BY <2>1 DEF StackIInv, StateShape, TaskShape
  <2> QED
    BY <2>6, <2>7, <2>8 DEF StackIInv
<1> QED
  BY <1>1, <1>2

\* What is known from the allocation on.
LEMMA Stack_Memory ==
  ASSUME StackIInv, stage \notin {"attributes", "allocate"}
  PROVE  /\ m_stackBegin \in Nat /\ m_initialStackBase \in Nat /\ m_stackSize \in Nat
         /\ m_initialStackBase <= m_stackBegin /\ m_stackBegin # NoStack
         /\ Undersized \/ granted = <<m_initialStackBase, End>>
BY Stack_Constants DEF StackIInv, MemoryShape, StackTypes

\* A step that moves the beginning up to a multiple of a, with room for n bytes behind it.
LEMMA Stack_AlignTo ==
  ASSUME StackIInv, NEW a \in Nat, a # 0, NEW n \in Nat, NEW next,
         stage \notin {"attributes", "allocate", "run"}, next \notin {"attributes", "allocate",
                                                                      "run"},
         next \in {"align", "construct", "offset", "max_align", "check", "run"},
         AlignTo(a, n, next), stage' = next
  PROVE  /\ StackTypes' /\ MemoryShape'
         /\ m_stackBegin' \in Nat /\ m_stackBegin' >= m_stackBegin /\ m_stackBegin' % a = 0
         /\ m_stackSize' >= n /\ stateAt' = stateAt /\ m_initialStackBase' = m_initialStackBase
         /\ lowest' = 0 /\ m_usedStack' = -1
<1> DEFINE up == AlignedUp(m_stackBegin, a)
           diff == up - m_stackBegin
<1>1. /\ m_stackBegin \in Nat /\ m_initialStackBase \in Nat /\ m_stackSize \in Nat
      /\ m_initialStackBase <= m_stackBegin
      /\ Undersized \/ granted = <<m_initialStackBase, End>>
  BY Stack_Memory
<1>2. up \in Nat /\ up >= m_stackBegin /\ up % a = 0
  BY <1>1, Stack_Aligned
<1>3. /\ m_stackSize >= diff + n
      /\ m_stackBegin' = m_stackBegin + diff /\ m_stackSize' = m_stackSize - diff
      /\ m_initialStackBase' = m_initialStackBase /\ m_ownedStack' = m_ownedStack
      /\ stateAt' = stateAt /\ granted' = granted /\ lowest' = lowest /\ m_usedStack' = m_usedStack
      /\ g_stack_allocation_enabled' = g_stack_allocation_enabled
      /\ g_default_stack_size' = g_default_stack_size
  BY DEF AlignTo, Gone, settings, inTask
<1> HIDE DEF up
<1>4. m_stackBegin' = up /\ m_stackSize' \in Nat /\ m_stackSize' >= n
  BY <1>1, <1>2, <1>3
<1>5. m_stackBegin' + m_stackSize' = m_stackBegin + m_stackSize
  BY <1>1, <1>2, <1>3
<1>6. StackTypes'
  BY <1>2, <1>3, <1>4 DEF StackIInv, StackTypes, Address
<1>7. End' = End
  BY <1>5 DEF End
<1>8. MemoryShape'
  BY <1>1, <1>2, <1>3, <1>4, <1>7 DEF MemoryShape, Undersized
<1> QED
  BY <1>2, <1>3, <1>4, <1>6, <1>8 DEF StackIInv, TaskShape

\* The shared state gets its place.
LEMMA Stack_Align ==
  ASSUME StackIInv, Align
  PROVE  StackIInv'
<1>1. stage = "align" /\ AlignTo(StateAlign, StateSize, "construct")
  BY DEF Align
<1>2. Gone \/ stage' = "construct"
  BY <1>1 DEF AlignTo
<1>3. CASE stage' = "construct"
  <2>1. /\ StackTypes' /\ MemoryShape' /\ m_stackBegin' % StateAlign = 0
               /\ m_stackSize' >= StateSize
        /\ stateAt' = stateAt /\ lowest' = 0 /\ m_usedStack' = -1
    BY <1>1, <1>3, Stack_AlignTo, Stack_Constants
  <2>2. stateAt = NoStack
    BY <1>1 DEF StackIInv, StateShape
  <2>3. StateShape' /\ TaskShape'
    BY <1>3, <2>1, <2>2 DEF StateShape, TaskShape
  <2> QED
    BY <2>1, <2>3 DEF StackIInv
<1> QED
  BY <1>2, <1>3, Stack_Gone

\* It is constructed there.
LEMMA Stack_Construct ==
  ASSUME StackIInv, Construct_State
  PROVE  StackIInv'
<1>1. /\ stage = "construct" /\ stage' = "offset" /\ stateAt' = m_stackBegin
      /\ m_stackBegin' = m_stackBegin /\ m_stackSize' = m_stackSize
      /\ m_initialStackBase' = m_initialStackBase /\ m_ownedStack' = m_ownedStack
      /\ granted' = granted /\ lowest' = lowest /\ m_usedStack' = m_usedStack
      /\ g_stack_allocation_enabled' = g_stack_allocation_enabled
      /\ g_default_stack_size' = g_default_stack_size
  BY DEF Construct_State, settings, inTask
<1>2. StackTypes'
  BY <1>1 DEF StackIInv, StackTypes
<1>3. MemoryShape' /\ StateShape' /\ TaskShape'
  BY <1>1 DEF StackIInv, MemoryShape, StateShape, TaskShape, End, Undersized
<1> QED
  BY <1>2, <1>3 DEF StackIInv

\* The rest begins behind it.
LEMMA Stack_OffsetBy ==
  ASSUME StackIInv, OffsetBy
  PROVE  StackIInv'
<1>1. /\ stage = "offset" /\ stage' = "max_align" /\ stateAt' = stateAt
      /\ m_stackBegin' = m_stackBegin + StateSize /\ m_stackSize' = m_stackSize - StateSize
      /\ m_initialStackBase' = m_initialStackBase /\ m_ownedStack' = m_ownedStack
      /\ granted' = granted /\ lowest' = lowest /\ m_usedStack' = m_usedStack
      /\ g_stack_allocation_enabled' = g_stack_allocation_enabled
      /\ g_default_stack_size' = g_default_stack_size
  BY DEF OffsetBy, settings, inTask
<1>2. /\ m_stackBegin \in Nat /\ m_initialStackBase \in Nat /\ m_stackSize \in Nat
      /\ m_initialStackBase <= m_stackBegin
      /\ Undersized \/ granted = <<m_initialStackBase, End>>
  BY <1>1, Stack_Memory
<1>3. /\ m_stackBegin % StateAlign = 0 /\ m_stackSize >= StateSize /\ stateAt = m_stackBegin
      /\ lowest = 0 /\ m_usedStack = -1
  BY <1>1 DEF StackIInv, StateShape, TaskShape
<1>4. /\ StateSize \in Nat /\ m_stackBegin' \in Nat /\ m_stackSize' \in Nat
      /\ m_stackBegin' + m_stackSize' = m_stackBegin + m_stackSize
      /\ m_stackBegin' >= m_stackBegin
  BY <1>1, <1>2, <1>3, Stack_Constants
<1>5. StackTypes'
  BY <1>1, <1>4 DEF StackIInv, StackTypes, Address
<1>6. End' = End /\ m_initialStackBase <= m_stackBegin'
  <2>1. End' = End
    BY <1>4 DEF End
  <2>2. m_initialStackBase <= m_stackBegin'
    BY <1>2, <1>4
  <2> QED
    BY <2>1, <2>2
<1>7. MemoryShape'
  BY <1>1, <1>2, <1>4, <1>6 DEF MemoryShape, Undersized
<1>8. StateShape' /\ TaskShape'
  BY <1>1, <1>2, <1>3, <1>4 DEF StateShape, TaskShape
<1> QED
  BY <1>5, <1>7, <1>8 DEF StackIInv

\* The stack of the task is aligned for everything.
LEMMA Stack_MaxAlign ==
  ASSUME StackIInv, MaxAlign
  PROVE  StackIInv'
<1>1. stage = "max_align" /\ AlignTo(LongDouble, 0, "check")
  BY DEF MaxAlign
<1>2. Gone \/ stage' = "check"
  BY <1>1 DEF AlignTo
<1>3. CASE stage' = "check"
  <2>1. /\ StackTypes' /\ MemoryShape' /\ m_stackBegin' % LongDouble = 0
        /\ m_stackBegin' \in Nat /\ m_stackBegin' >= m_stackBegin
        /\ stateAt' = stateAt /\ m_initialStackBase' = m_initialStackBase
        /\ lowest' = 0 /\ m_usedStack' = -1
    BY <1>1, <1>3, Stack_AlignTo, Stack_Constants
  <2>2. /\ stateAt \in Nat /\ stateAt % StateAlign = 0
        /\ stateAt >= m_initialStackBase /\ stateAt + StateSize <= m_stackBegin
    BY <1>1 DEF StackIInv, StateShape
  <2>3. stateAt + StateSize <= m_stackBegin'
    BY <1>1, <2>1, <2>2, Stack_Constants, Stack_Memory
  <2>4. StateShape' /\ TaskShape'
    BY <1>3, <2>1, <2>2, <2>3 DEF StateShape, TaskShape
  <2> QED
    BY <2>1, <2>4 DEF StackIInv
<1> QED
  BY <1>2, <1>3, Stack_Gone

\* The task is created if there is room: its registers lie at the end of the last word.
LEMMA Stack_CreateTask ==
  ASSUME StackIInv, CreateTask
  PROVE  StackIInv'
<1>1. CASE m_stackSize < MinStack \/ m_stackSize >= TooLarge
  BY <1>1, Stack_Gone DEF CreateTask
<1>2. CASE ~(m_stackSize < MinStack \/ m_stackSize >= TooLarge)
  <2> DEFINE m == MinStack \div Word
             w == m_stackSize \div Word
  <2>1. /\ stage = "check" /\ stage' = "run" /\ stateAt' = stateAt
        /\ lowest' = m_stackBegin + w * Word - MinStack
        /\ m_stackBegin' = m_stackBegin /\ m_stackSize' = m_stackSize
        /\ m_initialStackBase' = m_initialStackBase /\ m_ownedStack' = m_ownedStack
        /\ granted' = granted /\ m_usedStack' = m_usedStack
        /\ g_stack_allocation_enabled' = g_stack_allocation_enabled
        /\ g_default_stack_size' = g_default_stack_size
    BY <1>2 DEF CreateTask, settings, Words
  <2>2. m_stackBegin \in Nat /\ m_stackSize \in Nat
    BY <2>1, Stack_Memory
  <2>3. /\ MinStack \in Nat /\ TooLarge \in Nat /\ Word \in Nat /\ Word # 0 /\ MinStack % Word = 0
        /\ m_stackSize >= MinStack /\ m_stackSize < TooLarge
    BY <1>2, <2>2, Stack_Constants
  <2>4. m \in Nat /\ m * Word = MinStack
    BY <2>3, Stack_Multiple
  <2>5. w \in Nat /\ w * Word \in Nat /\ w * Word <= m_stackSize /\ m_stackSize < w * Word + Word
    BY <2>2, <2>3, Stack_Multiple
  <2> HIDE DEF m, w
  <2>6. w >= m
    <3>1. SUFFICES ASSUME w + 1 <= m PROVE FALSE
      BY <2>4, <2>5
    <3>2. (w + 1) * Word <= m * Word
      BY <3>1, <2>3, <2>4, <2>5, Stack_Monotone
    <3>3. (w + 1) * Word = w * Word + Word
      BY <2>3, <2>5
    <3> QED
      BY <3>2, <3>3, <2>2, <2>3, <2>4, <2>5
  <2>7. w - m \in Nat /\ (w - m) * Word = w * Word - MinStack
    <3>1. (w - m) * Word = w * Word - m * Word
      BY <2>3, <2>4, <2>5
    <3> QED
      BY <3>1, <2>4, <2>5, <2>6
  <2>8. lowest' = m_stackBegin + (w - m) * Word
    BY <2>1, <2>2, <2>3, <2>5, <2>7
  <2>9. (w - m) * Word \in Nat /\ lowest' \in Nat
    <3>1. (w - m) * Word \in Nat
      BY <2>3, <2>7
    <3> QED
      BY <3>1, <2>2, <2>8
  <2>10. lowest' + MinStack <= m_stackBegin + m_stackSize
    BY <2>1, <2>2, <2>3, <2>5
  <2>11. StackTypes'
    BY <2>1, <2>9 DEF StackIInv, StackTypes
  <2>12. MemoryShape' /\ StateShape'
    BY <2>1 DEF StackIInv, MemoryShape, StateShape, End, Undersized
  <2>13. \E k \in Nat : lowest' = m_stackBegin' + k * Word
    BY <2>1, <2>7, <2>8
  <2>14. m_stackBegin % LongDouble = 0 /\ m_usedStack = -1
    BY <2>1 DEF StackIInv, TaskShape
  <2>15. m_stackSize' \in MinStack .. TooLarge - 1
    BY <2>1, <2>2, <2>3
  <2>16. TaskShape'
    BY <2>1, <2>10, <2>13, <2>14, <2>15 DEF TaskShape, End
  <2> QED
    BY <2>11, <2>12, <2>16 DEF StackIInv
<1> QED
  BY <1>1, <1>2

\* While the task runs its memory stays as it is.
LEMMA Stack_Running ==
  ASSUME StackIInv, stage = "run", stage' = stage, m_stackBegin' = m_stackBegin,
         m_stackSize' = m_stackSize, m_initialStackBase' = m_initialStackBase,
         m_ownedStack' = m_ownedStack, stateAt' = stateAt, granted' = granted,
         UNCHANGED settings, lowest' \in Nat, m_usedStack' \in Nat \cup {-1}
  PROVE  StackTypes' /\ MemoryShape' /\ StateShape'
<1>1. StackTypes'
  BY DEF StackIInv, StackTypes, settings
<1>2. MemoryShape' /\ StateShape'
  BY DEF StackIInv, MemoryShape, StateShape, End, Undersized
<1> QED
  BY <1>1, <1>2

\* The task uses one more word; there is one, for its stack is a number of words.
LEMMA Stack_Use ==
  ASSUME StackIInv, Use
  PROVE  StackIInv'
<1>1. /\ stage = "run" /\ lowest > m_stackBegin /\ lowest' = lowest - Word
      /\ m_stackBegin' = m_stackBegin /\ m_stackSize' = m_stackSize
      /\ m_initialStackBase' = m_initialStackBase /\ m_ownedStack' = m_ownedStack
      /\ stateAt' = stateAt /\ granted' = granted /\ m_usedStack' = m_usedStack /\ stage' = stage
      /\ UNCHANGED settings
  BY DEF Use
<1>2. m_stackBegin \in Nat /\ m_stackSize \in Nat /\ m_initialStackBase \in Nat
  BY <1>1, Stack_Memory
<1>3. Word \in Nat /\ Word # 0 /\ MinStack \in Nat /\ StateSize \in Nat
  BY Stack_Constants
<1>4. /\ m_stackBegin % LongDouble = 0 /\ m_stackSize \in MinStack .. TooLarge - 1
      /\ lowest + MinStack <= End
      /\ m_usedStack # -1 => /\ m_usedStack <= StackSize - (lowest - m_stackBegin)
                             /\ m_usedStack >= StateSize + MinStack
  BY <1>1 DEF StackIInv, TaskShape
<1>5. PICK k \in Nat : lowest = m_stackBegin + k * Word
  BY <1>1 DEF StackIInv, TaskShape
<1>6. k * Word \in Nat /\ lowest \in Nat /\ m_usedStack \in Nat \cup {-1}
  BY <1>3 DEF StackIInv, StackTypes
<1>7. k # 0
  <2>1. 0 * Word = 0
    BY <1>3
  <2> QED
    BY <2>1, <1>1, <1>2, <1>5
<1>8. k - 1 \in Nat /\ (k - 1) * Word = k * Word - Word
  BY <1>3, <1>7
<1>9. (k - 1) * Word \in Nat
  BY <1>3, <1>8
<1>10. lowest' = m_stackBegin + (k - 1) * Word /\ lowest' \in Nat /\ lowest' <= lowest
  BY <1>1, <1>2, <1>3, <1>5, <1>6, <1>8, <1>9
<1>11. StackTypes' /\ MemoryShape' /\ StateShape'
  BY <1>1, <1>6, <1>10, Stack_Running
<1>12. \E j \in Nat : lowest' = m_stackBegin' + j * Word
  BY <1>1, <1>8, <1>10
<1>13. End' = End /\ StackSize' = StackSize /\ End \in Nat /\ StackSize \in Int
  BY <1>1, <1>2 DEF End, StackSize
<1>14. lowest' + MinStack <= End'
  BY <1>3, <1>4, <1>6, <1>10, <1>13
<1>15. m_usedStack' # -1 => /\ m_usedStack' <= StackSize' - (lowest' - m_stackBegin')
                            /\ m_usedStack' >= StateSize + MinStack
  BY <1>1, <1>2, <1>3, <1>4, <1>6, <1>10, <1>13
<1>16. TaskShape'
  BY <1>1, <1>4, <1>12, <1>14, <1>15 DEF TaskShape
<1> QED
  BY <1>11, <1>16 DEF StackIInv

\* What thread_info reports is what the state and the task have used by now.
LEMMA Stack_GetUsedStack ==
  ASSUME StackIInv, GetUsedStack
  PROVE  StackIInv'
<1>1. /\ stage = "run" /\ m_usedStack' = (m_stackBegin - m_initialStackBase) + (End - lowest)
      /\ m_stackBegin' = m_stackBegin /\ m_stackSize' = m_stackSize
      /\ m_initialStackBase' = m_initialStackBase /\ m_ownedStack' = m_ownedStack
      /\ stateAt' = stateAt /\ granted' = granted /\ lowest' = lowest /\ stage' = stage
      /\ UNCHANGED settings
  BY DEF GetUsedStack
<1>2. m_stackBegin \in Nat /\ m_stackSize \in Nat /\ m_initialStackBase \in Nat
  BY <1>1, Stack_Memory
<1>3. MinStack \in Nat /\ StateSize \in Nat
  BY Stack_Constants
<1>4. /\ m_stackBegin % LongDouble = 0 /\ m_stackSize \in MinStack .. TooLarge - 1
      /\ lowest + MinStack <= End /\ \E k \in Nat : lowest = m_stackBegin + k * Word
  BY <1>1 DEF StackIInv, TaskShape
<1>5. stateAt \in Nat /\ stateAt >= m_initialStackBase /\ stateAt + StateSize <= m_stackBegin
  BY <1>1 DEF StackIInv, StateShape
<1>6. End' = End /\ StackSize' = StackSize /\ End \in Nat /\ lowest \in Nat
      /\ StackSize = End - m_initialStackBase
  BY <1>1, <1>2 DEF End, StackSize, StackIInv, StackTypes
<1>7. /\ m_usedStack' <= StackSize' - (lowest' - m_stackBegin')
      /\ m_usedStack' >= StateSize + MinStack /\ m_usedStack' \in Nat
  BY <1>1, <1>2, <1>3, <1>4, <1>5, <1>6
<1>8. StackTypes' /\ MemoryShape' /\ StateShape'
  BY <1>1, <1>6, <1>7, Stack_Running
<1>9. TaskShape'
  BY <1>1, <1>4, <1>6, <1>7 DEF TaskShape
<1> QED
  BY <1>8, <1>9 DEF StackIInv

\* A new thread_info.
LEMMA Stack_NewThreadInfo ==
  ASSUME StackIInv, NewThreadInfo
  PROVE  StackIInv'
<1>1. /\ stage = "run" /\ m_usedStack' = -1
      /\ m_stackBegin' = m_stackBegin /\ m_stackSize' = m_stackSize
      /\ m_initialStackBase' = m_initialStackBase /\ m_ownedStack' = m_ownedStack
      /\ stateAt' = stateAt /\ granted' = granted /\ lowest' = lowest /\ stage' = stage
      /\ UNCHANGED settings
  BY DEF NewThreadInfo
<1>2. lowest \in Nat
  BY DEF StackIInv, StackTypes
<1>3. StackTypes' /\ MemoryShape' /\ StateShape'
  BY <1>1, <1>2, Stack_Running
<1>4. TaskShape'
  BY <1>1 DEF StackIInv, TaskShape, End
<1> QED
  BY <1>3, <1>4 DEF StackIInv

\* Every step keeps the invariant.
LEMMA Stack_Next == StackIInv /\ [StackNext]_stackVars => StackIInv'
<1> SUFFICES ASSUME StackIInv, [StackNext]_stackVars PROVE StackIInv'
  OBVIOUS
<1>1. CASE Gone
  BY <1>1, Stack_Gone
<1>2. Allocate_Fails \/ Construct_Throws \/ Thread_Ends => Gone
  BY DEF Allocate_Fails, Construct_Throws, Thread_Ends
<1> QED
  BY <1>1, <1>2, Stack_Settings, Stack_Attributes, Stack_AllocateCustom, Stack_Allocate,
     Stack_Align,
     Stack_Construct, Stack_OffsetBy, Stack_MaxAlign, Stack_CreateTask, Stack_Use,
     Stack_GetUsedStack, Stack_NewThreadInfo DEF StackNext

\* The state and the stack of the task lie where they should.
LEMMA Stack_Exact == StackIInv => StackExact
<1> SUFFICES ASSUME StackIInv, m_stackBegin # NoStack PROVE StackExact
  BY DEF StackExact
<1>1. StateSize \in Nat /\ MinStack \in Nat /\ Word \in Nat /\ NoStack \notin Nat
  BY Stack_Constants
<1>2. stage # "attributes"
  BY DEF StackIInv, MemoryShape
<1>3. CASE stage = "allocate"
  BY <1>3 DEF StackIInv, MemoryShape, StateShape, StackExact
<1>4. CASE stage # "allocate"
  <2>1. /\ m_stackBegin \in Nat /\ m_initialStackBase \in Nat /\ m_stackSize \in Nat
        /\ m_initialStackBase <= m_stackBegin
        /\ Undersized \/ granted = <<m_initialStackBase, End>>
    BY <1>2, <1>4, Stack_Memory
  <2>2. End = m_stackBegin + m_stackSize
    BY DEF End
  <2>3. stateAt # NoStack =>
          /\ stateAt % StateAlign = 0 /\ stateAt >= m_initialStackBase /\ stateAt + StateSize <= End
          /\ stage # "offset" => m_stackBegin >= stateAt + StateSize
    <3>1. stage \in {"align", "construct", "offset", "max_align", "check", "run"}
      BY <1>2, <1>4 DEF StackIInv, StackTypes
    <3>2. CASE stage \in {"align", "construct"}
      BY <3>2 DEF StackIInv, StateShape
    <3>3. CASE stage = "offset"
      <4>1. /\ m_stackBegin % StateAlign = 0 /\ m_stackSize >= StateSize
            /\ stateAt = m_stackBegin
        BY <3>3 DEF StackIInv, StateShape
      <4> QED
        BY <4>1, <3>3, <2>1, <2>2, <1>1
    <3>4. CASE stage \in {"max_align", "check", "run"}
      <4>1. /\ stateAt \in Nat /\ stateAt % StateAlign = 0
            /\ stateAt >= m_initialStackBase /\ stateAt + StateSize <= m_stackBegin
        BY <3>4 DEF StackIInv, StateShape
      <4> QED
        BY <4>1, <2>1, <2>2, <1>1
    <3> QED
      BY <3>1, <3>2, <3>3, <3>4
  <2>4. stage = "run" =>
          /\ m_stackBegin % LongDouble = 0 /\ lowest >= m_stackBegin
          /\ m_stackSize \in MinStack .. TooLarge - 1
          /\ m_usedStack # -1 => /\ m_usedStack <= StackSize - (lowest - m_stackBegin)
                                 /\ m_usedStack >= StateSize + MinStack
    <3> SUFFICES ASSUME stage = "run"
                 PROVE  /\ m_stackBegin % LongDouble = 0 /\ lowest >= m_stackBegin
                        /\ m_stackSize \in MinStack .. TooLarge - 1
                        /\ m_usedStack # -1 => /\ m_usedStack <= StackSize - (lowest - m_stackBegin)
                                               /\ m_usedStack >= StateSize + MinStack
      OBVIOUS
    <3>1. PICK k \in Nat : lowest = m_stackBegin + k * Word
      BY DEF StackIInv, TaskShape
    <3>2. k * Word \in Nat
      BY <1>1
    <3>3. lowest >= m_stackBegin
      BY <3>1, <3>2, <2>1
    <3> QED
      BY <3>3 DEF StackIInv, TaskShape
  <2> QED
    BY <2>1, <2>3, <2>4 DEF StackExact
<1> QED
  BY <1>3, <1>4

\* Wherever the memory of a thread begins and whatever its size is, the state and the stack
\* of the task lie in it, aligned and apart, and thread_info reports what they use
\* (_thread.hpp, _thread.cpp).
THEOREM StackCorrect == StackSpec => [](StackTypeOK /\ StackExact)
<1>1. StackIInv => StackTypeOK
  BY Stack_Types DEF StackIInv
<1> QED
  BY <1>1, Stack_Exact, Stack_Init, Stack_Next, PTL DEF StackSpec
-----------------------------------------------------------------------------
(* IntrusivePtr. *)

\* Where a pointer is about to release its old object.
PtrReleases == {"release, copy", "release, move", "release, clear"}
\* What a pointer can be in the middle of.
PtrDoing == {"nothing", "add", "copy", "move", "clear"} \cup PtrReleases

\* Releasing, by cases.
LEMMA Ptr_Releasing ==
  /\ DOMAIN Releasing = PtrReleases
  /\ Releasing["release, copy"] = "copy" /\ Releasing["release, move"] = "move"
  /\ Releasing["release, clear"] = "clear"
BY DEF Releasing, PtrReleases

\* The types.
PtrTypes ==
  /\ m_pointer \in [Pointers -> Objects \cup {NoObject}]
  /\ m_refCount \in [Objects -> Nat] /\ raw \in [Objects -> Nat]
  /\ exists \subseteq Objects
  /\ does \in [Pointers -> PtrDoing]
  /\ other \in [Pointers -> Pointers]

\* What a call on p with the argument t may do next when p points to m.
PtrFits(p, m, d, t) ==
  /\ d = "nothing" => t = p
  /\ d \in {"copy", "move", "release, copy", "release, move"} => t # p
  /\ d \in {"clear", "release, clear"} => t = p
  /\ d \in PtrReleases \cup {"add"} => m \in Objects

\* The argument of a call is left alone until the call ends.
PtrLocks(p) ==
  /\ PtrFits(p, m_pointer[p], does[p], other[p])
  /\ other[p] # p =>
       /\ does[other[p]] = "nothing"
       /\ \A r \in Pointers : other[r] = other[p] /\ other[r] # r => r = p
       /\ does[p] = "add" => m_pointer[other[p]] = m_pointer[p]

\* p is counted in the count of o ...
PtrCountsIt(p, o) == m_pointer[p] = o /\ does[p] \in {"nothing"} \cup PtrReleases
\* ... is about to be ...
PtrAdds(p, o) == m_pointer[p] = o /\ does[p] = "add"
\* ... or is the first that will be.
PtrIsNew(p, o) == PtrAdds(p, o) /\ other[p] = p

\* The count of an object; a new object has one pointer, which has not counted yet.
PtrCounts(o) ==
  /\ IsFiniteSet(Counted_Ptr(o))
  /\ o \in exists => m_refCount[o] = Cardinality(Counted_Ptr(o)) + raw[o]
  /\ o \in exists /\ m_refCount[o] = 0 => \E p \in Pointers : PtrAdds(p, o)
  /\ o \notin exists => Counted_Ptr(o) = {} /\ raw[o] = 0
  /\ \A p, r \in Pointers : PtrIsNew(p, o) /\ PtrIsNew(r, o) => p = r
  /\ \A p \in Pointers : PtrIsNew(p, o) => o \in exists /\ m_refCount[o] = 0

\* The inductive invariant.
PtrIInv == /\ PtrTypes /\ misused = FALSE
           /\ \A p \in Pointers : PtrLocks(p)
           /\ \A o \in Objects : PtrCounts(o)

\* One reference changes its pointer, or comes, or goes.
\* One reference comes ...
LEMMA Ptr_Added ==
  ASSUME NEW S, IsFiniteSet(S), NEW x, x \notin S, NEW T, T = S \cup {x}
  PROVE  IsFiniteSet(T) /\ Cardinality(S) \in Nat /\ Cardinality(T) = Cardinality(S) + 1
BY FS_AddElement, FS_CardinalityType

\* ... or goes ...
LEMMA Ptr_Removed ==
  ASSUME NEW S, IsFiniteSet(S), NEW x \in S, NEW T, T = S \ {x}
  PROVE  /\ IsFiniteSet(T) /\ Cardinality(S) \in Nat /\ Cardinality(T) \in Nat
         /\ Cardinality(T) = Cardinality(S) - 1 /\ Cardinality(S) > 0
<1>1. /\ IsFiniteSet(T) /\ Cardinality(S) \in Nat /\ Cardinality(T) \in Nat
      /\ Cardinality(T) = Cardinality(S) - 1
  BY FS_RemoveElement, FS_CardinalityType
<1> QED
  BY <1>1

\* ... or another takes its place.
LEMMA Ptr_Moved ==
  ASSUME NEW S, IsFiniteSet(S), NEW x \in S, NEW y, y \notin S, NEW T, T = (S \ {x}) \cup {y}
  PROVE  IsFiniteSet(T) /\ Cardinality(T) = Cardinality(S)
<1>1. /\ IsFiniteSet(S \ {x}) /\ Cardinality(S) \in Nat /\ Cardinality(S \ {x}) \in Nat
      /\ Cardinality(S \ {x}) = Cardinality(S) - 1
  BY Ptr_Removed
<1>2. IsFiniteSet(T) /\ Cardinality(T) = Cardinality(S \ {x}) + 1
  BY <1>1, Ptr_Added
<1> QED
  BY <1>1, <1>2

\* There are no objects yet.
LEMMA Ptr_Init == PtrInit => PtrIInv
<1> SUFFICES ASSUME PtrInit PROVE PtrIInv
  OBVIOUS
<1> USE NoObjectIsNew DEF PtrInit
<1>1. PtrTypes
  BY DEF PtrTypes, PtrDoing, PtrReleases
<1>2. ASSUME NEW p \in Pointers PROVE PtrLocks(p)
  BY DEF PtrLocks, PtrFits, PtrReleases
<1>3. ASSUME NEW o \in Objects PROVE PtrCounts(o)
  <2>1. Counted_Ptr(o) = {}
    BY DEF Counted_Ptr
  <2> QED
    BY <2>1, FS_EmptySet DEF PtrCounts, PtrIsNew, PtrAdds
<1> QED
  BY <1>1, <1>2, <1>3 DEF PtrIInv

\* The call on p takes a step that leaves the other pointers alone.
LEMMA Ptr_Locks ==
  ASSUME PtrTypes, \A r \in Pointers : PtrLocks(r),
         NEW p \in Pointers, NEW m, NEW d \in PtrDoing, NEW t \in Pointers,
         m_pointer' = [m_pointer EXCEPT ![p] = m], does' = [does EXCEPT ![p] = d],
         other' = [other EXCEPT ![p] = t],
         \A r \in Pointers \ {p} : other[r] # p,
         PtrFits(p, m, d, t),
         t # p => /\ does[t] = "nothing" /\ \A r \in Pointers \ {p, t} : other[r] # t
                  /\ d = "add" => m_pointer[t] = m
  PROVE  \A r \in Pointers : PtrLocks(r)'
<1> SUFFICES ASSUME NEW r \in Pointers PROVE PtrLocks(r)'
  OBVIOUS
<1>1. PtrLocks(r) /\ PtrLocks(t)
  OBVIOUS
<1>2. CASE r = p
  <2>1. m_pointer'[r] = m /\ does'[r] = d /\ other'[r] = t
    BY <1>2 DEF PtrTypes
  <2>2. PtrFits(r, m_pointer[r], does[r], other[r])'
    BY <2>1, <1>2 DEF PtrFits
  <2>3. ASSUME t # p
        PROVE  /\ does'[t] = "nothing" /\ m_pointer'[t] = m_pointer[t]
               /\ \A u \in Pointers : other'[u] = t /\ other'[u] # u => u = r
    <3>1. does'[t] = "nothing" /\ m_pointer'[t] = m_pointer[t]
      BY <2>3 DEF PtrTypes
    <3>2. ASSUME NEW u \in Pointers, u # p, u # t PROVE other'[u] # t
      BY <2>3, <3>2 DEF PtrTypes
    <3>3. t = other'[t]
      BY <2>3, <1>1 DEF PtrTypes, PtrLocks, PtrFits
    <3> QED
      BY <3>1, <3>2, <3>3, <1>2
  <2> QED
    BY <2>1, <2>2, <2>3, <1>2 DEF PtrLocks
<1>3. CASE r # p
  <2>1. m_pointer'[r] = m_pointer[r] /\ does'[r] = does[r] /\ other'[r] = other[r]
    BY <1>3 DEF PtrTypes
  <2>2. PtrFits(r, m_pointer[r], does[r], other[r])'
    BY <2>1, <1>1 DEF PtrFits, PtrLocks
  <2>3. other[r] \in Pointers /\ other[r] # p
    BY <1>3 DEF PtrTypes
  <2>4. does'[other[r]] = does[other[r]] /\ m_pointer'[other[r]] = m_pointer[other[r]]
    BY <2>3 DEF PtrTypes
  <2>5. ASSUME other[r] # r, NEW u \in Pointers, other'[u] = other[r], other'[u] # u PROVE u = r
    <3>1. CASE u = p
      BY <3>1, <2>5, <1>1, <1>3 DEF PtrTypes, PtrLocks, PtrFits
    <3>2. CASE u # p
      BY <3>2, <2>5, <1>1 DEF PtrTypes, PtrLocks
    <3> QED
      BY <3>1, <3>2
  <2> QED
    BY <1>1, <2>1, <2>2, <2>4, <2>5 DEF PtrLocks
<1> QED
  BY <1>2, <1>3

\* A step that counts no reference to o and takes back none.
LEMMA Ptr_Same ==
  ASSUME NEW o \in Objects, PtrCounts(o),
         \A r \in Pointers : PtrCountsIt(r, o)' <=> PtrCountsIt(r, o),
         \A r \in Pointers : PtrAdds(r, o) => PtrAdds(r, o)',
         \A r \in Pointers : PtrIsNew(r, o)' => PtrIsNew(r, o),
         o \in exists' <=> o \in exists, m_refCount'[o] = m_refCount[o], raw'[o] = raw[o]
  PROVE  PtrCounts(o)'
<1>1. Counted_Ptr(o)' = Counted_Ptr(o)
  BY Ptr_Releasing DEF Counted_Ptr, PtrCountsIt
<1> QED
  BY <1>1 DEF PtrCounts

\* What is counted, without the names of the steps.
LEMMA Ptr_Counted ==
  ASSUME NEW o PROVE Counted_Ptr(o) = {r \in Pointers : PtrCountsIt(r, o)}
BY Ptr_Releasing DEF Counted_Ptr, PtrCountsIt

\* The steps that count nothing: a call begins, or a pointer is copied or cleared.
LEMMA Ptr_Quiet ==
  ASSUME PtrIInv, NEW p \in Pointers,
         NEW m \in Objects \cup {NoObject}, NEW d \in PtrDoing, NEW t \in Pointers,
         m_pointer' = [m_pointer EXCEPT ![p] = m], does' = [does EXCEPT ![p] = d],
         other' = [other EXCEPT ![p] = t],
         \A r \in Pointers \ {p} : other[r] # p,
         PtrFits(p, m, d, t),
         t # p => /\ does[t] = "nothing" /\ \A r \in Pointers \ {p, t} : other[r] # t
                  /\ d = "add" => m_pointer[t] = m,
         \A o \in Objects : /\ PtrCountsIt(p, o) <=> m = o /\ d \in {"nothing"} \cup PtrReleases
                            /\ ~PtrAdds(p, o),
         d = "add" => t # p,
         UNCHANGED <<exists, m_refCount, raw, misused>>
  PROVE  PtrIInv'
<1>1. PtrTypes /\ misused = FALSE /\ (\A r \in Pointers : PtrLocks(r))
  BY DEF PtrIInv
<1>2. \A r \in Pointers : PtrLocks(r)'
  BY <1>1, Ptr_Locks
<1>3. PtrTypes'
  BY <1>1 DEF PtrTypes
<1>4. ASSUME NEW o \in Objects PROVE PtrCounts(o)'
  <2>1. ASSUME NEW r \in Pointers
        PROVE  (PtrCountsIt(r, o)' <=> PtrCountsIt(r, o)) /\ (PtrAdds(r, o) => PtrAdds(r, o)')
                   /\ (PtrIsNew(r, o)' => PtrIsNew(r, o))
    <3>1. CASE r = p
      <4>1. m_pointer'[p] = m /\ does'[p] = d /\ other'[p] = t
        BY <1>1 DEF PtrTypes
      <4> QED
        BY <3>1, <4>1 DEF PtrCountsIt, PtrAdds, PtrIsNew
    <3>2. CASE r # p
      <4>1. m_pointer'[r] = m_pointer[r] /\ does'[r] = does[r] /\ other'[r] = other[r]
        BY <1>1, <3>2 DEF PtrTypes
      <4> QED
        BY <4>1 DEF PtrCountsIt, PtrAdds, PtrIsNew
    <3> QED
      BY <3>1, <3>2
  <2>2. PtrCounts(o)
    BY DEF PtrIInv
  <2> QED
    BY <2>1, <2>2, Ptr_Same
<1> QED
  BY <1>1, <1>2, <1>3, <1>4 DEF PtrIInv

\* The calls and their steps, one by one: a copy,
LEMMA Ptr_Copy_Ptr ==
  ASSUME PtrIInv, NEW p \in Pointers, NEW q \in Pointers, Copy_Ptr(p, q)
  PROVE  PtrIInv'
<1> DEFINE m == m_pointer[q]
<1> DEFINE d == "add"
<1> DEFINE t == q
<1>1. PtrTypes /\ PtrLocks(p) /\ \A r \in Pointers : PtrLocks(r)
  BY DEF PtrIInv
<1>2. m \in Objects \cup {NoObject} /\ d \in PtrDoing /\ t \in Pointers
  BY <1>1 DEF PtrTypes, PtrDoing, PtrReleases, Copy_Ptr
<1>3. /\ m_pointer' = [m_pointer EXCEPT ![p] = m] /\ does' = [does EXCEPT ![p] = d]
      /\ other' = [other EXCEPT ![p] = t]
      /\ UNCHANGED <<exists, m_refCount, raw, misused>>
  BY <1>1 DEF PtrTypes, Copy_Ptr, Unused, Do, Point
<1>4. \A r \in Pointers \ {p} : other[r] # p
  BY <1>1 DEF PtrLocks, Copy_Ptr, Unused
<1>5. PtrFits(p, m, d, t)
  BY <1>1, NoObjectIsNew DEF PtrLocks, PtrTypes, PtrFits, PtrReleases, Copy_Ptr, Unused
<1>6. t # p => /\ does[t] = "nothing" /\ \A r \in Pointers \ {p, t} : other[r] # t
               /\ d = "add" => m_pointer[t] = m
  BY <1>1 DEF PtrLocks, PtrTypes, PtrFits, Copy_Ptr, Unused
<1>7. ASSUME NEW o \in Objects
      PROVE  (PtrCountsIt(p, o) <=> m = o /\ d \in {"nothing"} \cup PtrReleases) /\ ~PtrAdds(p, o)
  BY <1>1, NoObjectIsNew DEF PtrCountsIt, PtrAdds, PtrLocks, PtrFits, PtrReleases, Copy_Ptr, Unused
<1>8. d = "add" => t # p
  BY <1>1 DEF PtrLocks, PtrFits, Copy_Ptr
<1> HIDE DEF m, d, t
<1> QED
  BY <1>2, <1>3, <1>4, <1>5, <1>6, <1>7, <1>8, Ptr_Quiet

\* an assignment,
LEMMA Ptr_Assign_Ptr ==
  ASSUME PtrIInv, NEW p \in Pointers, NEW q \in Pointers, Assign_Ptr(p, q)
  PROVE  PtrIInv'
<1> DEFINE m == m_pointer[p]
<1> DEFINE d == IF m_pointer[p] = NoObject THEN "copy" ELSE "release, copy"
<1> DEFINE t == q
<1>1. PtrTypes /\ PtrLocks(p) /\ \A r \in Pointers : PtrLocks(r)
  BY DEF PtrIInv
<1>2. m \in Objects \cup {NoObject} /\ d \in PtrDoing /\ t \in Pointers
  BY <1>1 DEF PtrTypes, PtrDoing, PtrReleases, Assign_Ptr
<1>3. /\ m_pointer' = [m_pointer EXCEPT ![p] = m] /\ does' = [does EXCEPT ![p] = d]
      /\ other' = [other EXCEPT ![p] = t]
      /\ UNCHANGED <<exists, m_refCount, raw, misused>>
  BY <1>1 DEF PtrTypes, Assign_Ptr, Unused, Do
<1>4. \A r \in Pointers \ {p} : other[r] # p
  BY <1>1 DEF PtrLocks, Assign_Ptr, Unused
<1>5. PtrFits(p, m, d, t)
  BY <1>1, NoObjectIsNew DEF PtrLocks, PtrTypes, PtrFits, PtrReleases, Assign_Ptr, Unused
<1>6. t # p => /\ does[t] = "nothing" /\ \A r \in Pointers \ {p, t} : other[r] # t
               /\ d = "add" => m_pointer[t] = m
  BY <1>1 DEF PtrLocks, PtrTypes, PtrFits, Assign_Ptr, Unused
<1>7. ASSUME NEW o \in Objects
      PROVE  (PtrCountsIt(p, o) <=> m = o /\ d \in {"nothing"} \cup PtrReleases) /\ ~PtrAdds(p, o)
  BY <1>1, NoObjectIsNew DEF PtrCountsIt, PtrAdds, PtrLocks, PtrFits, PtrReleases, Assign_Ptr,
     Unused
<1>8. d = "add" => t # p
  BY <1>1 DEF PtrLocks, PtrFits, Assign_Ptr
<1> HIDE DEF m, d, t
<1> QED
  BY <1>2, <1>3, <1>4, <1>5, <1>6, <1>7, <1>8, Ptr_Quiet

\* a move assignment,
LEMMA Ptr_MoveAssign_Ptr ==
  ASSUME PtrIInv, NEW p \in Pointers, NEW q \in Pointers, MoveAssign_Ptr(p, q)
  PROVE  PtrIInv'
<1> DEFINE m == m_pointer[p]
<1> DEFINE d == IF m_pointer[p] = NoObject THEN "move" ELSE "release, move"
<1> DEFINE t == q
<1>1. PtrTypes /\ PtrLocks(p) /\ \A r \in Pointers : PtrLocks(r)
  BY DEF PtrIInv
<1>2. m \in Objects \cup {NoObject} /\ d \in PtrDoing /\ t \in Pointers
  BY <1>1 DEF PtrTypes, PtrDoing, PtrReleases, MoveAssign_Ptr
<1>3. /\ m_pointer' = [m_pointer EXCEPT ![p] = m] /\ does' = [does EXCEPT ![p] = d]
      /\ other' = [other EXCEPT ![p] = t]
      /\ UNCHANGED <<exists, m_refCount, raw, misused>>
  BY <1>1 DEF PtrTypes, MoveAssign_Ptr, Unused, Do
<1>4. \A r \in Pointers \ {p} : other[r] # p
  BY <1>1 DEF PtrLocks, MoveAssign_Ptr, Unused
<1>5. PtrFits(p, m, d, t)
  BY <1>1, NoObjectIsNew DEF PtrLocks, PtrTypes, PtrFits, PtrReleases, MoveAssign_Ptr, Unused
<1>6. t # p => /\ does[t] = "nothing" /\ \A r \in Pointers \ {p, t} : other[r] # t
               /\ d = "add" => m_pointer[t] = m
  BY <1>1 DEF PtrLocks, PtrTypes, PtrFits, MoveAssign_Ptr, Unused
<1>7. ASSUME NEW o \in Objects
      PROVE  (PtrCountsIt(p, o) <=> m = o /\ d \in {"nothing"} \cup PtrReleases) /\ ~PtrAdds(p, o)
  BY <1>1, NoObjectIsNew DEF PtrCountsIt, PtrAdds, PtrLocks, PtrFits, PtrReleases,
     MoveAssign_Ptr, Unused
<1>8. d = "add" => t # p
  BY <1>1 DEF PtrLocks, PtrFits, MoveAssign_Ptr
<1> HIDE DEF m, d, t
<1> QED
  BY <1>2, <1>3, <1>4, <1>5, <1>6, <1>7, <1>8, Ptr_Quiet

\* a reset,
LEMMA Ptr_Reset_Ptr ==
  ASSUME PtrIInv, NEW p \in Pointers, Reset_Ptr(p)
  PROVE  PtrIInv'
<1> DEFINE m == m_pointer[p]
<1> DEFINE d == "release, clear"
<1> DEFINE t == p
<1>1. PtrTypes /\ PtrLocks(p) /\ \A r \in Pointers : PtrLocks(r)
  BY DEF PtrIInv
<1>2. m \in Objects \cup {NoObject} /\ d \in PtrDoing /\ t \in Pointers
  BY <1>1 DEF PtrTypes, PtrDoing, PtrReleases, Reset_Ptr
<1>3. other[p] = p
  BY <1>1 DEF PtrLocks, PtrFits, Reset_Ptr, Unused
<1>4. /\ m_pointer' = [m_pointer EXCEPT ![p] = m] /\ does' = [does EXCEPT ![p] = d]
      /\ other' = [other EXCEPT ![p] = t]
      /\ UNCHANGED <<exists, m_refCount, raw, misused>>
  BY <1>1, <1>3 DEF PtrTypes, Reset_Ptr, Unused, Do
<1>5. \A r \in Pointers \ {p} : other[r] # p
  BY <1>1 DEF PtrLocks, Reset_Ptr, Unused
<1>6. PtrFits(p, m, d, t)
  BY <1>1, NoObjectIsNew DEF PtrLocks, PtrTypes, PtrFits, PtrReleases, Reset_Ptr, Unused
<1>7. t # p => /\ does[t] = "nothing" /\ \A r \in Pointers \ {p, t} : other[r] # t
               /\ d = "add" => m_pointer[t] = m
  BY <1>1 DEF PtrLocks, PtrTypes, PtrFits, Reset_Ptr, Unused
<1>8. ASSUME NEW o \in Objects
      PROVE  (PtrCountsIt(p, o) <=> m = o /\ d \in {"nothing"} \cup PtrReleases) /\ ~PtrAdds(p, o)
  BY <1>1, NoObjectIsNew DEF PtrCountsIt, PtrAdds, PtrLocks, PtrFits, PtrReleases, Reset_Ptr, Unused
<1>9. d = "add" => t # p
  BY <1>1 DEF PtrLocks, PtrFits, Reset_Ptr
<1> HIDE DEF m, d, t
<1> QED
  BY <1>2, <1>4, <1>5, <1>6, <1>7, <1>8, <1>9, Ptr_Quiet

\* the pointer is copied after the release,
LEMMA Ptr_PointCopy ==
  ASSUME PtrIInv, NEW p \in Pointers, PointCopy(p)
  PROVE  PtrIInv'
<1> DEFINE m == m_pointer[other[p]]
<1> DEFINE d == IF m_pointer[other[p]] = NoObject THEN "nothing" ELSE "add"
<1> DEFINE t == IF m_pointer[other[p]] = NoObject THEN p ELSE other[p]
<1>1. PtrTypes /\ PtrLocks(p) /\ \A r \in Pointers : PtrLocks(r)
  BY DEF PtrIInv
<1>2. m \in Objects \cup {NoObject} /\ d \in PtrDoing /\ t \in Pointers
  BY <1>1 DEF PtrTypes, PtrDoing, PtrReleases, PointCopy
<1>3. /\ m_pointer' = [m_pointer EXCEPT ![p] = m] /\ does' = [does EXCEPT ![p] = d]
      /\ other' = [other EXCEPT ![p] = t]
      /\ UNCHANGED <<exists, m_refCount, raw, misused>>
  BY <1>1 DEF PtrTypes, PointCopy, Do, Point, Ends
<1>4. \A r \in Pointers \ {p} : other[r] # p
  BY <1>1 DEF PtrLocks, PointCopy
<1>5. PtrFits(p, m, d, t)
  BY <1>1, NoObjectIsNew DEF PtrLocks, PtrTypes, PtrFits, PtrReleases, PointCopy, Unused
<1>6. t # p => /\ does[t] = "nothing" /\ \A r \in Pointers \ {p, t} : other[r] # t
               /\ d = "add" => m_pointer[t] = m
  BY <1>1 DEF PtrLocks, PtrTypes, PtrFits, PointCopy, Unused
<1>7. ASSUME NEW o \in Objects
      PROVE  (PtrCountsIt(p, o) <=> m = o /\ d \in {"nothing"} \cup PtrReleases) /\ ~PtrAdds(p, o)
  BY <1>1, NoObjectIsNew DEF PtrCountsIt, PtrAdds, PtrLocks, PtrFits, PtrReleases, PointCopy, Unused
<1>8. d = "add" => t # p
  BY <1>1 DEF PtrLocks, PtrFits, PointCopy
<1> HIDE DEF m, d, t
<1> QED
  BY <1>2, <1>3, <1>4, <1>5, <1>6, <1>7, <1>8, Ptr_Quiet

\* or cleared,
LEMMA Ptr_PointClear ==
  ASSUME PtrIInv, NEW p \in Pointers, PointClear(p)
  PROVE  PtrIInv'
<1> DEFINE m == NoObject
<1> DEFINE d == "nothing"
<1> DEFINE t == p
<1>1. PtrTypes /\ PtrLocks(p) /\ \A r \in Pointers : PtrLocks(r)
  BY DEF PtrIInv
<1>2. m \in Objects \cup {NoObject} /\ d \in PtrDoing /\ t \in Pointers
  BY <1>1 DEF PtrTypes, PtrDoing, PtrReleases, PointClear
<1>3. /\ m_pointer' = [m_pointer EXCEPT ![p] = m] /\ does' = [does EXCEPT ![p] = d]
      /\ other' = [other EXCEPT ![p] = t]
      /\ UNCHANGED <<exists, m_refCount, raw, misused>>
  BY <1>1 DEF PtrTypes, PointClear, Do, Point, Ends
<1>4. \A r \in Pointers \ {p} : other[r] # p
  BY <1>1 DEF PtrLocks, PointClear
<1>5. PtrFits(p, m, d, t)
  BY <1>1, NoObjectIsNew DEF PtrLocks, PtrTypes, PtrFits, PtrReleases, PointClear, Unused
<1>6. t # p => /\ does[t] = "nothing" /\ \A r \in Pointers \ {p, t} : other[r] # t
               /\ d = "add" => m_pointer[t] = m
  BY <1>1 DEF PtrLocks, PtrTypes, PtrFits, PointClear, Unused
<1>7. ASSUME NEW o \in Objects
      PROVE  (PtrCountsIt(p, o) <=> m = o /\ d \in {"nothing"} \cup PtrReleases) /\ ~PtrAdds(p, o)
  BY <1>1, NoObjectIsNew DEF PtrCountsIt, PtrAdds, PtrLocks, PtrFits, PtrReleases, PointClear,
     Unused
<1>8. d = "add" => t # p
  BY <1>1 DEF PtrLocks, PtrFits, PointClear
<1> HIDE DEF m, d, t
<1> QED
  BY <1>2, <1>3, <1>4, <1>5, <1>6, <1>7, <1>8, Ptr_Quiet

\* The steps that count the references of one object, k, anew.
LEMMA Ptr_Step ==
  ASSUME PtrIInv, NEW p \in Pointers, NEW k \in Objects,
         NEW m \in Objects \cup {NoObject}, NEW d \in PtrDoing, NEW t \in Pointers,
         m_pointer' = [m_pointer EXCEPT ![p] = m], does' = [does EXCEPT ![p] = d],
         other' = [other EXCEPT ![p] = t],
         \A r \in Pointers \ {p} : other[r] # p,
         PtrFits(p, m, d, t),
         t # p => /\ does[t] = "nothing" /\ \A r \in Pointers \ {p, t} : other[r] # t
                  /\ d = "add" => m_pointer[t] = m,
         m_pointer[p] \in {k, NoObject}, m \in {k, NoObject},
         m_refCount' \in [Objects -> Nat], raw' \in [Objects -> Nat], exists' \subseteq Objects,
         \A o \in Objects \ {k} : /\ m_refCount'[o] = m_refCount[o] /\ raw'[o] = raw[o]
                                  /\ o \in exists' <=> o \in exists,
         misused' = FALSE, PtrCounts(k)'
  PROVE  PtrIInv'
<1>1. PtrTypes /\ misused = FALSE /\ (\A r \in Pointers : PtrLocks(r))
  BY DEF PtrIInv
<1>2. \A r \in Pointers : PtrLocks(r)'
  BY <1>1, Ptr_Locks
<1>3. PtrTypes'
  BY <1>1 DEF PtrTypes
<1>4. ASSUME NEW o \in Objects, o # k PROVE PtrCounts(o)'
  <2>1. ASSUME NEW r \in Pointers
        PROVE  (PtrCountsIt(r, o)' <=> PtrCountsIt(r, o)) /\ (PtrAdds(r, o) => PtrAdds(r, o)')
                   /\ (PtrIsNew(r, o)' => PtrIsNew(r, o))
    <3>1. CASE r = p
      <4>1. m_pointer'[p] = m
        BY <1>1 DEF PtrTypes
      <4>2. m_pointer[p] # o /\ m # o
        BY <1>4, NoObjectIsNew
      <4> QED
        BY <3>1, <4>1, <4>2 DEF PtrCountsIt, PtrAdds, PtrIsNew
    <3>2. CASE r # p
      <4>1. m_pointer'[r] = m_pointer[r] /\ does'[r] = does[r] /\ other'[r] = other[r]
        BY <1>1, <3>2 DEF PtrTypes
      <4> QED
        BY <4>1 DEF PtrCountsIt, PtrAdds, PtrIsNew
    <3> QED
      BY <3>1, <3>2
  <2>2. PtrCounts(o)
    BY DEF PtrIInv
  <2>3. m_refCount'[o] = m_refCount[o] /\ raw'[o] = raw[o] /\ (o \in exists' <=> o \in exists)
    BY <1>4
  <2> QED
    BY <2>1, <2>2, <2>3, Ptr_Same
<1>5. \A o \in Objects : PtrCounts(o)'
  BY <1>4
<1> QED
  BY <1>2, <1>3, <1>5 DEF PtrIInv

\* a reference is added,
LEMMA Ptr_AddRef ==
  ASSUME PtrIInv, NEW p \in Pointers, AddRef(p)
  PROVE  PtrIInv'
<1>1. PtrTypes /\ misused = FALSE /\ PtrLocks(p) /\ \A r \in Pointers : PtrLocks(r)
  BY DEF PtrIInv
<1>2. PICK o \in Objects : m_pointer[p] = o /\ does[p] = "add" /\ PtrAdds(p, o)
  BY <1>1 DEF PtrLocks, PtrFits, AddRef, PtrAdds
<1>3. PtrCounts(o)
  BY <1>2 DEF PtrIInv
<1>4. /\ m_pointer' = [m_pointer EXCEPT ![p] = o] /\ does' = [does EXCEPT ![p] = "nothing"]
      /\ other' = [other EXCEPT ![p] = p]
      /\ m_refCount' = [m_refCount EXCEPT ![o] = m_refCount[o] + 1]
      /\ misused' = (misused \/ o \notin exists)
      /\ UNCHANGED <<exists, raw>>
  BY <1>1, <1>2 DEF PtrTypes, AddRef, Do, Ends, Touches
<1>5. \A r \in Pointers \ {p} : other[r] # p
  BY <1>1, <1>2 DEF PtrLocks
<1>6. o \in exists
  <2>1. CASE other[p] = p
    BY <2>1, <1>2, <1>3 DEF PtrCounts, PtrIsNew
  <2>2. CASE other[p] # p
    <3>1. other[p] \in Counted_Ptr(o)
      BY <2>2, <1>1, <1>2, Ptr_Counted DEF PtrTypes, PtrLocks, PtrCountsIt
    <3> QED
      BY <3>1, <1>3 DEF PtrCounts
  <2> QED
    BY <2>1, <2>2
<1>7. misused' = FALSE
  BY <1>1, <1>4, <1>6
<1>8. m_refCount[o] \in Nat /\ raw[o] \in Nat /\ m_refCount' \in [Objects -> Nat]
          /\ m_refCount'[o] = m_refCount[o] + 1
  BY <1>1, <1>2, <1>4 DEF PtrTypes
<1>9. ASSUME NEW r \in Pointers
      PROVE  (PtrCountsIt(r, o)' <=>
                 PtrCountsIt(r, o) \/ r = p) /\ (PtrIsNew(r, o)' => PtrIsNew(r, o) /\ r # p)
  <2>1. CASE r = p
    BY <2>1, <1>1, <1>2, <1>4 DEF PtrTypes, PtrCountsIt, PtrAdds, PtrIsNew
  <2>2. CASE r # p
    BY <2>2, <1>1, <1>4 DEF PtrTypes, PtrCountsIt, PtrAdds, PtrIsNew
  <2> QED
    BY <2>1, <2>2
<1>10. Counted_Ptr(o)' = Counted_Ptr(o) \cup {p}
  BY <1>9, Ptr_Counted, Ptr_Releasing DEF Counted_Ptr, PtrCountsIt
<1>11. p \notin Counted_Ptr(o)
  BY <1>2, Ptr_Counted DEF PtrCountsIt, PtrReleases
<1>12. /\ IsFiniteSet(Counted_Ptr(o)') /\ Cardinality(Counted_Ptr(o)) \in Nat
       /\ Cardinality(Counted_Ptr(o)') = Cardinality(Counted_Ptr(o)) + 1
  BY <1>3, <1>10, <1>11, Ptr_Added DEF PtrCounts
<1>13. m_refCount'[o] = Cardinality(Counted_Ptr(o)') + raw'[o] /\ m_refCount'[o] # 0
  <2>1. m_refCount[o] = Cardinality(Counted_Ptr(o)) + raw[o]
    BY <1>3, <1>6 DEF PtrCounts
  <2>2. raw'[o] = raw[o]
    BY <1>4
  <2> QED
    BY <2>1, <2>2, <1>8, <1>12
<1>14. ASSUME NEW r \in Pointers PROVE ~PtrIsNew(r, o)'
  <2> SUFFICES ASSUME PtrIsNew(r, o), r # p PROVE FALSE
    BY <1>9
  <2>1. m_refCount[o] = 0 /\ other[p] # p
    BY <1>2, <1>3 DEF PtrCounts, PtrIsNew
  <2>2. other[p] \in Counted_Ptr(o)
    BY <2>1, <1>1, <1>2, Ptr_Counted DEF PtrTypes, PtrLocks, PtrCountsIt
  <2>3. IsFiniteSet(Counted_Ptr(o)) /\ m_refCount[o] = Cardinality(Counted_Ptr(o)) + raw[o]
    BY <1>3, <1>6 DEF PtrCounts
  <2>4. Cardinality(Counted_Ptr(o)) = 0
    BY <2>1, <2>3, <1>8, <1>12
  <2> QED
    BY <2>2, <2>3, <2>4, FS_EmptySet
<1>15. PtrCounts(o)'
  <2>1. o \in exists'
    BY <1>4, <1>6
  <2> QED
    BY <2>1, <1>12, <1>13, <1>14 DEF PtrCounts
<1>16. PtrFits(p, o, "nothing", p)
  BY DEF PtrFits, PtrReleases
<1>17. \A k \in Objects \ {o} : /\ m_refCount'[k] = m_refCount[k] /\ raw'[k] = raw[k]
                                /\ k \in exists' <=> k \in exists
  BY <1>1, <1>4 DEF PtrTypes
<1>18. raw' \in [Objects -> Nat] /\ exists' \subseteq Objects
  BY <1>1, <1>4 DEF PtrTypes
<1>19. m_pointer[p] \in {o, NoObject}
  BY <1>2
<1> QED
  BY <1>2, <1>4, <1>5, <1>7, <1>8, <1>15, <1>16, <1>17, <1>18, <1>19, Ptr_Step DEF PtrDoing

\* or the raw one is dropped,
LEMMA Ptr_ReleaseRef ==
  ASSUME PtrIInv, NEW p \in Pointers, ReleaseRef(p)
  PROVE  PtrIInv'
<1>1. PtrTypes /\ misused = FALSE /\ PtrLocks(p) /\ \A r \in Pointers : PtrLocks(r)
  BY DEF PtrIInv
<1>2. PICK o \in Objects :
        /\ does[p] \in PtrReleases /\ o = m_pointer[p]
        /\ m_refCount' = [m_refCount EXCEPT ![o] = IF @ = 0 THEN 0 ELSE @ - 1]
        /\ exists' = IF m_refCount'[o] = 0 THEN exists \ {o} ELSE exists
        /\ does' = [does EXCEPT ![p] = Releasing[does[p]]]
        /\ misused' = (misused \/ o \notin exists)
        /\ UNCHANGED <<m_pointer, raw, other>>
  BY Ptr_Releasing DEF ReleaseRef, Do, Touches
<1> DEFINE d == Releasing[does[p]]
<1>3. PtrCounts(o)
  BY <1>2 DEF PtrIInv
<1>4. d \in {"copy", "move", "clear"} /\ d \in PtrDoing /\ PtrFits(p, o, d, other[p])
  BY <1>1, <1>2, Ptr_Releasing DEF PtrLocks, PtrFits, PtrReleases, PtrDoing
<1>5. /\ m_pointer' = [m_pointer EXCEPT ![p] = o] /\ other' = [other EXCEPT ![p] = other[p]]
      /\ other[p] \in Pointers /\ raw' = raw
  BY <1>1, <1>2 DEF PtrTypes
<1>6. \A r \in Pointers \ {p} : other[r] # p
  BY <1>1, <1>2 DEF PtrLocks, PtrReleases
<1>7. other[p] # p => /\ does[other[p]] = "nothing"
                      /\ \A r \in Pointers \ {p, other[p]} : other[r] # other[p]
                      /\ d # "add"
  BY <1>1, <1>4 DEF PtrLocks
<1>8. p \in Counted_Ptr(o)
  BY <1>2, Ptr_Counted DEF PtrCountsIt
<1>9. o \in exists
  BY <1>3, <1>8 DEF PtrCounts
<1>10. misused' = FALSE
  BY <1>1, <1>2, <1>9
<1>11. ASSUME NEW r \in Pointers
       PROVE  (PtrCountsIt(r, o)' <=>
                  PtrCountsIt(r, o) /\ r # p) /\ (PtrIsNew(r, o)' => PtrIsNew(r, o))
  <2>1. CASE r = p
    <3>1. does'[p] = d
      BY <1>1, <1>2 DEF PtrTypes
    <3> QED
      BY <2>1, <3>1, <1>4 DEF PtrCountsIt, PtrAdds, PtrIsNew, PtrReleases
  <2>2. CASE r # p
    BY <2>2, <1>1, <1>2 DEF PtrTypes, PtrCountsIt, PtrAdds, PtrIsNew
  <2> QED
    BY <2>1, <2>2
<1>12. Counted_Ptr(o)' = Counted_Ptr(o) \ {p}
  BY <1>11, Ptr_Counted, Ptr_Releasing DEF Counted_Ptr, PtrCountsIt
<1>13. /\ IsFiniteSet(Counted_Ptr(o)') /\ Cardinality(Counted_Ptr(o)) \in Nat
              /\ Cardinality(Counted_Ptr(o)') \in Nat
       /\ Cardinality(Counted_Ptr(o)') = Cardinality(Counted_Ptr(o)) - 1
              /\ Cardinality(Counted_Ptr(o)) > 0
  BY <1>3, <1>8, <1>12, Ptr_Removed DEF PtrCounts
<1>14. m_refCount[o] \in Nat /\ raw[o] \in Nat
           /\ m_refCount[o] = Cardinality(Counted_Ptr(o)) + raw[o]
  BY <1>1, <1>3, <1>9 DEF PtrTypes, PtrCounts
<1>15. m_refCount[o] # 0 /\ m_refCount[o] - 1 \in Nat
           /\ m_refCount[o] - 1 = Cardinality(Counted_Ptr(o)') + raw[o]
  BY <1>13, <1>14
<1>16. m_refCount'[o] = m_refCount[o] - 1 /\ m_refCount' \in [Objects -> Nat]
  <2>1. m_refCount' = [m_refCount EXCEPT ![o] = m_refCount[o] - 1]
    BY <1>1, <1>2, <1>15 DEF PtrTypes
  <2> QED
    BY <2>1, <1>1, <1>15 DEF PtrTypes
<1>17. m_refCount'[o] = Cardinality(Counted_Ptr(o)') + raw'[o]
  BY <1>5, <1>15, <1>16
<1>18. ASSUME o \notin exists' PROVE Counted_Ptr(o)' = {} /\ raw'[o] = 0
  <2>1. m_refCount'[o] = 0
    BY <1>2, <1>9, <1>18
  <2>2. Cardinality(Counted_Ptr(o)') = 0 /\ raw'[o] = 0
    BY <2>1, <1>5, <1>13, <1>14, <1>17
  <2> QED
    BY <2>2, <1>13, FS_EmptySet
<1>19. o \in exists' => m_refCount'[o] # 0
  BY <1>2
<1>20. ASSUME NEW r \in Pointers PROVE ~PtrIsNew(r, o)
  BY <1>3, <1>15 DEF PtrCounts
<1>21. PtrCounts(o)'
  BY <1>11, <1>13, <1>17, <1>18, <1>19, <1>20 DEF PtrCounts
<1>22. \A k \in Objects \ {o} : /\ m_refCount'[k] = m_refCount[k] /\ raw'[k] = raw[k]
                                /\ k \in exists' <=> k \in exists
  BY <1>1, <1>2 DEF PtrTypes
<1>23. raw' \in [Objects -> Nat] /\ exists' \subseteq Objects
  BY <1>1, <1>2 DEF PtrTypes
<1>24. m_pointer[p] \in {o, NoObject} /\ does' = [does EXCEPT ![p] = d]
  BY <1>2
<1> HIDE DEF d
<1> QED
  BY <1>4, <1>5, <1>6, <1>7, <1>10, <1>16, <1>21, <1>22, <1>23, <1>24, Ptr_Step

\* the old object is released, with its last reference,
LEMMA Ptr_Release_Ptr ==
  ASSUME PtrIInv, NEW p \in Pointers, Release_Ptr(p)
  PROVE  PtrIInv'
<1>1. PtrTypes /\ misused = FALSE /\ PtrLocks(p) /\ \A r \in Pointers : PtrLocks(r)
  BY DEF PtrIInv
<1>2. PICK o \in Objects : m_pointer[p] = o
  BY <1>1 DEF PtrTypes, Release_Ptr
<1>3. /\ does[p] = "nothing" /\ other[p] = p
      /\ \A r \in Pointers \ {p} : other[r] # p
  BY <1>1 DEF PtrLocks, PtrFits, Release_Ptr, Unused
<1>4. /\ m_pointer' = [m_pointer EXCEPT ![p] = NoObject] /\ raw' = [raw EXCEPT ![o] = raw[o] + 1]
      /\ UNCHANGED <<m_refCount, exists, does, other, misused>>
  BY <1>2 DEF Release_Ptr, Point
<1>5. does' = [does EXCEPT ![p] = "nothing"] /\ other' = [other EXCEPT ![p] = p]
  BY <1>1, <1>3, <1>4 DEF PtrTypes
<1>6. PtrCounts(o)
  BY DEF PtrIInv
<1>7. p \in Counted_Ptr(o)
  BY <1>2, <1>3, Ptr_Counted DEF PtrCountsIt
<1>8. o \in exists
  BY <1>6, <1>7 DEF PtrCounts
<1>9. ASSUME NEW r \in Pointers
      PROVE  (PtrCountsIt(r, o)' <=> PtrCountsIt(r, o) /\ r # p) /\ (PtrAdds(r, o)' <=>
                 PtrAdds(r, o)) /\ (PtrIsNew(r, o)' <=> PtrIsNew(r, o))
  <2>1. CASE r = p
    <3>1. m_pointer'[p] = NoObject
      BY <1>1, <1>4 DEF PtrTypes
    <3> QED
      BY <2>1, <3>1, <1>3, NoObjectIsNew DEF PtrCountsIt, PtrAdds, PtrIsNew
  <2>2. CASE r # p
    BY <2>2, <1>1, <1>4 DEF PtrTypes, PtrCountsIt, PtrAdds, PtrIsNew
  <2> QED
    BY <2>1, <2>2
<1>10. Counted_Ptr(o)' = Counted_Ptr(o) \ {p}
  BY <1>9, Ptr_Counted, Ptr_Releasing DEF Counted_Ptr, PtrCountsIt
<1>11. /\ IsFiniteSet(Counted_Ptr(o)') /\ Cardinality(Counted_Ptr(o)) \in Nat
              /\ Cardinality(Counted_Ptr(o)') \in Nat
       /\ Cardinality(Counted_Ptr(o)') = Cardinality(Counted_Ptr(o)) - 1
  BY <1>6, <1>7, <1>10, Ptr_Removed DEF PtrCounts
<1>12. raw[o] \in Nat /\ raw' \in [Objects -> Nat] /\ raw'[o] = raw[o] + 1
  BY <1>1, <1>4 DEF PtrTypes
<1>13. m_refCount'[o] = Cardinality(Counted_Ptr(o)') + raw'[o]
  <2>1. m_refCount[o] = Cardinality(Counted_Ptr(o)) + raw[o] /\ m_refCount' = m_refCount
    BY <1>4, <1>6, <1>8 DEF PtrCounts
  <2> QED
    BY <2>1, <1>11, <1>12
<1>14. PtrCounts(o)'
  BY <1>4, <1>6, <1>8, <1>9, <1>11, <1>13 DEF PtrCounts
<1>15. \A k \in Objects \ {o} : /\ m_refCount'[k] = m_refCount[k] /\ raw'[k] = raw[k]
                                /\ k \in exists' <=> k \in exists
  BY <1>1, <1>4 DEF PtrTypes
<1>16. m_refCount' \in [Objects -> Nat] /\ exists' \subseteq Objects /\ misused' = FALSE
  BY <1>1, <1>4 DEF PtrTypes
<1>17. PtrFits(p, NoObject, "nothing", p)
  BY DEF PtrFits, PtrReleases
<1> QED
  BY <1>2, <1>3, <1>4, <1>5, <1>12, <1>14, <1>15, <1>16, <1>17, Ptr_Step DEF PtrDoing

\* or a pointer gives its reference to the program,
LEMMA Ptr_Keep_Ptr ==
  ASSUME PtrIInv, NEW p \in Pointers, NEW o \in Objects, Keep_Ptr(p, o)
  PROVE  PtrIInv'
<1>1. PtrTypes /\ misused = FALSE /\ PtrLocks(p) /\ \A r \in Pointers : PtrLocks(r)
  BY DEF PtrIInv
<1>2. /\ does[p] = "nothing" /\ other[p] = p /\ m_pointer[p] = NoObject
      /\ \A r \in Pointers \ {p} : other[r] # p
  BY <1>1 DEF PtrLocks, PtrFits, Keep_Ptr, Unused
<1>3. raw[o] \in Nat /\ raw[o] > 0
  BY <1>1 DEF PtrTypes, Keep_Ptr
<1>4. /\ m_pointer' = [m_pointer EXCEPT ![p] = o] /\ raw' = [raw EXCEPT ![o] = raw[o] - 1]
      /\ UNCHANGED <<m_refCount, exists, does, other, misused>>
  BY DEF Keep_Ptr, Point
<1>5. does' = [does EXCEPT ![p] = "nothing"] /\ other' = [other EXCEPT ![p] = p]
  BY <1>1, <1>2, <1>4 DEF PtrTypes
<1>6. PtrCounts(o)
  BY DEF PtrIInv
<1>7. p \notin Counted_Ptr(o)
  BY <1>2, Ptr_Counted, NoObjectIsNew DEF PtrCountsIt
<1>8. o \in exists
  BY <1>3, <1>6 DEF PtrCounts
<1>9. ASSUME NEW r \in Pointers
      PROVE  (PtrCountsIt(r, o)' <=> PtrCountsIt(r, o) \/ r = p) /\ (PtrAdds(r, o)' <=>
                 PtrAdds(r, o)) /\ (PtrIsNew(r, o)' <=> PtrIsNew(r, o))
  <2>1. CASE r = p
    <3>1. m_pointer'[p] = o
      BY <1>1, <1>4 DEF PtrTypes
    <3> QED
      BY <2>1, <3>1, <1>2, <1>4, NoObjectIsNew DEF PtrCountsIt, PtrAdds, PtrIsNew
  <2>2. CASE r # p
    BY <2>2, <1>1, <1>4 DEF PtrTypes, PtrCountsIt, PtrAdds, PtrIsNew
  <2> QED
    BY <2>1, <2>2
<1>10. Counted_Ptr(o)' = Counted_Ptr(o) \cup {p}
  BY <1>9, Ptr_Counted, Ptr_Releasing DEF Counted_Ptr, PtrCountsIt
<1>11. /\ IsFiniteSet(Counted_Ptr(o)') /\ Cardinality(Counted_Ptr(o)) \in Nat
       /\ Cardinality(Counted_Ptr(o)') = Cardinality(Counted_Ptr(o)) + 1
  BY <1>6, <1>7, <1>10, Ptr_Added DEF PtrCounts
<1>12. raw[o] - 1 \in Nat
  BY <1>3
<1>13. raw' \in [Objects -> Nat] /\ raw'[o] = raw[o] - 1
  BY <1>1, <1>4, <1>12 DEF PtrTypes
<1>14. m_refCount'[o] = Cardinality(Counted_Ptr(o)') + raw'[o]
  <2>1. m_refCount[o] = Cardinality(Counted_Ptr(o)) + raw[o] /\ m_refCount' = m_refCount
    BY <1>4, <1>6, <1>8 DEF PtrCounts
  <2> QED
    BY <2>1, <1>3, <1>11, <1>13
<1>15. PtrCounts(o)'
  BY <1>4, <1>6, <1>8, <1>9, <1>11, <1>14 DEF PtrCounts
<1>16. \A k \in Objects \ {o} : /\ m_refCount'[k] = m_refCount[k] /\ raw'[k] = raw[k]
                                /\ k \in exists' <=> k \in exists
  BY <1>1, <1>4 DEF PtrTypes
<1>17. m_refCount' \in [Objects -> Nat] /\ exists' \subseteq Objects /\ misused' = FALSE
  BY <1>1, <1>4 DEF PtrTypes
<1>18. PtrFits(p, o, "nothing", p)
  BY DEF PtrFits, PtrReleases
<1> QED
  BY <1>2, <1>4, <1>5, <1>13, <1>15, <1>16, <1>17, <1>18, Ptr_Step DEF PtrDoing

\* a new object,
LEMMA Ptr_Construct_Ptr ==
  ASSUME PtrIInv, NEW p \in Pointers, NEW o \in Objects, Construct_Ptr(p, o)
  PROVE  PtrIInv'
<1>1. PtrTypes /\ misused = FALSE /\ PtrLocks(p) /\ \A r \in Pointers : PtrLocks(r)
  BY DEF PtrIInv
<1>2. /\ does[p] = "nothing" /\ other[p] = p /\ m_pointer[p] = NoObject /\ o \notin exists
      /\ \A r \in Pointers \ {p} : other[r] # p
  BY <1>1 DEF PtrLocks, PtrFits, Construct_Ptr, Unused
<1>3. /\ m_pointer' = [m_pointer EXCEPT ![p] = o] /\ does' = [does EXCEPT ![p] = "add"]
      /\ exists' = exists \cup {o} /\ m_refCount' = [m_refCount EXCEPT ![o] = 0]
      /\ UNCHANGED <<raw, other, misused>>
  BY DEF Construct_Ptr, Point, Do
<1>4. other' = [other EXCEPT ![p] = p]
  BY <1>1, <1>2, <1>3 DEF PtrTypes
<1>5. PtrCounts(o)
  BY DEF PtrIInv
<1>6. Counted_Ptr(o) = {} /\ raw[o] = 0
  BY <1>2, <1>5 DEF PtrCounts
<1>7. \A r \in Pointers : ~PtrIsNew(r, o) /\ ~PtrCountsIt(r, o)
  BY <1>2, <1>5, <1>6, Ptr_Counted DEF PtrCounts
<1>8. m_pointer'[p] = o /\ does'[p] = "add"
  BY <1>1, <1>3 DEF PtrTypes
<1>9. ASSUME NEW r \in Pointers PROVE ~PtrCountsIt(r, o)' /\ (PtrIsNew(r, o)' => r = p)
  <2>1. CASE r = p
    BY <2>1, <1>8 DEF PtrCountsIt, PtrReleases
  <2>2. CASE r # p
    BY <2>2, <1>1, <1>3, <1>7 DEF PtrTypes, PtrCountsIt, PtrAdds, PtrIsNew
  <2> QED
    BY <2>1, <2>2
<1>10. Counted_Ptr(o)' = {}
  BY <1>9, Ptr_Releasing DEF Counted_Ptr, PtrCountsIt
<1>11. IsFiniteSet(Counted_Ptr(o)') /\ Cardinality(Counted_Ptr(o)') = 0
  BY <1>10, FS_EmptySet
<1>12. m_refCount'[o] = 0 /\ raw'[o] = 0 /\ m_refCount' \in [Objects -> Nat]
  BY <1>1, <1>3, <1>6 DEF PtrTypes
<1>13. PtrAdds(p, o)'
  BY <1>8 DEF PtrAdds
<1>14. o \in exists'
  BY <1>3
<1>15. PtrCounts(o)'
  BY <1>9, <1>11, <1>12, <1>13, <1>14 DEF PtrCounts
<1>16. \A k \in Objects \ {o} : /\ m_refCount'[k] = m_refCount[k] /\ raw'[k] = raw[k]
                                /\ k \in exists' <=> k \in exists
  BY <1>1, <1>3 DEF PtrTypes
<1>17. raw' \in [Objects -> Nat] /\ exists' \subseteq Objects /\ misused' = FALSE
  BY <1>1, <1>3 DEF PtrTypes
<1>18. PtrFits(p, o, "add", p)
  BY DEF PtrFits, PtrReleases
<1> QED
  BY <1>2, <1>3, <1>4, <1>12, <1>15, <1>16, <1>17, <1>18, Ptr_Step DEF PtrDoing

\* a move,
LEMMA Ptr_Move_Ptr ==
  ASSUME PtrIInv, NEW p \in Pointers, NEW q \in Pointers, Move_Ptr(p, q)
  PROVE  PtrIInv'
<1>1. PtrTypes /\ misused = FALSE /\ \A r \in Pointers : PtrLocks(r)
  BY DEF PtrIInv
<1>2. /\ does[p] = "nothing" /\ other[p] = p /\ does[q] = "nothing" /\ other[q] = q
      /\ \A r \in Pointers \ {p, q} : other[r] \notin {p, q}
  BY <1>1 DEF PtrLocks, PtrFits, Move_Ptr, Unused
<1>3. /\ m_pointer' = [m_pointer EXCEPT ![p] = m_pointer[q], ![q] = m_pointer[p]]
      /\ UNCHANGED <<m_refCount, exists, raw, does, other, misused>>
  BY DEF Move_Ptr
<1>4. PtrTypes'
  BY <1>1, <1>3 DEF PtrTypes
<1>5. m_pointer'[p] = m_pointer[q] /\ m_pointer'[q] = m_pointer[p]
  BY <1>1, <1>3 DEF PtrTypes
<1>6. \A r \in Pointers \ {p, q} : m_pointer'[r] = m_pointer[r]
  BY <1>1, <1>3 DEF PtrTypes
<1>7. ASSUME NEW r \in Pointers PROVE PtrLocks(r)'
  <2>1. CASE r \in {p, q}
    <3>1. does'[r] = "nothing" /\ other'[r] = r
      BY <2>1, <1>2, <1>3
    <3> QED
      BY <3>1 DEF PtrLocks, PtrFits, PtrReleases
  <2>2. CASE r \notin {p, q}
    <3>1. m_pointer'[r] = m_pointer[r] /\ other[r] \in Pointers \ {p, q} /\ PtrLocks(r)
      BY <2>2, <1>1, <1>2, <1>6 DEF PtrTypes
    <3>2. m_pointer'[other[r]] = m_pointer[other[r]]
      BY <3>1, <1>6
    <3> QED
      BY <3>1, <3>2, <1>3 DEF PtrLocks
  <2> QED
    BY <2>1, <2>2
<1>8. ASSUME NEW o \in Objects PROVE PtrCounts(o)'
  <2>1. PtrCounts(o)
    BY DEF PtrIInv
  <2>2. ASSUME NEW r \in Pointers
        PROVE  (PtrAdds(r, o)' <=> PtrAdds(r, o)) /\ (PtrIsNew(r, o)' <=> PtrIsNew(r, o))
    <3>1. CASE r \in {p, q}
      BY <3>1, <1>2, <1>3 DEF PtrAdds, PtrIsNew
    <3>2. CASE r \notin {p, q}
      BY <3>2, <1>3, <1>6 DEF PtrAdds, PtrIsNew
    <3> QED
      BY <3>1, <3>2
  <2>3. /\ PtrCountsIt(p, o)' <=> PtrCountsIt(q, o)
        /\ PtrCountsIt(q, o)' <=> PtrCountsIt(p, o)
        /\ \A r \in Pointers \ {p, q} : PtrCountsIt(r, o)' <=> PtrCountsIt(r, o)
    BY <1>2, <1>3, <1>5, <1>6 DEF PtrCountsIt
  <2>4. Counted_Ptr(o) = {r \in Pointers :
            PtrCountsIt(r, o)} /\ Counted_Ptr(o)' = {r \in Pointers : PtrCountsIt(r, o)'}
    BY Ptr_Releasing DEF Counted_Ptr, PtrCountsIt
  <2>5. IsFiniteSet(Counted_Ptr(o)') /\ Cardinality(Counted_Ptr(o)') = Cardinality(Counted_Ptr(o))
    <3>1. CASE PtrCountsIt(p, o) <=> PtrCountsIt(q, o)
      <4>1. Counted_Ptr(o)' = Counted_Ptr(o)
        BY <3>1, <2>3, <2>4
      <4> QED
        BY <4>1, <2>1 DEF PtrCounts
    <3>2. CASE PtrCountsIt(p, o) /\ ~PtrCountsIt(q, o)
      <4>1. p \in Counted_Ptr(o) /\ q \notin Counted_Ptr(o)
                /\ Counted_Ptr(o)' = (Counted_Ptr(o) \ {p}) \cup {q}
        BY <3>2, <2>3, <2>4
      <4> QED
        BY <4>1, <2>1, Ptr_Moved DEF PtrCounts
    <3>3. CASE ~PtrCountsIt(p, o) /\ PtrCountsIt(q, o)
      <4>1. q \in Counted_Ptr(o) /\ p \notin Counted_Ptr(o)
                /\ Counted_Ptr(o)' = (Counted_Ptr(o) \ {q}) \cup {p}
        BY <3>3, <2>3, <2>4
      <4> QED
        BY <4>1, <2>1, Ptr_Moved DEF PtrCounts
    <3> QED
      BY <3>1, <3>2, <3>3
  <2>6. Counted_Ptr(o) = {} => Counted_Ptr(o)' = {}
    BY <2>3, <2>4
  <2> QED
    BY <1>3, <2>1, <2>2, <2>5, <2>6 DEF PtrCounts
<1> QED
  BY <1>1, <1>3, <1>4, <1>7, <1>8 DEF PtrIInv

\* the pointer moves after the release.
LEMMA Ptr_PointMove ==
  ASSUME PtrIInv, NEW p \in Pointers, PointMove(p)
  PROVE  PtrIInv'
<1>1. PtrTypes /\ misused = FALSE /\ \A r \in Pointers : PtrLocks(r)
  BY DEF PtrIInv
<1>2. PICK q \in Pointers : q = other[p]
  BY <1>1 DEF PtrTypes
<1>3. /\ does[p] = "move" /\ q # p /\ does[q] = "nothing" /\ other[q] = q
      /\ \A r \in Pointers \ {p, q} : other[r] \notin {p, q}
  BY <1>1, <1>2 DEF PtrLocks, PtrFits, PointMove
<1>4. /\ m_pointer' = [m_pointer EXCEPT ![p] = m_pointer[q], ![q] = NoObject]
      /\ does' = [does EXCEPT ![p] = "nothing"] /\ other' = [other EXCEPT ![p] = p]
      /\ UNCHANGED <<m_refCount, exists, raw, misused>>
  BY <1>2 DEF PointMove, Ends, Do
<1>5. PtrTypes'
  BY <1>1, <1>4 DEF PtrTypes, PtrDoing
<1>6. /\ m_pointer'[p] = m_pointer[q] /\ m_pointer'[q] = NoObject
      /\ does'[p] = "nothing" /\ does'[q] = "nothing" /\ other'[p] = p /\ other'[q] = q
  BY <1>1, <1>3, <1>4 DEF PtrTypes
<1>7. \A r \in Pointers \ {p, q} :
          m_pointer'[r] = m_pointer[r] /\ does'[r] = does[r] /\ other'[r] = other[r]
  BY <1>1, <1>4 DEF PtrTypes
<1>8. ASSUME NEW r \in Pointers PROVE PtrLocks(r)'
  <2>1. CASE r \in {p, q}
    <3>1. does'[r] = "nothing" /\ other'[r] = r
      BY <2>1, <1>6
    <3> QED
      BY <3>1 DEF PtrLocks, PtrFits, PtrReleases
  <2>2. CASE r \notin {p, q}
    <3>1. /\ m_pointer'[r] = m_pointer[r] /\ does'[r] = does[r] /\ other'[r] = other[r]
          /\ other[r] \in Pointers \ {p, q} /\ PtrLocks(r)
      BY <2>2, <1>1, <1>3, <1>7 DEF PtrTypes
    <3>2. m_pointer'[other[r]] = m_pointer[other[r]] /\ does'[other[r]] = does[other[r]]
      BY <3>1, <1>7
    <3>3. ASSUME NEW u \in Pointers, other'[u] = other[r], other'[u] # u, other[r] # r PROVE u = r
      <4>1. u \notin {p, q}
        BY <3>3, <1>6
      <4>2. other'[u] = other[u]
        BY <4>1, <1>7
      <4> QED
        BY <4>2, <3>1, <3>3 DEF PtrLocks
    <3> QED
      BY <3>1, <3>2, <3>3 DEF PtrLocks
  <2> QED
    BY <2>1, <2>2
<1>9. ASSUME NEW o \in Objects PROVE PtrCounts(o)'
  <2>1. PtrCounts(o)
    BY DEF PtrIInv
  <2>2. ASSUME NEW r \in Pointers
        PROVE  (PtrAdds(r, o)' <=> PtrAdds(r, o)) /\ (PtrIsNew(r, o)' <=> PtrIsNew(r, o))
    <3>1. CASE r \in {p, q}
      BY <3>1, <1>3, <1>6 DEF PtrAdds, PtrIsNew
    <3>2. CASE r \notin {p, q}
      BY <3>2, <1>7 DEF PtrAdds, PtrIsNew
    <3> QED
      BY <3>1, <3>2
  <2>3. /\ PtrCountsIt(p, o)' <=> PtrCountsIt(q, o)
        /\ ~PtrCountsIt(q, o)' /\ ~PtrCountsIt(p, o)
        /\ \A r \in Pointers \ {p, q} : PtrCountsIt(r, o)' <=> PtrCountsIt(r, o)
    BY <1>3, <1>6, <1>7, NoObjectIsNew DEF PtrCountsIt, PtrReleases
  <2>4. Counted_Ptr(o) = {r \in Pointers :
            PtrCountsIt(r, o)} /\ Counted_Ptr(o)' = {r \in Pointers : PtrCountsIt(r, o)'}
    BY Ptr_Releasing DEF Counted_Ptr, PtrCountsIt
  <2>5. IsFiniteSet(Counted_Ptr(o)') /\ Cardinality(Counted_Ptr(o)') = Cardinality(Counted_Ptr(o))
    <3>1. CASE ~PtrCountsIt(q, o)
      <4>1. Counted_Ptr(o)' = Counted_Ptr(o)
        BY <3>1, <2>3, <2>4
      <4> QED
        BY <4>1, <2>1 DEF PtrCounts
    <3>2. CASE PtrCountsIt(q, o)
      <4>1. q \in Counted_Ptr(o) /\ p \notin Counted_Ptr(o)
                /\ Counted_Ptr(o)' = (Counted_Ptr(o) \ {q}) \cup {p}
        BY <3>2, <2>3, <2>4
      <4> QED
        BY <4>1, <2>1, Ptr_Moved DEF PtrCounts
    <3> QED
      BY <3>1, <3>2
  <2>6. Counted_Ptr(o) = {} => Counted_Ptr(o)' = {}
    BY <2>3, <2>4
  <2> QED
    BY <1>4, <2>1, <2>2, <2>5, <2>6 DEF PtrCounts
<1> QED
  BY <1>1, <1>4, <1>5, <1>8, <1>9 DEF PtrIInv

\* PtrIInv is inductive.
LEMMA Ptr_Next == PtrIInv /\ [PtrNext]_ptrVars => PtrIInv'
<1> SUFFICES ASSUME PtrIInv, [PtrNext]_ptrVars PROVE PtrIInv'
  OBVIOUS
<1>1. CASE UNCHANGED ptrVars
  <2>1. (PtrTypes /\ misused = FALSE)' /\ \A r \in Pointers : PtrLocks(r)'
    BY <1>1 DEF ptrVars, PtrIInv, PtrTypes, PtrLocks
  <2>2. ASSUME NEW o \in Objects PROVE PtrCounts(o)'
    <3>1. PtrCounts(o)
      BY DEF PtrIInv
    <3> QED
      BY <3>1, <1>1, Ptr_Same DEF ptrVars, PtrCountsIt, PtrAdds, PtrIsNew
  <2> QED
    BY <2>1, <2>2 DEF PtrIInv
<1>2. ASSUME NEW p \in Pointers, NEW o \in Objects, Construct_Ptr(p, o) \/ Keep_Ptr(p, o)
      PROVE  PtrIInv'
  BY <1>2, Ptr_Construct_Ptr, Ptr_Keep_Ptr
<1>3. ASSUME NEW p \in Pointers, NEW q \in Pointers,
             Copy_Ptr(p, q) \/ Move_Ptr(p, q) \/ Assign_Ptr(p, q) \/ MoveAssign_Ptr(p, q)
      PROVE PtrIInv'
  BY <1>3, Ptr_Copy_Ptr, Ptr_Move_Ptr, Ptr_Assign_Ptr, Ptr_MoveAssign_Ptr
<1>4. ASSUME NEW p \in Pointers,
             \/ Reset_Ptr(p) \/ Release_Ptr(p)
             \/ AddRef(p) \/ ReleaseRef(p) \/ PointCopy(p) \/ PointMove(p) \/ PointClear(p)
      PROVE PtrIInv'
  BY <1>4, Ptr_Reset_Ptr, Ptr_Release_Ptr, Ptr_AddRef, Ptr_ReleaseRef, Ptr_PointCopy,
     Ptr_PointMove, Ptr_PointClear
<1> QED
  BY <1>1, <1>2, <1>3, <1>4 DEF PtrNext

\* The count of an object is the number of its references, and it is deleted with the
\* last one, once, whatever is copied, moved and reset (intrusive_ptr.hpp).
THEOREM PointersCorrect == PtrSpec => [](PtrTypeOK /\ ReferencesExact)
<1>1. PtrIInv => PtrTypeOK
  BY Ptr_Releasing DEF PtrIInv, PtrTypes, PtrTypeOK, PtrDoing
<1>2. PtrIInv => ReferencesExact
  BY DEF PtrIInv, ReferencesExact, PtrCounts, PtrAdds
<1> QED
  BY <1>1, <1>2, Ptr_Init, Ptr_Next, PTL DEF PtrSpec
-----------------------------------------------------------------------------
(* UniquePtr. *)

\* Where the places point.
Pointings == [PtrPlaces -> Owned \cup {Nullptr}]

\* No call deletes an object, or one is deleted with its deleter.
IsDying(seq, x, d) == IF x = Nullptr THEN seq = <<>>
    ELSE x \in Owned /\ d \in Deleters /\ seq = << <<x, d>> >>

\* The objects lv each have one owner, or are handed out, or x is being deleted.
OwnedOnce(p, lv, hd, x) ==
  /\ p \in Pointings /\ lv \subseteq Owned /\ hd \subseteq lv /\ x \in (lv \ hd) \cup {Nullptr}
  /\ \A h \in PtrPlaces : p[h] # Nullptr => p[h] \in lv \ hd /\ p[h] # x
  /\ \A o \in Owned \ lv : p[o] = Nullptr
  /\ \A h, k \in PtrPlaces : p[h] = p[k] /\ p[h] # Nullptr => h = k
  /\ \A o \in lv : o \in hd \/ o = x \/ \E h \in PtrPlaces : p[h] = o

\* The places but e have the deleter of their object.
Fitting(p, del, org, e) == \A h \in PtrPlaces \ {e} : p[h] # Nullptr => org[p[h]] = del[h]

\* The rank falls from each object but e to the one it owns.
Ranks(r, p, e) == r \in [Owned -> Nat] /\ \A o \in Owned \ {e} : p[o] # Nullptr => r[p[o]] < r[o]

\* No object owns itself, also not through others.
Acyclic(p) == \E r : Ranks(r, p, Nullptr)

\* Deleting x, and what it owns, does not come to the object e.
Misses(p, x, e) == \E r : Ranks(r, p, e) /\ r[x] < r[e]

\* What follows when the objects are deleted: nothing, or h takes the deleter of q.
TakesNext(seq, p, del, org, x) ==
  IF seq = <<>> THEN Fitting(p, del, org, Nullptr)
  ELSE \E q, h \in PtrPlaces :
         /\ seq = <<q, h>> /\ Fitting(p, del, org, h)
         /\ p[h] # Nullptr => org[p[h]] = del[q]
         /\ x # Nullptr => q \in UniquePtrs /\ (h \in Owned => Misses(p, x, h))

\* The inductive invariant; x is the object that is being deleted.
UniqueIInv ==
  /\ wrong = FALSE /\ uDeleter \in [PtrPlaces -> Deleters] /\ origin \in [Owned -> Deleters]
  /\ Acyclic(uPointer)
  /\ \E x \in Owned \cup {Nullptr}, d \in Deleters :
       /\ IsDying(dying, x, d)
       /\ (x # Nullptr => origin[x] = d)
       /\ OwnedOnce(uPointer, live, handedOut, x)
       /\ TakesNext(after, uPointer, uDeleter, origin, x)

\* g is p with v for the pointer of h.
Sets(p, h, v, g) == g \in Pointings /\ g[h] = v /\ \A k \in PtrPlaces \ {h} : g[k] = p[k]

\* The places and the objects are different things.
LEMMA Unique_Places ==
  /\ Nullptr \notin Owned /\ Nullptr \notin PtrPlaces
  /\ UniquePtrs \cap Owned = {} /\ PtrPlaces = UniquePtrs \cup Owned
  /\ SomeDeleter \in Deleters
BY NullptrIsNew, OwnedFinite DEF PtrPlaces, SomeDeleter

\* An assignment to one pointer.
LEMMA Unique_Sets ==
  ASSUME NEW p \in Pointings, NEW h \in PtrPlaces, NEW v \in Owned \cup {Nullptr}
  PROVE  Sets(p, h, v, [p EXCEPT ![h] = v])
BY DEF Sets, Pointings

\* A pointer gives up its object, which is to be deleted.
LEMMA Unique_Taken ==
  ASSUME NEW p, NEW lv, NEW hd, OwnedOnce(p, lv, hd, Nullptr), NEW h \in PtrPlaces,
         NEW g, Sets(p, h, Nullptr, g)
  PROVE  OwnedOnce(g, lv, hd, p[h])
<1>1. p[h] \in (lv \ hd) \cup {Nullptr}
  BY DEF OwnedOnce
<1>2. \A k \in PtrPlaces : g[k] = IF k = h THEN Nullptr ELSE p[k]
  BY DEF Sets
<1>3. \A k \in PtrPlaces : g[k] # Nullptr => g[k] \in lv \ hd /\ g[k] # p[h]
  BY <1>2 DEF OwnedOnce
<1>4. \A o \in Owned \ lv : g[o] = Nullptr
  BY <1>2, Unique_Places DEF OwnedOnce
<1>5. \A k, j \in PtrPlaces : g[k] = g[j] /\ g[k] # Nullptr => k = j
  BY <1>2 DEF OwnedOnce
<1>6. \A o \in lv : o \in hd \/ o = p[h] \/ \E k \in PtrPlaces : g[k] = o
  BY <1>2 DEF OwnedOnce
<1> QED
  BY <1>1, <1>3, <1>4, <1>5, <1>6 DEF OwnedOnce, Sets

\* A pointer without an object gets one that was handed out.
LEMMA Unique_Given ==
  ASSUME NEW p, NEW lv, NEW hd, NEW x, OwnedOnce(p, lv, hd, x),
         NEW h \in UniquePtrs \cup lv, p[h] = Nullptr, NEW o \in hd, NEW g, Sets(p, h, o, g)
  PROVE  OwnedOnce(g, lv, hd \ {o}, x)
<1>1. h \in PtrPlaces /\ o \in lv /\ o # Nullptr /\ lv \subseteq Owned /\ hd \subseteq lv
  BY Unique_Places DEF OwnedOnce
<1>2. x \in (lv \ (hd \ {o})) \cup {Nullptr} /\ x # o
  BY <1>1 DEF OwnedOnce
<1>3. \A k \in PtrPlaces : g[k] = IF k = h THEN o ELSE p[k]
  BY DEF Sets
<1>4. \A k \in PtrPlaces : g[k] # Nullptr => g[k] \in lv \ (hd \ {o}) /\ g[k] # x
  BY <1>1, <1>2, <1>3 DEF OwnedOnce
<1>5. \A u \in Owned \ lv : g[u] = Nullptr
  BY <1>3, Unique_Places DEF OwnedOnce
<1>6. \A k, j \in PtrPlaces : g[k] = g[j] /\ g[k] # Nullptr => k = j
  BY <1>3 DEF OwnedOnce
<1>7. \A u \in lv : u \in hd \ {o} \/ u = x \/ \E k \in PtrPlaces : g[k] = u
  <2> TAKE u \in lv
  <2>1. CASE u = o
    BY <2>1, <1>1, <1>3
  <2>2. CASE u # o
    <3>1. u # Nullptr
      BY <1>1, Unique_Places
    <3>2. u \in hd \/ u = x \/ \E k \in PtrPlaces : p[k] = u
      BY DEF OwnedOnce
    <3> QED
      BY <3>1, <3>2, <2>2, <1>3
  <2> QED
    BY <2>1, <2>2
<1> QED
  BY <1>1, <1>2, <1>4, <1>5, <1>6, <1>7 DEF OwnedOnce, Sets

\* The object is handed out instead of deleted.
LEMMA Unique_HandedOut ==
  ASSUME NEW p, NEW lv, NEW hd, NEW x, OwnedOnce(p, lv, hd, x), x # Nullptr
  PROVE  OwnedOnce(p, lv, hd \cup {x}, Nullptr)
BY Unique_Places DEF OwnedOnce

\* A new object.
LEMMA Unique_Made ==
  ASSUME NEW p, NEW lv, NEW hd, NEW x, OwnedOnce(p, lv, hd, x), NEW o \in Owned \ lv
  PROVE  OwnedOnce(p, lv \cup {o}, hd \cup {o}, x)
BY Unique_Places DEF OwnedOnce

\* Two pointers are swapped.
LEMMA Unique_Swapped ==
  ASSUME NEW p, NEW lv, NEW hd, NEW x, OwnedOnce(p, lv, hd, x),
         NEW h \in UniquePtrs \cup lv, NEW q \in UniquePtrs \cup lv,
         NEW g \in Pointings,
         \A k \in PtrPlaces : g[k] = IF k = h THEN p[q] ELSE IF k = q THEN p[h] ELSE p[k]
  PROVE  OwnedOnce(g, lv, hd, x)
<1>1. h \in PtrPlaces /\ q \in PtrPlaces /\ lv \subseteq Owned /\ hd \subseteq lv
  BY Unique_Places DEF OwnedOnce
<1>2. x \in (lv \ hd) \cup {Nullptr}
  BY DEF OwnedOnce
<1>3. \A k \in PtrPlaces : g[k] # Nullptr => g[k] \in lv \ hd /\ g[k] # x
  BY <1>1 DEF OwnedOnce
<1>4. \A u \in Owned \ lv : g[u] = Nullptr
  BY <1>1, Unique_Places DEF OwnedOnce
<1>5. \A k, j \in PtrPlaces : g[k] = g[j] /\ g[k] # Nullptr => k = j
  BY <1>1 DEF OwnedOnce
<1>6. \A u \in lv : u \in hd \/ u = x \/ \E k \in PtrPlaces : g[k] = u
  <2> SUFFICES ASSUME NEW u \in lv, u \notin hd, u # x PROVE \E k \in PtrPlaces : g[k] = u
    OBVIOUS
  <2>1. PICK j \in PtrPlaces : p[j] = u
    BY DEF OwnedOnce
  <2> QED
    BY <2>1, <1>1
<1> QED
  BY <1>1, <1>2, <1>3, <1>4, <1>5, <1>6 DEF OwnedOnce

\* An object is deleted; what its member owned is next.
LEMMA Unique_Deleted ==
  ASSUME NEW p, NEW lv, NEW hd, NEW x \in Owned, OwnedOnce(p, lv, hd, x),
         NEW g, Sets(p, x, Nullptr, g)
  PROVE  OwnedOnce(g, lv \ {x}, hd, p[x]) /\ p[x] # x
<1>1. x \in PtrPlaces /\ x # Nullptr /\ x \in lv \ hd /\ lv \subseteq Owned /\ hd \subseteq lv
  BY Unique_Places DEF OwnedOnce
<1>2. p[x] \in ((lv \ {x}) \ hd) \cup {Nullptr}
  BY <1>1 DEF OwnedOnce
<1>3. \A k \in PtrPlaces : g[k] = IF k = x THEN Nullptr ELSE p[k]
  BY DEF Sets
<1>4. \A k \in PtrPlaces : g[k] # Nullptr => g[k] \in (lv \ {x}) \ hd /\ g[k] # p[x]
  BY <1>1, <1>3 DEF OwnedOnce
<1>5. \A o \in Owned \ (lv \ {x}) : g[o] = Nullptr
  BY <1>1, <1>3, Unique_Places DEF OwnedOnce
<1>6. \A k, j \in PtrPlaces : g[k] = g[j] /\ g[k] # Nullptr => k = j
  BY <1>3 DEF OwnedOnce
<1>7. \A o \in lv \ {x} : o \in hd \/ o = p[x] \/ \E k \in PtrPlaces : g[k] = o
  BY <1>3 DEF OwnedOnce
<1>8. lv \ {x} \subseteq Owned /\ hd \subseteq lv \ {x} /\ p[x] # x
  BY <1>1, <1>2
<1> QED
  BY <1>2, <1>4, <1>5, <1>6, <1>7, <1>8 DEF OwnedOnce, Sets

\* The ranks stay when pointers are cleared.
LEMMA Unique_Cleared ==
  ASSUME NEW p, NEW g, \A k \in PtrPlaces : g[k] = p[k] \/ g[k] = Nullptr, NEW e, NEW r,
         Ranks(r, p, e)
  PROVE  Ranks(r, g, e)
BY Unique_Places DEF Ranks

\* What the program sees to.
LEMMA Unique_NoCycle ==
  ASSUME NEW p, OwnsNoCycle(p)
  PROVE  Acyclic(p)
<1>1. PICK r \in [Owned -> 0 .. Cardinality(Owned)] :
        \A o \in Owned : p[o] # Nullptr => r[p[o]] < r[o]
  BY DEF OwnsNoCycle
<1>2. Cardinality(Owned) \in Nat
  BY OwnedFinite, FS_CardinalityType
<1>3. r \in [Owned -> Nat]
  BY <1>1, <1>2
<1>4. Ranks(r, p, Nullptr)
  BY <1>1, <1>3 DEF Ranks
<1> QED
  BY <1>4 DEF Acyclic

\* A pointer gets a new object, whose own is empty.
LEMMA Unique_NewRank ==
  ASSUME NEW p \in Pointings, Acyclic(p), NEW h \in PtrPlaces, NEW o \in Owned, h # o,
         p[o] = Nullptr,
         \A k \in PtrPlaces : p[k] # o, NEW g, Sets(p, h, o, g)
  PROVE  Acyclic(g)
<1>1. PICK r : Ranks(r, p, Nullptr)
  BY DEF Acyclic
<1> DEFINE s == [u \in Owned |-> IF u = o THEN 0 ELSE r[u] + 1]
<1>2. r \in [Owned -> Nat] /\ \A u \in Owned : p[u] # Nullptr => r[p[u]] < r[u]
  BY <1>1, Unique_Places DEF Ranks
<1>3. s \in [Owned -> Nat] /\ \A u \in Owned : s[u] = IF u = o THEN 0 ELSE r[u] + 1
  BY <1>2
<1> HIDE DEF s
<1>4. \A k \in PtrPlaces : g[k] = IF k = h THEN o ELSE p[k]
  BY DEF Sets
<1>5. ASSUME NEW u \in Owned, g[u] # Nullptr PROVE s[g[u]] < s[u]
  <2>1. u \in PtrPlaces /\ o # Nullptr
    BY Unique_Places
  <2>2. u # o
    BY <2>1, <1>4, <1>5
  <2>3. CASE u = h
    BY <2>1, <2>2, <2>3, <1>2, <1>3, <1>4
  <2>4. CASE u # h
    <3>1. g[u] = p[u] /\ p[u] \in Owned /\ p[u] # o
      BY <2>1, <2>4, <1>4, <1>5 DEF Pointings
    <3>2. r[p[u]] < r[u] /\ r[p[u]] \in Nat /\ r[u] \in Nat
      BY <3>1, <1>2, <1>5
    <3> QED
      BY <3>1, <3>2, <2>2, <1>3
  <2> QED
    BY <2>3, <2>4
<1>6. Ranks(s, g, Nullptr)
  BY <1>3, <1>5 DEF Ranks
<1> QED
  BY <1>6 DEF Acyclic

\* Between two calls.
LEMMA Unique_Idle ==
  ASSUME UniqueIInv, dying = <<>>, after = <<>>
  PROVE  /\ wrong = FALSE /\ uDeleter \in [PtrPlaces -> Deleters] /\ origin \in [Owned -> Deleters]
         /\ uPointer \in Pointings /\ Acyclic(uPointer)
         /\ OwnedOnce(uPointer, live, handedOut, Nullptr)
         /\ \A h \in PtrPlaces : uPointer[h] # Nullptr => origin[uPointer[h]] = uDeleter[h]
<1>1. PICK x \in Owned \cup {Nullptr}, d \in Deleters :
        /\ IsDying(dying, x, d)
        /\ (x # Nullptr => origin[x] = d)
        /\ OwnedOnce(uPointer, live, handedOut, x)
        /\ TakesNext(after, uPointer, uDeleter, origin, x)
  BY DEF UniqueIInv
<1>2. x = Nullptr
  <2>1. << <<x, d>> >> # <<>>
    OBVIOUS
  <2> QED
    BY <2>1, <1>1 DEF IsDying
<1>3. Fitting(uPointer, uDeleter, origin, Nullptr)
  BY <1>1 DEF TakesNext
<1>4. uPointer \in Pointings
  BY <1>1 DEF OwnedOnce
<1> QED
  BY <1>1, <1>2, <1>3, <1>4, Unique_Places DEF UniqueIInv, Fitting

\* A call that deletes x, or nothing.
LEMMA Unique_Calls ==
  ASSUME wrong' = FALSE, uDeleter' \in [PtrPlaces -> Deleters], origin' \in [Owned -> Deleters],
         Acyclic(uPointer'), NEW x \in Owned \cup {Nullptr}, NEW d \in Deleters,
         IsDying(dying', x, d), x # Nullptr => origin'[x] = d,
         OwnedOnce(uPointer', live', handedOut', x),
         TakesNext(after', uPointer', uDeleter', origin', x)
  PROVE  UniqueIInv'
BY DEF UniqueIInv

\* A call that deletes nothing.
LEMMA Unique_Quiet ==
  ASSUME wrong' = FALSE, uDeleter' \in [PtrPlaces -> Deleters], origin' \in [Owned -> Deleters],
         Acyclic(uPointer'), dying' = <<>>, after' = <<>>,
         OwnedOnce(uPointer', live', handedOut', Nullptr),
         \A h \in PtrPlaces : uPointer'[h] # Nullptr => origin'[uPointer'[h]] = uDeleter'[h]
  PROVE  UniqueIInv'
<1>1. IsDying(dying', Nullptr, SomeDeleter) /\ SomeDeleter \in Deleters
  BY Unique_Places DEF IsDying
<1>2. TakesNext(after', uPointer', uDeleter', origin', Nullptr)
  BY DEF TakesNext, Fitting
<1> QED
  BY <1>1, <1>2, Unique_Calls

\* At the start there is no object.
LEMMA Unique_Init == UniqueInit => UniqueIInv
<1> SUFFICES ASSUME UniqueInit PROVE UniqueIInv
  OBVIOUS
<1>1. /\ uPointer = [h \in PtrPlaces |-> Nullptr] /\ uDeleter = [h \in PtrPlaces |-> SomeDeleter]
      /\ origin = [o \in Owned |-> SomeDeleter]
      /\ live = {} /\ handedOut = {} /\ dying = <<>> /\ after = <<>> /\ wrong = FALSE
  BY DEF UniqueInit
<1>2. IsDying(dying, Nullptr, SomeDeleter) /\ SomeDeleter \in Deleters
  BY <1>1, Unique_Places DEF IsDying
<1>3. TakesNext(after, uPointer, uDeleter, origin, Nullptr)
  BY <1>1 DEF TakesNext, Fitting
<1>4. OwnedOnce(uPointer, live, handedOut, Nullptr)
  BY <1>1, Unique_Places DEF OwnedOnce, Pointings
<1>5. Acyclic(uPointer)
  <2> DEFINE r == [o \in Owned |-> 0]
  <2>1. r \in [Owned -> Nat] /\ \A o \in Owned : uPointer[o] = Nullptr
    BY <1>1, Unique_Places
  <2>2. Ranks(r, uPointer, Nullptr)
    BY <2>1 DEF Ranks
  <2> QED
    BY <2>2 DEF Acyclic
<1>6. uDeleter \in [PtrPlaces -> Deleters] /\ origin \in [Owned -> Deleters]
  BY <1>1, <1>2
<1> QED
  BY <1>1, <1>2, <1>3, <1>4, <1>5, <1>6 DEF UniqueIInv

\* An object is made and gets its first owner.
LEMMA Unique_Constructs ==
  ASSUME UniqueIInv, NEW h \in PtrPlaces, NEW o \in Owned, NEW d \in Deleters,
         Unique_Construct(h, o, d)
  PROVE  UniqueIInv'
<1>1. /\ dying = <<>> /\ after = <<>> /\ h \in UniquePtrs \cup live /\ uPointer[h] = Nullptr
      /\ o \notin live /\ live' = live \cup {o} /\ origin' = [origin EXCEPT ![o] = d]
      /\ uPointer' = [uPointer EXCEPT ![h] = o, ![o] = Nullptr]
      /\ uDeleter' = [uDeleter EXCEPT ![h] = d, ![o] = d]
      /\ handedOut' = handedOut /\ dying' = dying /\ after' = after /\ wrong' = wrong
  BY DEF Unique_Construct, Usable_Unique
<1>2. /\ wrong = FALSE /\ uDeleter \in [PtrPlaces -> Deleters] /\ origin \in [Owned -> Deleters]
      /\ uPointer \in Pointings /\ Acyclic(uPointer)
      /\ OwnedOnce(uPointer, live, handedOut, Nullptr)
      /\ \A k \in PtrPlaces : uPointer[k] # Nullptr => origin[uPointer[k]] = uDeleter[k]
  BY <1>1, Unique_Idle
<1>3. o \in PtrPlaces /\ h # o /\ o # Nullptr
  BY <1>1, Unique_Places
<1>4. uPointer[o] = Nullptr /\ (\A k \in PtrPlaces : uPointer[k] # o) /\ o \notin handedOut
  BY <1>1, <1>2, <1>3 DEF OwnedOnce
<1>5. Sets(uPointer, h, o, uPointer')
  <2>1. uPointer' \in Pointings
    BY <1>1, <1>2, <1>3 DEF Pointings
  <2>2. \A k \in PtrPlaces : uPointer'[k] = IF k = h THEN o ELSE uPointer[k]
    BY <1>1, <1>2, <1>3, <1>4 DEF Pointings
  <2> QED
    BY <2>1, <2>2 DEF Sets
<1>6. OwnedOnce(uPointer', live', handedOut', Nullptr)
  <2>1. OwnedOnce(uPointer, live \cup {o}, handedOut \cup {o}, Nullptr)
    BY <1>1, <1>2, Unique_Made
  <2>2. OwnedOnce(uPointer', live \cup {o}, (handedOut \cup {o}) \ {o}, Nullptr)
    BY <2>1, <1>1, <1>5, Unique_Given
  <2>3. (handedOut \cup {o}) \ {o} = handedOut
    BY <1>4
  <2> QED
    BY <2>2, <2>3, <1>1
<1>7. Acyclic(uPointer')
  BY <1>2, <1>3, <1>4, <1>5, Unique_NewRank
<1>8. uDeleter' \in [PtrPlaces -> Deleters] /\ origin' \in [Owned -> Deleters]
  BY <1>1, <1>2
<1>9. \A k \in PtrPlaces : uPointer'[k] # Nullptr => origin'[uPointer'[k]] = uDeleter'[k]
  <2> SUFFICES ASSUME NEW k \in PtrPlaces, uPointer'[k] # Nullptr
               PROVE  origin'[uPointer'[k]] = uDeleter'[k]
    OBVIOUS
  <2>1. CASE k = h
    BY <2>1, <1>1, <1>2, <1>3, <1>5 DEF Sets
  <2>2. CASE k # h
    <3>1. uPointer'[k] = uPointer[k] /\ uPointer[k] # o /\ k # o /\ uPointer[k] \in Owned
      BY <2>2, <1>2, <1>4, <1>5 DEF Sets, Pointings
    <3>2. uDeleter'[k] = uDeleter[k] /\ origin'[uPointer[k]] = origin[uPointer[k]]
      BY <3>1, <2>2, <1>1, <1>2
    <3> QED
      BY <3>1, <3>2, <1>2
  <2> QED
    BY <2>1, <2>2
<1> QED
  BY <1>1, <1>2, <1>6, <1>7, <1>8, <1>9, Unique_Quiet

\* The object of q, and its deleter, go to a pointer that has none, or the two are swapped.
LEMMA Unique_Exchanges ==
  ASSUME UniqueIInv, NEW h \in PtrPlaces, NEW q \in PtrPlaces,
         Unique_Move(h, q) \/ Unique_Swap(h, q)
  PROVE  UniqueIInv'
<1>1. /\ dying = <<>> /\ after = <<>> /\ h \in UniquePtrs \cup live /\ q \in UniquePtrs \cup live
      /\ h # q /\ OwnsNoCycle(uPointer')
      /\ live' = live /\ origin' = origin
      /\ handedOut' = handedOut /\ dying' = dying /\ after' = after /\ wrong' = wrong
  BY DEF Unique_Move, Unique_Swap, Usable_Unique
<1>2. /\ wrong = FALSE /\ uDeleter \in [PtrPlaces -> Deleters] /\ origin \in [Owned -> Deleters]
      /\ uPointer \in Pointings /\ Acyclic(uPointer)
      /\ OwnedOnce(uPointer, live, handedOut, Nullptr)
      /\ \A k \in PtrPlaces : uPointer[k] # Nullptr => origin[uPointer[k]] = uDeleter[k]
  BY <1>1, Unique_Idle
<1>3. /\ uPointer' = [uPointer EXCEPT ![h] = uPointer[q], ![q] = uPointer[h]]
      /\ uDeleter' \in [PtrPlaces -> Deleters] /\ uDeleter'[h] = uDeleter[q]
      /\ uPointer[h] # Nullptr => uDeleter'[q] = uDeleter[h]
      /\ \A k \in PtrPlaces \ {h, q} : uDeleter'[k] = uDeleter[k]
  <2>1. CASE Unique_Move(h, q)
    BY <2>1, <1>1, <1>2 DEF Unique_Move
  <2>2. CASE Unique_Swap(h, q)
    BY <2>2, <1>1, <1>2 DEF Unique_Swap
  <2> QED
    BY <2>1, <2>2
<1>4. /\ uPointer' \in Pointings
      /\ \A k \in PtrPlaces :
           uPointer'[k] = IF k = h THEN uPointer[q] ELSE IF k = q THEN uPointer[h] ELSE uPointer[k]
  BY <1>1, <1>2, <1>3 DEF Pointings
<1>5. OwnedOnce(uPointer', live', handedOut', Nullptr)
  BY <1>1, <1>2, <1>4, Unique_Swapped
<1>6. Acyclic(uPointer')
  BY <1>1, Unique_NoCycle
<1>7. \A k \in PtrPlaces : uPointer'[k] # Nullptr => origin'[uPointer'[k]] = uDeleter'[k]
  <2> TAKE k \in PtrPlaces
  <2>1. CASE k = h
    BY <2>1, <1>1, <1>2, <1>3, <1>4
  <2>2. CASE k = q /\ k # h
    BY <2>2, <1>1, <1>2, <1>3, <1>4
  <2>3. CASE k # q /\ k # h
    BY <2>3, <1>1, <1>2, <1>3, <1>4
  <2> QED
    BY <2>1, <2>2, <2>3
<1> QED
  BY <1>1, <1>2, <1>3, <1>5, <1>6, <1>7, Unique_Quiet

\* The object is handed out.
LEMMA Unique_Releases ==
  ASSUME UniqueIInv, NEW h \in PtrPlaces, Unique_Release(h)
  PROVE  UniqueIInv'
<1>1. /\ dying = <<>> /\ after = <<>> /\ h \in UniquePtrs \cup live /\ uPointer[h] # Nullptr
      /\ handedOut' = handedOut \cup {uPointer[h]}
      /\ uPointer' = [uPointer EXCEPT ![h] = Nullptr]
      /\ live' = live /\ origin' = origin /\ uDeleter' = uDeleter
      /\ dying' = dying /\ after' = after /\ wrong' = wrong
  BY DEF Unique_Release, Usable_Unique
<1>2. /\ wrong = FALSE /\ uDeleter \in [PtrPlaces -> Deleters] /\ origin \in [Owned -> Deleters]
      /\ uPointer \in Pointings /\ Acyclic(uPointer)
      /\ OwnedOnce(uPointer, live, handedOut, Nullptr)
      /\ \A k \in PtrPlaces : uPointer[k] # Nullptr => origin[uPointer[k]] = uDeleter[k]
  BY <1>1, Unique_Idle
<1>3. Sets(uPointer, h, Nullptr, uPointer')
  BY <1>1, <1>2, Unique_Sets
<1>4. OwnedOnce(uPointer', live, handedOut, uPointer[h])
  BY <1>2, <1>3, Unique_Taken
<1>5. OwnedOnce(uPointer', live', handedOut', Nullptr)
  BY <1>1, <1>4, Unique_HandedOut
<1>6. \A k \in PtrPlaces : uPointer'[k] = uPointer[k] \/ uPointer'[k] = Nullptr
  BY <1>3 DEF Sets
<1>7. Acyclic(uPointer')
  BY <1>2, <1>6, Unique_Cleared DEF Acyclic
<1>8. \A k \in PtrPlaces : uPointer'[k] # Nullptr => origin'[uPointer'[k]] = uDeleter'[k]
  BY <1>1, <1>2, <1>6
<1> QED
  BY <1>1, <1>2, <1>5, <1>7, <1>8, Unique_Quiet

\* reset(): the object is to be deleted with the deleter it fits to.
LEMMA Unique_Resets ==
  ASSUME UniqueIInv, NEW h \in PtrPlaces, Unique_Reset(h)
  PROVE  UniqueIInv'
<1> DEFINE x == uPointer[h]
           d == uDeleter[h]
<1>1. /\ dying = <<>> /\ after = <<>> /\ h \in UniquePtrs \cup live /\ x # Nullptr
      /\ uPointer' = [uPointer EXCEPT ![h] = Nullptr] /\ dying' = << <<x, d>> >> /\ after' = <<>>
      /\ live' = live /\ origin' = origin /\ uDeleter' = uDeleter
      /\ handedOut' = handedOut /\ wrong' = wrong
  BY DEF Unique_Reset, Usable_Unique, Reset_To
<1>2. /\ wrong = FALSE /\ uDeleter \in [PtrPlaces -> Deleters] /\ origin \in [Owned -> Deleters]
      /\ uPointer \in Pointings /\ Acyclic(uPointer)
      /\ OwnedOnce(uPointer, live, handedOut, Nullptr)
      /\ \A k \in PtrPlaces : uPointer[k] # Nullptr => origin[uPointer[k]] = uDeleter[k]
  BY <1>1, Unique_Idle
<1>3. Sets(uPointer, h, Nullptr, uPointer')
  BY <1>1, <1>2, Unique_Sets
<1>4. OwnedOnce(uPointer', live', handedOut', x)
  BY <1>1, <1>2, <1>3, Unique_Taken
<1>5. x \in Owned /\ d \in Deleters /\ origin'[x] = d
  BY <1>1, <1>2 DEF Pointings
<1>6. IsDying(dying', x, d)
  BY <1>1, <1>5 DEF IsDying
<1>7. \A k \in PtrPlaces : uPointer'[k] = uPointer[k] \/ uPointer'[k] = Nullptr
  BY <1>3 DEF Sets
<1>8. Acyclic(uPointer')
  BY <1>2, <1>7, Unique_Cleared DEF Acyclic
<1>9. TakesNext(after', uPointer', uDeleter', origin', x)
  BY <1>1, <1>2, <1>7 DEF TakesNext, Fitting
<1> HIDE DEF x, d
<1>10. uDeleter' \in [PtrPlaces -> Deleters] /\ origin' \in [Owned -> Deleters] /\ wrong' = FALSE
  BY <1>1, <1>2
<1> QED
  BY <1>4, <1>5, <1>6, <1>8, <1>9, <1>10, Unique_Calls

\* reset(ptr), with an object that was handed out.
LEMMA Unique_ResetsTo ==
  ASSUME UniqueIInv, NEW h \in PtrPlaces, NEW o \in Owned, Unique_ResetTo(h, o)
  PROVE  UniqueIInv'
<1> DEFINE x == uPointer[h]
           d == uDeleter[h]
           g == [uPointer EXCEPT ![h] = Nullptr]
<1>1. /\ dying = <<>> /\ after = <<>> /\ h \in UniquePtrs \cup live
      /\ o \in handedOut /\ origin[o] = d /\ handedOut' = handedOut \ {o}
      /\ uPointer' = [uPointer EXCEPT ![h] = o] /\ OwnsNoCycle(uPointer')
      /\ dying' = (IF x \in {o, Nullptr} THEN <<>> ELSE << <<x, d>> >>) /\ after' = <<>>
      /\ live' = live /\ origin' = origin /\ uDeleter' = uDeleter /\ wrong' = wrong
  BY DEF Unique_ResetTo, Usable_Unique, Reset_To
<1>2. /\ wrong = FALSE /\ uDeleter \in [PtrPlaces -> Deleters] /\ origin \in [Owned -> Deleters]
      /\ uPointer \in Pointings /\ Acyclic(uPointer)
      /\ OwnedOnce(uPointer, live, handedOut, Nullptr)
      /\ \A k \in PtrPlaces : uPointer[k] # Nullptr => origin[uPointer[k]] = uDeleter[k]
  BY <1>1, Unique_Idle
<1>3. Sets(uPointer, h, Nullptr, g)
  BY <1>2, Unique_Sets
<1>4. Sets(uPointer, h, o, uPointer')
  BY <1>1, <1>2, Unique_Sets
<1>5. Sets(g, h, o, uPointer') /\ g[h] = Nullptr
  BY <1>3, <1>4 DEF Sets
<1> HIDE DEF g
<1>6. OwnedOnce(g, live, handedOut, x)
  BY <1>2, <1>3, Unique_Taken
<1>7. OwnedOnce(uPointer', live', handedOut', x)
  BY <1>1, <1>5, <1>6, Unique_Given
<1>8. x \in Owned \cup {Nullptr} /\ d \in Deleters /\ (x # Nullptr => x \in Owned /\ origin'[x] = d)
  BY <1>1, <1>2 DEF Pointings
<1>9. x # o
  BY <1>1, <1>2, Unique_Places DEF OwnedOnce
<1>10. IsDying(dying', x, d)
  BY <1>1, <1>8, <1>9 DEF IsDying
<1>11. Acyclic(uPointer')
  BY <1>1, Unique_NoCycle
<1>12. TakesNext(after', uPointer', uDeleter', origin', x)
  <2>1. Fitting(uPointer', uDeleter', origin', Nullptr)
    BY <1>1, <1>2, <1>4 DEF Fitting, Sets
  <2> QED
    BY <2>1, <1>1 DEF TakesNext
<1>13. uDeleter' \in [PtrPlaces -> Deleters] /\ origin' \in [Owned -> Deleters] /\ wrong' = FALSE
  BY <1>1, <1>2
<1> HIDE DEF x, d
<1> QED
  BY <1>7, <1>8, <1>10, <1>11, <1>12, <1>13, Unique_Calls

\* An assignment: the object of q comes to h, and its own is to be deleted. Nothing that
\* is deleted with it is h, or holds q.
LEMMA Unique_Assigns ==
  ASSUME UniqueIInv, NEW h \in PtrPlaces, NEW q \in PtrPlaces, Unique_Assign(h, q)
  PROVE  UniqueIInv'
<1> DEFINE ptrs == [uPointer EXCEPT ![q] = Nullptr]
           x == ptrs[h]
           d == uDeleter[h]
<1>1. /\ dying = <<>> /\ after = <<>> /\ h \in UniquePtrs \cup live /\ q \in UniquePtrs \cup live
      /\ h # q /\ uPointer[h] # Nullptr => q \notin Owned
      /\ uPointer' = [ptrs EXCEPT ![h] = uPointer[q]] /\ OwnsNoCycle(uPointer')
      /\ dying' = (IF x \in {uPointer[q], Nullptr} THEN <<>> ELSE << <<x, d>> >>)
      /\ after' = <<q, h>> /\ handedOut' = handedOut
      /\ live' = live /\ origin' = origin /\ uDeleter' = uDeleter /\ wrong' = wrong
  BY DEF Unique_Assign, Usable_Unique, Reset_To
<1>2. /\ wrong = FALSE /\ uDeleter \in [PtrPlaces -> Deleters] /\ origin \in [Owned -> Deleters]
      /\ uPointer \in Pointings /\ Acyclic(uPointer)
      /\ OwnedOnce(uPointer, live, handedOut, Nullptr)
      /\ \A k \in PtrPlaces : uPointer[k] # Nullptr => origin[uPointer[k]] = uDeleter[k]
  BY <1>1, Unique_Idle
<1>3. Sets(uPointer, q, Nullptr, ptrs)
  BY <1>2, Unique_Sets
<1>4. /\ uPointer' \in Pointings
      /\ \A k \in PtrPlaces : uPointer'[k] = IF k = h THEN uPointer[q]
                                             ELSE IF k = q THEN Nullptr ELSE uPointer[k]
  BY <1>1, <1>2, <1>3 DEF Pointings, Sets
<1>5. x = (IF h = q THEN Nullptr ELSE uPointer[h]) /\ x \in Owned \cup {Nullptr} /\ d \in Deleters
  BY <1>2, <1>3 DEF Sets, Pointings
<1> HIDE DEF x, d, ptrs
<1>6. OwnedOnce(uPointer', live', handedOut', x)
  <2>1. CASE h = q
    <3>1. uPointer' = uPointer
      BY <2>1, <1>2, <1>4 DEF Pointings
    <3> QED
      BY <3>1, <2>1, <1>1, <1>2, <1>5
  <2>2. CASE h # q
    <3> DEFINE g == [uPointer EXCEPT ![h] = uPointer[q], ![q] = uPointer[h]]
    <3>1. /\ g \in Pointings
          /\ \A k \in PtrPlaces :
               g[k] = IF k = h THEN uPointer[q] ELSE IF k = q THEN uPointer[h] ELSE uPointer[k]
      BY <2>2, <1>2 DEF Pointings
    <3> HIDE DEF g
    <3>2. OwnedOnce(g, live, handedOut, Nullptr)
      BY <3>1, <1>1, <1>2, Unique_Swapped
    <3>3. Sets(g, q, Nullptr, uPointer') /\ g[q] = x
      BY <3>1, <2>2, <1>4, <1>5 DEF Sets
    <3>4. OwnedOnce(uPointer', live, handedOut, g[q])
      BY <3>2, <3>3, Unique_Taken
    <3> QED
      BY <3>3, <3>4, <1>1
  <2> QED
    BY <2>1, <2>2
<1>7. x # Nullptr => x \in Owned /\ origin'[x] = d /\ x # uPointer[q] /\ q \in UniquePtrs
  <2> SUFFICES ASSUME x # Nullptr
               PROVE  x \in Owned /\ origin'[x] = d /\ x # uPointer[q] /\ q \in UniquePtrs
    OBVIOUS
  <2>1. h # q /\ x = uPointer[h]
    BY <1>5
  <2>2. x # uPointer[q]
    BY <2>1, <1>2 DEF OwnedOnce
  <2>3. q \in UniquePtrs
    BY <2>1, <1>1, Unique_Places
  <2> QED
    BY <2>1, <2>2, <2>3, <1>1, <1>2, <1>5 DEF d
<1>8. IsDying(dying', x, d)
  BY <1>1, <1>5, <1>7 DEF IsDying
<1>9. Acyclic(uPointer')
  BY <1>1, Unique_NoCycle
<1>10. x # Nullptr /\ h \in Owned => Misses(uPointer', x, h)
  <2> SUFFICES ASSUME x # Nullptr, h \in Owned PROVE Misses(uPointer', x, h)
    OBVIOUS
  <2>1. PICK r : Ranks(r, uPointer, Nullptr)
    BY <1>2 DEF Acyclic
  <2>2. h # q /\ x = uPointer[h]
    BY <1>5
  <2>3. r[x] < r[h]
    BY <2>1, <2>2, Unique_Places DEF Ranks
  <2>4. Ranks(r, uPointer', h)
    BY <2>1, <1>4, Unique_Places DEF Ranks
  <2> QED
    BY <2>3, <2>4 DEF Misses
<1>11. TakesNext(after', uPointer', uDeleter', origin', x)
  <2>1. Fitting(uPointer', uDeleter', origin', h)
    BY <1>1, <1>2, <1>4 DEF Fitting
  <2>2. uPointer'[h] # Nullptr => origin'[uPointer'[h]] = uDeleter'[q]
    BY <1>1, <1>2, <1>4
  <2>3. <<q, h>> # <<>>
    OBVIOUS
  <2> QED
    BY <2>1, <2>2, <2>3, <1>1, <1>7, <1>10 DEF TakesNext
<1>12. uDeleter' \in [PtrPlaces -> Deleters] /\ origin' \in [Owned -> Deleters] /\ wrong' = FALSE
  BY <1>1, <1>2
<1> QED
  BY <1>5, <1>6, <1>7, <1>8, <1>9, <1>11, <1>12, Unique_Calls

\* What the deletion of x leaves: what follows fits to the next object.
LEMMA Unique_Follows ==
  ASSUME NEW p, NEW del, NEW org, NEW x \in Owned, NEW lv, NEW hd, OwnedOnce(p, lv, hd, x), NEW seq,
         TakesNext(seq, p, del, org, x), NEW g, Sets(p, x, Nullptr, g), NEW dl, NEW og,
         \A k \in PtrPlaces : k # x => dl[k] = del[k],
         \A o \in Owned : o # x => og[o] = org[o]
  PROVE  /\ p[x] # Nullptr => og[p[x]] = del[x]
         /\ TakesNext(seq, g, dl, og, p[x])
<1>1. x \in PtrPlaces /\ x # Nullptr /\ Nullptr \notin PtrPlaces /\ g[x] = Nullptr
  BY Unique_Places DEF Sets
<1>2. p \in Pointings /\ \A k \in PtrPlaces : p[k] # Nullptr => p[k] \in Owned /\ p[k] # x
  BY DEF OwnedOnce
<1>3. \A k \in PtrPlaces : k # x => g[k] = p[k]
  BY DEF Sets
<1>4. CASE seq = <<>>
  <2>1. \A k \in PtrPlaces : p[k] # Nullptr => org[p[k]] = del[k]
    BY <1>4, <1>1 DEF TakesNext, Fitting
  <2>2. Fitting(g, dl, og, Nullptr)
    BY <2>1, <1>1, <1>2, <1>3 DEF Fitting
  <2> QED
    BY <2>1, <2>2, <1>1, <1>2, <1>4 DEF TakesNext
<1>5. CASE seq # <<>>
  <2>1. PICK q \in PtrPlaces, h \in PtrPlaces :
          /\ seq = <<q, h>> /\ Fitting(p, del, org, h)
          /\ p[h] # Nullptr => org[p[h]] = del[q]
          /\ x # Nullptr => q \in UniquePtrs /\ (h \in Owned => Misses(p, x, h))
    BY <1>5 DEF TakesNext
  <2>2. q # x /\ q \in UniquePtrs
    BY <2>1, <1>1, Unique_Places
  <2>3. ASSUME h \in Owned
        PROVE  x # h /\ (p[x] # Nullptr => Misses(g, p[x], h))
    <3>1. PICK r : Ranks(r, p, h) /\ r[x] < r[h]
      BY <2>1, <2>3, <1>1 DEF Misses
    <3>2. r[x] \in Nat /\ r[h] \in Nat
      BY <3>1, <2>3 DEF Ranks
    <3>3. x # h
      BY <3>1, <3>2
    <3>4. ASSUME p[x] # Nullptr PROVE Misses(g, p[x], h)
      <4>1. p[x] \in Owned /\ r[p[x]] \in Nat /\ r[p[x]] < r[x]
        BY <3>1, <3>3, <3>4, <1>1, <1>2 DEF Ranks
      <4>2. r[p[x]] < r[h]
        BY <4>1, <3>1, <3>2
      <4>3. Ranks(r, g, h)
        BY <3>1, <1>1, <1>3, Unique_Cleared
      <4> QED
        BY <4>2, <4>3 DEF Misses
    <3> QED
      BY <3>3, <3>4
  <2>4. x # h
    BY <2>3
  <2>5. Fitting(g, dl, og, h)
    <3> SUFFICES ASSUME NEW k \in PtrPlaces \ {h}, g[k] # Nullptr PROVE og[g[k]] = dl[k]
      BY DEF Fitting
    <3>1. k # x /\ g[k] = p[k] /\ dl[k] = del[k]
      BY <1>1, <1>3
    <3>2. p[k] \in Owned /\ p[k] # x /\ org[p[k]] = del[k]
      BY <3>1, <2>1, <1>2 DEF Fitting
    <3> QED
      BY <3>1, <3>2
  <2>6. g[h] # Nullptr => og[g[h]] = dl[q]
    BY <2>1, <2>2, <2>4, <1>2, <1>3
  <2>7. p[x] # Nullptr => q \in UniquePtrs /\ (h \in Owned => Misses(g, p[x], h))
    BY <2>2, <2>3
  <2>8. p[x] # Nullptr => og[p[x]] = del[x]
    BY <2>1, <2>4, <1>1, <1>2 DEF Fitting
  <2> QED
    BY <2>1, <2>5, <2>6, <2>7, <2>8, <1>5 DEF TakesNext
<1> QED
  BY <1>4, <1>5

\* The object is deleted with its deleter, and nobody points to it.
LEMMA Unique_Deletes ==
  ASSUME UniqueIInv, Unique_Delete
  PROVE  UniqueIInv'
<1>1. /\ wrong = FALSE /\ uDeleter \in [PtrPlaces -> Deleters] /\ origin \in [Owned -> Deleters]
      /\ Acyclic(uPointer) /\ dying # <<>>
  BY DEF UniqueIInv, Unique_Delete
<1>2. PICK x \in Owned \cup {Nullptr}, d \in Deleters :
        /\ IsDying(dying, x, d)
        /\ (x # Nullptr => origin[x] = d)
        /\ OwnedOnce(uPointer, live, handedOut, x)
        /\ TakesNext(after, uPointer, uDeleter, origin, x)
  BY DEF UniqueIInv
<1>3. x # Nullptr /\ x \in Owned /\ dying = << <<x, d>> >> /\ origin[x] = d
  BY <1>1, <1>2 DEF IsDying
<1>4. Head(dying)[1] = x /\ Head(dying)[2] = d /\ Tail(dying) = <<>>
  BY <1>3
<1> DEFINE y == uPointer[x]
           e == uDeleter[x]
<1>5. /\ wrong' = (wrong \/ x \notin live \/ origin[x] # d
                     \/ \E h \in UniquePtrs \cup live : uPointer[h] = x)
      /\ live' = live \ {x}
      /\ uPointer' = [uPointer EXCEPT ![x] = Nullptr]
      /\ uDeleter' = [uDeleter EXCEPT ![x] = SomeDeleter]
      /\ origin' = [origin EXCEPT ![x] = SomeDeleter]
      /\ dying' = (IF y = Nullptr THEN <<>> ELSE << <<y, e>> >> \o <<>>)
      /\ handedOut' = handedOut /\ after' = after
  BY <1>4 DEF Unique_Delete
<1>6. x \in live /\ \A h \in UniquePtrs \cup live : uPointer[h] # x
  BY <1>2, <1>3, Unique_Places DEF OwnedOnce
<1>7. wrong' = FALSE
  BY <1>1, <1>3, <1>5, <1>6
<1>8. x \in PtrPlaces /\ uPointer \in Pointings /\ Nullptr \in Owned \cup {Nullptr}
  BY <1>2, <1>3, Unique_Places DEF OwnedOnce
<1>9. Sets(uPointer, x, Nullptr, uPointer')
  BY <1>5, <1>8, Unique_Sets
<1>10. y \in Owned \cup {Nullptr} /\ e \in Deleters
  BY <1>1, <1>8 DEF Pointings
<1>11. uDeleter' \in [PtrPlaces -> Deleters] /\ origin' \in [Owned -> Deleters]
  BY <1>1, <1>5, Unique_Places
<1>12. Acyclic(uPointer')
  <2>1. PICK r : Ranks(r, uPointer, Nullptr)
    BY <1>1 DEF Acyclic
  <2>2. \A k \in PtrPlaces : uPointer'[k] = uPointer[k] \/ uPointer'[k] = Nullptr
    BY <1>9 DEF Sets
  <2>3. Ranks(r, uPointer', Nullptr)
    BY <2>1, <2>2, Unique_Cleared
  <2> QED
    BY <2>3 DEF Acyclic
<1>13. OwnedOnce(uPointer', live', handedOut', y)
  BY <1>2, <1>3, <1>5, <1>9, Unique_Deleted
<1>14. (y # Nullptr => origin'[y] = e) /\ TakesNext(after', uPointer', uDeleter', origin', y)
  <2>1. \A k \in PtrPlaces : k # x => uDeleter'[k] = uDeleter[k]
    BY <1>1, <1>5
  <2>2. \A o \in Owned : o # x => origin'[o] = origin[o]
    BY <1>1, <1>5
  <2>3. x \in Owned /\ OwnedOnce(uPointer, live, handedOut, x)
        /\ TakesNext(after, uPointer, uDeleter, origin, x)
    BY <1>2, <1>3
  <2>4. /\ uPointer[x] # Nullptr => origin'[uPointer[x]] = uDeleter[x]
        /\ TakesNext(after, uPointer', uDeleter', origin', uPointer[x])
    BY <2>1, <2>2, <2>3, <1>9, Unique_Follows
  <2> QED
    BY <2>4, <1>5
<1> HIDE DEF y, e
<1>15. IsDying(dying', y, e)
  BY <1>5, <1>10 DEF IsDying
<1> QED
  BY <1>7, <1>10, <1>11, <1>12, <1>13, <1>14, <1>15, Unique_Calls

\* The deleter of an assignment follows.
LEMMA Unique_TakesDeleter ==
  ASSUME UniqueIInv, Unique_TakeDeleter
  PROVE  UniqueIInv'
<1>1. /\ dying = <<>> /\ after # <<>> /\ after' = <<>>
      /\ uDeleter' = [uDeleter EXCEPT ![after[2]] = uDeleter[after[1]]]
      /\ uPointer' = uPointer /\ origin' = origin /\ live' = live
      /\ handedOut' = handedOut /\ dying' = dying /\ wrong' = wrong
  BY DEF Unique_TakeDeleter
<1>2. PICK x \in Owned \cup {Nullptr}, d \in Deleters :
        /\ IsDying(dying, x, d)
        /\ OwnedOnce(uPointer, live, handedOut, x)
        /\ TakesNext(after, uPointer, uDeleter, origin, x)
  BY DEF UniqueIInv
<1>3. x = Nullptr
  <2>1. << <<x, d>> >> # <<>>
    OBVIOUS
  <2> QED
    BY <2>1, <1>1, <1>2 DEF IsDying
<1>4. PICK q \in PtrPlaces, h \in PtrPlaces :
        /\ after = <<q, h>> /\ Fitting(uPointer, uDeleter, origin, h)
        /\ uPointer[h] # Nullptr => origin[uPointer[h]] = uDeleter[q]
  BY <1>1, <1>2 DEF TakesNext
<1>5. /\ wrong = FALSE /\ uDeleter \in [PtrPlaces -> Deleters] /\ origin \in [Owned -> Deleters]
      /\ Acyclic(uPointer)
  BY DEF UniqueIInv
<1>6. uDeleter' = [uDeleter EXCEPT ![h] = uDeleter[q]]
  BY <1>1, <1>4
<1>7. uDeleter' \in [PtrPlaces -> Deleters] /\ origin' \in [Owned -> Deleters]
  BY <1>1, <1>5, <1>6
<1>8. \A k \in PtrPlaces : uPointer'[k] # Nullptr => origin'[uPointer'[k]] = uDeleter'[k]
  BY <1>1, <1>4, <1>5, <1>6 DEF Fitting
<1>9. OwnedOnce(uPointer', live', handedOut', Nullptr) /\ Acyclic(uPointer')
  BY <1>1, <1>2, <1>3, <1>5
<1> QED
  BY <1>1, <1>5, <1>7, <1>8, <1>9, Unique_Quiet

\* UniqueIInv is inductive.
LEMMA Unique_Next == UniqueIInv /\ [UniqueNext]_uniqueVars => UniqueIInv'
<1> SUFFICES ASSUME UniqueIInv, [UniqueNext]_uniqueVars PROVE UniqueIInv'
  OBVIOUS
<1>1. CASE Unique_Delete
  BY <1>1, Unique_Deletes
<1>2. CASE Unique_TakeDeleter
  BY <1>2, Unique_TakesDeleter
<1>3. ASSUME NEW h \in PtrPlaces, Unique_Reset(h) PROVE UniqueIInv'
  BY <1>3, Unique_Resets
<1>4. ASSUME NEW h \in PtrPlaces, Unique_Release(h) PROVE UniqueIInv'
  BY <1>4, Unique_Releases
<1>5. ASSUME NEW h \in PtrPlaces, NEW o \in Owned, Unique_ResetTo(h, o) PROVE UniqueIInv'
  BY <1>5, Unique_ResetsTo
<1>6. ASSUME NEW h \in PtrPlaces, NEW o \in Owned, NEW d \in Deleters, Unique_Construct(h, o, d)
      PROVE  UniqueIInv'
  BY <1>6, Unique_Constructs
<1>7. ASSUME NEW h \in PtrPlaces, NEW q \in PtrPlaces, Unique_Move(h, q) \/ Unique_Swap(h, q)
      PROVE  UniqueIInv'
  BY <1>7, Unique_Exchanges
<1>8. ASSUME NEW h \in PtrPlaces, NEW q \in PtrPlaces, Unique_Assign(h, q) PROVE UniqueIInv'
  BY <1>8, Unique_Assigns
<1>9. CASE UNCHANGED uniqueVars
  BY <1>9 DEF uniqueVars, UniqueIInv, IsDying, OwnedOnce, Fitting, Ranks, Acyclic, Misses, TakesNext
<1> QED
  BY <1>1, <1>2, <1>3, <1>4, <1>5, <1>6, <1>7, <1>8, <1>9 DEF UniqueNext

\* The types.
LEMMA Unique_Types == UniqueIInv => UniqueTypeOK
<1> SUFFICES ASSUME UniqueIInv PROVE UniqueTypeOK
  OBVIOUS
<1>1. PICK x \in Owned \cup {Nullptr}, d \in Deleters :
        /\ IsDying(dying, x, d)
        /\ OwnedOnce(uPointer, live, handedOut, x)
        /\ TakesNext(after, uPointer, uDeleter, origin, x)
  BY DEF UniqueIInv
<1>2. dying \in Seq(Owned \X Deleters)
  <2>1. CASE x = Nullptr
    BY <2>1, <1>1 DEF IsDying
  <2>2. CASE x # Nullptr
    <3>1. dying = << <<x, d>> >> /\ <<x, d>> \in Owned \X Deleters
      BY <2>2, <1>1 DEF IsDying
    <3> QED
      BY <3>1
  <2> QED
    BY <2>1, <2>2
<1>3. after \in {<<>>} \cup (PtrPlaces \X PtrPlaces)
  BY <1>1 DEF TakesNext
<1> QED
  BY <1>1, <1>2, <1>3 DEF UniqueIInv, UniqueTypeOK, OwnedOnce, Pointings

\* Each object has one owner, or is being deleted.
LEMMA Unique_Owners ==
  ASSUME NEW p, NEW lv, NEW hd, NEW x, OwnedOnce(p, lv, hd, x), NEW d \in Deleters, NEW seq,
         IsDying(seq, x, d),
         NEW o \in lv
  PROVE  Cardinality({h \in UniquePtrs \cup lv : p[h] = o})
           + Cardinality({i \in DOMAIN seq : seq[i][1] = o}) = IF o \in hd THEN 0 ELSE 1
<1> DEFINE H == {h \in UniquePtrs \cup lv : p[h] = o}
           I == {i \in DOMAIN seq : seq[i][1] = o}
<1>1. /\ o # Nullptr /\ o \in Owned /\ lv \subseteq Owned /\ hd \subseteq lv
      /\ x \in (lv \ hd) \cup {Nullptr} /\ \A k \in UniquePtrs \cup lv : k \in PtrPlaces
  BY Unique_Places DEF OwnedOnce
<1>2. o \in hd \/ o = x => H = {}
  BY <1>1 DEF OwnedOnce
<1>3. ASSUME o \notin hd, o # x PROVE \E h : H = {h}
  <2>1. PICK h \in PtrPlaces : p[h] = o
    BY <1>3 DEF OwnedOnce
  <2>2. h \in UniquePtrs \cup lv
    BY <2>1, <1>1, Unique_Places DEF OwnedOnce
  <2>3. \A k \in H : k = h
    BY <2>1, <1>1 DEF OwnedOnce
  <2>4. H = {h}
    BY <2>1, <2>2, <2>3
  <2> QED
    BY <2>4
<1>4. o = x => I = {1}
  BY <1>1 DEF IsDying
<1>5. o # x => I = {}
  <2> SUFFICES ASSUME o # x, NEW i \in I PROVE FALSE
    OBVIOUS
  <2>1. CASE x = Nullptr
    BY <2>1 DEF IsDying
  <2>2. CASE x # Nullptr
    BY <2>2 DEF IsDying
  <2> QED
    BY <2>1, <2>2
<1> HIDE DEF H, I
<1>6. (H = {} => Cardinality(H) = 0) /\ (I = {} => Cardinality(I) = 0)
  BY FS_EmptySet
<1>7. ((\E h : H = {h}) => Cardinality(H) = 1) /\ (I = {1} => Cardinality(I) = 1)
  BY FS_Singleton
<1>8. o \in hd => o # x /\ Cardinality(H) = 0 /\ Cardinality(I) = 0
  BY <1>1, <1>2, <1>5, <1>6
<1>9. o = x => Cardinality(H) = 0 /\ Cardinality(I) = 1
  BY <1>2, <1>4, <1>6, <1>7
<1>10. o \notin hd /\ o # x => Cardinality(H) = 1 /\ Cardinality(I) = 0
  BY <1>3, <1>5, <1>6, <1>7
<1>11. Cardinality(H) + Cardinality(I) = IF o \in hd THEN 0 ELSE 1
  BY <1>8, <1>9, <1>10
<1> QED
  BY <1>11 DEF H, I

\* The invariant is what UniqueExact asks for.
LEMMA Unique_Exact == UniqueIInv => UniqueExact
<1> SUFFICES ASSUME UniqueIInv PROVE UniqueExact
  OBVIOUS
<1>1. PICK x \in Owned \cup {Nullptr}, d \in Deleters :
        /\ IsDying(dying, x, d)
        /\ OwnedOnce(uPointer, live, handedOut, x)
  BY DEF UniqueIInv
<1>2. ASSUME NEW o \in live
      PROVE  Cardinality({h \in UniquePtrs \cup live : uPointer[h] = o})
               + Cardinality({i \in DOMAIN dying :
                   dying[i][1] = o}) = IF o \in handedOut THEN 0 ELSE 1
  BY <1>1, Unique_Owners
<1>3. ASSUME dying = <<>>, after = <<>>, NEW h \in UniquePtrs \cup live, uPointer[h] # Nullptr
      PROVE  origin[uPointer[h]] = uDeleter[h]
  BY <1>1, <1>3, Unique_Idle, Unique_Places DEF OwnedOnce
<1>4. ~wrong
  BY DEF UniqueIInv
<1> QED
  BY <1>2, <1>3, <1>4 DEF UniqueExact

\* Each object has exactly one owner and is deleted once, with the deleter it belongs to,
\* also when pointers are members of objects (_armcc/_memory.hpp, unique_ptr).
THEOREM UniqueCorrect == UniqueSpec => [](UniqueTypeOK /\ UniqueExact)
<1>1. UniqueIInv => UniqueTypeOK /\ UniqueExact
  BY Unique_Types, Unique_Exact
<1> QED
  BY <1>1, Unique_Init, Unique_Next, PTL DEF UniqueSpec
-----------------------------------------------------------------------------
\* What a function can hold.
Callables == Small \cup Large

\* The memory of the function objects is sound, with these pointers and callables.
IsMemory(s, i, a) ==
  DOMAIN s = {"invoker", "at", "bad"} /\ s.invoker = i /\ s.at = a /\ s.bad = FALSE

\* A callable is made where none lives ...
LEMMA Fn_Make ==
  ASSUME NEW s, NEW i, NEW a, NEW c, NEW to, IsMemory(s, i, a), a[to] = NoCallable
  PROVE  IsMemory(Make(s, c, to), i, [a EXCEPT ![to] = c])
<1> DEFINE r == Make(s, c, to)
<1>1. DOMAIN s = {"invoker", "at", "bad"} /\ s.invoker = i /\ s.at = a /\ s.bad = FALSE
  BY DEF IsMemory
<1>2. DOMAIN r = {"invoker", "at", "bad"} /\ r.invoker = s.invoker /\ r.at = [s.at EXCEPT ![to] = c]
  BY <1>1, Zenon DEF Make
<1>3. r.bad = (s.bad \/ s.at[to] # NoCallable)
  BY <1>1, Zenon DEF Make
<1>4. (s.bad \/ s.at[to] # NoCallable) = FALSE
  BY <1>1
<1> HIDE DEF r
<1> QED
  BY <1>1, <1>2, <1>3, <1>4, Zenon DEF IsMemory, r

\* ... copied from a place where one lives ...
LEMMA Fn_Clone ==
  ASSUME NEW s, NEW i, NEW a, NEW from, NEW to, IsMemory(s, i, a),
         a[to] = NoCallable, a[from] # NoCallable
  PROVE  IsMemory(CloneTo(s, from, to), i, [a EXCEPT ![to] = a[from]])
<1> DEFINE m == Make(s, s.at[from], to)
           r == CloneTo(s, from, to)
<1>1. s.at = a
  BY DEF IsMemory
<1>2. IsMemory(m, i, [a EXCEPT ![to] = a[from]])
  BY <1>1, Fn_Make
<1>3. DOMAIN m = {"invoker", "at", "bad"}
  BY <1>2 DEF IsMemory
<1>4. r = [m EXCEPT !.bad = @ \/ s.at[from] = NoCallable]
  BY DEF CloneTo
<1> HIDE DEF m, r
<1>5. DOMAIN r = {"invoker", "at", "bad"} /\ r.invoker = m.invoker /\ r.at = m.at
      /\ r.bad = (m.bad \/ s.at[from] = NoCallable)
  BY <1>3, <1>4, Zenon
<1>6. m.bad = FALSE /\ ~(s.at[from] = NoCallable)
  BY <1>1, <1>2 DEF IsMemory
<1>7. (m.bad \/ s.at[from] = NoCallable) = FALSE
  BY <1>6
<1> QED
  BY <1>2, <1>5, <1>7, Zenon DEF IsMemory, r

\* ... and destroyed where one lives.
LEMMA Fn_Destroy ==
  ASSUME NEW s, NEW i, NEW a, NEW p, IsMemory(s, i, a), a[p] # NoCallable
  PROVE  IsMemory(DestroyAt(s, p), i, [a EXCEPT ![p] = NoCallable])
<1> DEFINE r == DestroyAt(s, p)
<1>1. DOMAIN s = {"invoker", "at", "bad"} /\ s.invoker = i /\ s.at = a /\ s.bad = FALSE
  BY DEF IsMemory
<1>2. DOMAIN r = {"invoker", "at", "bad"} /\ r.invoker = s.invoker
      /\ r.at = [s.at EXCEPT ![p] = NoCallable]
  BY <1>1, Zenon DEF DestroyAt
<1>3. r.bad = (s.bad \/ s.at[p] = NoCallable)
  BY <1>1, Zenon DEF DestroyAt
<1>4. (s.bad \/ s.at[p] = NoCallable) = FALSE
  BY <1>1
<1> HIDE DEF r
<1> QED
  BY <1>1, <1>2, <1>3, <1>4, Zenon DEF IsMemory, r

\* A function object points somewhere.
LEMMA Fn_Point ==
  ASSUME NEW s, NEW i, NEW a, NEW f, NEW p, IsMemory(s, i, a)
  PROVE  IsMemory(PointTo(s, f, p), [i EXCEPT ![f] = p], a)
<1> DEFINE r == PointTo(s, f, p)
<1>1. DOMAIN s = {"invoker", "at", "bad"} /\ s.invoker = i /\ s.at = a /\ s.bad = FALSE
  BY DEF IsMemory
<1>2. DOMAIN r = {"invoker", "at", "bad"} /\ r.at = s.at /\ r.bad = s.bad
      /\ r.invoker = [s.invoker EXCEPT ![f] = p]
  BY <1>1, Zenon DEF PointTo
<1> HIDE DEF r
<1> QED
  BY <1>1, <1>2, Zenon DEF IsMemory, r

\* Who owns what: each function object points to a callable of its own, in its storage or
\* on the heap, or to nothing, and no other callables live.
Ownership(i, a) ==
  /\ i \in [FunctionObjects -> FunctionObjects \cup Heap \cup {NoCallable}]
  /\ a \in [Places -> Callables \cup {NoCallable}]
  /\ \A f \in FunctionObjects : i[f] \in {f, NoCallable} \cup Heap
  /\ \A f, g \in FunctionObjects : i[f] = i[g] /\ i[f] # NoCallable => f = g
  /\ \A f \in FunctionObjects : i[f] # NoCallable => a[i[f]] # NoCallable
  /\ \A p \in Places : a[p] # NoCallable => \E f \in FunctionObjects : i[f] = p

\* The callable that the function object f holds.
CallableHolds(i, a, f) == IF i[f] = NoCallable THEN NoCallable ELSE a[i[f]]

\* Nobody owns the storage of a function that is empty or has its callable on the heap,
\* or that of a call.
LEMMA Fn_Storage ==
  ASSUME NEW i, NEW a, Ownership(i, a)
  PROVE  /\ \A f \in FunctionObjects : i[f] # f => a[f] = NoCallable
         /\ a[tempStorage] = NoCallable
<1>1. ASSUME NEW f \in FunctionObjects, i[f] # f PROVE a[f] = NoCallable
  <2>1. f \in Places /\ f \notin Heap /\ f # NoCallable
    BY PlacesDiffer, NoCallableIsNew DEF Places
  <2>2. \A g \in FunctionObjects : i[g] # f
    BY <1>1, <2>1 DEF Ownership
  <2> QED
    BY <2>1, <2>2 DEF Ownership
<1>2. a[tempStorage] = NoCallable
  <2>1. tempStorage \in Places /\ tempStorage \notin FunctionObjects \cup Heap \cup {NoCallable}
    BY PlacesDiffer, NoCallableIsNew DEF Places
  <2>2. \A g \in FunctionObjects : i[g] # tempStorage
    BY <2>1 DEF Ownership
  <2> QED
    BY <2>1, <2>2 DEF Ownership
<1> QED
  BY <1>1, <1>2

\* The function object f gets the place p, and c lives there.
GetsCallable(i, a, f, p, c, j, b) == j = [i EXCEPT ![f] = p] /\ b = [a EXCEPT ![p] = c]

\* An empty function gets a callable of its own.
LEMMA Fn_New ==
  ASSUME NEW i, NEW a, Ownership(i, a), NEW f \in FunctionObjects, i[f] = NoCallable,
         NEW p, p \in {f} \cup Heap, a[p] = NoCallable, NEW c \in Callables,
         NEW j, NEW b, GetsCallable(i, a, f, p, c, j, b)
  PROVE  /\ Ownership(j, b) /\ CallableHolds(j, b, f) = c
         /\ \A g \in FunctionObjects \ {f} :
                j[g] = i[g] /\ CallableHolds(j, b, g) = CallableHolds(i, a, g)
<1>1. /\ i \in [FunctionObjects -> FunctionObjects \cup Heap \cup {NoCallable}]
      /\ a \in [Places -> Callables \cup {NoCallable}]
  BY DEF Ownership
<1>2. j = [i EXCEPT ![f] = p] /\ b = [a EXCEPT ![p] = c]
  BY DEF GetsCallable
<1>3. p \in Places /\ p # NoCallable /\ c # NoCallable
  BY NoCallableIsNew DEF Places, Callables
<1>4. j[f] = p /\ \A g \in FunctionObjects \ {f} : j[g] = i[g] /\ i[g] # p
  BY <1>2, <1>1, <1>3 DEF Ownership
<1>5. b[p] = c /\ \A q \in Places \ {p} : b[q] = a[q]
  BY <1>2, <1>1, <1>3
<1>6. /\ j \in [FunctionObjects -> FunctionObjects \cup Heap \cup {NoCallable}]
      /\ b \in [Places -> Callables \cup {NoCallable}]
  BY <1>2, <1>1
<1>7. Ownership(j, b)
  <2>1. \A g \in FunctionObjects : j[g] \in {g, NoCallable} \cup Heap
    BY <1>4 DEF Ownership
  <2>2. \A g, h \in FunctionObjects : j[g] = j[h] /\ j[g] # NoCallable => g = h
    BY <1>4 DEF Ownership
  <2>3. \A g \in FunctionObjects : j[g] # NoCallable => b[j[g]] # NoCallable
    <3>1. \A g \in FunctionObjects : i[g] # NoCallable => i[g] \in Places /\ a[i[g]] # NoCallable
      BY <1>1 DEF Ownership, Places
    <3> QED
      BY <1>3, <1>4, <1>5, <3>1
  <2>4. \A q \in Places : b[q] # NoCallable => \E g \in FunctionObjects : j[g] = q
    <3>1. ASSUME NEW q \in Places, b[q] # NoCallable, q # p
          PROVE  \E g \in FunctionObjects : j[g] = q
      <4>1. PICK g \in FunctionObjects : i[g] = q
        BY <3>1, <1>5 DEF Ownership
      <4>2. g # f
        BY <4>1, <3>1, NoCallableIsNew DEF Places
      <4> QED
        BY <4>1, <4>2, <1>4
    <3> QED
      BY <3>1, <1>4
  <2> QED
    BY <1>6, <2>1, <2>2, <2>3, <2>4 DEF Ownership
<1>8. CallableHolds(j, b, f) = c
  BY <1>3, <1>4, <1>5 DEF CallableHolds
<1>9. \A g \in FunctionObjects \ {f} :
          j[g] = i[g] /\ CallableHolds(j, b, g) = CallableHolds(i, a, g)
  <2>1. \A g \in FunctionObjects : i[g] # NoCallable => i[g] \in Places
    BY <1>1 DEF Places
  <2> QED
    BY <2>1, <1>4, <1>5 DEF CallableHolds
<1> QED
  BY <1>7, <1>8, <1>9

\* The function object f points nowhere, and nothing lives where it pointed.
Drops(i, a, f, j, b) == j = [i EXCEPT ![f] = NoCallable] /\ b = [a EXCEPT ![i[f]] = NoCallable]

\* A function destroys its callable.
LEMMA Fn_Drop ==
  ASSUME NEW i, NEW a, Ownership(i, a), NEW f \in FunctionObjects, i[f] # NoCallable,
         NEW j, NEW b, Drops(i, a, f, j, b)
  PROVE  /\ Ownership(j, b) /\ j[f] = NoCallable
         /\ \A g \in FunctionObjects \ {f} :
                j[g] = i[g] /\ CallableHolds(j, b, g) = CallableHolds(i, a, g)
<1> DEFINE p == i[f]
<1>1. j = [i EXCEPT ![f] = NoCallable] /\ b = [a EXCEPT ![p] = NoCallable]
  BY DEF Drops
<1>2. /\ i \in [FunctionObjects -> FunctionObjects \cup Heap \cup {NoCallable}]
      /\ a \in [Places -> Callables \cup {NoCallable}]
  BY DEF Ownership
<1>3. p \in Places /\ p # NoCallable
  BY <1>2 DEF Places
<1>4. j[f] = NoCallable /\ \A g \in FunctionObjects \ {f} : j[g] = i[g] /\ i[g] # p
  BY <1>1, <1>2, <1>3 DEF Ownership
<1>5. b[p] = NoCallable /\ \A q \in Places \ {p} : b[q] = a[q]
  BY <1>1, <1>2, <1>3
<1>6. /\ j \in [FunctionObjects -> FunctionObjects \cup Heap \cup {NoCallable}]
      /\ b \in [Places -> Callables \cup {NoCallable}]
  BY <1>1, <1>2
<1>7. i[f] = p
  OBVIOUS
<1> HIDE DEF p
<1>8. Ownership(j, b)
  <2>1. \A g \in FunctionObjects : j[g] \in {g, NoCallable} \cup Heap
    BY <1>4 DEF Ownership
  <2>2. \A g, h \in FunctionObjects : j[g] = j[h] /\ j[g] # NoCallable => g = h
    BY <1>4 DEF Ownership
  <2>3. \A g \in FunctionObjects : j[g] # NoCallable => b[j[g]] # NoCallable
    <3>1. \A g \in FunctionObjects : i[g] # NoCallable => i[g] \in Places /\ a[i[g]] # NoCallable
      BY <1>2 DEF Ownership, Places
    <3> QED
      BY <1>3, <1>4, <1>5, <3>1
  <2>4. \A q \in Places : b[q] # NoCallable => \E g \in FunctionObjects : j[g] = q
    <3>1. ASSUME NEW q \in Places, b[q] # NoCallable PROVE \E g \in FunctionObjects : j[g] = q
      <4>1. q # p
        BY <3>1, <1>5
      <4>2. PICK g \in FunctionObjects : i[g] = q
        BY <3>1, <4>1, <1>5 DEF Ownership
      <4>3. g # f
        BY <4>1, <4>2, <1>7
      <4> QED
        BY <4>2, <4>3, <1>4
    <3> QED
      BY <3>1
  <2> QED
    BY <1>6, <2>1, <2>2, <2>3, <2>4 DEF Ownership
<1>9. \A g \in FunctionObjects \ {f} :
          j[g] = i[g] /\ CallableHolds(j, b, g) = CallableHolds(i, a, g)
  <2>1. \A g \in FunctionObjects : i[g] # NoCallable => i[g] \in Places
    BY <1>2 DEF Places
  <2> QED
    BY <2>1, <1>4, <1>5 DEF CallableHolds
<1> QED
  BY <1>4, <1>8, <1>9

\* Two functions change places: what lay in the storage of one lies in that of the other.
Exchanged(i, a, f, g, j, b) ==
  /\ j \in [FunctionObjects -> FunctionObjects \cup Heap \cup {NoCallable}]
  /\ b \in [Places -> Callables \cup {NoCallable}]
  /\ \A h \in FunctionObjects \ {f, g} : j[h] = i[h]
  /\ \A q \in Places \ {f, g} : b[q] = a[q]
  /\ j[f] = IF i[g] = g THEN f ELSE i[g]
  /\ j[g] = IF i[f] = f THEN g ELSE i[f]
  /\ b[f] = IF i[g] = g THEN a[g] ELSE NoCallable
  /\ b[g] = IF i[f] = f THEN a[f] ELSE NoCallable

\* One of the two, with the other one f.
LEMMA Fn_ExchangedHolds ==
  ASSUME NEW i, NEW a, Ownership(i, a), NEW f \in FunctionObjects, NEW g \in FunctionObjects,
         f # g, NEW j, NEW b, Exchanged(i, a, f, g, j, b)
  PROVE  /\ CallableHolds(j, b, f) = CallableHolds(i, a, g)
         /\ j[f] \in {f, NoCallable} \cup Heap
         /\ j[f] # NoCallable => b[j[f]] # NoCallable
         /\ i[g] # g => j[f] = i[g]
         /\ j[f] = f <=> i[g] = g
<1>1. f # NoCallable /\ g # NoCallable /\ f \notin Heap /\ g \notin Heap
  BY PlacesDiffer, NoCallableIsNew
<1>2. i[g] \in {g, NoCallable} \cup Heap
  BY DEF Ownership
<1>3. i[g] # NoCallable => a[i[g]] # NoCallable
  BY DEF Ownership
<1>4. j[f] = IF i[g] = g THEN f ELSE i[g]
  BY DEF Exchanged
<1>5. b[f] = IF i[g] = g THEN a[g] ELSE NoCallable
  BY DEF Exchanged
<1>6. \A q \in Places \ {f, g} : b[q] = a[q]
  BY DEF Exchanged
<1>7. CASE i[g] = g
  BY <1>1, <1>3, <1>4, <1>5, <1>7 DEF CallableHolds
<1>8. CASE i[g] # g
  <2>1. j[f] = i[g] /\ i[g] \in {NoCallable} \cup Heap
    BY <1>2, <1>4, <1>8
  <2>2. i[g] # NoCallable => i[g] \in Places \ {f, g}
    BY <1>1, <2>1 DEF Places
  <2> QED
    BY <1>1, <1>3, <1>6, <1>8, <2>1, <2>2 DEF CallableHolds
<1> QED
  BY <1>7, <1>8

\* The two functions have changed what they hold.
LEMMA Fn_Exchange ==
  ASSUME NEW i, NEW a, Ownership(i, a), NEW f \in FunctionObjects, NEW g \in FunctionObjects,
         f # g, NEW j, NEW b, Exchanged(i, a, f, g, j, b)
  PROVE  /\ Ownership(j, b)
         /\ CallableHolds(j, b, f) = CallableHolds(i, a, g)
                /\ CallableHolds(j, b, g) = CallableHolds(i, a, f)
         /\ \A h \in FunctionObjects \ {f, g} :
                j[h] = i[h] /\ CallableHolds(j, b, h) = CallableHolds(i, a, h)
<1>1. Exchanged(i, a, g, f, j, b)
  BY DEF Exchanged
<1>2. /\ CallableHolds(j, b, f) = CallableHolds(i, a, g)
      /\ j[f] \in {f, NoCallable} \cup Heap
      /\ j[f] # NoCallable => b[j[f]] # NoCallable
      /\ i[g] # g => j[f] = i[g]
      /\ j[f] = f <=> i[g] = g
  BY Fn_ExchangedHolds
<1>3. /\ CallableHolds(j, b, g) = CallableHolds(i, a, f)
      /\ j[g] \in {g, NoCallable} \cup Heap
      /\ j[g] # NoCallable => b[j[g]] # NoCallable
      /\ i[f] # f => j[g] = i[f]
      /\ j[g] = g <=> i[f] = f
  BY <1>1, Fn_ExchangedHolds
<1>4. ASSUME NEW h \in FunctionObjects \ {f, g}
      PROVE  /\ j[h] = i[h] /\ CallableHolds(j, b, h) = CallableHolds(i, a, h)
             /\ j[h] \in {h, NoCallable} \cup Heap /\ (j[h] # NoCallable => b[j[h]] # NoCallable)
  <2>1. j[h] = i[h] /\ i[h] \in {h, NoCallable} \cup Heap
    BY DEF Exchanged, Ownership
  <2>2. i[h] # NoCallable => i[h] \in Places \ {f, g} /\ a[i[h]] # NoCallable
    BY <2>1, PlacesDiffer DEF Places, Ownership
  <2>3. i[h] # NoCallable => b[i[h]] = a[i[h]]
    BY <2>2 DEF Exchanged
  <2> QED
    BY <2>1, <2>2, <2>3 DEF CallableHolds
<1>5. \A h, k \in FunctionObjects : i[h] = i[k] /\ i[h] # NoCallable => h = k
  BY DEF Ownership
<1>6. \A h, k \in FunctionObjects : j[h] = j[k] /\ j[h] # NoCallable => h = k
  <2>1. ASSUME NEW h \in FunctionObjects \ {f, g}, j[h] # NoCallable
        PROVE  j[h] # j[f] /\ j[h] # j[g]
    <3>1. j[h] = i[h] /\ i[h] \in {h} \cup Heap
      BY <2>1, <1>4
    <3>2. f \notin Heap /\ g \notin Heap /\ h # f /\ h # g
      BY PlacesDiffer
    <3>3. CASE j[f] = f
      BY <3>1, <3>2, <3>3, <1>5, <1>3, <2>1
    <3>4. CASE j[f] # f /\ j[g] # g
      BY <3>1, <3>4, <1>2, <1>3, <1>5, <2>1
    <3>5. CASE j[g] = g
      BY <3>1, <3>2, <3>5, <1>5, <1>2, <2>1
    <3> QED
      BY <3>3, <3>4, <3>5
  <2>2. j[f] = j[g] => j[f] = NoCallable
    <3>1. f \notin Heap /\ g \notin Heap /\ f # NoCallable /\ g # NoCallable
      BY PlacesDiffer, NoCallableIsNew
    <3>2. CASE j[f] = f
      BY <3>1, <3>2, <1>3
    <3>3. CASE j[g] = g
      BY <3>1, <3>3, <1>2
    <3>4. CASE j[f] # f /\ j[g] # g
      BY <3>4, <1>2, <1>3, <1>5
    <3> QED
      BY <3>2, <3>3, <3>4
  <2>3. \A h, k \in FunctionObjects \ {f, g} : j[h] = j[k] /\ j[h] # NoCallable => h = k
    BY <1>4, <1>5
  <2> QED
    BY <2>1, <2>2, <2>3
<1>7. ASSUME NEW q \in Places, b[q] # NoCallable PROVE \E h \in FunctionObjects : j[h] = q
  <2>1. CASE q = f
    <3>1. i[g] = g
      BY <2>1, <1>7 DEF Exchanged
    <3> QED
      BY <2>1, <3>1, <1>2
  <2>2. CASE q = g
    <3>1. i[f] = f
      BY <2>2, <1>7 DEF Exchanged
    <3> QED
      BY <2>2, <3>1, <1>3
  <2>3. CASE q \notin {f, g}
    <3>1. a[q] # NoCallable
      BY <2>3, <1>7 DEF Exchanged
    <3>2. PICK h \in FunctionObjects : i[h] = q
      BY <3>1 DEF Ownership
    <3>3. CASE h \in FunctionObjects \ {f, g}
      BY <3>2, <3>3, <1>4
    <3>4. CASE h = f
      BY <3>2, <3>4, <2>3, <1>3
    <3>5. CASE h = g
      BY <3>2, <3>5, <2>3, <1>2
    <3> QED
      BY <3>3, <3>4, <3>5
  <2> QED
    BY <2>1, <2>2, <2>3
<1>8. /\ j \in [FunctionObjects -> FunctionObjects \cup Heap \cup {NoCallable}]
      /\ b \in [Places -> Callables \cup {NoCallable}]
  BY DEF Exchanged
<1>9. \A h \in FunctionObjects : j[h] \in {h, NoCallable} \cup Heap /\ (j[h] # NoCallable =>
          b[j[h]] # NoCallable)
  BY <1>2, <1>3, <1>4
<1>10. Ownership(j, b)
  BY <1>6, <1>7, <1>8, <1>9 DEF Ownership
<1> QED
  BY <1>2, <1>3, <1>4, <1>10

\* The memory is sound, and the functions own what lives in it.
SoundMemory(s) == IsMemory(s, s.invoker, s.at) /\ Ownership(s.invoker, s.at)

\* What f holds is a callable.
ValueOf(s, f) == CallableHolds(s.invoker, s.at, f)

\* The function objects other than those in changed are as before.
OthersKeep(s, t, changed) ==
  \A g \in FunctionObjects \ changed :
     t.invoker[g] = s.invoker[g] /\ ValueOf(t, g) = ValueOf(s, g)

\* A memory with given contents.
LEMMA Fn_IsSound ==
  ASSUME NEW s, NEW i, NEW a, IsMemory(s, i, a), Ownership(i, a)
  PROVE  SoundMemory(s) /\ s.invoker = i /\ s.at = a
<1>1. s.invoker = i /\ s.at = a
  BY DEF IsMemory
<1> QED
  BY <1>1 DEF SoundMemory

\* allocate() finds a block, as long as one function object is empty.
LEMMA Fn_Block ==
  ASSUME NEW s, SoundMemory(s), s.invoker[Temporary] = NoCallable
  PROVE  NewBlock(s) \in Heap /\ s.at[NewBlock(s)] = NoCallable
<1> DEFINE i == s.invoker
           a == s.at
<1>1. Ownership(i, a)
  BY DEF SoundMemory
<1> HIDE DEF i, a
<1>2. \E p \in Heap : a[p] = NoCallable
  <2> SUFFICES ASSUME \A p \in Heap : a[p] # NoCallable PROVE FALSE
    OBVIOUS
  <2>1. \A p \in Heap : \E f \in FunctionObjects : i[f] = p
    BY <1>1 DEF Ownership, Places
  <2>2. \A p \in Heap : \E f \in Functions : i[f] = p
    BY <2>1, NoCallableIsNew DEF FunctionObjects, i
  <2> DEFINE owner == [p \in Heap |-> CHOOSE f \in Functions : i[f] = p]
  <2>3. \A p \in Heap : owner[p] \in Functions /\ i[owner[p]] = p
    BY <2>2
  <2>4. owner \in [Heap -> Functions]
    BY <2>3
  <2> HIDE DEF owner
  <2>5. owner \in Injection(Heap, Functions)
    BY <2>3, <2>4 DEF Injection, IsInjective
  <2>6. Cardinality(Heap) <= Cardinality(Functions)
    BY <2>5, FS_Injection, HeapSuffices
  <2>7. Cardinality(Heap) \in Nat /\ Cardinality(Functions) \in Nat
    BY FS_CardinalityType, HeapSuffices
  <2> QED
    BY <2>6, <2>7, HeapSuffices
<1> QED
  BY <1>2 DEF NewBlock, a

\* An empty function gets a callable, where the code puts it.
LEMMA Fn_Gets ==
  ASSUME NEW s, SoundMemory(s), NEW f \in FunctionObjects, s.invoker[f] = NoCallable,
         NEW p, p \in {f} \cup Heap, s.at[p] = NoCallable, NEW c \in Callables,
         NEW j, NEW b, GetsCallable(s.invoker, s.at, f, p, c, j, b), NEW t, IsMemory(t, j, b)
  PROVE  SoundMemory(t) /\ ValueOf(t, f) = c /\ OthersKeep(s, t, {f})
<1> DEFINE i == s.invoker
           a == s.at
<1>1. /\ Ownership(i, a) /\ i[f] = NoCallable /\ a[p] = NoCallable
      /\ GetsCallable(i, a, f, p, c, j, b)
  BY DEF SoundMemory
<1>2. /\ Ownership(j, b) /\ CallableHolds(j, b, f) = c
      /\ \A g \in FunctionObjects \ {f} :
             j[g] = i[g] /\ CallableHolds(j, b, g) = CallableHolds(i, a, g)
  <2> HIDE DEF i, a
  <2> QED
    BY <1>1, Fn_New
<1>3. SoundMemory(t) /\ t.invoker = j /\ t.at = b
  BY <1>2, Fn_IsSound
<1> QED
  BY <1>2, <1>3 DEF ValueOf, OthersKeep

\* The storage of an empty function is free.
LEMMA Fn_OwnStorage ==
  ASSUME NEW s, SoundMemory(s), NEW f \in FunctionObjects, s.invoker[f] # f
  PROVE  s.at[f] = NoCallable
BY Fn_Storage DEF SoundMemory

\* function(TCallable)
LEMMA Fn_Constructed ==
  ASSUME NEW s, SoundMemory(s), NEW f \in FunctionObjects, s.invoker[f] = NoCallable,
         s.invoker[Temporary] = NoCallable, NEW c \in Callables \cup {NoCallable}
  PROVE  LET t == Constructed(s, f, c)
         IN  SoundMemory(t) /\ ValueOf(t, f) = c /\ OthersKeep(s, t, {f})
<1> DEFINE t == Constructed(s, f, c)
           p == IF c \in Small THEN f ELSE NewBlock(s)
<1>1. IsMemory(s, s.invoker, s.at) /\ Ownership(s.invoker, s.at)
  BY DEF SoundMemory
<1>2. CASE c = NoCallable
  <2>1. IsMemory(t, [s.invoker EXCEPT ![f] = NoCallable], s.at)
    BY <1>1, <1>2, Fn_Point DEF Constructed
  <2>2. [s.invoker EXCEPT ![f] = NoCallable] = s.invoker
    BY <1>1 DEF Ownership
  <2> HIDE DEF t
  <2>3. SoundMemory(t) /\ t.invoker = s.invoker /\ t.at = s.at
    BY <1>1, <2>1, <2>2, Fn_IsSound
  <2>4. ValueOf(t, f) = NoCallable
    BY <2>3 DEF ValueOf, CallableHolds
  <2>5. OthersKeep(s, t, {f})
    BY <2>3 DEF OthersKeep, ValueOf
  <2> QED
    BY <1>2, <2>3, <2>4, <2>5 DEF t
<1>3. CASE c # NoCallable
  <2>1. p \in {f} \cup Heap /\ s.at[p] = NoCallable
    <3>1. NewBlock(s) \in Heap /\ s.at[NewBlock(s)] = NoCallable
      BY Fn_Block
    <3>2. s.at[f] = NoCallable
      BY Fn_OwnStorage, NoCallableIsNew
    <3> QED
      BY <3>1, <3>2
  <2>2. t = Make(PointTo(s, f, p), c, p)
    BY <1>3 DEF Constructed
  <2> DEFINE j == [s.invoker EXCEPT ![f] = p]
             b == [s.at EXCEPT ![p] = c]
  <2> HIDE DEF t, p
  <2>3. IsMemory(PointTo(s, f, p), [s.invoker EXCEPT ![f] = p], s.at)
    BY <1>1, Fn_Point
  <2>4. IsMemory(t, j, b) /\ GetsCallable(s.invoker, s.at, f, p, c, j, b)
    BY <2>1, <2>2, <2>3, Fn_Make DEF GetsCallable
  <2>5. c \in Callables
    BY <1>3
  <2> HIDE DEF j, b
  <2>6. SoundMemory(t) /\ ValueOf(t, f) = c /\ OthersKeep(s, t, {f})
    BY <2>1, <2>4, <2>5, Fn_Gets
  <2> QED
    BY <2>6 DEF t
<1> QED
  BY <1>2, <1>3

\* A function object that is not empty holds a callable.
LEMMA Fn_HoldsOne ==
  ASSUME NEW s, SoundMemory(s), NEW g \in FunctionObjects, s.invoker[g] # NoCallable
  PROVE  /\ s.invoker[g] \in Places /\ s.at[s.invoker[g]] \in Callables
         /\ ValueOf(s, g) = s.at[s.invoker[g]] /\ s.at[s.invoker[g]] # NoCallable
<1>1. s.invoker[g] \in Places
  BY DEF SoundMemory, Ownership, Places
<1>2. s.at[s.invoker[g]] # NoCallable /\ s.at \in [Places -> Callables \cup {NoCallable}]
  BY DEF SoundMemory, Ownership
<1> QED
  BY <1>1, <1>2 DEF ValueOf, CallableHolds

\* A callable of g is cloned to the place of an empty function f.
LEMMA Fn_Clones ==
  ASSUME NEW s, SoundMemory(s), NEW f \in FunctionObjects, s.invoker[f] = NoCallable,
         NEW g \in FunctionObjects, s.invoker[g] # NoCallable,
         NEW p, p \in {f} \cup Heap, s.at[p] = NoCallable
  PROVE  LET t == CloneTo(PointTo(s, f, p), s.invoker[g], p)
         IN  SoundMemory(t) /\ ValueOf(t, f) = ValueOf(s, g) /\ OthersKeep(s, t, {f})
<1> DEFINE c == s.at[s.invoker[g]]
           t == CloneTo(PointTo(s, f, p), s.invoker[g], p)
<1>1. c \in Callables /\ c # NoCallable /\ ValueOf(s, g) = c
  BY Fn_HoldsOne
<1>2. IsMemory(PointTo(s, f, p), [s.invoker EXCEPT ![f] = p], s.at)
  BY Fn_Point DEF SoundMemory
<1>3. IsMemory(t, [s.invoker EXCEPT ![f] = p], [s.at EXCEPT ![p] = c])
  BY <1>1, <1>2, Fn_Clone
<1> DEFINE j == [s.invoker EXCEPT ![f] = p]
           b == [s.at EXCEPT ![p] = c]
<1>4. GetsCallable(s.invoker, s.at, f, p, c, j, b) /\ IsMemory(t, j, b)
  BY <1>3 DEF GetsCallable
<1>5. SoundMemory(s) /\ p \in {f} \cup Heap /\ s.at[p] = NoCallable /\ c \in Callables
      /\ s.invoker[f] = NoCallable
  BY <1>1
<1> HIDE DEF c, t, j, b
<1>6. SoundMemory(t) /\ ValueOf(t, f) = c /\ OthersKeep(s, t, {f})
  BY <1>4, <1>5, Fn_Gets, Zenon
<1> QED
  BY <1>1, <1>6 DEF t

\* function(const function&)
LEMMA Fn_Copied ==
  ASSUME NEW s, SoundMemory(s), NEW f \in FunctionObjects, s.invoker[f] = NoCallable,
         s.invoker[Temporary] = NoCallable, NEW g \in FunctionObjects, f # g
  PROVE  LET t == Copied(s, f, g)
         IN  SoundMemory(t) /\ ValueOf(t, f) = ValueOf(s, g) /\ OthersKeep(s, t, {f})
<1> DEFINE t == Copied(s, f, g)
           p == IF Inplace(s, g) THEN f ELSE NewBlock(s)
<1>1. IsMemory(s, s.invoker, s.at) /\ Ownership(s.invoker, s.at)
  BY DEF SoundMemory
<1>2. CASE s.invoker[g] = NoCallable
  <2>1. IsMemory(t, [s.invoker EXCEPT ![f] = NoCallable], s.at)
    BY <1>1, <1>2, Fn_Point DEF Copied, Empty
  <2>2. [s.invoker EXCEPT ![f] = NoCallable] = s.invoker
    BY <1>1 DEF Ownership
  <2> HIDE DEF t
  <2>3. SoundMemory(t) /\ t.invoker = s.invoker /\ t.at = s.at
    BY <1>1, <2>1, <2>2, Fn_IsSound
  <2>4. ValueOf(t, f) = ValueOf(s, g)
    BY <2>3, <1>2 DEF ValueOf, CallableHolds
  <2>5. OthersKeep(s, t, {f})
    BY <2>3 DEF OthersKeep, ValueOf
  <2> QED
    BY <2>3, <2>4, <2>5 DEF t
<1>3. CASE s.invoker[g] # NoCallable
  <2>1. p \in {f} \cup Heap /\ s.at[p] = NoCallable
    <3>1. NewBlock(s) \in Heap /\ s.at[NewBlock(s)] = NoCallable
      BY Fn_Block
    <3>2. s.at[f] = NoCallable
      BY Fn_OwnStorage, NoCallableIsNew
    <3> QED
      BY <3>1, <3>2
  <2>2. t = CloneTo(PointTo(s, f, p), s.invoker[g], p)
    BY <1>3 DEF Copied, Empty
  <2> HIDE DEF t, p
  <2>3. SoundMemory(t) /\ ValueOf(t, f) = ValueOf(s, g) /\ OthersKeep(s, t, {f})
    BY <2>1, <2>2, <1>3, Fn_Clones
  <2> QED
    BY <2>3 DEF t
<1> QED
  BY <1>2, <1>3

\* release()
LEMMA Fn_Released ==
  ASSUME NEW s, SoundMemory(s), NEW f \in FunctionObjects
  PROVE  LET t == Released(s, f)
         IN  SoundMemory(t) /\ t.invoker[f] = NoCallable /\ OthersKeep(s, t, {f})
<1> DEFINE t == Released(s, f)
           i == s.invoker
           a == s.at
           j == [i EXCEPT ![f] = NoCallable]
<1>1. IsMemory(s, i, a) /\ Ownership(i, a)
  BY DEF SoundMemory
<1>2. CASE i[f] = NoCallable
  <2>1. t = PointTo(s, f, NoCallable)
    BY <1>2 DEF Released, Empty
  <2>2. j = i
    BY <1>1, <1>2 DEF Ownership
  <2>3. IsMemory(t, i, a)
    BY <1>1, <2>1, <2>2, Fn_Point
  <2> HIDE DEF t, i, a, j
  <2>4. SoundMemory(t) /\ t.invoker = i /\ t.at = a
    BY <1>1, <2>3, Fn_IsSound
  <2> QED
    BY <2>4, <1>2 DEF t, i, a, OthersKeep, ValueOf
<1>3. CASE i[f] # NoCallable
  <2> DEFINE b == [a EXCEPT ![i[f]] = NoCallable]
             r == DestroyAt(s, i[f])
  <2>1. t = PointTo(r, f, NoCallable)
    BY <1>3 DEF Released, Empty
  <2>2. a[i[f]] # NoCallable
    BY <1>3, Fn_HoldsOne
  <2> HIDE DEF t, r
  <2>3. IsMemory(r, i, b)
    BY <1>1, <2>2, Fn_Destroy DEF r
  <2>4. IsMemory(t, j, b)
    BY <2>1, <2>3, Fn_Point
  <2>5. Drops(i, a, f, j, b)
    BY DEF Drops
  <2> HIDE DEF i, a, j, b
  <2>6. /\ Ownership(j, b) /\ j[f] = NoCallable
        /\ \A g \in FunctionObjects \ {f} :
               j[g] = i[g] /\ CallableHolds(j, b, g) = CallableHolds(i, a, g)
    BY <1>1, <1>3, <2>5, Fn_Drop
  <2>7. SoundMemory(t) /\ t.invoker = j /\ t.at = b
    BY <2>4, <2>6, Fn_IsSound
  <2> QED
    BY <2>6, <2>7 DEF t, i, a, OthersKeep, ValueOf
<1> QED
  BY <1>2, <1>3

\* Two functions of a memory have changed places.
LEMMA Fn_Exchanges ==
  ASSUME NEW s, SoundMemory(s), NEW f \in FunctionObjects, NEW g \in FunctionObjects, f # g,
         NEW j, NEW b, Exchanged(s.invoker, s.at, f, g, j, b), NEW t, IsMemory(t, j, b)
  PROVE  /\ SoundMemory(t) /\ OthersKeep(s, t, {f, g})
         /\ ValueOf(t, f) = ValueOf(s, g) /\ ValueOf(t, g) = ValueOf(s, f)
         /\ t.invoker = j
<1> DEFINE i == s.invoker
           a == s.at
<1>1. Ownership(i, a) /\ Exchanged(i, a, f, g, j, b)
  BY DEF SoundMemory
<1> HIDE DEF i, a
<1>2. /\ Ownership(j, b)
      /\ CallableHolds(j, b, f) = CallableHolds(i, a, g)
             /\ CallableHolds(j, b, g) = CallableHolds(i, a, f)
      /\ \A h \in FunctionObjects \ {f, g} :
             j[h] = i[h] /\ CallableHolds(j, b, h) = CallableHolds(i, a, h)
  BY <1>1, Fn_Exchange
<1>3. SoundMemory(t) /\ t.invoker = j /\ t.at = b
  BY <1>2, Fn_IsSound
<1> QED
  BY <1>2, <1>3 DEF i, a, OthersKeep, ValueOf

\* function(function&&)
LEMMA Fn_Moved ==
  ASSUME NEW s, SoundMemory(s), NEW f \in FunctionObjects, s.invoker[f] = NoCallable,
         NEW g \in FunctionObjects, f # g
  PROVE  LET t == Moved(s, f, g)
         IN  SoundMemory(t) /\ ValueOf(t, f) = ValueOf(s, g) /\ OthersKeep(s, t, {f, g})
<1> DEFINE t == Moved(s, f, g)
           i == s.invoker
           a == s.at
<1>1. IsMemory(s, i, a) /\ Ownership(i, a)
  BY DEF SoundMemory
<1>2. f # NoCallable /\ g # NoCallable
  BY NoCallableIsNew
<1>3. CASE i[g] = g
  <2>1. t = CloneTo(PointTo(s, f, f), i[g], f)
    BY <1>3 DEF Moved, Inplace
  <2>2. s.at[f] = NoCallable /\ f \in {f} \cup Heap /\ i[g] # NoCallable
    BY <1>2, <1>3, Fn_OwnStorage
  <2> HIDE DEF t
  <2>3. SoundMemory(t) /\ ValueOf(t, f) = ValueOf(s, g) /\ OthersKeep(s, t, {f})
    BY <2>1, <2>2, Fn_Clones
  <2> QED
    BY <2>3 DEF t, OthersKeep
<1>4. CASE i[g] # g
  <2> DEFINE k == [i EXCEPT ![f] = i[g]]
             j == [k EXCEPT ![g] = NoCallable]
             r == PointTo(s, f, i[g])
  <2>1. t = PointTo(r, g, NoCallable)
    BY <1>4 DEF Moved, Inplace
  <2> HIDE DEF t, r
  <2>2. IsMemory(r, k, a)
    BY <1>1, Fn_Point DEF r
  <2>3. IsMemory(t, j, a)
    BY <2>1, <2>2, Fn_Point
  <2>4. a[f] = NoCallable /\ a[g] = NoCallable
    BY <1>2, <1>4, Fn_OwnStorage
  <2>5. Exchanged(i, a, f, g, j, a)
    <3>1. /\ i \in [FunctionObjects -> FunctionObjects \cup Heap \cup {NoCallable}]
          /\ a \in [Places -> Callables \cup {NoCallable}]
      BY <1>1 DEF Ownership
    <3>2. j \in [FunctionObjects -> FunctionObjects \cup Heap \cup {NoCallable}]
      BY <3>1
    <3>3. j[f] = i[g] /\ j[g] = NoCallable /\ \A h \in FunctionObjects \ {f, g} : j[h] = i[h]
      BY <3>1
    <3>4. i[f] = NoCallable
      OBVIOUS
    <3> HIDE DEF j, i, a
    <3> QED
      BY <3>1, <3>2, <3>3, <3>4, <2>4, <1>2, <1>4 DEF Exchanged
  <2> HIDE DEF j, k
  <2>6. SoundMemory(t) /\ ValueOf(t, f) = ValueOf(s, g) /\ OthersKeep(s, t, {f, g})
    BY <2>3, <2>5, Fn_Exchanges
  <2> QED
    BY <2>6 DEF t
<1> QED
  BY <1>3, <1>4

\* A callable is moved from one place to another.
LEMMA Fn_Relocated ==
  ASSUME NEW s, NEW i, NEW a, IsMemory(s, i, a), NEW from \in DOMAIN a, NEW to \in DOMAIN a,
         from # to, a[to] = NoCallable, a[from] # NoCallable, a = [q \in DOMAIN a |-> a[q]]
  PROVE  IsMemory(Relocated(s, from, to), i,
                  [q \in DOMAIN a |-> IF q = to THEN a[from] ELSE IF q = from THEN NoCallable
                     ELSE a[q]])
<1> DEFINE b == [a EXCEPT ![to] = a[from]]
           e == [b EXCEPT ![from] = NoCallable]
           r == CloneTo(s, from, to)
<1>1. IsMemory(r, i, b)
  BY Fn_Clone
<1>2. b[from] # NoCallable
  OBVIOUS
<1> HIDE DEF r, b
<1>3. IsMemory(DestroyAt(r, from), i, e)
  BY <1>1, <1>2, Fn_Destroy
<1>4. e = [q \in DOMAIN a |-> IF q = to THEN a[from] ELSE IF q = from THEN NoCallable ELSE a[q]]
  BY DEF b
<1>5. Relocated(s, from, to) = DestroyAt(r, from)
  BY DEF Relocated, r
<1> HIDE DEF e
<1> QED
  BY <1>3, <1>4, <1>5

\* swap(), with f in place and g not.
LEMMA Fn_SwapsOne ==
  ASSUME NEW s, SoundMemory(s), NEW f \in FunctionObjects, NEW g \in FunctionObjects, f # g,
         s.invoker[f] = f, s.invoker[g] # g
  PROVE  LET t == PointTo(PointTo(Relocated(s, f, g), f, s.invoker[g]), g, g)
         IN  /\ SoundMemory(t) /\ OthersKeep(s, t, {f, g})
             /\ ValueOf(t, f) = ValueOf(s, g) /\ ValueOf(t, g) = ValueOf(s, f)
             /\ t.invoker[f] = s.invoker[g]
<1> DEFINE i == s.invoker
           a == s.at
           k == [i EXCEPT ![f] = i[g]]
           j == [k EXCEPT ![g] = g]
           b == [q \in DOMAIN a |-> IF q = g THEN a[f] ELSE IF q = f THEN NoCallable ELSE a[q]]
           r == Relocated(s, f, g)
           m == PointTo(r, f, i[g])
           t == PointTo(m, g, g)
<1>1. IsMemory(s, i, a) /\ Ownership(i, a) /\ i[f] = f /\ i[g] # g
  BY DEF SoundMemory
<1>2. f # NoCallable /\ g # NoCallable /\ f \in Places /\ g \in Places
  BY NoCallableIsNew DEF Places
<1>3. a[g] = NoCallable /\ a[f] # NoCallable
  BY <1>1, <1>2, Fn_OwnStorage, Fn_HoldsOne
<1>4. /\ i \in [FunctionObjects -> FunctionObjects \cup Heap \cup {NoCallable}]
      /\ a \in [Places -> Callables \cup {NoCallable}]
  BY <1>1 DEF Ownership
<1>5. IsMemory(r, i, b)
  <2>1. DOMAIN a = Places /\ a = [q \in DOMAIN a |-> a[q]]
    BY <1>4
  <2> HIDE DEF i, a
  <2> QED
    BY <1>1, <1>2, <1>3, <2>1, Fn_Relocated
<1> HIDE DEF r
<1>6. IsMemory(m, k, b)
  BY <1>5, Fn_Point
<1> HIDE DEF m, b, k
<1>7. IsMemory(t, j, b)
  BY <1>6, Fn_Point
<1>8. Exchanged(i, a, f, g, j, b)
  <2>1. b \in [Places -> Callables \cup {NoCallable}]
    BY <1>2, <1>4 DEF b
  <2>2. j \in [FunctionObjects -> FunctionObjects \cup Heap \cup {NoCallable}]
    BY <1>4 DEF k
  <2>3. j[f] = i[g] /\ j[g] = g /\ \A h \in FunctionObjects \ {f, g} : j[h] = i[h]
    BY <1>4 DEF k
  <2>4. b[f] = NoCallable /\ b[g] = a[f] /\ \A q \in Places \ {f, g} : b[q] = a[q]
    BY <1>2, <1>4 DEF b
  <2> HIDE DEF j, i, a
  <2> QED
    BY <1>1, <2>1, <2>2, <2>3, <2>4 DEF Exchanged
<1>9. j[f] = i[g]
  BY <1>4 DEF k
<1> HIDE DEF j, t
<1>10. /\ SoundMemory(t) /\ OthersKeep(s, t, {f, g})
       /\ ValueOf(t, f) = ValueOf(s, g) /\ ValueOf(t, g) = ValueOf(s, f) /\ t.invoker = j
  BY <1>7, <1>8, Fn_Exchanges
<1> QED
  BY <1>9, <1>10 DEF t, m, r

\* swap(), with both in place.
LEMMA Fn_SwapsBoth ==
  ASSUME NEW s, SoundMemory(s), NEW f \in FunctionObjects, NEW g \in FunctionObjects, f # g,
         s.invoker[f] = f, s.invoker[g] = g
  PROVE  LET t == Relocated(Relocated(Relocated(s, f, tempStorage), g, f), tempStorage, g)
         IN  /\ SoundMemory(t) /\ OthersKeep(s, t, {f, g})
             /\ ValueOf(t, f) = ValueOf(s, g) /\ ValueOf(t, g) = ValueOf(s, f)
<1> DEFINE i == s.invoker
           a == s.at
           ts == tempStorage
           a1 == [q \in Places |-> IF q = ts THEN a[f] ELSE IF q = f THEN NoCallable ELSE a[q]]
           a2 == [q \in Places |-> IF q = f THEN a1[g] ELSE IF q = g THEN NoCallable ELSE a1[q]]
           a3 == [q \in Places |-> IF q = g THEN a2[ts] ELSE IF q = ts THEN NoCallable ELSE a2[q]]
           r1 == Relocated(s, f, ts)
           r2 == Relocated(r1, g, f)
           t == Relocated(r2, ts, g)
<1>1. IsMemory(s, i, a) /\ Ownership(i, a) /\ i[f] = f /\ i[g] = g
  BY DEF SoundMemory
<1>2. /\ f # NoCallable /\ g # NoCallable /\ f \in Places /\ g \in Places /\ ts \in Places
      /\ ts # f /\ ts # g
  BY NoCallableIsNew, PlacesDiffer DEF Places
<1>3. a[ts] = NoCallable /\ a[f] # NoCallable /\ a[g] # NoCallable
  BY <1>1, <1>2, Fn_Storage, Fn_HoldsOne
<1>4. /\ i \in [FunctionObjects -> FunctionObjects \cup Heap \cup {NoCallable}]
      /\ a \in [Places -> Callables \cup {NoCallable}]
  BY <1>1 DEF Ownership
<1>5. IsMemory(r1, i, a1)
  <2>1. DOMAIN a = Places /\ a = [q \in DOMAIN a |-> a[q]]
    BY <1>4
  <2> HIDE DEF i, a, ts, r1
  <2>2. IsMemory(r1, i, [q \in DOMAIN a |-> IF q = ts THEN a[f] ELSE IF q = f THEN NoCallable
                           ELSE a[q]])
    BY <1>1, <1>2, <1>3, <2>1, Fn_Relocated DEF r1
  <2> QED
    BY <2>1, <2>2
<1>6. a1[f] = NoCallable /\ a1[g] = a[g] /\ a1[ts] = a[f]
  BY <1>2
<1> HIDE DEF r1, i, a, a1, ts
<1>7. IsMemory(r2, i, a2)
  <2>1. DOMAIN a1 = Places /\ a1 = [q \in DOMAIN a1 |-> a1[q]]
    BY DEF a1
  <2> HIDE DEF r2
  <2>2. IsMemory(r2, i, [q \in DOMAIN a1 |-> IF q = f THEN a1[g] ELSE IF q = g THEN NoCallable
                           ELSE a1[q]])
    BY <1>2, <1>3, <1>5, <1>6, <2>1, Fn_Relocated DEF r2
  <2> QED
    BY <2>1, <2>2
<1>8. a2[f] = a[g] /\ a2[g] = NoCallable /\ a2[ts] = a[f]
  BY <1>2, <1>6
<1> HIDE DEF r2, a2
<1>9. IsMemory(t, i, a3)
  <2>1. DOMAIN a2 = Places /\ a2 = [q \in DOMAIN a2 |-> a2[q]]
    BY DEF a2
  <2> HIDE DEF t
  <2>2. IsMemory(t, i, [q \in DOMAIN a2 |-> IF q = g THEN a2[ts] ELSE IF q = ts THEN NoCallable
                          ELSE a2[q]])
    BY <1>2, <1>3, <1>7, <1>8, <2>1, Fn_Relocated DEF t
  <2> QED
    BY <2>1, <2>2
<1>10. Exchanged(i, a, f, g, i, a3)
  <2>1. a3[f] = a[g] /\ a3[g] = a[f]
    BY <1>2, <1>8
  <2>2. \A q \in Places \ {f, g} : a3[q] = a[q]
    BY <1>2, <1>3 DEF a2, a1
  <2>3. a3 \in [Places -> Callables \cup {NoCallable}]
    <3>1. \A q \in Places : a3[q] \in Callables \cup {NoCallable}
      BY <2>1, <2>2, <1>2, <1>4
    <3> QED
      BY <3>1
  <2> HIDE DEF a3
  <2> QED
    BY <1>1, <1>4, <2>1, <2>2, <2>3 DEF Exchanged
<1> HIDE DEF a3, t
<1>11. /\ SoundMemory(t) /\ OthersKeep(s, t, {f, g})
       /\ ValueOf(t, f) = ValueOf(s, g) /\ ValueOf(t, g) = ValueOf(s, f)
  BY <1>9, <1>10, Fn_Exchanges DEF i, a
<1> QED
  BY <1>11 DEF t, r2, r1, ts

\* swap(), with none in place.
LEMMA Fn_SwapsNone ==
  ASSUME NEW s, SoundMemory(s), NEW f \in FunctionObjects, NEW g \in FunctionObjects, f # g,
         s.invoker[f] # f, s.invoker[g] # g
  PROVE  LET t == PointTo(PointTo(s, f, s.invoker[g]), g, s.invoker[f])
         IN  /\ SoundMemory(t) /\ OthersKeep(s, t, {f, g})
             /\ ValueOf(t, f) = ValueOf(s, g) /\ ValueOf(t, g) = ValueOf(s, f)
<1> DEFINE i == s.invoker
           a == s.at
           k == [i EXCEPT ![f] = i[g]]
           j == [k EXCEPT ![g] = i[f]]
           r == PointTo(s, f, i[g])
           t == PointTo(r, g, i[f])
<1>1. IsMemory(s, i, a) /\ Ownership(i, a) /\ i[f] # f /\ i[g] # g
  BY DEF SoundMemory
<1>2. a[f] = NoCallable /\ a[g] = NoCallable
  BY <1>1, Fn_OwnStorage
<1>3. /\ i \in [FunctionObjects -> FunctionObjects \cup Heap \cup {NoCallable}]
      /\ a \in [Places -> Callables \cup {NoCallable}]
  BY <1>1 DEF Ownership
<1>4. IsMemory(r, k, a)
  BY <1>1, Fn_Point
<1> HIDE DEF r, k
<1>5. IsMemory(t, j, a)
  BY <1>4, Fn_Point
<1>6. Exchanged(i, a, f, g, j, a)
  <2>1. j \in [FunctionObjects -> FunctionObjects \cup Heap \cup {NoCallable}]
    BY <1>3 DEF k
  <2>2. j[f] = i[g] /\ j[g] = i[f] /\ \A h \in FunctionObjects \ {f, g} : j[h] = i[h]
    BY <1>3 DEF k
  <2> HIDE DEF j, i, a
  <2> QED
    BY <1>1, <1>2, <1>3, <2>1, <2>2 DEF Exchanged
<1> HIDE DEF j, t
<1>7. /\ SoundMemory(t) /\ OthersKeep(s, t, {f, g})
      /\ ValueOf(t, f) = ValueOf(s, g) /\ ValueOf(t, g) = ValueOf(s, f)
  BY <1>5, <1>6, Fn_Exchanges
<1> QED
  BY <1>7 DEF t, r

\* swap()
LEMMA Fn_Swapped ==
  ASSUME NEW s, SoundMemory(s), NEW f \in FunctionObjects, NEW g \in FunctionObjects, f # g
  PROVE  LET t == Swapped(s, f, g)
         IN  /\ SoundMemory(t) /\ OthersKeep(s, t, {f, g})
             /\ ValueOf(t, f) = ValueOf(s, g) /\ ValueOf(t, g) = ValueOf(s, f)
<1> DEFINE t == Swapped(s, f, g)
<1>1. ASSUME NEW u, OthersKeep(s, u, {g, f}) PROVE OthersKeep(s, u, {f, g})
  BY <1>1 DEF OthersKeep
<1>2. CASE s.invoker[f] = f /\ s.invoker[g] = g
  <2>1. t = Relocated(Relocated(Relocated(s, f, tempStorage), g, f), tempStorage, g)
    BY <1>2 DEF Swapped, Inplace
  <2> HIDE DEF t
  <2> QED
    BY <1>2, <2>1, Fn_SwapsBoth DEF t
<1>3. CASE s.invoker[f] # f /\ s.invoker[g] = g
  <2>1. t = PointTo(PointTo(Relocated(s, g, f), g, s.invoker[f]), f, f)
    BY <1>3 DEF Swapped, Inplace
  <2> HIDE DEF t
  <2>2. /\ SoundMemory(t) /\ OthersKeep(s, t, {g, f})
        /\ ValueOf(t, g) = ValueOf(s, f) /\ ValueOf(t, f) = ValueOf(s, g)
    BY <1>3, <2>1, Fn_SwapsOne
  <2> QED
    BY <2>2, <1>1 DEF t
<1>4. CASE s.invoker[f] = f /\ s.invoker[g] # g
  <2>1. t = PointTo(PointTo(Relocated(s, f, g), f, s.invoker[g]), g, g)
    BY <1>4 DEF Swapped, Inplace
  <2> HIDE DEF t
  <2> QED
    BY <1>4, <2>1, Fn_SwapsOne DEF t
<1>5. CASE s.invoker[f] # f /\ s.invoker[g] # g
  <2>1. t = PointTo(PointTo(s, f, s.invoker[g]), g, s.invoker[f])
    BY <1>5 DEF Swapped, Inplace
  <2> HIDE DEF t
  <2> QED
    BY <1>5, <2>1, Fn_SwapsNone DEF t
<1> QED
  BY <1>2, <1>3, <1>4, <1>5

\* function(x).swap(*this), with x in the temporary function object.
LEMMA Fn_SwapWith ==
  ASSUME NEW s, SoundMemory(s), NEW f \in Functions
  PROVE  LET t == Released(Swapped(s, Temporary, f), Temporary)
         IN  /\ SoundMemory(t) /\ t.invoker[Temporary] = NoCallable
             /\ ValueOf(t, f) = ValueOf(s, Temporary)
             /\ \A g \in Functions \ {f} : ValueOf(t, g) = ValueOf(s, g)
<1> DEFINE r == Swapped(s, Temporary, f)
           t == Released(r, Temporary)
<1>1. f \in FunctionObjects /\ Temporary \in FunctionObjects /\ Temporary \notin Functions
      /\ Functions \subseteq FunctionObjects
  BY PlacesDiffer DEF FunctionObjects
<1>2. Temporary # f
  BY <1>1
<1>3. /\ SoundMemory(r) /\ OthersKeep(s, r, {Temporary, f}) /\ ValueOf(r, f) = ValueOf(s, Temporary)
  BY <1>1, <1>2, Fn_Swapped
<1> HIDE DEF r
<1>4. SoundMemory(t) /\ t.invoker[Temporary] = NoCallable /\ OthersKeep(r, t, {Temporary})
  BY <1>1, <1>3, Fn_Released
<1> HIDE DEF t
<1>5. ValueOf(t, f) = ValueOf(r, f)
  BY <1>1, <1>2, <1>4 DEF OthersKeep
<1>6. ASSUME NEW g \in Functions \ {f} PROVE ValueOf(t, g) = ValueOf(s, g)
  <2>1. g \in FunctionObjects \ {Temporary, f}
    BY <1>1
  <2> QED
    BY <2>1, <1>3, <1>4 DEF OthersKeep
<1> QED
  BY <1>3, <1>4, <1>5, <1>6 DEF t, r
-----------------------------------------------------------------------------
\* Between the calls of the client: the temporary is empty, each function holds what
\* C++ says, and no callable lives elsewhere.
FunctionIInv ==
  /\ Ownership(m_invoker, lives) /\ clobbered = FALSE
  /\ m_invoker[Temporary] = NoCallable
  /\ means \in [Functions -> Callables \cup {NoCallable}]
  /\ \A f \in Functions : means[f] = CallableHolds(m_invoker, lives, f)

\* The memory before a call ...
LEMMA Fn_Before ==
  ASSUME FunctionIInv
  PROVE  /\ SoundMemory(Memory) /\ Memory.invoker = m_invoker
         /\ m_invoker[Temporary] = NoCallable
         /\ means \in [Functions -> Callables \cup {NoCallable}]
         /\ \A f \in Functions : means[f] = ValueOf(Memory, f)
         /\ Functions \subseteq FunctionObjects /\ Temporary \in FunctionObjects
         /\ Temporary \notin Functions
<1>1. Memory.invoker = m_invoker /\ Memory.at = lives /\ Memory.bad = clobbered
      /\ DOMAIN Memory = {"invoker", "at", "bad"}
  BY Zenon DEF Memory
<1>2. SoundMemory(Memory)
  BY <1>1 DEF FunctionIInv, SoundMemory, IsMemory
<1>3. \A f \in Functions : means[f] = ValueOf(Memory, f)
  BY <1>1 DEF FunctionIInv, ValueOf
<1> QED
  BY <1>1, <1>2, <1>3, PlacesDiffer DEF FunctionIInv, FunctionObjects

\* ... and after it.
LEMMA Fn_After ==
  ASSUME NEW t, SoundMemory(t), t.invoker[Temporary] = NoCallable, Becomes(t),
         means' \in [Functions -> Callables \cup {NoCallable}],
         \A f \in Functions : means'[f] = ValueOf(t, f)
  PROVE  FunctionIInv'
<1>1. m_invoker' = t.invoker /\ lives' = t.at /\ clobbered' = t.bad
  BY DEF Becomes
<1>2. t.bad = FALSE /\ Ownership(t.invoker, t.at)
  BY DEF SoundMemory, IsMemory
<1>3. clobbered' = FALSE
  BY <1>1, <1>2, Zenon
<1>4. Ownership(m_invoker, lives)'
  BY <1>1, <1>2 DEF Ownership, FunctionObjects, Places, Callables
<1>5. \A f \in Functions : means'[f] = CallableHolds(m_invoker', lives', f)
  BY <1>1 DEF ValueOf
<1> QED
  BY <1>1, <1>3, <1>4, <1>5 DEF FunctionIInv, CallableHolds, Callables

\* A function holds a callable or nothing.
LEMMA Fn_ValueType ==
  ASSUME NEW s, SoundMemory(s), NEW f \in FunctionObjects
  PROVE  ValueOf(s, f) \in Callables \cup {NoCallable}
<1>1. s.invoker[f] # NoCallable => s.at[s.invoker[f]] \in Callables
  BY Fn_HoldsOne
<1> QED
  BY <1>1 DEF ValueOf, CallableHolds

\* The constructor from a callable.
LEMMA Fn_Construct ==
  ASSUME FunctionIInv, NEW f \in Functions, NEW c \in Callables \cup {NoCallable},
         Construct_Function(f, c)
  PROVE  FunctionIInv'
<1> DEFINE s == Memory
           t == Constructed(s, f, c)
<1>1. s.invoker[f] = NoCallable /\ Becomes(t) /\ means' = [means EXCEPT ![f] = c]
  BY DEF Construct_Function, Empty
<1>2. /\ SoundMemory(s) /\ s.invoker[Temporary] = NoCallable
      /\ means \in [Functions -> Callables \cup {NoCallable}]
      /\ \A g \in Functions : means[g] = ValueOf(s, g)
      /\ Functions \subseteq FunctionObjects /\ Temporary \in FunctionObjects
      /\ Temporary \notin Functions
  BY Fn_Before
<1> HIDE DEF s
<1>3. SoundMemory(t) /\ ValueOf(t, f) = c /\ OthersKeep(s, t, {f})
  BY <1>1, <1>2, Fn_Constructed
<1> HIDE DEF t
<1>4. t.invoker[Temporary] = NoCallable
  BY <1>2, <1>3 DEF OthersKeep
<1>5. means' \in [Functions -> Callables \cup {NoCallable}]
  BY <1>1, <1>2
<1>6. \A g \in Functions : means'[g] = ValueOf(t, g)
  BY <1>1, <1>2, <1>3 DEF OthersKeep
<1> QED
  BY <1>1, <1>3, <1>4, <1>5, <1>6, Fn_After

\* The copy constructor.
LEMMA Fn_Copy ==
  ASSUME FunctionIInv, NEW f \in Functions, NEW g \in Functions, Copy_Function(f, g)
  PROVE  FunctionIInv'
<1> DEFINE s == Memory
           t == Copied(s, f, g)
<1>1. s.invoker[f] = NoCallable /\ Becomes(t) /\ means' = [means EXCEPT ![f] = means[g]] /\ f # g
  BY DEF Copy_Function, Empty
<1>2. /\ SoundMemory(s) /\ s.invoker[Temporary] = NoCallable
      /\ means \in [Functions -> Callables \cup {NoCallable}]
      /\ \A h \in Functions : means[h] = ValueOf(s, h)
      /\ Functions \subseteq FunctionObjects /\ Temporary \in FunctionObjects
      /\ Temporary \notin Functions
  BY Fn_Before
<1> HIDE DEF s
<1>3. SoundMemory(t) /\ ValueOf(t, f) = ValueOf(s, g) /\ OthersKeep(s, t, {f})
  BY <1>1, <1>2, Fn_Copied
<1> HIDE DEF t
<1>4. t.invoker[Temporary] = NoCallable
  BY <1>2, <1>3 DEF OthersKeep
<1>5. means' \in [Functions -> Callables \cup {NoCallable}]
  BY <1>1, <1>2
<1>6. \A h \in Functions : means'[h] = ValueOf(t, h)
  BY <1>1, <1>2, <1>3 DEF OthersKeep
<1> QED
  BY <1>1, <1>3, <1>4, <1>5, <1>6, Fn_After

\* What a move leaves in g is what g holds then.
LEMMA Fn_LeftIs ==
  ASSUME NEW t, NEW g
  PROVE  Left(g, t) = ValueOf(t, g)
BY DEF Left, ValueOf, CallableHolds, Empty

\* The move constructor, and the second half of the move assignment.
LEMMA Fn_Moves ==
  ASSUME FunctionIInv, NEW f \in Functions, NEW g \in Functions, f # g,
         NEW s, SoundMemory(s), s.invoker[Temporary] = NoCallable, s.invoker[f] = NoCallable,
         \A h \in Functions \ {f} : means[h] = ValueOf(s, h),
         Becomes(Moved(s, f, g)),
         means' = [means EXCEPT ![f] = means[g], ![g] = Left(g, Moved(s, f, g))]
  PROVE  FunctionIInv'
<1> DEFINE t == Moved(s, f, g)
<1>1. Becomes(t) /\ means' = [means EXCEPT ![f] = means[g], ![g] = Left(g, t)]
  OBVIOUS
<1>2. /\ means \in [Functions -> Callables \cup {NoCallable}]
      /\ Functions \subseteq FunctionObjects /\ Temporary \in FunctionObjects
      /\ Temporary \notin Functions
  BY Fn_Before
<1>3. SoundMemory(t) /\ ValueOf(t, f) = ValueOf(s, g) /\ OthersKeep(s, t, {f, g})
  BY <1>2, Fn_Moved
<1> HIDE DEF t
<1>4. t.invoker[Temporary] = NoCallable
  BY <1>2, <1>3 DEF OthersKeep
<1>5. Left(g, t) = ValueOf(t, g) /\ ValueOf(t, g) \in Callables \cup {NoCallable}
  BY <1>2, <1>3, Fn_LeftIs, Fn_ValueType
<1>6. means' \in [Functions -> Callables \cup {NoCallable}]
  BY <1>1, <1>2, <1>5
<1>7. \A h \in Functions : means'[h] = ValueOf(t, h)
  <2>1. means'[f] = means[g] /\ means'[g] = ValueOf(t, g) /\ \A h \in Functions \ {f, g} :
            means'[h] = means[h]
    BY <1>1, <1>2, <1>5
  <2>2. \A h \in Functions \ {f, g} : ValueOf(t, h) = ValueOf(s, h)
    BY <1>2, <1>3 DEF OthersKeep
  <2> QED
    BY <1>3, <2>1, <2>2
<1> QED
  BY <1>1, <1>3, <1>4, <1>6, <1>7, Fn_After

\* The move constructor.
LEMMA Fn_Move ==
  ASSUME FunctionIInv, NEW f \in Functions, NEW g \in Functions, Move_Function(f, g)
  PROVE  FunctionIInv'
<1> DEFINE s == Memory
<1>1. /\ s.invoker[f] = NoCallable /\ Becomes(Moved(s, f, g)) /\ f # g
      /\ means' = [means EXCEPT ![f] = means[g], ![g] = Left(g, Moved(s, f, g))]
  BY DEF Move_Function, Empty
<1>2. /\ SoundMemory(s) /\ s.invoker[Temporary] = NoCallable
      /\ \A h \in Functions \ {f} : means[h] = ValueOf(s, h)
  BY Fn_Before
<1> HIDE DEF s
<1> QED
  BY <1>1, <1>2, Fn_Moves

\* ~function() and = nullptr
LEMMA Fn_Release ==
  ASSUME FunctionIInv, NEW f \in Functions, Becomes(Released(Memory, f)),
         means' = [means EXCEPT ![f] = NoCallable]
  PROVE  FunctionIInv'
<1> DEFINE s == Memory
           t == Released(s, f)
<1>1. Becomes(t) /\ means' = [means EXCEPT ![f] = NoCallable]
  OBVIOUS
<1>2. /\ SoundMemory(s) /\ s.invoker[Temporary] = NoCallable
      /\ means \in [Functions -> Callables \cup {NoCallable}]
      /\ \A h \in Functions : means[h] = ValueOf(s, h)
      /\ Functions \subseteq FunctionObjects /\ Temporary \in FunctionObjects
      /\ Temporary \notin Functions
  BY Fn_Before
<1> HIDE DEF s
<1>3. SoundMemory(t) /\ t.invoker[f] = NoCallable /\ OthersKeep(s, t, {f})
  BY <1>2, Fn_Released
<1> HIDE DEF t
<1>4. t.invoker[Temporary] = NoCallable /\ ValueOf(t, f) = NoCallable
  BY <1>2, <1>3 DEF OthersKeep, ValueOf, CallableHolds
<1>5. means' \in [Functions -> Callables \cup {NoCallable}]
  BY <1>1, <1>2
<1>6. \A h \in Functions : means'[h] = ValueOf(t, h)
  BY <1>1, <1>2, <1>3, <1>4 DEF OthersKeep
<1> QED
  BY <1>1, <1>3, <1>4, <1>5, <1>6, Fn_After

\* operator=(function&&)
LEMMA Fn_MoveAssign ==
  ASSUME FunctionIInv, NEW f \in Functions, NEW g \in Functions, MoveAssign_Function(f, g)
  PROVE  FunctionIInv'
<1>1. CASE f = g
  BY <1>1, Fn_Release DEF MoveAssign_Function
<1>2. CASE f # g
  <2> DEFINE m == Memory
             s == Released(m, f)
  <2>1. /\ Becomes(Moved(s, f, g))
        /\ means' = [means EXCEPT ![f] = means[g], ![g] = Left(g, Moved(s, f, g))]
    BY <1>2 DEF MoveAssign_Function
  <2>2. /\ SoundMemory(m) /\ m.invoker[Temporary] = NoCallable
        /\ \A h \in Functions : means[h] = ValueOf(m, h)
        /\ Functions \subseteq FunctionObjects /\ Temporary \in FunctionObjects
        /\ Temporary \notin Functions
    BY Fn_Before
  <2> HIDE DEF m
  <2>3. SoundMemory(s) /\ s.invoker[f] = NoCallable /\ OthersKeep(m, s, {f})
    BY <2>2, Fn_Released
  <2> HIDE DEF s
  <2>4. s.invoker[Temporary] = NoCallable /\ \A h \in Functions \ {f} : means[h] = ValueOf(s, h)
    BY <2>2, <2>3 DEF OthersKeep
  <2> QED
    BY <1>2, <2>1, <2>3, <2>4, Fn_Moves
<1> QED
  BY <1>1, <1>2

\* An assignment by way of the temporary.
LEMMA Fn_AssignBy ==
  ASSUME FunctionIInv, NEW f \in Functions, NEW c,
         NEW s, SoundMemory(s), ValueOf(s, Temporary) = c,
         OthersKeep(Memory, s, {Temporary}), SwapWith(s, f),
         means' = [means EXCEPT ![f] = c]
  PROVE  FunctionIInv'
<1> DEFINE t == Released(Swapped(s, Temporary, f), Temporary)
<1>1. Becomes(t)
  BY DEF SwapWith
<1>2. /\ means \in [Functions -> Callables \cup {NoCallable}]
      /\ \A h \in Functions : means[h] = ValueOf(Memory, h)
      /\ Functions \subseteq FunctionObjects /\ Temporary \in FunctionObjects
      /\ Temporary \notin Functions
  BY Fn_Before
<1>3. /\ SoundMemory(t) /\ t.invoker[Temporary] = NoCallable
      /\ ValueOf(t, f) = ValueOf(s, Temporary)
      /\ \A g \in Functions \ {f} : ValueOf(t, g) = ValueOf(s, g)
  BY Fn_SwapWith
<1> HIDE DEF t
<1>4. c \in Callables \cup {NoCallable}
  BY <1>2, Fn_ValueType
<1>5. means' \in [Functions -> Callables \cup {NoCallable}]
  BY <1>2, <1>4
<1>6. \A h \in Functions : means'[h] = ValueOf(t, h)
  <2>1. \A h \in Functions : ValueOf(s, h) = ValueOf(Memory, h)
    BY <1>2 DEF OthersKeep
  <2> QED
    BY <1>2, <1>3, <2>1
<1> QED
  BY <1>1, <1>3, <1>5, <1>6, Fn_After

\* operator=(const function&)
LEMMA Fn_Assign ==
  ASSUME FunctionIInv, NEW f \in Functions, NEW g \in Functions, Assign_Function(f, g)
  PROVE  FunctionIInv'
<1> DEFINE m == Memory
           s == Copied(m, Temporary, g)
<1>1. SwapWith(s, f) /\ means' = [means EXCEPT ![f] = means[g]]
  BY DEF Assign_Function
<1>2. /\ SoundMemory(m) /\ m.invoker[Temporary] = NoCallable /\ means[g] = ValueOf(m, g)
      /\ g \in FunctionObjects /\ Temporary \in FunctionObjects /\ Temporary # g
  BY Fn_Before
<1> HIDE DEF m
<1>3. SoundMemory(s) /\ ValueOf(s, Temporary) = ValueOf(m, g) /\ OthersKeep(m, s, {Temporary})
  BY <1>2, Fn_Copied
<1> HIDE DEF s
<1> QED
  BY <1>1, <1>2, <1>3, Fn_AssignBy DEF m

\* operator=(TCallable)
LEMMA Fn_AssignCallable ==
  ASSUME FunctionIInv, NEW f \in Functions, NEW c \in Callables \cup {NoCallable},
         Assign_Callable(f, c)
  PROVE  FunctionIInv'
<1> DEFINE m == Memory
           s == Constructed(m, Temporary, c)
<1>1. SwapWith(s, f) /\ means' = [means EXCEPT ![f] = c]
  BY DEF Assign_Callable
<1>2. SoundMemory(m) /\ m.invoker[Temporary] = NoCallable /\ Temporary \in FunctionObjects
  BY Fn_Before
<1> HIDE DEF m
<1>3. SoundMemory(s) /\ ValueOf(s, Temporary) = c /\ OthersKeep(m, s, {Temporary})
  BY <1>2, Fn_Constructed
<1> HIDE DEF s
<1> QED
  BY <1>1, <1>3, Fn_AssignBy DEF m

\* swap()
LEMMA Fn_Swap ==
  ASSUME FunctionIInv, NEW f \in Functions, NEW g \in Functions, Swap_Functions(f, g)
  PROVE  FunctionIInv'
<1> DEFINE s == Memory
           t == Swapped(s, f, g)
<1>1. Becomes(t) /\ means' = [means EXCEPT ![f] = means[g], ![g] = means[f]] /\ f # g
  BY DEF Swap_Functions
<1>2. /\ SoundMemory(s) /\ s.invoker[Temporary] = NoCallable
      /\ means \in [Functions -> Callables \cup {NoCallable}]
      /\ \A h \in Functions : means[h] = ValueOf(s, h)
      /\ Functions \subseteq FunctionObjects /\ Temporary \in FunctionObjects
      /\ Temporary \notin Functions
  BY Fn_Before
<1> HIDE DEF s
<1>3. /\ SoundMemory(t) /\ OthersKeep(s, t, {f, g})
      /\ ValueOf(t, f) = ValueOf(s, g) /\ ValueOf(t, g) = ValueOf(s, f)
  BY <1>1, <1>2, Fn_Swapped
<1> HIDE DEF t
<1>4. t.invoker[Temporary] = NoCallable
  BY <1>2, <1>3 DEF OthersKeep
<1>5. means' \in [Functions -> Callables \cup {NoCallable}]
  BY <1>1, <1>2
<1>6. \A h \in Functions : means'[h] = ValueOf(t, h)
  <2>1. means'[f] = means[g] /\ means'[g] = means[f] /\ \A h \in Functions \ {f, g} :
            means'[h] = means[h]
    BY <1>1, <1>2
  <2>2. \A h \in Functions \ {f, g} : ValueOf(t, h) = ValueOf(s, h)
    BY <1>2, <1>3 DEF OthersKeep
  <2> QED
    BY <1>2, <1>3, <2>1, <2>2
<1> QED
  BY <1>1, <1>3, <1>4, <1>5, <1>6, Fn_After

\* At the start nothing lives.
LEMMA Fn_Init == FunctionInit => FunctionIInv
<1> SUFFICES ASSUME FunctionInit PROVE FunctionIInv
  OBVIOUS
<1>1. /\ m_invoker = [f \in FunctionObjects |-> NoCallable] /\ lives = [p \in Places |-> NoCallable]
      /\ clobbered = FALSE /\ means = [f \in Functions |-> NoCallable]
  BY DEF FunctionInit
<1>2. Ownership(m_invoker, lives)
  BY <1>1 DEF Ownership
<1>3. m_invoker[Temporary] = NoCallable
  BY <1>1 DEF FunctionObjects
<1>4. means \in [Functions -> Callables \cup {NoCallable}]
  BY <1>1
<1>5. \A f \in Functions : means[f] = CallableHolds(m_invoker, lives, f)
  BY <1>1 DEF CallableHolds, FunctionObjects
<1> QED
  BY <1>1, <1>2, <1>3, <1>4, <1>5 DEF FunctionIInv

\* Every call keeps the invariant.
LEMMA Fn_Next == FunctionIInv /\ [FunctionNext]_functionVars => FunctionIInv'
<1> SUFFICES ASSUME FunctionIInv, [FunctionNext]_functionVars PROVE FunctionIInv'
  OBVIOUS
<1>1. CASE UNCHANGED functionVars
  BY <1>1 DEF FunctionIInv, functionVars, Ownership, CallableHolds, FunctionObjects, Places,
     Callables
<1>2. ASSUME NEW f \in Functions, NEW c \in Small \cup Large \cup {NoCallable},
             Construct_Function(f, c) \/ Assign_Callable(f, c)
      PROVE  FunctionIInv'
  BY <1>2, Fn_Construct, Fn_AssignCallable DEF Callables
<1>3. ASSUME NEW f \in Functions, NEW g \in Functions,
             \/ Copy_Function(f, g) \/ Move_Function(f, g)
             \/ Assign_Function(f, g) \/ MoveAssign_Function(f, g)
             \/ Swap_Functions(f, g)
      PROVE  FunctionIInv'
  BY <1>3, Fn_Copy, Fn_Move, Fn_Assign, Fn_MoveAssign, Fn_Swap
<1>4. ASSUME NEW f \in Functions, Release_Function(f) PROVE FunctionIInv'
  BY <1>4, Fn_Release DEF Release_Function
<1> QED
  BY <1>1, <1>2, <1>3, <1>4 DEF FunctionNext

\* One element, or none.
LEMMA Fn_Cardinality ==
  ASSUME NEW S
  PROVE  /\ S = {} => Cardinality(S) = 0
         /\ (\E x \in S : S = {x}) => Cardinality(S) = 1
BY FS_EmptySet, FS_Singleton

\* A function holds what C++ says it holds, and every callable that lives belongs to one
\* function, for any number of functions, blocks and callables.
THEOREM CallablesCorrect == FunctionSpec => [](FunctionTypeOK /\ CallablesOwned)
<1>1. FunctionIInv => FunctionTypeOK /\ CallablesOwned
  <2> SUFFICES ASSUME FunctionIInv PROVE FunctionTypeOK /\ CallablesOwned
    OBVIOUS
  <2>1. FunctionTypeOK
    BY DEF FunctionIInv, Ownership, FunctionTypeOK, Callables
  <2>2. \A f \in Functions :
            means[f] = (IF m_invoker[f] = NoCallable THEN NoCallable ELSE lives[m_invoker[f]])
    BY DEF FunctionIInv, CallableHolds
  <2>3. \A f \in FunctionObjects : m_invoker[f] \in {f, NoCallable} \cup Heap
    BY DEF FunctionIInv, Ownership
  <2>4. ASSUME NEW p \in Places
        PROVE  Cardinality({f \in FunctionObjects : m_invoker[f] = p})
                 = (IF lives[p] = NoCallable THEN 0 ELSE 1)
    <3> DEFINE S == {f \in FunctionObjects : m_invoker[f] = p}
    <3>1. p # NoCallable
      BY NoCallableIsNew DEF Places
    <3>2. CASE lives[p] = NoCallable
      <4>1. S = {}
        BY <3>1, <3>2 DEF FunctionIInv, Ownership
      <4> HIDE DEF S
      <4>2. Cardinality(S) = 0
        BY <4>1, Fn_Cardinality
      <4> QED
        BY <4>2, <3>2 DEF S
    <3>3. CASE lives[p] # NoCallable
      <4>1. PICK f \in FunctionObjects : m_invoker[f] = p
        BY <3>3 DEF FunctionIInv, Ownership
      <4>2. \A g \in FunctionObjects :
                m_invoker[g] = m_invoker[f] /\ m_invoker[g] # NoCallable => g = f
        BY DEF FunctionIInv, Ownership
      <4>3. f \in S /\ S = {f}
        BY <3>1, <4>1, <4>2
      <4> HIDE DEF S
      <4>4. Cardinality(S) = 1
        BY <4>3, Fn_Cardinality
      <4> QED
        BY <4>4, <3>3 DEF S
    <3> QED
      BY <3>2, <3>3
  <2>5. ~clobbered
    BY DEF FunctionIInv
  <2> QED
    BY <2>1, <2>2, <2>3, <2>4, <2>5 DEF CallablesOwned
<1> QED
  BY <1>1, Fn_Init, Fn_Next, PTL DEF FunctionSpec
=============================================================================
