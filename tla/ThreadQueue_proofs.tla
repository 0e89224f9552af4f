-------------------------- MODULE ThreadQueue_proofs --------------------------
(***************************************************************************)
(* The safety of the queue of waiting threads, and that it is a wait       *)
(* queue, for any number of waiters and of nested notifications, as long   *)
(* as no interrupt notifies while a thread is linked or unlinked.          *)
(*                                                                         *)
(* The argument: the handlers under way are one that links, or one that    *)
(* unlinks, or any number of notifications.  In every case the list is     *)
(* intact, and it, the nodes that notifications have taken, and the node   *)
(* that is being linked or unlinked are together the nodes that wait and   *)
(* are not marked, each in one place.  A list is a sequence of different   *)
(* nodes, of which each points to the next; the walks of the model follow  *)
(* it to its end, for it is not longer than there are waiters.             *)
(***************************************************************************)
EXTENDS ThreadQueue, FiniteSetTheorems, SequenceTheorems, WellFoundedInduction, TLAPS

-----------------------------------------------------------------------------
(* Lists. *)

\* f[1] .. f[n] are the nodes of the list that starts with x, each once. Behind the
\* first one they are sorted by falling priority.
IsList(f, n, x, nx) ==
  /\ n \in Nat /\ f \in [1 .. n -> Waiters]
  /\ \A i, j \in 1 .. n : f[i] = f[j] => i = j
  /\ x = IF n = 0 THEN Null ELSE f[1]
  /\ \A i \in 1 .. n : nx[f[i]] = IF i = n THEN Null ELSE f[i + 1]
  /\ \A i \in 2 .. n : i # n => Prio[f[i]] >= Prio[f[i + 1]]

Listed(x, S, nx) ==
  \E n \in 0 .. Cardinality(Waiters) :
    \E f \in [1 .. n -> Waiters] : IsList(f, n, x, nx) /\ S = {f[i] : i \in 1 .. n}

\* Walk and NodesFrom, for any pointers.
WalkOf(x, nx) ==
  LET at[k \in 0 .. Cardinality(Waiters)] ==
        IF k = 0 THEN x ELSE IF at[k - 1] = Null THEN Null ELSE nx[at[k - 1]]
  IN at
NodesOf(x, nx) == {WalkOf(x, nx)[k] : k \in 0 .. Cardinality(Waiters)} \ {Null}

\* A set of numbers has a least one.
LEMMA LeastNatural ==
  ASSUME NEW S \in SUBSET Nat, S # {}
  PROVE  \E m \in S : \A k \in S : m <= k
<1>1. PICK m \in S : \A k \in S : ~(<<k, m>> \in OpToRel(<, Nat))
  BY NatLessThanWellFounded, WFMin
<1>2. \A k \in S : ~(k < m)
  BY <1>1 DEF OpToRel
<1> QED
  BY <1>2

\* There are n numbers from 1 to n.
LEMMA UpTo ==
  ASSUME NEW n \in Nat
  PROVE  IsFiniteSet(1 .. n) /\ Cardinality(1 .. n) = n
<1>1. IsFiniteSet(1 .. n) /\ Cardinality(1 .. n) = IF 1 > n THEN 0 ELSE n - 1 + 1
  BY FS_Interval
<1>2. (IF 1 > n THEN 0 ELSE n - 1 + 1) = n
  OBVIOUS
<1> QED
  BY <1>1, <1>2

\* No more nodes than waiters.
LEMMA List_Length ==
  ASSUME NEW f, NEW n, NEW x, NEW nx, IsList(f, n, x, nx)
  PROVE  n <= Cardinality(Waiters) /\ Cardinality(Waiters) \in Nat
<1>1. n \in Nat /\ f \in [1 .. n -> Waiters] /\ \A i, j \in 1 .. n : f[i] = f[j] => i = j
  BY DEF IsList
<1>2. f \in Injection(1 .. n, Waiters)
  BY <1>1 DEF Injection, IsInjective
<1>3. Cardinality(1 .. n) <= Cardinality(Waiters)
  BY <1>2, WaitersFinite, FS_Injection
<1> QED
  BY <1>1, <1>3, UpTo, WaitersFinite, FS_CardinalityType

\* The sequence behind a list; its length needs no bound.
LEMMA List_Pick ==
  ASSUME NEW x, NEW S, NEW nx, Listed(x, S, nx)
  PROVE  \E n \in Nat : \E f \in [1 .. n -> Waiters] :
           IsList(f, n, x, nx) /\ S = {f[i] : i \in 1 .. n}
BY WaitersFinite, FS_CardinalityType DEF Listed

\* A sequence of nodes is short enough to be a list.
LEMMA List_Is ==
  ASSUME NEW f, NEW n, NEW x, NEW nx, IsList(f, n, x, nx), NEW S, S = {f[i] : i \in 1 .. n}
  PROVE  Listed(x, S, nx)
<1>1. n \in 0 .. Cardinality(Waiters)
  BY List_Length DEF IsList
<1> QED
  BY <1>1 DEF Listed, IsList

\* The walk goes along the list and stays at its end.
Along(f, n) == [k \in 0 .. Cardinality(Waiters) |-> IF k < n THEN f[k + 1] ELSE Null]

\* The walk goes along the list and stays at its end: two solutions of its recursion
\* would differ at a first step.
LEMMA List_Walk ==
  ASSUME NEW f, NEW n, NEW x, NEW nx, IsList(f, n, x, nx)
  PROVE  WalkOf(x, nx) = Along(f, n)
<1> DEFINE D == 0 .. Cardinality(Waiters)
<1> DEFINE h == Along(f, n)
<1>1. /\ n \in Nat /\ f \in [1 .. n -> Waiters] /\ x = (IF n = 0 THEN Null ELSE f[1])
      /\ \A i \in 1 .. n : nx[f[i]] = IF i = n THEN Null ELSE f[i + 1]
  BY DEF IsList
<1>2. n <= Cardinality(Waiters) /\ Cardinality(Waiters) \in Nat
  BY List_Length
<1>3. h = [k \in D |-> h[k]] /\ \A k \in D : h[k] = IF k < n THEN f[k + 1] ELSE Null
  BY DEF Along
<1> HIDE DEF h
<1>4. ASSUME NEW k \in D
      PROVE  h[k] = IF k = 0 THEN x ELSE IF h[k - 1] = Null THEN Null ELSE nx[h[k - 1]]
  <2>1. CASE k = 0
    BY <1>1, <1>2, <1>3, <2>1
  <2>2. CASE k # 0
    <3>1. k \in Nat /\ k - 1 \in D /\ k - 1 \in Nat /\ (k - 1) + 1 = k
      BY <2>2, <1>2
    <3>2. CASE k - 1 < n
      <4>1. k \in 1 .. n /\ h[k - 1] = f[k] /\ f[k] \in Waiters /\ f[k] # Null
        BY <3>1, <3>2, <1>1, <1>3, NullIsNoNode
      <4>2. nx[f[k]] = IF k = n THEN Null ELSE f[k + 1]
        BY <4>1, <1>1
      <4>3. k = n <=> ~(k < n)
        BY <4>1, <1>1
      <4> QED
        BY <2>2, <4>1, <4>2, <4>3, <1>3
    <3>3. CASE ~(k - 1 < n)
      BY <3>1, <3>3, <2>2, <1>1, <1>3
    <3> QED
      BY <3>2, <3>3
  <2> QED
    BY <2>1, <2>2
<1> DEFINE g == WalkOf(x, nx)
<1>5. g = CHOOSE a : a = [k \in D |-> IF k = 0 THEN x
                                    ELSE IF a[k - 1] = Null THEN Null ELSE nx[a[k - 1]]]
  BY DEF WalkOf
<1>6. h = [k \in D |-> IF k = 0 THEN x ELSE IF h[k - 1] = Null THEN Null ELSE nx[h[k - 1]]]
  BY <1>3, <1>4
<1> HIDE DEF g
<1>7. g = [k \in D |-> IF k = 0 THEN x ELSE IF g[k - 1] = Null THEN Null ELSE nx[g[k - 1]]]
  BY <1>5, <1>6
<1>8. g = h
  <2> DEFINE Differ == {k \in D : g[k] # h[k]}
  <2>1. CASE Differ = {}
    BY <1>3, <1>7, <2>1
  <2>2. CASE Differ # {}
    <3>1. Differ \in SUBSET Nat
      BY <1>2
    <3>2. PICK m \in Differ : \A k \in Differ : m <= k
      BY <2>2, <3>1, LeastNatural
    <3>3. m # 0
      BY <3>2, <1>4, <1>7
    <3>4. m - 1 \in D /\ m - 1 \notin Differ
      BY <1>2, <3>2, <3>3
    <3>5. g[m - 1] = h[m - 1]
      BY <3>4
    <3>6. m \in D /\ g[m] # h[m]
      BY <3>2
    <3>7. g[m] = IF g[m - 1] = Null THEN Null ELSE nx[g[m - 1]]
      BY <3>3, <3>6, <1>7
    <3>8. h[m] = IF h[m - 1] = Null THEN Null ELSE nx[h[m - 1]]
      BY <3>3, <3>6, <1>4
    <3> QED
      BY <3>5, <3>6, <3>7, <3>8
  <2> QED
    BY <2>1, <2>2
<1> QED
  BY <1>8 DEF g, h

\* The walk meets the nodes of the list and ends.
LEMMA List_Nodes ==
  ASSUME NEW x, NEW S, NEW nx, Listed(x, S, nx)
  PROVE  /\ NodesOf(x, nx) = S /\ S \subseteq Waiters /\ WalkOf(x, nx)[Cardinality(Waiters)] = Null
         /\ x \in Links /\ (x = Null <=> S = {}) /\ (x # Null => x \in S)
<1>1. PICK n \in Nat : \E f \in [1 .. n -> Waiters] : IsList(f, n, x, nx) /\ S = {f[i] :
          i \in 1 .. n}
  BY List_Pick
<1>2. PICK f \in [1 .. n -> Waiters] : IsList(f, n, x, nx) /\ S = {f[i] : i \in 1 .. n}
  BY <1>1
<1>3. n <= Cardinality(Waiters) /\ Cardinality(Waiters) \in Nat
  BY <1>2, List_Length
<1>4. WalkOf(x, nx) = Along(f, n)
  BY <1>2, List_Walk
<1>5. S \subseteq Waiters
  BY <1>2
<1>6. WalkOf(x, nx)[Cardinality(Waiters)] = Null
  BY <1>3, <1>4 DEF Along
<1>7. x \in Links /\ (x = Null <=> S = {}) /\ (x # Null => x \in S)
  <2>1. x = IF n = 0 THEN Null ELSE f[1]
    BY <1>2 DEF IsList
  <2>2. CASE n = 0
    BY <2>1, <2>2, <1>2 DEF Links
  <2>3. CASE n # 0
    <3>1. 1 \in 1 .. n /\ f[1] \in S
      BY <2>3, <1>2
    <3> QED
      BY <2>1, <2>3, <3>1, <1>5, NullIsNoNode DEF Links
  <2> QED
    BY <2>2, <2>3
<1>8. NodesOf(x, nx) = S
  <2>1. ASSUME NEW k \in 0 .. Cardinality(Waiters), Along(f, n)[k] # Null
        PROVE  Along(f, n)[k] \in S
    <3>1. k < n /\ Along(f, n)[k] = f[k + 1]
      BY <2>1 DEF Along
    <3>2. k + 1 \in 1 .. n
      BY <3>1, <1>3
    <3> QED
      BY <3>1, <3>2, <1>2
  <2>2. ASSUME NEW i \in 1 .. n
        PROVE  i - 1 \in 0 .. Cardinality(Waiters) /\ Along(f, n)[i - 1] = f[i] /\ f[i] # Null
    <3>1. i - 1 \in 0 .. Cardinality(Waiters) /\ i - 1 < n /\ (i - 1) + 1 = i
      BY <1>3
    <3> QED
      BY <3>1, <1>2, NullIsNoNode DEF Along
  <2>3. NodesOf(x, nx) = {Along(f, n)[k] : k \in 0 .. Cardinality(Waiters)} \ {Null}
    BY <1>4 DEF NodesOf
  <2> QED
    BY <2>1, <2>2, <2>3, <1>2
<1> QED
  BY <1>5, <1>6, <1>7, <1>8

\* The list without its first node.
LEMMA List_Pop ==
  ASSUME NEW x, NEW S, NEW nx, Listed(x, S, nx), x # Null
  PROVE  Listed(nx[x], S \ {x}, nx) /\ nx[x] # x
<1>1. PICK n \in Nat : \E f \in [1 .. n -> Waiters] : IsList(f, n, x, nx) /\ S = {f[i] :
          i \in 1 .. n}
  BY List_Pick
<1>2. PICK f \in [1 .. n -> Waiters] : IsList(f, n, x, nx) /\ S = {f[i] : i \in 1 .. n}
  BY <1>1
<1>3. /\ \A i, j \in 1 .. n : f[i] = f[j] => i = j
      /\ n # 0 /\ x = f[1]
      /\ \A i \in 1 .. n : nx[f[i]] = IF i = n THEN Null ELSE f[i + 1]
      /\ \A i \in 2 .. n : i # n => Prio[f[i]] >= Prio[f[i + 1]]
  BY <1>2 DEF IsList
<1> DEFINE m == n - 1
<1> DEFINE g == [i \in 1 .. m |-> f[i + 1]]
<1>4. m \in Nat /\ n = m + 1 /\ 1 \in 1 .. n /\ \A i \in 1 .. m :
          i + 1 \in 1 .. n /\ i + 1 # 1 /\ (i + 1 = n <=> i = m)
  BY <1>3
<1>5. g \in [1 .. m -> Waiters] /\ \A i \in 1 .. m : g[i] = f[i + 1]
  BY <1>4
<1>6. \A i, j \in 1 .. m : g[i] = g[j] => i = j
  <2> SUFFICES ASSUME NEW i \in 1 .. m, NEW j \in 1 .. m, g[i] = g[j] PROVE i = j
    OBVIOUS
  <2>1. i + 1 = j + 1
    BY <1>3, <1>4, <1>5
  <2> QED
    BY <2>1, <1>4
<1>7. nx[x] = IF m = 0 THEN Null ELSE g[1]
  <2>1. nx[f[1]] = IF 1 = n THEN Null ELSE f[1 + 1]
    BY <1>3, <1>4
  <2> QED
    BY <2>1, <1>3, <1>4, <1>5
<1>8. ASSUME NEW i \in 1 .. m PROVE nx[g[i]] = IF i = m THEN Null ELSE g[i + 1]
  <2>1. nx[f[i + 1]] = IF i + 1 = n THEN Null ELSE f[(i + 1) + 1]
    BY <1>3, <1>4
  <2>2. i # m => i + 1 \in 1 .. m
    BY <1>4
  <2> QED
    BY <2>1, <2>2, <1>4, <1>5
<1>9. ASSUME NEW i \in 2 .. m, i # m PROVE Prio[g[i]] >= Prio[g[i + 1]]
  <2>1. i + 1 \in 2 .. n /\ i + 1 # n /\ i \in 1 .. m /\ i + 1 \in 1 .. m
    BY <1>4, <1>9
  <2>2. Prio[f[i + 1]] >= Prio[f[(i + 1) + 1]]
    BY <2>1, <1>3
  <2> QED
    BY <2>1, <2>2, <1>5
<1>10. S \ {x} = {g[i] : i \in 1 .. m}
  <2>1. ASSUME NEW i \in 1 .. m PROVE g[i] \in S /\ g[i] # x
    BY <1>2, <1>3, <1>4, <1>5
  <2>2. ASSUME NEW i \in 1 .. n, f[i] # x PROVE i - 1 \in 1 .. m /\ g[i - 1] = f[i]
    <3>1. i # 1
      BY <2>2, <1>3
    <3>2. i - 1 \in 1 .. m /\ (i - 1) + 1 = i
      BY <3>1, <1>4
    <3> QED
      BY <3>2, <1>5
  <2>3. \A y \in S \ {x} : y \in {g[i] : i \in 1 .. m}
    BY <1>2, <2>2
  <2>4. {g[i] : i \in 1 .. m} \subseteq S \ {x}
    BY <2>1
  <2> QED
    BY <2>3, <2>4
<1>11. nx[x] # x
  <2>1. CASE m = 0
    BY <2>1, <1>2, <1>3, <1>4, <1>7, NullIsNoNode
  <2>2. CASE m # 0
    <3>1. 1 \in 1 .. m
      BY <2>2, <1>4
    <3>2. g[1] # f[1]
      BY <3>1, <1>3, <1>4, <1>5
    <3> QED
      BY <2>2, <3>2, <1>3, <1>7
  <2> QED
    BY <2>1, <2>2
<1> HIDE DEF g, m
<1>12. IsList(g, m, nx[x], nx)
  BY <1>4, <1>5, <1>6, <1>7, <1>8, <1>9 DEF IsList
<1> QED
  BY <1>4, <1>5, <1>10, <1>11, <1>12, List_Is

\* Only the pointers of its nodes matter.
LEMMA List_Same ==
  ASSUME NEW x, NEW S, NEW nx, NEW ny, Listed(x, S, nx), \A w \in S : ny[w] = nx[w]
  PROVE  Listed(x, S, ny)
<1>1. PICK n \in Nat : \E f \in [1 .. n -> Waiters] : IsList(f, n, x, nx) /\ S = {f[i] :
          i \in 1 .. n}
  BY List_Pick
<1>2. PICK f \in [1 .. n -> Waiters] : IsList(f, n, x, nx) /\ S = {f[i] : i \in 1 .. n}
  BY <1>1
<1>3. \A i \in 1 .. n : ny[f[i]] = nx[f[i]]
  BY <1>2
<1>4. IsList(f, n, x, ny)
  BY <1>2, <1>3 DEF IsList
<1> QED
  BY <1>2, <1>4, List_Is

\* The pointer of a node leads to a node or is Null.
LEMMA List_Next ==
  ASSUME NEW x, NEW S, NEW nx, Listed(x, S, nx), NEW i \in S
  PROVE  (nx[i] \in S \/ nx[i] = Null) /\ nx[i] # i /\ nx[i] # x
<1>1. PICK n \in Nat : \E f \in [1 .. n -> Waiters] : IsList(f, n, x, nx) /\ S = {f[k] :
          k \in 1 .. n}
  BY List_Pick
<1>2. PICK f \in [1 .. n -> Waiters] : IsList(f, n, x, nx) /\ S = {f[k] : k \in 1 .. n}
  BY <1>1
<1>3. PICK k \in 1 .. n : i = f[k]
  BY <1>2
<1>4. /\ \A u, v \in 1 .. n : f[u] = f[v] => u = v
      /\ x = f[1] /\ nx[i] = (IF k = n THEN Null ELSE f[k + 1])
  BY <1>2, <1>3 DEF IsList
<1>5. k # n => k + 1 \in 1 .. n /\ k + 1 # k /\ k + 1 # 1
  OBVIOUS
<1>6. 1 \in 1 .. n
  BY <1>3
<1> QED
  BY <1>2, <1>3, <1>4, <1>5, <1>6, NullIsNoNode

\* The empty list ...
LEMMA List_Empty ==
  ASSUME NEW nx
  PROVE  Listed(Null, {}, nx)
<1> DEFINE f == [i \in 1 .. 0 |-> Null]
<1>1. 0 \in Nat /\ f \in [1 .. 0 -> Waiters] /\ 1 .. 0 = {} /\ 2 .. 0 = {}
  OBVIOUS
<1> HIDE DEF f
<1>2. IsList(f, 0, Null, nx) /\ {} = {f[i] : i \in 1 .. 0}
  BY <1>1 DEF IsList
<1> QED
  BY <1>1, <1>2, List_Is

\* ... and the list of one node.
LEMMA List_Single ==
  ASSUME NEW w \in Waiters, NEW nx, nx[w] = Null
  PROVE  Listed(w, {w}, nx)
<1> DEFINE f == [i \in 1 .. 1 |-> w]
<1>1. 1 \in Nat /\ f \in [1 .. 1 -> Waiters] /\ \A i \in 1 .. 1 : f[i] = w /\ i = 1
  OBVIOUS
<1>2. 1 \in 1 .. 1 /\ 2 .. 1 = {}
  OBVIOUS
<1> HIDE DEF f
<1>3. IsList(f, 1, w, nx)
  BY <1>1, <1>2 DEF IsList
<1>4. {w} = {f[i] : i \in 1 .. 1}
  BY <1>1, <1>2
<1> QED
  BY <1>1, <1>3, <1>4, List_Is

\* A node w is put behind the node i.
LEMMA List_Insert ==
  ASSUME NEW x, NEW S, NEW nx \in [Waiters -> Links], Listed(x, S, nx), NEW i \in S,
         NEW w \in Waiters, w \notin S, nx[w] = nx[i],
         i = x \/ Prio[i] >= Prio[w],
         nx[i] = Null \/ Prio[w] >= Prio[nx[i]],
         NEW ny, ny = [nx EXCEPT ![i] = w]
  PROVE  Listed(x, S \cup {w}, ny)
<1>1. PICK n \in Nat : \E f \in [1 .. n -> Waiters] : IsList(f, n, x, nx) /\ S = {f[k] :
          k \in 1 .. n}
  BY List_Pick
<1>2. PICK f \in [1 .. n -> Waiters] : IsList(f, n, x, nx) /\ S = {f[k] : k \in 1 .. n}
  BY <1>1
<1>3. PICK k \in 1 .. n : i = f[k]
  BY <1>2
<1>4. /\ \A u, v \in 1 .. n : f[u] = f[v] => u = v
      /\ x = f[1] /\ \A u \in 1 .. n : nx[f[u]] = IF u = n THEN Null ELSE f[u + 1]
      /\ \A u \in 2 .. n : u # n => Prio[f[u]] >= Prio[f[u + 1]]
  BY <1>2, <1>3 DEF IsList
<1> DEFINE m == n + 1
<1> DEFINE g == [u \in 1 .. m |-> IF u <= k THEN f[u] ELSE IF u = k + 1 THEN w ELSE f[u - 1]]
<1>5. /\ m \in Nat /\ m # 0 /\ k \in Nat /\ k + 1 \in 1 .. m /\ m = n + 1
      /\ \A u \in 1 .. m : /\ u <= k => u \in 1 .. n
                           /\ u > k + 1 => u - 1 \in 1 .. n /\ u - 1 > k
                           /\ u <= k \/ u = k + 1 \/ u > k + 1
  OBVIOUS
<1>6. /\ \A u \in 1 .. m : u <= k => g[u] = f[u]
      /\ g[k + 1] = w
      /\ \A u \in 1 .. m : u > k + 1 => g[u] = f[u - 1]
  BY <1>5
<1>7. g \in [1 .. m -> Waiters]
  <2>1. \A u \in 1 .. m : g[u] \in Waiters
    BY <1>5, <1>6
  <2> QED
    BY <2>1
<1> HIDE DEF g
<1>8. \A u \in 1 .. n : f[u] \in S /\ f[u] # w
  BY <1>2
<1>9. \A u, v \in 1 .. m : g[u] = g[v] => u = v
  <2> SUFFICES ASSUME NEW u \in 1 .. m, NEW v \in 1 .. m, g[u] = g[v] PROVE u = v
    OBVIOUS
  <2>1. CASE u = k + 1
    BY <2>1, <1>5, <1>6, <1>8
  <2>2. CASE v = k + 1
    BY <2>2, <1>5, <1>6, <1>8
  <2>3. CASE u <= k /\ v <= k
    BY <2>3, <1>4, <1>5, <1>6
  <2>4. CASE u > k + 1 /\ v > k + 1
    <3>1. u - 1 = v - 1
      BY <2>4, <1>4, <1>5, <1>6
    <3> QED
      BY <3>1
  <2>5. CASE u <= k /\ v > k + 1
    <3>1. u = v - 1 /\ v - 1 > k
      BY <2>5, <1>4, <1>5, <1>6
    <3> QED
      BY <3>1, <2>5, <1>5
  <2>6. CASE v <= k /\ u > k + 1
    <3>1. v = u - 1 /\ u - 1 > k
      BY <2>6, <1>4, <1>5, <1>6
    <3> QED
      BY <3>1, <2>6, <1>5
  <2> QED
    BY <2>1, <2>2, <2>3, <2>4, <2>5, <2>6, <1>5
<1>10. g[1] = x
  BY <1>4, <1>5, <1>6
<1>11. ny[i] = w /\ \A u \in Waiters \ {i} : ny[u] = nx[u]
  <2>1. i \in Waiters
    BY <1>2
  <2> QED
    BY <2>1
<1>12. ASSUME NEW u \in 1 .. m PROVE ny[g[u]] = IF u = m THEN Null ELSE g[u + 1]
  <2>1. CASE u < k
    <3>1. u \in 1 .. n /\ u # k /\ u # n /\ u + 1 <= k /\ u + 1 \in 1 .. m /\ u # m
      BY <2>1, <1>5
    <3>2. f[u] # i
      BY <3>1, <1>3, <1>4
    <3>3. g[u] = f[u] /\ g[u + 1] = f[u + 1]
      BY <3>1, <1>6
    <3> QED
      BY <3>1, <3>2, <3>3, <1>4, <1>11
  <2>2. CASE u = k
    BY <2>2, <1>3, <1>5, <1>6, <1>11
  <2>3. CASE u = k + 1
    <3>1. w # i
      BY <1>2
    <3>2. nx[w] = IF k = n THEN Null ELSE f[k + 1]
      BY <1>3, <1>4
    <3>3. k = n <=> u = m
      BY <2>3, <1>5
    <3>4. k # n => g[u + 1] = f[k + 1]
      <4>1. k # n => u + 1 \in 1 .. m /\ u + 1 > k + 1 /\ (u + 1) - 1 = k + 1
        BY <2>3, <1>5
      <4> QED
        BY <4>1, <1>6
    <3> QED
      BY <2>3, <3>1, <3>2, <3>3, <3>4, <1>6, <1>11
  <2>4. CASE u > k + 1
    <3>1. u - 1 \in 1 .. n /\ u - 1 # k /\ (u - 1) + 1 = u /\ (u - 1 = n <=> u = m)
      BY <2>4, <1>5
    <3>2. g[u] = f[u - 1] /\ f[u - 1] # i
      BY <2>4, <3>1, <1>3, <1>4, <1>6
    <3>3. nx[f[u - 1]] = IF u = m THEN Null ELSE f[u]
      BY <3>1, <1>4
    <3>4. u # m => g[u + 1] = f[u]
      <4>1. u # m => u + 1 \in 1 .. m /\ u + 1 > k + 1 /\ (u + 1) - 1 = u
        BY <2>4, <1>5
      <4> QED
        BY <4>1, <1>6
    <3> QED
      BY <3>1, <3>2, <3>3, <3>4, <1>8, <1>11
  <2> QED
    BY <2>1, <2>2, <2>3, <2>4, <1>5
<1>13. ASSUME NEW u \in 2 .. m, u # m PROVE Prio[g[u]] >= Prio[g[u + 1]]
  <2>1. CASE u < k
    <3>1. u \in 2 .. n /\ u # n /\ u <= k /\ u + 1 <= k /\ u + 1 \in 1 .. m /\ u \in 1 .. m
      BY <2>1, <1>5
    <3>2. g[u] = f[u] /\ g[u + 1] = f[u + 1]
      BY <3>1, <1>6
    <3> QED
      BY <3>1, <3>2, <1>4
  <2>2. CASE u = k
    <3>1. k # 1 /\ 1 \in 1 .. n
      BY <2>2
    <3>2. i # x
      BY <3>1, <1>3, <1>4
    <3>3. g[u] = i /\ g[u + 1] = w
      BY <2>2, <1>3, <1>5, <1>6
    <3> QED
      BY <3>2, <3>3
  <2>3. CASE u = k + 1
    <3>1. k # n /\ k + 1 \in 1 .. n /\ u + 1 \in 1 .. m /\ u + 1 > k + 1 /\ (u + 1) - 1 = k + 1
      BY <2>3, <1>5, <1>13
    <3>2. g[u] = w /\ g[u + 1] = f[k + 1] /\ f[k + 1] = nx[i] /\ nx[i] # Null
      BY <2>3, <3>1, <1>3, <1>4, <1>6, NullIsNoNode
    <3> QED
      BY <3>2
  <2>4. CASE u > k + 1
    <3>1. /\ u - 1 \in 2 .. n /\ u - 1 # n /\ (u - 1) + 1 = u
          /\ u \in 1 .. m /\ u + 1 \in 1 .. m /\ u + 1 > k + 1 /\ (u + 1) - 1 = u
      BY <2>4, <1>5, <1>13
    <3>2. g[u] = f[u - 1] /\ g[u + 1] = f[u]
      BY <2>4, <3>1, <1>6
    <3>3. Prio[f[u - 1]] >= Prio[f[u]]
      BY <3>1, <1>4
    <3> QED
      BY <3>2, <3>3
  <2> QED
    BY <2>1, <2>2, <2>3, <2>4, <1>5
<1>14. S \cup {w} = {g[u] : u \in 1 .. m}
  <2>1. \A u \in 1 .. m : g[u] \in S \cup {w}
    BY <1>2, <1>5, <1>6
  <2>2. ASSUME NEW u \in 1 .. n PROVE \E v \in 1 .. m : g[v] = f[u]
    <3>1. CASE u <= k
      <4>1. u \in 1 .. m
        BY <1>5
      <4> QED
        BY <4>1, <3>1, <1>6
    <3>2. CASE u > k
      <4>1. u + 1 \in 1 .. m /\ u + 1 > k + 1 /\ (u + 1) - 1 = u
        BY <3>2, <1>5
      <4> QED
        BY <4>1, <1>6
    <3> QED
      BY <3>1, <3>2, <1>5
  <2>3. \E v \in 1 .. m : g[v] = w
    BY <1>5, <1>6
  <2>4. \A y \in S \cup {w} : y \in {g[u] : u \in 1 .. m}
    BY <1>2, <2>2, <2>3
  <2> QED
    BY <2>1, <2>4
<1> HIDE DEF m
<1>15. IsList(g, m, x, ny)
  BY <1>5, <1>7, <1>9, <1>10, <1>12, <1>13 DEF IsList
<1> QED
  BY <1>5, <1>7, <1>14, <1>15, List_Is

\* Priorities are transitive.
LEMMA Transitive == \A a, b, c \in Nat : a >= b /\ b >= c => a >= c
OBVIOUS

\* A node w is taken from behind the node i.
LEMMA List_Remove ==
  ASSUME NEW x, NEW S, NEW nx \in [Waiters -> Links], Listed(x, S, nx), NEW i \in S,
         NEW w, nx[i] = w, w # Null, NEW ny, ny = [nx EXCEPT ![i] = nx[w]]
  PROVE  w \in S /\ w # x /\ Listed(x, S \ {w}, ny)
<1>1. PICK n \in Nat : \E f \in [1 .. n -> Waiters] : IsList(f, n, x, nx) /\ S = {f[k] :
          k \in 1 .. n}
  BY List_Pick
<1>2. PICK f \in [1 .. n -> Waiters] : IsList(f, n, x, nx) /\ S = {f[k] : k \in 1 .. n}
  BY <1>1
<1>3. PICK k \in 1 .. n : i = f[k]
  BY <1>2
<1>4. /\ \A u, v \in 1 .. n : f[u] = f[v] => u = v
      /\ x = f[1] /\ \A u \in 1 .. n : nx[f[u]] = IF u = n THEN Null ELSE f[u + 1]
      /\ \A u \in 2 .. n : u # n => Prio[f[u]] >= Prio[f[u + 1]]
  BY <1>2, <1>3 DEF IsList
<1>5. k # n /\ k + 1 \in 1 .. n /\ w = f[k + 1] /\ k + 1 # 1 /\ 1 \in 1 .. n
  <2>1. k # n /\ w = f[k + 1]
    BY <1>3, <1>4
  <2> QED
    BY <2>1
<1> DEFINE m == n - 1
<1> DEFINE g == [u \in 1 .. m |-> IF u <= k THEN f[u] ELSE f[u + 1]]
<1>6. /\ m \in Nat /\ m # 0 /\ n = m + 1 /\ k \in 1 .. m /\ 1 \in 1 .. m
      /\ \A u \in 1 .. m : /\ u \in 1 .. n /\ u + 1 \in 1 .. n /\ (u + 1 = n <=> u = m)
                           /\ (u <= k /\ u # k + 1) \/ (u > k /\ u + 1 # k + 1)
  BY <1>5
<1>7. \A u \in 1 .. m : (u <= k => g[u] = f[u]) /\ (u > k => g[u] = f[u + 1])
  BY <1>6
<1>8. g \in [1 .. m -> Waiters]
  <2>1. \A u \in 1 .. m : g[u] \in Waiters
    BY <1>6, <1>7
  <2> QED
    BY <2>1
<1> HIDE DEF g
<1>9. \A u, v \in 1 .. m : g[u] = g[v] => u = v
  <2> SUFFICES ASSUME NEW u \in 1 .. m, NEW v \in 1 .. m, g[u] = g[v] PROVE u = v
    OBVIOUS
  <2>1. CASE u <= k /\ v <= k
    BY <2>1, <1>4, <1>6, <1>7
  <2>2. CASE u > k /\ v > k
    <3>1. u + 1 = v + 1
      BY <2>2, <1>4, <1>6, <1>7
    <3> QED
      BY <3>1
  <2>3. CASE u <= k /\ v > k
    <3>1. u = v + 1
      BY <2>3, <1>4, <1>6, <1>7
    <3> QED
      BY <3>1, <2>3
  <2>4. CASE v <= k /\ u > k
    <3>1. v = u + 1
      BY <2>4, <1>4, <1>6, <1>7
    <3> QED
      BY <3>1, <2>4
  <2> QED
    BY <2>1, <2>2, <2>3, <2>4, <1>6
<1>10. g[1] = x
  BY <1>4, <1>6, <1>7
<1>11. ny[i] = nx[w] /\ \A u \in Waiters \ {i} : ny[u] = nx[u]
  <2>1. i \in Waiters
    BY <1>2
  <2> QED
    BY <2>1
<1>12. ASSUME NEW u \in 1 .. m PROVE ny[g[u]] = IF u = m THEN Null ELSE g[u + 1]
  <2>1. CASE u < k
    <3>1. u \in 1 .. n /\ u # k /\ u # n /\ u + 1 <= k /\ u + 1 \in 1 .. m /\ u # m
      BY <2>1, <1>6
    <3>2. f[u] # i
      BY <3>1, <1>3, <1>4
    <3>3. g[u] = f[u] /\ g[u + 1] = f[u + 1]
      BY <3>1, <1>7
    <3> QED
      BY <3>1, <3>2, <3>3, <1>4, <1>11
  <2>2. CASE u = k
    <3>1. g[u] = i
      BY <2>2, <1>3, <1>7
    <3>2. nx[w] = IF k + 1 = n THEN Null ELSE f[(k + 1) + 1]
      BY <1>4, <1>5
    <3>3. u # m => g[u + 1] = f[(k + 1) + 1]
      <4>1. u # m => u + 1 \in 1 .. m /\ u + 1 > k
        BY <2>2, <1>6
      <4> QED
        BY <4>1, <2>2, <1>7
    <3>4. k + 1 = n <=> u = m
      BY <2>2, <1>6
    <3> QED
      BY <3>1, <3>2, <3>3, <3>4, <1>11
  <2>3. CASE u > k
    <3>1. u + 1 \in 1 .. n /\ u + 1 # k /\ (u + 1 = n <=> u = m)
      BY <2>3, <1>6
    <3>2. g[u] = f[u + 1] /\ f[u + 1] # i
      BY <2>3, <3>1, <1>3, <1>4, <1>7
    <3>3. nx[f[u + 1]] = IF u = m THEN Null ELSE f[(u + 1) + 1]
      BY <3>1, <1>4
    <3>4. u # m => g[u + 1] = f[(u + 1) + 1]
      <4>1. u # m => u + 1 \in 1 .. m /\ u + 1 > k
        BY <2>3, <1>6
      <4> QED
        BY <4>1, <1>7
    <3> QED
      BY <3>1, <3>2, <3>3, <3>4, <1>11
  <2> QED
    BY <2>1, <2>2, <2>3, <1>6
<1>13. ASSUME NEW u \in 2 .. m, u # m PROVE Prio[g[u]] >= Prio[g[u + 1]]
  <2>1. u \in 1 .. m /\ u + 1 \in 1 .. m /\ u \in 2 .. n /\ u + 1 \in 2 .. n /\ u # n /\ u + 1 # n
    BY <1>6, <1>13
  <2>2. CASE u < k
    <3>1. g[u] = f[u] /\ g[u + 1] = f[u + 1]
      <4>1. u <= k /\ u + 1 <= k
        BY <2>2, <2>1, <1>6
      <4> QED
        BY <4>1, <2>1, <1>7
    <3> QED
      BY <2>1, <3>1, <1>4
  <2>3. CASE u = k
    <3>1. g[u] = f[u] /\ g[u + 1] = f[(u + 1) + 1]
      <4>1. u <= k /\ u + 1 > k
        BY <2>3, <2>1, <1>6
      <4> QED
        BY <4>1, <2>1, <1>7
    <3>2. Prio[f[u]] >= Prio[f[u + 1]] /\ Prio[f[u + 1]] >= Prio[f[(u + 1) + 1]]
      BY <2>1, <1>4
    <3>3. f[u] \in Waiters /\ f[u + 1] \in Waiters /\ f[(u + 1) + 1] \in Waiters
      <4>1. u \in 1 .. n /\ u + 1 \in 1 .. n /\ (u + 1) + 1 \in 1 .. n
        BY <2>1
      <4> QED
        BY <4>1
    <3>4. Prio[f[u]] \in Nat /\ Prio[f[u + 1]] \in Nat /\ Prio[f[(u + 1) + 1]] \in Nat
      BY <3>3, PrioType
    <3>5. Prio[f[u]] >= Prio[f[(u + 1) + 1]]
      BY <3>2, <3>4, Transitive
    <3> QED
      BY <3>1, <3>5
  <2>4. CASE u > k
    <3>1. g[u] = f[u + 1] /\ g[u + 1] = f[(u + 1) + 1]
      <4>1. u > k /\ u + 1 > k
        BY <2>4, <2>1, <1>6
      <4> QED
        BY <4>1, <2>1, <1>7
    <3> QED
      BY <2>1, <3>1, <1>4
  <2> QED
    BY <2>1, <2>2, <2>3, <2>4, <1>6
<1>14. S \ {w} = {g[u] : u \in 1 .. m}
  <2>1. ASSUME NEW u \in 1 .. m PROVE g[u] \in S /\ g[u] # w
    <3>1. CASE u <= k
      BY <3>1, <1>2, <1>4, <1>5, <1>6, <1>7
    <3>2. CASE u > k
      BY <3>2, <1>2, <1>4, <1>5, <1>6, <1>7
    <3> QED
      BY <3>1, <3>2, <1>6
  <2>2. ASSUME NEW u \in 1 .. n, f[u] # w PROVE \E v \in 1 .. m : g[v] = f[u]
    <3>1. CASE u <= k
      <4>1. u \in 1 .. m
        BY <3>1, <1>6
      <4> QED
        BY <4>1, <3>1, <1>7
    <3>2. CASE u > k
      <4>1. u # k + 1
        BY <2>2, <1>5
      <4>2. u - 1 \in 1 .. m /\ u - 1 > k /\ (u - 1) + 1 = u
        BY <3>2, <4>1, <1>6
      <4> QED
        BY <4>2, <1>7
    <3> QED
      BY <3>1, <3>2, <1>6
  <2>3. \A y \in S \ {w} : y \in {g[u] : u \in 1 .. m}
    BY <1>2, <2>2
  <2>4. {g[u] : u \in 1 .. m} \subseteq S \ {w}
    BY <2>1
  <2> QED
    BY <2>3, <2>4
<1>15. w \in S /\ w # x
  BY <1>2, <1>4, <1>5
<1> HIDE DEF m
<1>16. IsList(g, m, x, ny)
  BY <1>6, <1>8, <1>9, <1>10, <1>12, <1>13 DEF IsList
<1> QED
  BY <1>6, <1>8, <1>14, <1>15, <1>16, List_Is

-----------------------------------------------------------------------------
(* The invariant. *)

Kinds == {"link", "unlink", "one", "all"}
Places == {"head", "next", "store", "swap", "load", "walk", "mark", "post"}
Frames == [kind : Kinds, who : Links, pc : Places, i : Links, in : Links]

TQTypes ==
  /\ m_h \in Links
  /\ next \in [Waiters -> Links]
  /\ notified \in [Waiters -> BOOLEAN] /\ unlinked \in [Waiters -> BOOLEAN]
  /\ m_s \in [Waiters -> {0, 1}]
  /\ wpc \in [Waiters -> {"idle", "blocked", "woken", "timeout", "unlink", "unlinking"}]
  /\ outcome \in [Waiters -> {"none", "notified", "timeout"}]
  /\ stack \in Seq(Frames)

\* A node that was notified is unlinked, and its thread has the token or has taken it.
Tokens ==
  \A w \in Waiters : /\ notified[w] => unlinked[w]
                     /\ wpc[w] = "woken" => notified[w]
                     /\ wpc[w] = "idle" => ~notified[w] /\ m_s[w] = 0
                     /\ m_s[w] = IF notified[w] /\ wpc[w] # "woken" THEN 1 ELSE 0

\* The nodes that wait and are not marked.
Alive == {w \in Waiters : wpc[w] # "idle" /\ ~unlinked[w]}

\* A thread whose SVC has returned is unlinked.
Returned == \A w \in Waiters : wpc[w] = "unlinking" => unlinked[w]

\* A notification under way, and the nodes that it has taken.
NotifyFrame(fr, nx) ==
  /\ fr.kind \in {"one", "all"} /\ fr.pc \in {"head", "swap", "post"}
  /\ fr.pc = "swap" => fr.kind = "one" /\ fr.i \in Waiters /\ fr.in = nx[fr.i]
  /\ fr.pc = "post" => fr.i \in Waiters
  /\ fr.pc = "post" /\ fr.kind = "all" => Listed(fr.i, NodesOf(fr.i, nx), nx)

Taken(fr, nx) == IF fr.pc # "post" THEN {}
                 ELSE IF fr.kind = "all" THEN NodesOf(fr.i, nx)
                 ELSE {fr.i}

\* Only notifications are under way. Each has nodes of its own.
Notifying ==
  /\ \A k \in 1 .. Len(stack) : /\ NotifyFrame(stack[k], next)
                                /\ Taken(stack[k], next) \cap Queue = {}
  /\ \A k, l \in 1 .. Len(stack) : k # l => Taken(stack[k], next) \cap Taken(stack[l], next) = {}
  /\ Queue \cup UNION {Taken(stack[k], next) : k \in 1 .. Len(stack)} = Alive
  /\ Returned

\* A thread is being linked: everybody else is in the queue.
LinkFrame(fr) ==
  /\ fr.kind = "link" /\ fr.who \in Waiters
  /\ fr.pc \in {"head", "next", "store", "swap"}
  /\ fr.pc # "head" => fr.i \in Queue /\ (fr.i = m_h \/ Prio[fr.i] >= Prio[fr.who])
  /\ fr.pc \in {"store", "swap"} => /\ fr.in = next[fr.i]
                                    /\ fr.in = Null \/ Prio[fr.who] >= Prio[fr.in]
  /\ fr.pc = "swap" => next[fr.who] = fr.in
  /\ fr.pc = "head" => next[fr.who] = Null
Linking1 ==
  /\ Len(stack) = 1 /\ LinkFrame(stack[1])
  /\ wpc[stack[1].who] = "blocked" /\ ~unlinked[stack[1].who]
  /\ Queue = Alive \ {stack[1].who}
  /\ Returned

\* A thread is being unlinked: until it is, it is behind the node that is looked at.
UnlinkFrame(fr) ==
  /\ fr.kind = "unlink" /\ fr.who \in Waiters
  /\ fr.pc \in {"load", "head", "walk", "swap", "mark"}
  /\ fr.pc \in {"head", "walk", "swap"} => fr.in = next[fr.who]
  /\ fr.pc \in {"walk", "swap"} => fr.i \in Queue
  /\ fr.pc = "walk" => \E T \in SUBSET Waiters : /\ Listed(next[fr.i], T, next)
                                                 /\ fr.who \in Queue => fr.who \in T
  /\ fr.pc = "swap" => next[fr.i] = fr.who
Unlinking1 ==
  /\ Len(stack) = 1 /\ UnlinkFrame(stack[1])
  /\ wpc[stack[1].who] = "unlinking"
  /\ \A w \in Waiters \ {stack[1].who} : wpc[w] = "unlinking" => unlinked[w]
  /\ Queue = IF stack[1].pc = "mark" THEN Alive \ {stack[1].who} ELSE Alive

IInv == /\ TQTypes /\ Tokens /\ Listed(m_h, Queue, next)
        /\ Notifying \/ Linking1 \/ Unlinking1

-----------------------------------------------------------------------------
(* The queue and the handlers under way. *)

\* The queue depends on the head and on the pointers only.
LEMMA Queue_Is == Queue = NodesOf(m_h, next) /\ Queue' = NodesOf(m_h', next')
BY DEF Queue, NodesFrom, Walk, NodesOf, WalkOf

\* What the queue is after a step.
LEMMA Queue_Becomes ==
  ASSUME NEW S, Listed(m_h', S, next')
  PROVE  Queue' = S /\ Listed(m_h', Queue', next') /\ m_h' \in Links
BY List_Nodes, Queue_Is

\* It stays the same when no node in it is written.
LEMMA Queue_Same ==
  ASSUME IInv, m_h' = m_h, \A w \in Queue : next'[w] = next[w]
  PROVE  Queue' = Queue /\ Listed(m_h', Queue', next')
<1>1. Listed(m_h', Queue, next')
  BY List_Same DEF IInv
<1> QED
  BY <1>1, Queue_Becomes

\* A handler starts ...
LEMMA Stack_Push ==
  ASSUME stack \in Seq(Frames), NEW fr \in Frames, Push(fr)
  PROVE  /\ stack' \in Seq(Frames) /\ Len(stack) \in Nat /\ Len(stack') = Len(stack) + 1
         /\ \A k \in 1 .. Len(stack) : stack'[k] = stack[k]
         /\ stack'[Len(stack) + 1] = fr
BY DEF Push

\* ... returns ...
LEMMA Stack_Return ==
  ASSUME stack \in Seq(Frames), stack # <<>>, Return
  PROVE  /\ stack' \in Seq(Frames) /\ Len(stack') \in Nat /\ Len(stack) = Len(stack') + 1
         /\ \A k \in 1 .. Len(stack') : stack'[k] = stack[k]
<1> DEFINE n == Len(stack) - 1
<1>1. n \in Nat /\ Len(stack) = n + 1 /\ 1 \in 1 .. Len(stack) + 1
          /\ n \in 1 - 1 .. Len(stack) /\ (n - 1) + 1 = n
  OBVIOUS
<1>2. stack' = SubSeq(stack, 1, n)
  BY DEF Return, Front
<1> HIDE DEF n
<1>3. /\ stack' \in Seq(Frames) /\ Len(stack') = n
      /\ \A k \in 1 .. n : stack'[k] = stack[(1 + k) - 1]
  BY <1>1, <1>2, SubSeqProperties
<1>4. \A k \in 1 .. n : (1 + k) - 1 = k
  BY <1>1
<1> QED
  BY <1>1, <1>3, <1>4

\* ... or goes on.
LEMMA Stack_Go ==
  ASSUME stack \in Seq(Frames), stack # <<>>, NEW pc \in Places, NEW i \in Links, NEW in \in Links,
         Go(pc, i, in)
  PROVE  /\ stack' \in Seq(Frames) /\ Len(stack') = Len(stack) /\ Len(stack) \in Nat
                /\ Len(stack) # 0
         /\ \A k \in 1 .. Len(stack) : k # Len(stack) => stack'[k] = stack[k]
         /\ stack'[Len(stack)].kind = Top.kind /\ stack'[Len(stack)].who = Top.who
         /\ stack'[Len(stack)].pc = pc /\ stack'[Len(stack)].i = i /\ stack'[Len(stack)].in = in
<1> DEFINE fr == [Top EXCEPT !.pc = pc, !.i = i, !.in = in]
<1>1. Len(stack) \in Nat /\ Len(stack) # 0 /\ Len(stack) \in 1 .. Len(stack)
  OBVIOUS
<1>2. Top \in Frames
  BY <1>1 DEF Top
<1>3. /\ fr \in Frames /\ fr.kind = Top.kind /\ fr.who = Top.who
      /\ fr.pc = pc /\ fr.i = i /\ fr.in = in
  BY <1>2 DEF Frames
<1>4. stack' = [stack EXCEPT ![Len(stack)] = fr]
  BY DEF Go
<1> HIDE DEF fr
<1>5. /\ stack' \in Seq(Frames) /\ Len(stack') = Len(stack)
      /\ \A k \in 1 .. Len(stack) : stack'[k] = IF k = Len(stack) THEN fr ELSE stack[k]
  BY <1>3, <1>4, ExceptSeq
<1> QED
  BY <1>1, <1>3, <1>5

\* The running handler is the last one.
LEMMA Stack_Top ==
  ASSUME stack \in Seq(Frames), stack # <<>>
  PROVE  /\ Top \in Frames /\ Top = stack[Len(stack)] /\ Len(stack) \in 1 .. Len(stack)
         /\ Len(stack) = 1 => Top = stack[1]
BY DEF Top

\* A notification begins: it has taken nothing.
LEMMA Notifying_Push ==
  ASSUME Notifying, NEW fr, fr.kind \in {"one", "all"}, fr.pc = "head",
         Len(stack) \in Nat, Len(stack') = Len(stack) + 1,
         \A k \in 1 .. Len(stack) : stack'[k] = stack[k],
         stack'[Len(stack) + 1] = fr,
         next' = next, unlinked' = unlinked, wpc' = wpc, Queue' = Queue
  PROVE  Notifying'
<1> DEFINE n == Len(stack)
<1>1. /\ \A k \in 1 .. n + 1 : k \in 1 .. n \/ k = n + 1
      /\ \A k \in 1 .. n : k \in 1 .. n + 1 /\ k # n + 1
      /\ n + 1 \in 1 .. n + 1
  OBVIOUS
<1> HIDE DEF n
<1>2. NotifyFrame(fr, next) /\ Taken(fr, next) = {}
  BY DEF NotifyFrame, Taken
<1>3. \A k \in 1 .. n : Taken(stack'[k], next') = Taken(stack[k], next)
  BY DEF n
<1>4. Taken(stack'[n + 1], next') = {}
  BY <1>2 DEF n
<1>5. \A k \in 1 .. n + 1 : NotifyFrame(stack'[k], next')
          /\ Taken(stack'[k], next') \cap Queue' = {}
  BY <1>1, <1>2, <1>3, <1>4 DEF Notifying, n
<1>6. \A k, l \in 1 .. n + 1 : k # l => Taken(stack'[k], next') \cap Taken(stack'[l], next') = {}
  BY <1>1, <1>3, <1>4 DEF Notifying, n
<1>7. UNION {Taken(stack'[k], next') : k \in 1 .. n + 1} = UNION {Taken(stack[k], next) :
          k \in 1 .. n}
  BY <1>1, <1>3, <1>4
<1>8. Alive' = Alive /\ Returned'
  BY DEF Alive, Notifying, Returned
<1> QED
  BY <1>5, <1>6, <1>7, <1>8 DEF Notifying, n

\* The running notification goes on: what it has taken from the queue and not marked,
\* M, it has still.
LEMMA Notifying_Go ==
  ASSUME Notifying, stack # <<>>, Len(stack) \in Nat, Len(stack) # 0,
         Len(stack') = Len(stack),
         \A k \in 1 .. Len(stack) : k # Len(stack) => stack'[k] = stack[k],
         NEW T, T = Taken(Top, next), NEW U, U = Taken(stack'[Len(stack)], next),
         NotifyFrame(stack'[Len(stack)], next),
         NEW M, Queue' \cap U = {}, M \cap (Queue' \cup U) = {},
         Queue \cup T = Queue' \cup U \cup M,
         Alive' = Alive \ M, Returned',
         Queue' \subseteq Queue, next' = next
  PROVE  Notifying'
<1> DEFINE n == Len(stack)
<1> DEFINE Tk(k) == Taken(stack[k], next)
<1> DEFINE Uk(k) == Taken(stack'[k], next')
<1>1. n \in 1 .. n
  OBVIOUS
<1>2. Tk(n) = T /\ Uk(n) = U
  BY DEF Top
<1>3. \A k \in 1 .. n : k # n => Uk(k) = Tk(k)
  OBVIOUS
<1>4. /\ \A k \in 1 .. n : NotifyFrame(stack[k], next) /\ Tk(k) \cap Queue = {}
      /\ \A k, l \in 1 .. n : k # l => Tk(k) \cap Tk(l) = {}
      /\ Queue \cup UNION {Tk(k) : k \in 1 .. n} = Alive
  BY DEF Notifying
<1>5. \A k \in 1 .. n : NotifyFrame(stack'[k], next')
  BY <1>4
<1> HIDE DEF n, Tk, Uk
<1>6. \A k \in 1 .. n : k # n => Tk(k) \cap (Queue \cup T) = {}
  BY <1>1, <1>2, <1>4
<1>7. \A k \in 1 .. n : k # n => Tk(k) \cap (Queue' \cup U \cup M) = {}
  BY <1>6
<1>8. \A k \in 1 .. n : Uk(k) \cap Queue' = {}
  BY <1>2, <1>3, <1>7
<1>9. \A k, l \in 1 .. n : k # l => Uk(k) \cap Uk(l) = {}
  BY <1>2, <1>3, <1>4, <1>7
<1>10. Queue' \cup UNION {Uk(k) : k \in 1 .. n} = Alive'
  <2>1. ASSUME NEW w \in Queue' \cup UNION {Uk(k) : k \in 1 .. n} PROVE w \in Alive'
    <3>1. CASE w \in Queue' \cup U
      BY <3>1, <1>1, <1>2, <1>4
    <3>2. ASSUME NEW k \in 1 .. n, k # n, w \in Tk(k) PROVE w \in Alive'
      BY <3>2, <1>4, <1>7
    <3> QED
      BY <2>1, <3>1, <3>2, <1>2, <1>3
  <2>2. ASSUME NEW w \in Alive' PROVE w \in Queue' \cup UNION {Uk(k) : k \in 1 .. n}
    <3>1. CASE w \in Queue \cup T
      BY <2>2, <3>1, <1>1, <1>2
    <3>2. ASSUME NEW k \in 1 .. n, k # n, w \in Tk(k) PROVE w \in UNION {Uk(l) : l \in 1 .. n}
      BY <3>2, <1>3
    <3> QED
      BY <2>2, <3>1, <3>2, <1>2, <1>4
  <2> QED
    BY <2>1, <2>2
<1> QED
  BY <1>5, <1>8, <1>9, <1>10 DEF Notifying, n, Uk

\* It returns.
LEMMA Notifying_Return ==
  ASSUME Notifying, stack # <<>>, Len(stack') \in Nat, Len(stack) = Len(stack') + 1,
         \A k \in 1 .. Len(stack') : stack'[k] = stack[k],
         NEW M, M = Taken(Top, next), Queue' = Queue,
         Alive' = Alive \ M, Returned', next' = next
  PROVE  Notifying'
<1> DEFINE n == Len(stack)
<1> DEFINE m == Len(stack')
<1> DEFINE Tk(k) == Taken(stack[k], next)
<1> DEFINE Uk(k) == Taken(stack'[k], next')
<1>1. n \in 1 .. n /\ \A k \in 1 .. m : k \in 1 .. n /\ k # n
  OBVIOUS
<1>2. \A k \in 1 .. n : k # n => k \in 1 .. m
  OBVIOUS
<1>3. Tk(n) = M
  BY DEF Top
<1>4. \A k \in 1 .. m : Uk(k) = Tk(k)
  OBVIOUS
<1>5. /\ \A k \in 1 .. n : NotifyFrame(stack[k], next) /\ Tk(k) \cap Queue = {}
      /\ \A k, l \in 1 .. n : k # l => Tk(k) \cap Tk(l) = {}
      /\ Queue \cup UNION {Tk(k) : k \in 1 .. n} = Alive
  BY DEF Notifying
<1>6. \A k \in 1 .. m : NotifyFrame(stack'[k], next')
  BY <1>1, <1>5
<1> HIDE DEF n, m, Tk, Uk
<1>7. \A k \in 1 .. m : Uk(k) \cap Queue' = {}
  BY <1>1, <1>4, <1>5
<1>8. \A k, l \in 1 .. m : k # l => Uk(k) \cap Uk(l) = {}
  BY <1>1, <1>4, <1>5
<1>9. Queue' \cup UNION {Uk(k) : k \in 1 .. m} = Alive'
  <2>1. M \cap Queue = {}
    BY <1>1, <1>3, <1>5
  <2>2. \A k \in 1 .. m : Uk(k) \cap M = {} /\ Uk(k) \subseteq Alive
    BY <1>1, <1>3, <1>4, <1>5
  <2>3. ASSUME NEW w \in Alive' PROVE w \in Queue' \cup UNION {Uk(k) : k \in 1 .. m}
    <3>1. w \in Alive /\ w \notin M
      BY <2>3
    <3>2. CASE w \in Queue
      BY <3>2
    <3>3. ASSUME NEW k \in 1 .. n, w \in Tk(k) PROVE w \in UNION {Uk(l) : l \in 1 .. m}
      BY <3>1, <3>3, <1>2, <1>3, <1>4
    <3> QED
      BY <3>1, <3>2, <3>3, <1>5
  <2>4. Queue \subseteq Alive
    BY <1>5
  <2> QED
    BY <2>1, <2>2, <2>3, <2>4
<1> QED
  BY <1>6, <1>7, <1>8, <1>9 DEF Notifying, m, Uk

\* No handler is under way, or none any more.
LEMMA Mode_Idle ==
  ASSUME IInv, stack = <<>>
  PROVE  Notifying /\ Queue = Alive /\ Returned
<1>1. Len(stack) = 0 /\ 1 .. Len(stack) = {}
  OBVIOUS
<1>2. Notifying
  BY <1>1 DEF IInv, Linking1, Unlinking1
<1>3. Queue = Alive
  BY <1>1, <1>2 DEF Notifying
<1> QED
  BY <1>2, <1>3 DEF Notifying

\* After a step that leaves no handler, it is enough that the list is complete.
LEMMA Mode_Idle_After ==
  ASSUME Len(stack') = 0, Queue' = Alive', Returned'
  PROVE  Notifying'
<1>1. 1 .. Len(stack') = {}
  OBVIOUS
<1> QED
  BY <1>1 DEF Notifying

\* What the running handler tells of the others.
LEMMA Mode_Notify ==
  ASSUME IInv, stack # <<>>, Top.kind \in {"one", "all"}
  PROVE  /\ Notifying /\ NotifyFrame(Top, next) /\ Returned
         /\ Taken(Top, next) \cap Queue = {} /\ Taken(Top, next) \subseteq Alive
         /\ Queue \subseteq Alive
<1>1. Top = stack[Len(stack)] /\ Len(stack) \in 1 .. Len(stack) /\ (Len(stack) = 1 =>
          Top = stack[1])
  BY Stack_Top DEF IInv, TQTypes
<1>2. Notifying
  BY <1>1 DEF IInv, Linking1, Unlinking1, LinkFrame, UnlinkFrame
<1> QED
  BY <1>1, <1>2 DEF Notifying

\* The one that links is alone, and its node is the only one that is not in the list.
LEMMA Mode_Link ==
  ASSUME IInv, stack # <<>>, Top.kind = "link"
  PROVE  /\ Len(stack) = 1 /\ stack[1] = Top /\ LinkFrame(Top)
         /\ Linking1 /\ wpc[Top.who] = "blocked" /\ ~unlinked[Top.who]
         /\ Queue = Alive \ {Top.who} /\ Returned /\ Top.who \in Alive
<1>1. Top = stack[Len(stack)] /\ Len(stack) \in 1 .. Len(stack) /\ (Len(stack) = 1 =>
          Top = stack[1])
  BY Stack_Top DEF IInv, TQTypes
<1>2. Linking1
  BY <1>1 DEF IInv, Notifying, NotifyFrame, Unlinking1, UnlinkFrame
<1> QED
  BY <1>1, <1>2 DEF Linking1, LinkFrame, Alive

\* The one that unlinks is alone; its node is in the list until it is taken out.
LEMMA Mode_Unlink ==
  ASSUME IInv, stack # <<>>, Top.kind = "unlink"
  PROVE  /\ Len(stack) = 1 /\ stack[1] = Top /\ UnlinkFrame(Top)
         /\ Unlinking1 /\ wpc[Top.who] = "unlinking"
         /\ \A w \in Waiters \ {Top.who} : wpc[w] = "unlinking" => unlinked[w]
         /\ Queue = IF Top.pc = "mark" THEN Alive \ {Top.who} ELSE Alive
<1>1. Top = stack[Len(stack)] /\ Len(stack) \in 1 .. Len(stack) /\ (Len(stack) = 1 =>
          Top = stack[1])
  BY Stack_Top DEF IInv, TQTypes
<1>2. Unlinking1
  BY <1>1 DEF IInv, Notifying, NotifyFrame, Linking1, LinkFrame
<1> QED
  BY <1>1, <1>2 DEF Unlinking1

-----------------------------------------------------------------------------
(* The threads. *)

\* _t::_t: the new node is in no list, so writing it changes none.
LEMMA TQ_Construct ==
  ASSUME IInv, NEW w \in Waiters, Construct(w)
  PROVE  IInv'
<1>1. TQTypes /\ Tokens /\ Queue = Alive /\ Returned
  BY Mode_Idle DEF IInv, Construct
<1>2. /\ stack = <<>> /\ wpc[w] = "idle" /\ m_h' = m_h
      /\ next' = [next EXCEPT ![w] = Null]
      /\ notified' = [notified EXCEPT ![w] = FALSE] /\ unlinked' = [unlinked EXCEPT ![w] = FALSE]
      /\ m_s' = [m_s EXCEPT ![w] = 0] /\ wpc' = [wpc EXCEPT ![w] = "blocked"]
      /\ outcome' = [outcome EXCEPT ![w] = "none"]
      /\ Push(Frame("link", w, "head"))
  BY DEF Construct
<1> DEFINE fr == Frame("link", w, "head")
<1>3. /\ fr \in Frames /\ fr.kind = "link" /\ fr.who = w /\ fr.pc = "head"
  BY DEF Frame, Frames, Kinds, Places, Links
<1> HIDE DEF fr
<1>4. stack' \in Seq(Frames) /\ Len(stack') = 1 /\ stack'[1] = fr
  BY <1>1, <1>2, <1>3, Stack_Push DEF TQTypes, fr
<1>5. w \notin Queue /\ Queue \subseteq Waiters
  BY <1>1, <1>2 DEF Alive
<1>6. Queue' = Queue /\ Listed(m_h', Queue', next')
  BY <1>1, <1>2, <1>5, Queue_Same DEF TQTypes
<1>7. TQTypes'
  BY <1>1, <1>2, <1>4 DEF TQTypes, Links
<1>8. Tokens'
  BY <1>1, <1>2 DEF TQTypes, Tokens
<1>9. Linking1'
  <2>1. /\ wpc'[w] = "blocked" /\ ~unlinked'[w] /\ next'[w] = Null
        /\ \A v \in Waiters : v # w => wpc'[v] = wpc[v] /\ unlinked'[v] = unlinked[v]
    BY <1>1, <1>2 DEF TQTypes
  <2>2. LinkFrame(stack[1])'
    BY <2>1, <1>3, <1>4 DEF LinkFrame
  <2>3. Queue' = Alive' \ {w}
    BY <2>1, <1>1, <1>5, <1>6 DEF Alive
  <2>4. Returned'
    BY <2>1, <1>1 DEF Returned
  <2> QED
    BY <2>1, <2>2, <2>3, <2>4, <1>3, <1>4 DEF Linking1
<1> QED
  BY <1>6, <1>7, <1>8, <1>9 DEF IInv

\* A thread that waits is woken, or gives up, or looks at its node.
LEMMA TQ_Wake ==
  ASSUME IInv, NEW w \in Waiters, Wake(w) \/ TimeOut(w) \/ Unlink_Linked(w)
  PROVE  IInv'
<1>1. TQTypes /\ Tokens /\ Queue = Alive /\ Returned /\ stack = <<>>
  BY Mode_Idle DEF IInv, Wake, TimeOut, Unlink_Linked
<1>2. UNCHANGED <<m_h, next, notified, unlinked, outcome, stack>>
  BY DEF Wake, TimeOut, Unlink_Linked, nodeVars
<1>3. Queue' = Queue /\ Listed(m_h', Queue', next')
  BY <1>2, Queue_Same
<1>4. PICK l \in {"woken", "timeout", "unlink"} :
        /\ wpc' = [wpc EXCEPT ![w] = l] /\ wpc[w] \in {"blocked", "woken", "timeout"}
        /\ l = "woken" => wpc[w] = "blocked" /\ m_s[w] > 0 /\ m_s' = [m_s EXCEPT ![w] = @ - 1]
        /\ l # "woken" => m_s' = m_s /\ (wpc[w] = "woken" => ~unlinked[w])
  BY DEF Wake, TimeOut, Unlink_Linked, nodeVars
<1>5. /\ wpc'[w] = l /\ wpc[w] # "idle" /\ l # "idle"
      /\ \A v \in Waiters : v # w => wpc'[v] = wpc[v] /\ m_s'[v] = m_s[v]
      /\ m_s'[w] = IF l = "woken" THEN m_s[w] - 1 ELSE m_s[w]
  BY <1>1, <1>4 DEF TQTypes
<1>6. l = "woken" => notified[w] /\ m_s[w] = 1
  BY <1>1, <1>4 DEF Tokens, TQTypes
<1>7. TQTypes'
  <2>1. m_s' \in [Waiters -> {0, 1}]
    BY <1>1, <1>4, <1>6 DEF TQTypes
  <2> QED
    BY <2>1, <1>1, <1>2, <1>4 DEF TQTypes
<1>8. Tokens'
  <2>1. wpc[w] # "woken" \/ l # "woken"
    BY <1>4
  <2>2. l # "woken" => wpc[w] # "woken"
    BY <1>1, <1>4 DEF Tokens
  <2> QED
    BY <2>1, <2>2, <1>1, <1>2, <1>4, <1>5, <1>6 DEF Tokens
<1>9. Alive' = Alive /\ Returned'
  <2>1. Alive' = Alive
    BY <1>2, <1>5 DEF Alive
  <2>2. Returned'
    BY <1>1, <1>2, <1>5 DEF Returned
  <2> QED
    BY <2>1, <2>2
<1>10. Notifying'
  <2>1. Len(stack') = 0
    BY <1>1, <1>2
  <2> QED
    BY <2>1, <1>1, <1>3, <1>9, Mode_Idle_After
<1> QED
  BY <1>3, <1>7, <1>8, <1>10 DEF IInv

\* The wait returns: its node is marked, so it is in no list when it dies.
LEMMA TQ_Finish ==
  ASSUME IInv, NEW w \in Waiters, Unlink_Unlinked(w) \/ Unlink_Return(w)
  PROVE  IInv' /\ w \notin Queue /\ unlinked[w] /\ Queue' = Queue
<1>1. TQTypes /\ Tokens /\ Queue = Alive /\ Returned /\ stack = <<>>
  BY Mode_Idle DEF IInv, Unlink_Unlinked, Unlink_Return
<1>2. /\ m_h' = m_h /\ stack' = stack /\ unlinked[w]
      /\ next' = [next EXCEPT ![w] = Null]
      /\ notified' = [notified EXCEPT ![w] = FALSE] /\ unlinked' = [unlinked EXCEPT ![w] = FALSE]
      /\ m_s' = [m_s EXCEPT ![w] = 0] /\ wpc' = [wpc EXCEPT ![w] = "idle"]
      /\ \E o \in {"none", "notified", "timeout"} : outcome' = [outcome EXCEPT ![w] = o]
  BY <1>1 DEF Unlink_Unlinked, Unlink_Return, Finish, Returned
<1>3. w \notin Queue /\ Queue \subseteq Waiters
  BY <1>1, <1>2 DEF Alive
<1>4. Queue' = Queue /\ Listed(m_h', Queue', next')
  BY <1>1, <1>2, <1>3, Queue_Same DEF TQTypes
<1>5. TQTypes'
  BY <1>1, <1>2 DEF TQTypes, Links
<1>6. Tokens'
  BY <1>1, <1>2 DEF TQTypes, Tokens
<1>7. /\ wpc'[w] = "idle"
      /\ \A v \in Waiters : v # w => wpc'[v] = wpc[v] /\ unlinked'[v] = unlinked[v]
  BY <1>1, <1>2 DEF TQTypes
<1>8. Alive' = Alive
  BY <1>2, <1>7 DEF Alive
<1>9. Returned'
  BY <1>1, <1>7 DEF Returned
<1>10. Len(stack') = 0
  BY <1>1, <1>2
<1>11. Notifying'
  BY <1>1, <1>4, <1>8, <1>9, <1>10, Mode_Idle_After
<1> QED
  BY <1>2, <1>3, <1>4, <1>5, <1>6, <1>11 DEF IInv

\* The SVC of _t::unlink begins.
LEMMA TQ_Unlink_Svc ==
  ASSUME IInv, NEW w \in Waiters, Unlink_Svc(w)
  PROVE  IInv'
<1>1. TQTypes /\ Tokens /\ Queue = Alive /\ Returned
  BY Mode_Idle DEF IInv, Unlink_Svc
<1>2. /\ stack = <<>> /\ wpc[w] = "unlink" /\ wpc' = [wpc EXCEPT ![w] = "unlinking"]
      /\ Push(Frame("unlink", w, "load"))
      /\ UNCHANGED <<m_h, next, notified, unlinked, m_s, outcome>>
  BY DEF Unlink_Svc, nodeVars
<1> DEFINE fr == Frame("unlink", w, "load")
<1>3. /\ fr \in Frames /\ fr.kind = "unlink" /\ fr.who = w /\ fr.pc = "load"
  BY DEF Frame, Frames, Kinds, Places, Links
<1> HIDE DEF fr
<1>4. stack' \in Seq(Frames) /\ Len(stack') = 1 /\ stack'[1] = fr
  BY <1>1, <1>2, <1>3, Stack_Push DEF TQTypes, fr
<1>5. Queue' = Queue /\ Listed(m_h', Queue', next')
  BY <1>2, Queue_Same
<1>6. TQTypes'
  BY <1>1, <1>2, <1>4 DEF TQTypes
<1>7. /\ wpc'[w] = "unlinking" /\ \A v \in Waiters : v # w => wpc'[v] = wpc[v]
  BY <1>1, <1>2 DEF TQTypes
<1>8. Tokens'
  BY <1>1, <1>2, <1>7 DEF Tokens
<1>9. Unlinking1'
  <2>1. Alive' = Alive
    BY <1>2, <1>7 DEF Alive
  <2>2. UnlinkFrame(stack[1])'
    BY <1>3, <1>4 DEF UnlinkFrame
  <2>3. \A v \in Waiters \ {w} : wpc'[v] = "unlinking" => unlinked'[v]
    BY <1>1, <1>2, <1>7 DEF Returned
  <2> QED
    BY <2>1, <2>2, <2>3, <1>1, <1>3, <1>4, <1>5, <1>7 DEF Unlinking1
<1> QED
  BY <1>5, <1>6, <1>8, <1>9 DEF IInv

-----------------------------------------------------------------------------
(* weos_tq_link. *)

\* The new node becomes the list, or the walk begins at the head.
LEMMA TQ_Link_Head ==
  ASSUME IInv, Link_Head
  PROVE  IInv'
<1> DEFINE t == Top.who
<1>1. /\ stack # <<>> /\ Top.kind = "link" /\ Top.pc = "head"
      /\ UNCHANGED <<next, notified, unlinked, m_s, wpc, outcome>>
  BY DEF Link_Head, Running, nodeVars
<1>2. /\ TQTypes /\ Tokens /\ Listed(m_h, Queue, next) /\ Len(stack) = 1 /\ stack[1] = Top
      /\ LinkFrame(Top) /\ Linking1 /\ wpc[t] = "blocked" /\ ~unlinked[t]
      /\ Queue = Alive \ {t} /\ Returned /\ t \in Alive
  BY <1>1, Mode_Link DEF IInv
<1>3. t \in Waiters /\ t # Null /\ next[t] = Null
  BY <1>1, <1>2, NullIsNoNode DEF LinkFrame
<1>4. Tokens' /\ Alive' = Alive /\ Returned'
  BY <1>1, <1>2 DEF Tokens, Alive, Returned
<1>5. CASE m_h = Null
  <2>1. m_h' = t /\ Return
    BY <1>5 DEF Link_Head
  <2>2. stack' \in Seq(Frames) /\ Len(stack') = 0
    BY <2>1, <1>1, <1>2, Stack_Return DEF TQTypes
  <2>3. Queue = {}
    BY <1>2, <1>5, List_Nodes
  <2>4. Listed(m_h', {t}, next')
    BY <2>1, <1>1, <1>3, List_Single
  <2>5. Queue' = {t} /\ Listed(m_h', Queue', next') /\ m_h' \in Links
    BY <2>4, Queue_Becomes
  <2>6. Queue' = Alive'
    BY <2>3, <2>5, <1>2, <1>4
  <2>7. Notifying'
    BY <2>2, <2>6, <1>4, Mode_Idle_After
  <2>8. TQTypes'
    BY <2>2, <2>5, <1>1, <1>2 DEF TQTypes
  <2> QED
    BY <2>5, <2>7, <2>8, <1>4 DEF IInv
<1>6. CASE m_h # Null
  <2>1. m_h' = m_h /\ Go("next", m_h, Null)
    BY <1>6 DEF Link_Head
  <2>2. m_h \in Links /\ m_h \in Queue /\ Null \in Links /\ "next" \in Places
    BY <1>2, <1>6, List_Nodes DEF Links, Places
  <2>3. /\ stack' \in Seq(Frames) /\ Len(stack') = 1
        /\ stack'[1].kind = "link" /\ stack'[1].who = t
        /\ stack'[1].pc = "next" /\ stack'[1].i = m_h
    BY <2>1, <2>2, <1>1, <1>2, Stack_Go DEF TQTypes
  <2>4. Queue' = Queue /\ Listed(m_h', Queue', next')
    BY <2>1, <1>1, Queue_Same
  <2>5. TQTypes'
    BY <2>1, <2>3, <1>1, <1>2 DEF TQTypes
  <2>6. LinkFrame(stack[1])'
    BY <2>1, <2>2, <2>3, <2>4, <1>3 DEF LinkFrame
  <2>7. Linking1'
    BY <2>3, <2>4, <2>6, <1>1, <1>2, <1>4 DEF Linking1
  <2> QED
    BY <2>4, <2>5, <2>7, <1>4 DEF IInv
<1> QED
  BY <1>5, <1>6

\* The walk goes on to nodes of the list, behind those of no lower priority.
LEMMA TQ_Link_Next ==
  ASSUME IInv, Link_Next
  PROVE  IInv'
<1> DEFINE t == Top.who
<1> DEFINE i == Top.i
<1>1. /\ stack # <<>> /\ Top.kind = "link" /\ Top.pc = "next"
      /\ UNCHANGED <<m_h, next, notified, unlinked, m_s, wpc, outcome>>
  BY DEF Link_Next, Running, nodeVars
<1>2. /\ TQTypes /\ Tokens /\ Listed(m_h, Queue, next) /\ Len(stack) = 1 /\ stack[1] = Top
      /\ LinkFrame(Top) /\ Linking1 /\ wpc[t] = "blocked" /\ ~unlinked[t]
      /\ Queue = Alive \ {t} /\ Returned /\ t \in Alive
  BY <1>1, Mode_Link DEF IInv
<1>3. t \in Waiters /\ i \in Queue /\ (i = m_h \/ Prio[i] >= Prio[t])
  BY <1>1, <1>2 DEF LinkFrame
<1>4. i \in Waiters /\ ~unlinked[i]
  BY <1>2, <1>3 DEF Alive
<1>5. next[i] \in Links /\ (next[i] = Null \/ next[i] \in Queue)
  BY <1>2, <1>3, <1>4, List_Next DEF TQTypes
<1>6. Tokens' /\ Alive' = Alive /\ Returned' /\ Queue' = Queue /\ Listed(m_h', Queue', next')
  BY <1>1, <1>2, Queue_Same DEF Tokens, Alive, Returned
<1>7. Null \in Links /\ i \in Links /\ "next" \in Places /\ "store" \in Places
  BY <1>4 DEF Links, Places
<1>8. CASE next[i] # Null /\ Prio[next[i]] >= Prio[t]
  <2>1. Go("next", next[i], Null)
    BY <1>4, <1>8 DEF Link_Next
  <2>2. /\ stack' \in Seq(Frames) /\ Len(stack') = 1
        /\ stack'[1].kind = "link" /\ stack'[1].who = t
        /\ stack'[1].pc = "next" /\ stack'[1].i = next[i]
    BY <2>1, <1>1, <1>2, <1>5, <1>7, Stack_Go DEF TQTypes
  <2>3. TQTypes'
    BY <2>2, <1>1, <1>2 DEF TQTypes
  <2>4. LinkFrame(stack[1])'
    BY <2>2, <1>1, <1>3, <1>5, <1>6, <1>8 DEF LinkFrame
  <2>5. Linking1'
    BY <2>2, <2>4, <1>1, <1>2, <1>6 DEF Linking1
  <2> QED
    BY <2>3, <2>5, <1>6 DEF IInv
<1>9. CASE ~(next[i] # Null /\ Prio[next[i]] >= Prio[t])
  <2>1. Go("store", i, next[i])
    BY <1>4, <1>9 DEF Link_Next
  <2>2. /\ stack' \in Seq(Frames) /\ Len(stack') = 1
        /\ stack'[1].kind = "link" /\ stack'[1].who = t
        /\ stack'[1].pc = "store" /\ stack'[1].i = i /\ stack'[1].in = next[i]
    BY <2>1, <1>1, <1>2, <1>5, <1>7, Stack_Go DEF TQTypes
  <2>3. TQTypes'
    BY <2>2, <1>1, <1>2 DEF TQTypes
  <2>4. next[i] = Null \/ Prio[t] >= Prio[next[i]]
    <3>1. next[i] # Null => next[i] \in Waiters
      BY <1>5 DEF Links
    <3>2. next[i] # Null => Prio[next[i]] \in Nat /\ Prio[t] \in Nat
      BY <3>1, <1>3, PrioType
    <3> QED
      BY <3>2, <1>9
  <2>5. LinkFrame(stack[1])'
    BY <2>2, <2>4, <1>1, <1>3, <1>6 DEF LinkFrame
  <2>6. Linking1'
    BY <2>2, <2>5, <1>1, <1>2, <1>6 DEF Linking1
  <2> QED
    BY <2>3, <2>6, <1>6 DEF IInv
<1> QED
  BY <1>8, <1>9

\* The new node gets its successor; it is in no list yet.
LEMMA TQ_Link_Store ==
  ASSUME IInv, Link_Store
  PROVE  IInv'
<1> DEFINE t == Top.who
<1> DEFINE i == Top.i
<1> DEFINE j == Top.in
<1>1. /\ stack # <<>> /\ Top.kind = "link" /\ Top.pc = "store"
      /\ next' = [next EXCEPT ![t] = j]
      /\ notified' = [notified EXCEPT ![t] = FALSE] /\ unlinked' = [unlinked EXCEPT ![t] = FALSE]
      /\ Go("swap", i, j)
      /\ UNCHANGED <<m_h, m_s, wpc, outcome>>
  BY DEF Link_Store, Running
<1>2. /\ TQTypes /\ Tokens /\ Listed(m_h, Queue, next) /\ Len(stack) = 1 /\ stack[1] = Top
      /\ LinkFrame(Top) /\ Linking1 /\ wpc[t] = "blocked" /\ ~unlinked[t]
      /\ Queue = Alive \ {t} /\ Returned /\ t \in Alive
  BY <1>1, Mode_Link DEF IInv
<1>3. /\ t \in Waiters /\ i \in Queue /\ (i = m_h \/ Prio[i] >= Prio[t])
      /\ j = next[i] /\ (j = Null \/ Prio[t] >= Prio[j])
  BY <1>1, <1>2 DEF LinkFrame
<1>4. i \in Waiters /\ i # t /\ t \notin Queue
  BY <1>2, <1>3 DEF Alive
<1>5. j \in Links /\ i \in Links /\ "swap" \in Places
  BY <1>2, <1>3, <1>4 DEF TQTypes, Links, Places
<1>6. /\ stack' \in Seq(Frames) /\ Len(stack') = 1
      /\ stack'[1].kind = "link" /\ stack'[1].who = t
      /\ stack'[1].pc = "swap" /\ stack'[1].i = i /\ stack'[1].in = j
  BY <1>1, <1>2, <1>5, Stack_Go DEF TQTypes
<1>7. unlinked' = unlinked /\ notified' = notified
  <2>1. ~notified[t]
    BY <1>2, <1>3 DEF Tokens
  <2> QED
    BY <2>1, <1>1, <1>2, <1>3 DEF TQTypes
<1> HIDE DEF t, i, j
<1>8. next'[t] = j /\ \A w \in Waiters : w # t => next'[w] = next[w]
  BY <1>1, <1>2, <1>3 DEF TQTypes
<1>9. Queue' = Queue /\ Listed(m_h', Queue', next')
  <2>1. \A w \in Queue : next'[w] = next[w]
    BY <1>2, <1>4, <1>8 DEF Alive
  <2> QED
    BY <2>1, <1>1, Queue_Same
<1>10. Tokens' /\ Alive' = Alive /\ Returned'
  BY <1>1, <1>2, <1>7 DEF Tokens, Alive, Returned
<1>11. TQTypes'
  <2>1. next' \in [Waiters -> Links]
    BY <1>1, <1>2, <1>5 DEF TQTypes
  <2> QED
    BY <2>1, <1>1, <1>2, <1>6, <1>7 DEF TQTypes
<1>12. LinkFrame(stack[1])'
  BY <1>1, <1>3, <1>4, <1>6, <1>8, <1>9 DEF LinkFrame
<1>13. Linking1'
  BY <1>1, <1>2, <1>6, <1>7, <1>9, <1>10, <1>12 DEF Linking1
<1> QED
  BY <1>9, <1>10, <1>11, <1>13 DEF IInv

\* It is inserted. No node of the list is marked, so the exchange succeeds.
LEMMA TQ_Link_Swap ==
  ASSUME IInv, Link_Swap
  PROVE  IInv' /\ Top.who \notin Queue /\ Queue' = Queue \cup {Top.who} /\ Len(stack) = 1
             /\ Len(stack') = 0
<1> DEFINE t == Top.who
<1> DEFINE i == Top.i
<1>1. /\ stack # <<>> /\ Top.kind = "link" /\ Top.pc = "swap"
      /\ UNCHANGED <<m_h, notified, unlinked, m_s, wpc, outcome>>
  BY DEF Link_Swap, Running
<1>2. /\ TQTypes /\ Tokens /\ Listed(m_h, Queue, next) /\ Len(stack) = 1 /\ stack[1] = Top
      /\ LinkFrame(Top) /\ Linking1 /\ wpc[t] = "blocked" /\ ~unlinked[t]
      /\ Queue = Alive \ {t} /\ Returned /\ t \in Alive
  BY <1>1, Mode_Link DEF IInv
<1>3. /\ t \in Waiters /\ i \in Queue /\ (i = m_h \/ Prio[i] >= Prio[t])
      /\ next[t] = next[i] /\ (next[i] = Null \/ Prio[t] >= Prio[next[i]])
  BY <1>1, <1>2 DEF LinkFrame
<1>4. i \in Waiters /\ ~unlinked[i] /\ t \notin Queue
  BY <1>2, <1>3 DEF Alive
<1>5. next' = [next EXCEPT ![i] = t] /\ Return
  BY <1>4 DEF Link_Swap
<1>6. stack' \in Seq(Frames) /\ Len(stack') = 0
  BY <1>1, <1>2, <1>5, Stack_Return DEF TQTypes
<1> HIDE DEF t, i
<1>7. Listed(m_h, Queue \cup {t}, next')
  BY <1>2, <1>3, <1>4, <1>5, List_Insert DEF TQTypes
<1>8. Queue' = Queue \cup {t} /\ Listed(m_h', Queue', next')
  BY <1>1, <1>7, Queue_Becomes
<1>9. Tokens' /\ Alive' = Alive /\ Returned'
  BY <1>1, <1>2 DEF Tokens, Alive, Returned
<1>10. Notifying'
  BY <1>2, <1>6, <1>8, <1>9, Mode_Idle_After
<1>11. TQTypes'
  <2>1. next' \in [Waiters -> Links]
    BY <1>2, <1>3, <1>5 DEF TQTypes, Links
  <2> QED
    BY <2>1, <1>1, <1>2, <1>6 DEF TQTypes
<1> QED
  BY <1>2, <1>4, <1>6, <1>8, <1>9, <1>10, <1>11 DEF IInv, t

-----------------------------------------------------------------------------
(* weos_tq_unlink. *)

\* The handler goes on: only its frame changes.
LEMMA TQ_Unlink_Go ==
  ASSUME IInv, stack # <<>>, Top.kind = "unlink", NEW pc \in Places, NEW i \in Links,
         NEW in \in Links,
         Go(pc, i, in), UNCHANGED <<m_h, next, notified, unlinked, m_s, wpc, outcome>>,
         Top.pc # "mark", pc = "mark" => Top.who \notin Queue,
         pc \in {"head", "walk", "swap", "mark"},
         pc \in {"head", "walk", "swap"} => in = next[Top.who],
         pc \in {"walk", "swap"} => i \in Queue,
         pc = "walk" => \E T \in SUBSET Waiters : /\ Listed(next[i], T, next)
                                                  /\ Top.who \in Queue => Top.who \in T,
         pc = "swap" => next[i] = Top.who
  PROVE  IInv' /\ Queue' = Queue
<1> DEFINE t == Top.who
<1>1. /\ TQTypes /\ Tokens /\ Len(stack) = 1 /\ stack[1] = Top
      /\ UnlinkFrame(Top) /\ wpc[t] = "unlinking"
      /\ \A w \in Waiters \ {t} : wpc[w] = "unlinking" => unlinked[w]
      /\ Queue = Alive
  BY Mode_Unlink DEF IInv
<1>2. t \in Waiters
  BY <1>1 DEF UnlinkFrame
<1>3. /\ stack' \in Seq(Frames) /\ Len(stack') = 1
      /\ stack'[1].kind = "unlink" /\ stack'[1].who = t
      /\ stack'[1].pc = pc /\ stack'[1].i = i /\ stack'[1].in = in
  BY <1>1, Stack_Go DEF TQTypes
<1> HIDE DEF t
<1>4. Queue' = Queue /\ Listed(m_h', Queue', next')
  BY Queue_Same
<1>5. Tokens' /\ Alive' = Alive
  BY <1>1 DEF Tokens, Alive
<1>6. TQTypes'
  BY <1>1, <1>3 DEF TQTypes
<1>7. UnlinkFrame(stack[1])'
  BY <1>2, <1>3, <1>4 DEF UnlinkFrame, t
<1>8. Unlinking1'
  <2>1. Queue' = IF pc = "mark" THEN Alive' \ {t} ELSE Alive'
    BY <1>1, <1>4, <1>5 DEF t
  <2> QED
    BY <2>1, <1>1, <1>3, <1>7 DEF Unlinking1
<1> QED
  BY <1>4, <1>5, <1>6, <1>8 DEF IInv

\* The successor is read; no one else changes it.
LEMMA TQ_Unlink_Load ==
  ASSUME IInv, Unlink_Load
  PROVE  IInv' /\ Queue' = Queue
<1>1. /\ stack # <<>> /\ Top.kind = "unlink" /\ Top.pc = "load" /\ Go("head", Null, next[Top.who])
      /\ UNCHANGED <<m_h, next, notified, unlinked, m_s, wpc, outcome>>
  BY DEF Unlink_Load, Running, nodeVars
<1>2. Top.who \in Waiters
  BY <1>1, Mode_Unlink DEF UnlinkFrame
<1>3. next[Top.who] \in Links /\ Null \in Links /\ "head" \in Places
  BY <1>2 DEF IInv, TQTypes, Links, Places
<1> QED
  BY <1>1, <1>3, TQ_Unlink_Go

\* The node is unlinked.
LEMMA TQ_Unlink_Done ==
  ASSUME IInv, stack # <<>>, Top.kind = "unlink", Top.pc # "mark", Go("mark", Null, Null),
         UNCHANGED <<notified, unlinked, m_s, wpc, outcome>>, next' \in [Waiters -> Links],
         Top.who \in Queue, Listed(m_h', Queue \ {Top.who}, next')
  PROVE  IInv' /\ Queue' = Queue \ {Top.who}
<1> DEFINE t == Top.who
<1>1. /\ TQTypes /\ Tokens /\ Len(stack) = 1 /\ stack[1] = Top
      /\ UnlinkFrame(Top) /\ wpc[t] = "unlinking"
      /\ \A w \in Waiters \ {t} : wpc[w] = "unlinking" => unlinked[w]
      /\ Queue = Alive
  BY Mode_Unlink DEF IInv
<1>2. t \in Waiters
  BY <1>1 DEF UnlinkFrame
<1>3. "mark" \in Places /\ Null \in Links
  BY DEF Places, Links
<1>4. /\ stack' \in Seq(Frames) /\ Len(stack') = 1
      /\ stack'[1].kind = "unlink" /\ stack'[1].who = t /\ stack'[1].pc = "mark"
  BY <1>1, <1>3, Stack_Go DEF TQTypes
<1> HIDE DEF t
<1>5. Queue' = Queue \ {t} /\ Listed(m_h', Queue', next') /\ m_h' \in Links
  BY Queue_Becomes DEF t
<1>6. Tokens' /\ Alive' = Alive
  BY <1>1 DEF Tokens, Alive
<1>7. TQTypes'
  BY <1>1, <1>4, <1>5 DEF TQTypes
<1>8. UnlinkFrame(stack[1])'
  BY <1>2, <1>4 DEF UnlinkFrame
<1>9. Unlinking1'
  BY <1>1, <1>4, <1>5, <1>6, <1>8 DEF Unlinking1
<1> QED
  BY <1>5, <1>6, <1>7, <1>9 DEF IInv, t

\* The head is taken out, or the walk begins behind it.
LEMMA TQ_Unlink_Head ==
  ASSUME IInv, Unlink_Head
  PROVE  IInv' /\ (Queue' = Queue \/ Queue' = Queue \ {Top.who})
<1> DEFINE t == Top.who
<1>1. /\ stack # <<>> /\ Top.kind = "unlink" /\ Top.pc = "head"
      /\ UNCHANGED <<next, notified, unlinked, m_s, wpc, outcome>>
  BY DEF Unlink_Head, Running, nodeVars
<1>2. /\ TQTypes /\ Listed(m_h, Queue, next) /\ t \in Waiters /\ Top.in = next[t]
  BY <1>1, Mode_Unlink DEF UnlinkFrame, IInv
<1>3. next[t] \in Links /\ Null \in Links /\ m_h \in Links /\ "walk" \in Places /\ "mark" \in Places
  BY <1>2 DEF TQTypes, Links, Places
<1>4. CASE m_h = t
  <2>1. m_h # Null /\ m_h \in Queue
    BY <1>2, <1>4, NullIsNoNode, List_Nodes
  <2>2. m_h' = next[t] /\ Go("mark", Null, Null)
    BY <1>2, <1>4 DEF Unlink_Head
  <2>3. Listed(m_h', Queue \ {t}, next')
    BY <2>1, <2>2, <1>1, <1>2, <1>4, List_Pop
  <2> QED
    BY <2>1, <2>2, <2>3, <1>1, <1>2, <1>4, TQ_Unlink_Done DEF TQTypes
<1>5. CASE m_h = Null
  <2>1. Queue = {}
    BY <1>2, <1>5, List_Nodes
  <2>2. UNCHANGED m_h /\ Go("mark", Null, Null)
    BY <1>2, <1>5, NullIsNoNode DEF Unlink_Head
  <2> QED
    BY <2>1, <2>2, <1>1, <1>3, TQ_Unlink_Go
<1>6. CASE m_h # t /\ m_h # Null
  <2>1. UNCHANGED m_h /\ Go("walk", m_h, next[t])
    BY <1>2, <1>6 DEF Unlink_Head
  <2>2. m_h \in Queue /\ Queue \subseteq Waiters
    BY <1>2, <1>6, List_Nodes
  <2>3. Listed(next[m_h], Queue \ {m_h}, next)
    BY <1>2, <1>6, List_Pop
  <2>4. \E T \in SUBSET Waiters : Listed(next[m_h], T, next) /\ (t \in Queue => t \in T)
    BY <2>2, <2>3, <1>6
  <2> QED
    BY <2>1, <2>2, <2>4, <1>1, <1>3, TQ_Unlink_Go
<1> QED
  BY <1>4, <1>5, <1>6

\* The walk has passed nodes other than t only: at its end, t is not in the list.
LEMMA TQ_Unlink_Walk ==
  ASSUME IInv, Unlink_Walk
  PROVE  IInv' /\ Queue' = Queue
<1> DEFINE t == Top.who
<1> DEFINE i == Top.i
<1>1. /\ stack # <<>> /\ Top.kind = "unlink" /\ Top.pc = "walk"
      /\ UNCHANGED <<m_h, next, notified, unlinked, m_s, wpc, outcome>>
  BY DEF Unlink_Walk, Running, nodeVars
<1>2. /\ TQTypes /\ Listed(m_h, Queue, next) /\ t \in Waiters /\ Top.in = next[t] /\ i \in Queue
      /\ \E T \in SUBSET Waiters : Listed(next[i], T, next) /\ (t \in Queue => t \in T)
  BY <1>1, Mode_Unlink DEF UnlinkFrame, IInv
<1>3. Queue \subseteq Waiters /\ i \in Waiters
  BY <1>2, List_Nodes
<1>4. next[i] \in Queue \/ next[i] = Null
  BY <1>2, List_Next
<1>5. /\ next[t] \in Links /\ Null \in Links /\ i \in Links /\ next[i] \in Links
      /\ "walk" \in Places /\ "mark" \in Places /\ "swap" \in Places
  BY <1>2, <1>3 DEF TQTypes, Links, Places
<1>6. PICK T \in SUBSET Waiters : Listed(next[i], T, next) /\ (t \in Queue => t \in T)
  BY <1>2
<1>7. CASE next[i] = Null
  <2>1. Go("mark", Null, Null)
    BY <1>2, <1>7, NullIsNoNode DEF Unlink_Walk
  <2>2. t \notin Queue
    BY <1>6, <1>7, List_Nodes
  <2> QED
    BY <2>1, <2>2, <1>1, <1>5, TQ_Unlink_Go
<1>8. CASE next[i] = t
  <2>1. Go("swap", i, next[t])
    BY <1>2, <1>8, NullIsNoNode DEF Unlink_Walk
  <2> QED
    BY <2>1, <1>1, <1>2, <1>5, <1>8, TQ_Unlink_Go
<1>9. CASE next[i] # Null /\ next[i] # t
  <2>1. Go("walk", next[i], next[t])
    BY <1>2, <1>9 DEF Unlink_Walk
  <2>2. Listed(next[next[i]], T \ {next[i]}, next)
    BY <1>6, <1>9, List_Pop
  <2>3. \E U \in SUBSET Waiters : Listed(next[next[i]], U, next) /\ (t \in Queue => t \in U)
    BY <2>2, <1>6, <1>9
  <2> QED
    BY <2>1, <2>3, <1>1, <1>4, <1>5, <1>9, TQ_Unlink_Go
<1> QED
  BY <1>7, <1>8, <1>9

\* The node in front of t gets the successor of t.
LEMMA TQ_Unlink_Swap ==
  ASSUME IInv, Unlink_Swap
  PROVE  IInv' /\ Queue' = Queue \ {Top.who}
<1> DEFINE t == Top.who
<1> DEFINE i == Top.i
<1>1. /\ stack # <<>> /\ Top.kind = "unlink" /\ Top.pc = "swap" /\ Go("mark", Null, Null)
      /\ next' = [next EXCEPT ![i] = Top.in]
      /\ UNCHANGED <<m_h, notified, unlinked, m_s, wpc, outcome>>
  BY DEF Unlink_Swap, Running
<1>2. /\ TQTypes /\ Listed(m_h, Queue, next) /\ t \in Waiters /\ Top.in = next[t] /\ i \in Queue
      /\ next[i] = t
  BY <1>1, Mode_Unlink DEF UnlinkFrame, IInv
<1>3. t \in Queue /\ Listed(m_h, Queue \ {t}, next')
  <2>1. next \in [Waiters -> Links] /\ t # Null
    BY <1>2, NullIsNoNode DEF TQTypes
  <2> HIDE DEF t, i
  <2> QED
    BY <2>1, <1>1, <1>2, List_Remove
<1>4. next' \in [Waiters -> Links]
  BY <1>1, <1>2 DEF TQTypes
<1> QED
  BY <1>1, <1>3, <1>4, TQ_Unlink_Done

\* t has been taken out of the list before it is marked.
LEMMA TQ_Unlink_Mark ==
  ASSUME IInv, Unlink_Mark
  PROVE  IInv' /\ Queue' = Queue /\ Top.who \notin Queue
<1> DEFINE t == Top.who
<1>1. /\ stack # <<>> /\ Top.kind = "unlink" /\ Top.pc = "mark" /\ Return
      /\ unlinked' = [unlinked EXCEPT ![t] = TRUE]
      /\ UNCHANGED <<m_h, next, notified, m_s, wpc, outcome>>
  BY DEF Unlink_Mark, Running
<1>2. /\ TQTypes /\ Tokens /\ Len(stack) = 1 /\ stack[1] = Top
      /\ UnlinkFrame(Top) /\ wpc[t] = "unlinking"
      /\ \A w \in Waiters \ {t} : wpc[w] = "unlinking" => unlinked[w]
      /\ Queue = Alive \ {t}
  BY <1>1, Mode_Unlink DEF IInv
<1>3. t \in Waiters
  BY <1>2 DEF UnlinkFrame
<1>4. stack' \in Seq(Frames) /\ Len(stack') = 0
  BY <1>1, <1>2, Stack_Return DEF TQTypes
<1> HIDE DEF t
<1>5. unlinked'[t] = TRUE /\ \A w \in Waiters : w # t => unlinked'[w] = unlinked[w]
  BY <1>1, <1>2, <1>3 DEF TQTypes
<1>6. Queue' = Queue /\ Listed(m_h', Queue', next')
  BY <1>1, Queue_Same
<1>7. TQTypes'
  BY <1>1, <1>2, <1>3, <1>4 DEF TQTypes
<1>8. Tokens'
  BY <1>1, <1>2, <1>5 DEF Tokens
<1>9. Alive' = Alive \ {t} /\ Returned'
  BY <1>1, <1>2, <1>5 DEF Alive, Returned
<1>10. Notifying'
  BY <1>2, <1>4, <1>6, <1>9, Mode_Idle_After
<1> QED
  BY <1>2, <1>6, <1>7, <1>8, <1>10 DEF IInv, t

-----------------------------------------------------------------------------
(* weos_tq_notify. *)

\* A notification begins, above other notifications only.
LEMMA TQ_Notify ==
  ASSUME Preemptible \subseteq {"one", "all"}, IInv, NEW kind \in {"one", "all"}, Notify(kind)
  PROVE  IInv' /\ Queue' = Queue
<1> DEFINE fr == Frame(kind, Null, "head")
<1>1. /\ Push(fr) /\ UNCHANGED <<m_h, next, notified, unlinked, m_s, wpc, outcome>>
      /\ stack = <<>> \/ (stack # <<>> /\ Top.kind \in {"one", "all"})
  BY DEF Notify, nodeVars
<1>2. fr \in Frames /\ fr.kind \in {"one", "all"} /\ fr.pc = "head"
  BY DEF Frame, Frames, Kinds, Places, Links
<1> HIDE DEF fr
<1>3. TQTypes /\ Tokens /\ Notifying
  BY <1>1, Mode_Idle, Mode_Notify DEF IInv
<1>4. /\ stack' \in Seq(Frames) /\ Len(stack) \in Nat /\ Len(stack') = Len(stack) + 1
      /\ \A k \in 1 .. Len(stack) : stack'[k] = stack[k]
      /\ stack'[Len(stack) + 1] = fr
  BY <1>1, <1>2, <1>3, Stack_Push DEF TQTypes
<1>5. Queue' = Queue /\ Listed(m_h', Queue', next')
  BY <1>1, Queue_Same
<1>6. Notifying'
  BY <1>1, <1>2, <1>3, <1>4, <1>5, Notifying_Push
<1>7. TQTypes' /\ Tokens'
  BY <1>1, <1>3, <1>4 DEF TQTypes, Tokens
<1> QED
  BY <1>5, <1>6, <1>7 DEF IInv

\* A step of the running notification that marks no node.
LEMMA TQ_Notify_Go ==
  ASSUME IInv, stack # <<>>, Top.kind \in {"one", "all"},
         NEW pc \in {"swap", "post"}, NEW i \in Waiters, NEW in \in Links, Go(pc, i, in),
         UNCHANGED <<next, notified, unlinked, m_s, wpc, outcome>>,
         pc = "swap" => Top.kind = "one" /\ in = next[i],
         NEW S, Listed(m_h', S, next'), S \subseteq Queue,
         NEW T, T = Taken(Top, next),
         NEW U, S \cap U = {}, Queue \cup T = S \cup U,
         U = IF pc # "post" THEN {} ELSE IF Top.kind = "all" THEN NodesOf(i, next) ELSE {i},
         pc = "post" /\ Top.kind = "all" => Listed(i, NodesOf(i, next), next)
  PROVE  IInv' /\ Queue' = S
<1>1. TQTypes /\ Tokens /\ Notifying /\ Returned
  BY Mode_Notify DEF IInv
<1>2. pc \in Places /\ i \in Links
  BY DEF Places, Links
<1> DEFINE fr == stack'[Len(stack)]
<1>3. /\ stack' \in Seq(Frames) /\ Len(stack') = Len(stack) /\ Len(stack) \in Nat /\ Len(stack) # 0
      /\ \A k \in 1 .. Len(stack) : k # Len(stack) => stack'[k] = stack[k]
      /\ fr.kind = Top.kind /\ fr.pc = pc /\ fr.i = i /\ fr.in = in
  BY <1>1, <1>2, Stack_Go DEF TQTypes
<1>4. Queue' = S /\ Listed(m_h', Queue', next') /\ m_h' \in Links
  BY Queue_Becomes
<1>5. Tokens' /\ Alive' = Alive /\ Returned'
  BY <1>1 DEF Tokens, Alive, Returned
<1>6. TQTypes'
  BY <1>1, <1>3, <1>4 DEF TQTypes
<1>7. NotifyFrame(fr, next) /\ U = Taken(fr, next)
  BY <1>3 DEF NotifyFrame, Taken
<1> HIDE DEF fr
<1>8. Notifying'
  <2>1. Queue \cup T = Queue' \cup U \cup {} /\ Queue' \cap U = {} /\ {} \cap (Queue' \cup U) = {}
    BY <1>4
  <2>2. Alive' = Alive \ {} /\ Queue' \subseteq Queue /\ next' = next
    BY <1>4, <1>5
  <2> QED
    BY <2>1, <2>2, <1>1, <1>3, <1>5, <1>7, Notifying_Go DEF fr
<1> QED
  BY <1>4, <1>5, <1>6, <1>8 DEF IInv

\* It returns and has marked no node.
LEMMA TQ_Notify_Return ==
  ASSUME IInv, stack # <<>>, Top.kind \in {"one", "all"}, Top.pc # "post", Return,
         UNCHANGED <<m_h, next, notified, unlinked, m_s, wpc, outcome>>
  PROVE  IInv' /\ Queue' = Queue
<1>1. TQTypes /\ Tokens /\ Notifying /\ Returned
  BY Mode_Notify DEF IInv
<1>2. /\ stack' \in Seq(Frames) /\ Len(stack') \in Nat /\ Len(stack) = Len(stack') + 1
      /\ \A k \in 1 .. Len(stack') : stack'[k] = stack[k]
  BY <1>1, Stack_Return DEF TQTypes
<1>3. Queue' = Queue /\ Listed(m_h', Queue', next')
  BY Queue_Same
<1>4. Tokens' /\ Alive' = Alive \ {} /\ Returned'
  BY <1>1 DEF Tokens, Alive, Returned
<1>5. Taken(Top, next) = {}
  BY DEF Taken
<1>6. Notifying'
  BY <1>1, <1>2, <1>3, <1>4, <1>5, Notifying_Return
<1>7. TQTypes'
  BY <1>1, <1>2 DEF TQTypes
<1> QED
  BY <1>3, <1>4, <1>6, <1>7 DEF IInv

\* A node is marked and its semaphore posted.
LEMMA TQ_Mark ==
  ASSUME TQTypes, Tokens, Returned, NEW i \in Alive, MarkAndPost(i), UNCHANGED <<wpc, outcome>>
  PROVE  /\ Tokens' /\ Returned' /\ Alive' = Alive \ {i} /\ ~notified[i]
         /\ notified' \in [Waiters -> BOOLEAN] /\ unlinked' \in [Waiters -> BOOLEAN]
         /\ m_s' \in [Waiters -> {0, 1}] /\ notified' = [notified EXCEPT ![i] = TRUE]
<1>1. i \in Waiters /\ wpc[i] # "idle" /\ ~unlinked[i]
  BY DEF Alive
<1>2. ~notified[i] /\ wpc[i] # "woken" /\ m_s[i] = 0
  BY <1>1 DEF Tokens
<1>3. /\ notified' = [notified EXCEPT ![i] = TRUE] /\ unlinked' = [unlinked EXCEPT ![i] = TRUE]
      /\ m_s' = [m_s EXCEPT ![i] = 1]
  BY <1>2 DEF MarkAndPost
<1>4. /\ notified'[i] = TRUE /\ unlinked'[i] = TRUE /\ m_s'[i] = 1
      /\ \A w \in Waiters : w # i =>
             notified'[w] = notified[w] /\ unlinked'[w] = unlinked[w] /\ m_s'[w] = m_s[w]
  BY <1>1, <1>3 DEF TQTypes
<1>5. Tokens'
  BY <1>1, <1>2, <1>4 DEF Tokens
<1>6. Returned'
  BY <1>4 DEF Returned
<1>7. Alive' = Alive \ {i}
  BY <1>1, <1>4 DEF Alive
<1> QED
  BY <1>2, <1>3, <1>5, <1>6, <1>7 DEF TQTypes

\* notify_all takes the whole list.
LEMMA TQ_All_Head ==
  ASSUME IInv, All_Head
  PROVE  IInv' /\ Queue' = {}
<1>1. /\ stack # <<>> /\ Top.kind = "all" /\ Top.pc = "head" /\ m_h' = Null
      /\ UNCHANGED <<next, notified, unlinked, m_s, wpc, outcome>>
  BY DEF All_Head, Running, nodeVars
<1>2. Listed(m_h, Queue, next) /\ m_h \in Links
  BY DEF IInv, TQTypes
<1>3. CASE m_h = Null
  <2>1. Return /\ UNCHANGED m_h
    BY <1>1, <1>3 DEF All_Head
  <2>2. Queue = {}
    BY <1>2, <1>3, List_Nodes
  <2> QED
    BY <2>1, <2>2, <1>1, TQ_Notify_Return
<1>4. CASE m_h # Null
  <2>1. Go("post", m_h, Null)
    BY <1>4 DEF All_Head
  <2>2. Listed(m_h', {}, next')
    BY <1>1, List_Empty
  <2>3. m_h \in Waiters /\ Null \in Links
    BY <1>2, <1>4 DEF Links
  <2>4. Taken(Top, next) = {} /\ Queue = NodesOf(m_h, next)
    BY <1>1, <1>2, List_Nodes DEF Taken
  <2> DEFINE U == NodesOf(m_h, next)
  <2>5. Listed(m_h, U, next)
    BY <2>4, <1>2
  <2>6. {} \cap U = {} /\ {} \subseteq Queue /\ Queue \cup {} = {} \cup U
    BY <2>4
  <2>7. U = IF "post" # "post" THEN {} ELSE IF Top.kind = "all" THEN NodesOf(m_h, next) ELSE {m_h}
    BY <1>1
  <2>8. "post" \in {"swap", "post"} /\ "post" # "swap"
    OBVIOUS
  <2> HIDE DEF U
  <2>9. IInv' /\ Queue' = {}
    BY <2>1, <2>2, <2>3, <2>4, <2>5, <2>6, <2>7, <2>8, <1>1, TQ_Notify_Go DEF U
  <2> QED
    BY <2>9
<1> QED
  BY <1>3, <1>4

\* notify_one reads the head.
LEMMA TQ_One_Head ==
  ASSUME IInv, One_Head
  PROVE  IInv' /\ Queue' = Queue
<1>1. /\ stack # <<>> /\ Top.kind = "one" /\ Top.pc = "head" /\ m_h' = m_h
      /\ UNCHANGED <<next, notified, unlinked, m_s, wpc, outcome>>
  BY DEF One_Head, Running, nodeVars
<1>2. CASE m_h = Null
  <2>1. Return
    BY <1>2 DEF One_Head
  <2> QED
    BY <2>1, <1>1, TQ_Notify_Return
<1>3. CASE m_h # Null
  <2>1. Go("swap", m_h, next[m_h])
    BY <1>3 DEF One_Head
  <2>2. m_h \in Waiters /\ next[m_h] \in Links
    BY <1>3 DEF IInv, TQTypes, Links
  <2>3. Listed(m_h', Queue, next') /\ Taken(Top, next) = {}
    BY <1>1 DEF IInv, Taken
  <2> QED
    BY <2>1, <2>2, <2>3, <1>1, TQ_Notify_Go
<1> QED
  BY <1>2, <1>3

\* The head is taken if it is still the same. Then so is its successor, for while
\* notifications are under way no pointer changes.
LEMMA TQ_One_Swap ==
  ASSUME IInv, One_Swap
  PROVE  /\ IInv'
         /\ Top.i = m_h => m_h \in Queue /\ Queue' = Queue \ {m_h}
         /\ Top.i # m_h => Queue' = Queue
<1>1. /\ stack # <<>> /\ Top.kind = "one" /\ Top.pc = "swap"
      /\ UNCHANGED <<next, notified, unlinked, m_s, wpc, outcome>>
  BY DEF One_Swap, Running, nodeVars
<1>2. /\ Top.i \in Waiters /\ Top.in = next[Top.i] /\ Listed(m_h, Queue, next)
      /\ next[Top.i] \in Links /\ Taken(Top, next) = {} /\ m_h \in Links /\ Top.i # Null
  BY <1>1, Mode_Notify, NullIsNoNode DEF NotifyFrame, IInv, TQTypes, Taken
<1>3. CASE m_h = Top.i
  <2>1. m_h' = next[m_h] /\ Go("post", m_h, Null)
    BY <1>2, <1>3 DEF One_Swap
  <2>2. m_h \in Queue
    BY <1>2, <1>3, List_Nodes
  <2>3. Listed(m_h', Queue \ {m_h}, next')
    BY <2>1, <1>1, <1>2, <1>3, List_Pop
  <2>4. Null \in Links
    BY DEF Links
  <2>5. Queue \cup {} = (Queue \ {m_h}) \cup {m_h} /\ (Queue \ {m_h}) \cap {m_h} = {}
    BY <2>2
  <2>6. Queue \ {m_h} \subseteq Queue
    OBVIOUS
  <2>7. IInv' /\ Queue' = Queue \ {m_h}
    BY <2>1, <2>3, <2>4, <2>5, <2>6, <1>1, <1>2, <1>3, TQ_Notify_Go
  <2> QED
    BY <2>2, <2>7, <1>3
<1>4. CASE m_h = Null
  <2>1. Return /\ UNCHANGED m_h
    BY <1>2, <1>4 DEF One_Swap
  <2> QED
    BY <2>1, <1>1, <1>2, <1>4, TQ_Notify_Return
<1>5. CASE m_h # Top.i /\ m_h # Null
  <2>1. Go("swap", m_h, next[m_h]) /\ UNCHANGED m_h
    BY <1>5 DEF One_Swap
  <2>2. m_h \in Waiters /\ next[m_h] \in Links
    BY <1>5 DEF IInv, TQTypes, Links
  <2>3. Listed(m_h', Queue, next')
    BY <2>1, <1>1, <1>2
  <2>4. IInv' /\ Queue' = Queue
    BY <2>1, <2>2, <2>3, <1>1, <1>2, TQ_Notify_Go
  <2> QED
    BY <2>4, <1>5
<1> QED
  BY <1>3, <1>4, <1>5

\* It wakes the node that it has taken, which is in no list.
LEMMA TQ_One_Post ==
  ASSUME IInv, One_Post
  PROVE  IInv' /\ Queue' = Queue /\ Top.i \in Alive \ Queue
             /\ notified' = [notified EXCEPT ![Top.i] = TRUE]
<1> DEFINE i == Top.i
<1>1. /\ stack # <<>> /\ Top.kind = "one" /\ Top.pc = "post" /\ MarkAndPost(i) /\ Return
      /\ UNCHANGED <<m_h, next, wpc, outcome>>
  BY DEF One_Post, Running
<1>2. TQTypes /\ Tokens /\ Notifying /\ Returned
  BY <1>1, Mode_Notify DEF IInv
<1>3. Taken(Top, next) = {i} /\ i \in Alive \ Queue
  <2>1. Taken(Top, next) = {i}
    BY <1>1 DEF Taken
  <2> QED
    BY <2>1, <1>1, Mode_Notify
<1> HIDE DEF i
<1>4. /\ Tokens' /\ Returned' /\ Alive' = Alive \ {i}
      /\ notified' \in [Waiters -> BOOLEAN] /\ unlinked' \in [Waiters -> BOOLEAN]
      /\ m_s' \in [Waiters -> {0, 1}] /\ notified' = [notified EXCEPT ![i] = TRUE]
  BY <1>1, <1>2, <1>3, TQ_Mark
<1>5. /\ stack' \in Seq(Frames) /\ Len(stack') \in Nat /\ Len(stack) = Len(stack') + 1
      /\ \A k \in 1 .. Len(stack') : stack'[k] = stack[k]
  BY <1>1, <1>2, Stack_Return DEF TQTypes
<1>6. Queue' = Queue /\ Listed(m_h', Queue', next')
  BY <1>1, Queue_Same
<1>7. Notifying'
  BY <1>1, <1>2, <1>3, <1>4, <1>5, <1>6, Notifying_Return
<1>8. TQTypes'
  BY <1>1, <1>2, <1>4, <1>5 DEF TQTypes
<1> QED
  BY <1>3, <1>4, <1>6, <1>7, <1>8 DEF IInv, i

\* notify_all wakes the first of the nodes that it has taken and keeps the rest.
LEMMA TQ_All_Post ==
  ASSUME IInv, All_Post
  PROVE  IInv' /\ Queue' = Queue /\ Top.i \in Alive \ Queue
             /\ notified' = [notified EXCEPT ![Top.i] = TRUE]
<1> DEFINE i == Top.i
<1>1. /\ stack # <<>> /\ Top.kind = "all" /\ Top.pc = "post" /\ MarkAndPost(i)
      /\ UNCHANGED <<m_h, next, wpc, outcome>>
      /\ IF next[i] = Null THEN Return ELSE Go("post", next[i], Null)
  BY DEF All_Post, Running
<1>2. TQTypes /\ Tokens /\ Notifying /\ Returned
  BY <1>1, Mode_Notify DEF IInv
<1> DEFINE T == NodesOf(i, next)
<1>3. i \in Waiters /\ i # Null /\ Listed(i, T, next) /\ Taken(Top, next) = T
  BY <1>1, Mode_Notify, NullIsNoNode DEF NotifyFrame, Taken
<1>4. T \cap Queue = {} /\ T \subseteq Alive
  BY <1>1, <1>3, Mode_Notify
<1>5. i \in T /\ Listed(next[i], T \ {i}, next)
  BY <1>3, List_Nodes, List_Pop
<1>6. NodesOf(next[i], next) = T \ {i} /\ (next[i] = Null <=> T \ {i} = {}) /\ next[i] \in Links
  BY <1>5, List_Nodes
<1>7. Listed(next[i], NodesOf(next[i], next), next)
  BY <1>5, <1>6
<1> HIDE DEF i, T
<1>8. i \in Alive \ Queue
  BY <1>4, <1>5
<1>9. /\ Tokens' /\ Returned' /\ Alive' = Alive \ {i}
      /\ notified' \in [Waiters -> BOOLEAN] /\ unlinked' \in [Waiters -> BOOLEAN]
      /\ m_s' \in [Waiters -> {0, 1}] /\ notified' = [notified EXCEPT ![i] = TRUE]
  BY <1>1, <1>2, <1>8, TQ_Mark
<1>10. Queue' = Queue /\ Listed(m_h', Queue', next')
  BY <1>1, Queue_Same
<1>11. CASE next[i] = Null
  <2>1. Return
    BY <1>1, <1>11
  <2>2. /\ stack' \in Seq(Frames) /\ Len(stack') \in Nat /\ Len(stack) = Len(stack') + 1
        /\ \A k \in 1 .. Len(stack') : stack'[k] = stack[k]
    BY <2>1, <1>1, <1>2, Stack_Return DEF TQTypes
  <2>3. Taken(Top, next) = {i}
    BY <1>3, <1>5, <1>6, <1>11
  <2>4. Notifying'
    BY <2>2, <2>3, <1>1, <1>2, <1>9, <1>10, Notifying_Return
  <2>5. TQTypes'
    BY <2>2, <1>1, <1>2, <1>9 DEF TQTypes
  <2> QED
    BY <2>4, <2>5, <1>8, <1>9, <1>10 DEF IInv, i
<1>12. CASE next[i] # Null
  <2>1. Go("post", next[i], Null) /\ next[i] \in Waiters /\ Null \in Links /\ "post" \in Places
    BY <1>1, <1>6, <1>12 DEF Links, Places
  <2> DEFINE fr == stack'[Len(stack)]
  <2>2. /\ stack' \in Seq(Frames) /\ Len(stack') = Len(stack) /\ Len(stack) \in Nat
               /\ Len(stack) # 0
        /\ \A k \in 1 .. Len(stack) : k # Len(stack) => stack'[k] = stack[k]
        /\ fr.kind = "all" /\ fr.pc = "post" /\ fr.i = next[i]
    BY <2>1, <1>1, <1>2, <1>6, Stack_Go DEF TQTypes
  <2>3. NotifyFrame(fr, next) /\ Taken(fr, next) = T \ {i}
    BY <2>1, <2>2, <1>6, <1>7 DEF NotifyFrame, Taken
  <2> HIDE DEF fr
  <2>4. /\ Queue' \cap (T \ {i}) = {} /\ {i} \cap (Queue' \cup (T \ {i})) = {}
        /\ Queue \cup T = Queue' \cup (T \ {i}) \cup {i} /\ Queue' \subseteq Queue
    BY <1>4, <1>5, <1>8, <1>10
  <2>5. Notifying'
    BY <2>2, <2>3, <2>4, <1>1, <1>2, <1>3, <1>9, Notifying_Go DEF fr
  <2>6. TQTypes'
    BY <2>2, <1>1, <1>2, <1>9 DEF TQTypes
  <2> QED
    BY <2>5, <2>6, <1>8, <1>9, <1>10 DEF IInv, i
<1> QED
  BY <1>11, <1>12

-----------------------------------------------------------------------------

\* There is no node.
LEMMA TQ_Init == Init => IInv
<1> SUFFICES ASSUME Init PROVE IInv
  OBVIOUS
<1>1. Listed(m_h, {}, next)
  BY List_Empty DEF Init
<1>2. Queue = {}
  BY <1>1, List_Nodes, Queue_Is
<1>3. TQTypes
  BY DEF Init, TQTypes, Links
<1>4. Tokens /\ Alive = {} /\ Returned
  BY DEF Init, Tokens, Alive, Returned
<1>5. 1 .. Len(stack) = {}
  BY DEF Init
<1>6. Notifying
  BY <1>2, <1>4, <1>5 DEF Notifying
<1> QED
  BY <1>1, <1>2, <1>3, <1>4, <1>6 DEF IInv

\* Every step keeps the invariant.
LEMMA TQ_Next ==
  ASSUME Preemptible \subseteq {"one", "all"}, IInv, [Next]_vars
  PROVE  IInv'
<1>1. CASE UNCHANGED vars
  <2>1. UNCHANGED <<m_h, next, notified, unlinked, m_s, wpc, outcome, stack>>
    BY <1>1 DEF vars, nodeVars
  <2>2. Queue' = Queue
    BY <2>1, Queue_Is
  <2>3. Alive' = Alive /\ (Returned => Returned')
    BY <2>1 DEF Alive, Returned
  <2>4. Tokens' /\ TQTypes' /\ Listed(m_h', Queue', next')
    BY <2>1, <2>2 DEF IInv, Tokens, TQTypes
  <2>5. Notifying => Notifying'
    BY <2>1, <2>2, <2>3 DEF Notifying
  <2>6. Linking1 => Linking1'
    BY <2>1, <2>2, <2>3 DEF Linking1, LinkFrame
  <2>7. Unlinking1 => Unlinking1'
    BY <2>1, <2>2, <2>3 DEF Unlinking1, UnlinkFrame
  <2> QED
    BY <2>4, <2>5, <2>6, <2>7 DEF IInv
<1>2. ASSUME NEW w \in Waiters, Construct(w) \/ TimeOut(w) \/ Thread(w) PROVE IInv'
  BY <1>2, TQ_Construct, TQ_Wake, TQ_Finish, TQ_Unlink_Svc DEF Thread
<1>3. ASSUME NEW kind \in {"one", "all"}, Notify(kind) PROVE IInv'
  BY <1>3, TQ_Notify
<1>4. CASE Link_Head \/ Link_Next \/ Link_Store \/ Link_Swap
  BY <1>4, TQ_Link_Head, TQ_Link_Next, TQ_Link_Store, TQ_Link_Swap
<1>5. CASE Unlink_Load \/ Unlink_Head \/ Unlink_Walk \/ Unlink_Swap \/ Unlink_Mark
  BY <1>5, TQ_Unlink_Load, TQ_Unlink_Head, TQ_Unlink_Walk, TQ_Unlink_Swap, TQ_Unlink_Mark
<1>6. CASE All_Head \/ All_Post \/ One_Head \/ One_Swap \/ One_Post
  BY <1>6, TQ_All_Head, TQ_All_Post, TQ_One_Head, TQ_One_Swap, TQ_One_Post
<1> QED
  BY <1>1, <1>2, <1>3, <1>4, <1>5, <1>6 DEF Next, Handler

\* The invariant: the list, the nodes that were taken and the node that is linked or
\* unlinked are the nodes that wait (_tq.cpp).
THEOREM Invariance ==
  ASSUME Preemptible \subseteq {"one", "all"}
  PROVE  Spec => []IInv
<1>1. IInv /\ [Next]_vars => IInv'
  BY TQ_Next
<1> QED
  BY <1>1, TQ_Init, PTL DEF Spec

-----------------------------------------------------------------------------
(* The properties. *)

\* A handler that links or unlinks is the only one.
LEMMA Inv_Types == IInv => TypeOK
<1> SUFFICES ASSUME IInv PROVE TypeOK
  OBVIOUS
<1>1. TQTypes
  BY DEF IInv
<1>2. ASSUME NEW k \in 1 .. Len(stack), stack[k].kind \in {"link", "unlink"}
      PROVE  k = 1 /\ stack[k].who \in Waiters
  <2>1. "link" \notin {"one", "all"} /\ "unlink" \notin {"one", "all"}
    OBVIOUS
  <2>2. ~Notifying
    BY <2>1, <1>2 DEF Notifying, NotifyFrame
  <2>3. Len(stack) = 1 /\ stack[1].who \in Waiters
    BY <2>2 DEF IInv, Linking1, Unlinking1, LinkFrame, UnlinkFrame
  <2> QED
    BY <2>3
<1>3. \A k \in 1 .. Len(stack) : stack[k] \in Frames
  BY <1>1 DEF TQTypes
<1> QED
  BY <1>1, <1>2, <1>3 DEF TypeOK, TQTypes, Frames, Kinds, Places

\* The walk from the head.
LEMMA Walk_Is == Walk(m_h) = WalkOf(m_h, next)
BY DEF Walk, WalkOf

\* Without a handler, the nodes that wait are in the list.
LEMMA Inv_Queue == IInv => QueueExact
<1> SUFFICES ASSUME IInv, stack = <<>>
             PROVE  /\ Walk(m_h)[Cardinality(Waiters)] = Null
                    /\ Queue = {w \in Waiters : wpc[w] # "idle" /\ ~unlinked[w]}
  BY DEF QueueExact
<1>1. Listed(m_h, Queue, next) /\ Queue = Alive
  BY Mode_Idle DEF IInv
<1> QED
  BY <1>1, List_Nodes, Walk_Is DEF Alive

\* The invariant holds for the tokens at any time.
LEMMA Inv_Tokens == IInv => TokensMatch
BY DEF IInv, Tokens, TokensMatch

\* The walk meets the nodes in the order of the list.
LEMMA Inv_Sorted == IInv => SortedBehindHead
<1> SUFFICES ASSUME IInv, NEW k \in 1 .. Cardinality(Waiters) - 1,
                    WalkOf(m_h, next)[k] # Null, WalkOf(m_h, next)[k + 1] # Null
             PROVE  Prio[WalkOf(m_h, next)[k]] >= Prio[WalkOf(m_h, next)[k + 1]]
  BY Walk_Is DEF SortedBehindHead
<1>1. Listed(m_h, Queue, next)
  BY DEF IInv
<1>2. PICK n \in Nat : \E f \in [1 .. n -> Waiters] : IsList(f, n, m_h, next) /\ Queue = {f[i] :
          i \in 1 .. n}
  BY <1>1, List_Pick
<1>3. PICK f \in [1 .. n -> Waiters] : IsList(f, n, m_h, next)
  BY <1>2
<1>4. WalkOf(m_h, next) = Along(f, n) /\ n <= Cardinality(Waiters) /\ Cardinality(Waiters) \in Nat
  BY <1>3, List_Walk, List_Length
<1>5. k \in 0 .. Cardinality(Waiters) /\ k + 1 \in 0 .. Cardinality(Waiters) /\ k \in Nat /\ k # 0
  BY <1>4
<1>6. k < n /\ k + 1 < n /\ Along(f, n)[k] = f[k + 1] /\ Along(f, n)[k + 1] = f[k + 1 + 1]
  BY <1>4, <1>5 DEF Along
<1>7. k + 1 \in 2 .. n /\ k + 1 # n
  BY <1>5, <1>6
<1> QED
  BY <1>3, <1>4, <1>6, <1>7 DEF IsList

\* TypeOK: no node is posted twice, and at most one handler that links or unlinks is under
\* way, below all notifications (_tq.cpp).
THEOREM TypeCorrect ==
  ASSUME Preemptible \subseteq {"one", "all"}
  PROVE  Spec => []TypeOK
BY Invariance, Inv_Types, PTL

\* QueueExact: whenever threads may run, the list of _tq holds exactly the nodes that wait
\* and are not marked, each once (_tq.cpp, all handlers).
THEOREM QueueCorrect ==
  ASSUME Preemptible \subseteq {"one", "all"}
  PROVE  Spec => []QueueExact
BY Invariance, Inv_Queue, PTL

\* TokensMatch: a waiter has a token exactly if it was notified and has not taken it
\* (weos_tq_notify, _t::unlink).
THEOREM TokensCorrect ==
  ASSUME Preemptible \subseteq {"one", "all"}
  PROVE  Spec => []TokensMatch
BY Invariance, Inv_Tokens, PTL

\* SortedBehindHead: weos_tq_link keeps the list sorted behind its head.
THEOREM ListSorted ==
  ASSUME Preemptible \subseteq {"one", "all"}
  PROVE  Spec => []SortedBehindHead
BY Invariance, Inv_Sorted, PTL

-----------------------------------------------------------------------------
(* The abstract queue. *)

Phase == [w \in Waiters |-> PhaseOf(w)]
Notified == {w \in Waiters : notified[w]}

\* The phases when L is linked, Q is the queue and N was notified.
PhaseAs(wp, L, Q, N) ==
  [w \in Waiters |-> IF wp[w] = "idle" THEN "idle"
                     ELSE IF w \in L THEN "entering"
                     ELSE IF w \in Q THEN "waiting"
                     ELSE IF w \in N THEN "notified"
                     ELSE "timeout"]

\* What the notifications carry.
LEMMA Carried_Is ==
  IInv /\ Notifying => Carried = UNION {Taken(stack[k], next) : k \in 1 .. Len(stack)}
<1> SUFFICES ASSUME IInv, Notifying
             PROVE  Carried = UNION {Taken(stack[k], next) : k \in 1 .. Len(stack)}
  OBVIOUS
<1>1. \A n : NodesFrom(n) = NodesOf(n, next)
  BY DEF NodesFrom, Walk, NodesOf, WalkOf
<1>2. ASSUME NEW w \in Carried
      PROVE  \E k \in 1 .. Len(stack) : w \in Taken(stack[k], next)
  BY <1>1, <1>2 DEF Carried, Taken
<1>3. ASSUME NEW k \in 1 .. Len(stack), NEW w \in Taken(stack[k], next)
      PROVE  w \in Carried
  <2>1. stack[k].pc = "post" /\ stack[k].kind \in {"one", "all"}
    BY <1>3 DEF Taken, Notifying, NotifyFrame
  <2>2. CASE stack[k].kind = "all"
    <3>1. w \in NodesFrom(stack[k].i)
      BY <2>1, <2>2, <1>1, <1>3 DEF Taken
    <3> QED
      BY <2>1, <2>2, <3>1 DEF Carried
  <2>3. CASE stack[k].kind = "one"
    <3>1. w = stack[k].i
      BY <2>1, <2>3, <1>3 DEF Taken
    <3> QED
      BY <2>1, <2>3, <3>1 DEF Carried
  <2> QED
    BY <2>1, <2>2, <2>3
<1> QED
  BY <1>2, <1>3

\* The phases while notifications are under way ...
LEMMA Phase_Notifying == IInv /\ Notifying => Phase = PhaseAs(wpc, {}, Queue, Alive \cup Notified)
<1> SUFFICES ASSUME IInv, Notifying
             PROVE  Phase = PhaseAs(wpc, {}, Queue, Alive \cup Notified)
  OBVIOUS
<1>1. Queue \cup Carried = Alive
  BY Carried_Is DEF Notifying
<1>2. Linking = {}
  BY DEF Linking, Notifying, NotifyFrame
<1> QED
  BY <1>1, <1>2 DEF Phase, PhaseOf, PhaseAs, Notified

\* ... while a thread is linked ...
LEMMA Phase_Linking ==
  IInv /\ Linking1 => Phase = PhaseAs(wpc, {stack[1].who}, Queue, Notified)
<1> SUFFICES ASSUME IInv, Linking1
             PROVE  Phase = PhaseAs(wpc, {stack[1].who}, Queue, Notified)
  OBVIOUS
<1>1. Len(stack) = 1 /\ 1 .. Len(stack) = {1} /\ stack[1].kind = "link"
  BY DEF Linking1, LinkFrame
<1>2. Linking = {stack[1].who} /\ Carried = {}
  BY <1>1 DEF Linking, Carried
<1>3. stack[1].who \in Waiters /\ wpc[stack[1].who] # "idle"
  BY DEF Linking1, LinkFrame
<1> QED
  BY <1>2, <1>3 DEF Phase, PhaseOf, PhaseAs, Notified

\* ... and while one is unlinked.
LEMMA Phase_Unlinking ==
  IInv /\ Unlinking1 => Phase = PhaseAs(wpc, {}, Queue, Notified)
<1> SUFFICES ASSUME IInv, Unlinking1
             PROVE  Phase = PhaseAs(wpc, {}, Queue, Notified)
  OBVIOUS
<1>1. Len(stack) = 1 /\ 1 .. Len(stack) = {1} /\ stack[1].kind = "unlink"
  BY DEF Unlinking1, UnlinkFrame
<1>2. Linking = {} /\ Carried = {}
  BY <1>1 DEF Linking, Carried
<1> QED
  BY <1>2 DEF Phase, PhaseOf, PhaseAs, Notified

\* Which handlers are under way.
OnlyNotify == \A k \in 1 .. Len(stack) : stack[k].kind \in {"one", "all"}
OnlyLink == Len(stack) = 1 /\ stack[1].kind = "link"
OnlyUnlink == Len(stack) = 1 /\ stack[1].kind = "unlink"

\* The kinds of the handlers say which of the three cases it is.
LEMMA Mode_Is ==
  IInv => /\ OnlyNotify => Notifying
          /\ OnlyLink => Linking1
          /\ OnlyUnlink => Unlinking1
<1> SUFFICES ASSUME IInv
             PROVE  /\ OnlyNotify => Notifying
                    /\ OnlyLink => Linking1
                    /\ OnlyUnlink => Unlinking1
  OBVIOUS
<1>1. ASSUME Len(stack) = 1 PROVE 1 \in 1 .. Len(stack)
  BY <1>1
<1> QED
  BY <1>1 DEF IInv, OnlyNotify, OnlyLink, OnlyUnlink, Notifying, NotifyFrame, Linking1, LinkFrame,
     Unlinking1, UnlinkFrame

\* The same after a step.
LEMMA After ==
  /\ IInv' /\ OnlyNotify' => Phase' = PhaseAs(wpc', {}, Queue', Alive' \cup Notified')
  /\ IInv' /\ OnlyLink' => Phase' = PhaseAs(wpc', {stack[1].who}', Queue', Notified') /\ Linking1'
  /\ IInv' /\ OnlyUnlink' => Phase' = PhaseAs(wpc', {}, Queue', Notified')
<1>1. /\ IInv /\ OnlyNotify => Phase = PhaseAs(wpc, {}, Queue, Alive \cup Notified)
      /\ IInv /\ OnlyLink => Phase = PhaseAs(wpc, {stack[1].who}, Queue, Notified) /\ Linking1
      /\ IInv /\ OnlyUnlink => Phase = PhaseAs(wpc, {}, Queue, Notified)
  BY Mode_Is, Phase_Notifying, Phase_Linking, Phase_Unlinking
<1>2. (/\ IInv /\ OnlyNotify => Phase = PhaseAs(wpc, {}, Queue, Alive \cup Notified)
       /\ IInv /\ OnlyLink => Phase = PhaseAs(wpc, {stack[1].who}, Queue, Notified) /\ Linking1
       /\ IInv /\ OnlyUnlink => Phase = PhaseAs(wpc, {}, Queue, Notified))'
  BY <1>1, PTL
<1> QED
  BY <1>2

\* The steps of the abstract queue.
Stays == Phase' = Phase /\ outcome' = outcome
Begins(w) == /\ Phase[w] = "idle" /\ Phase' = [Phase EXCEPT ![w] = "entering"]
             /\ outcome' = [outcome EXCEPT ![w] = "none"]
Enters(w) == /\ Phase[w] = "entering" /\ Phase' = [Phase EXCEPT ![w] = "waiting"]
             /\ outcome' = outcome
GivesUp(w) == /\ Phase[w] = "waiting" /\ Phase' = [Phase EXCEPT ![w] = "timeout"]
              /\ outcome' = outcome
Leaves(w) == /\ Phase[w] \in {"notified", "timeout"} /\ Phase' = [Phase EXCEPT ![w] = "idle"]
             /\ outcome' = [outcome EXCEPT ![w] = Phase[w]]
NotifiesOne == /\ \E w \in Waiters : /\ Phase[w] = "waiting"
                                     /\ Phase' = [Phase EXCEPT ![w] = "notified"]
               /\ outcome' = outcome
NotifiesAll == /\ \E w \in Waiters : Phase[w] = "waiting"
               /\ Phase' = [w \in Waiters |-> IF Phase[w] = "waiting" THEN "notified" ELSE Phase[w]]
               /\ outcome' = outcome
Maps == \/ Stays \/ NotifiesOne \/ NotifiesAll
        \/ \E w \in Waiters : Begins(w) \/ Enters(w) \/ GivesUp(w) \/ Leaves(w)

\* No handler is under way.
LEMMA Idle_Before ==
  ASSUME IInv, stack = <<>>
  PROVE  /\ TQTypes /\ Tokens /\ Queue = Alive /\ Returned
         /\ Phase = PhaseAs(wpc, {}, Queue, Notified)
<1>1. Notifying /\ Queue = Alive /\ Returned /\ TQTypes /\ Tokens
  BY Mode_Idle DEF IInv
<1>2. Phase = PhaseAs(wpc, {}, Queue, Alive \cup Notified)
  BY <1>1, Phase_Notifying
<1> QED
  BY <1>1, <1>2 DEF PhaseAs

\* No handler is under way any more.
LEMMA Idle_After ==
  ASSUME IInv', Len(stack') = 0
  PROVE  Queue' = Alive' /\ Phase' = PhaseAs(wpc', {}, Queue', Notified')
<1>1. 1 .. Len(stack') = {} /\ Len(stack') # 1
  OBVIOUS
<1>2. OnlyNotify'
  BY <1>1 DEF OnlyNotify
<1>3. Phase' = PhaseAs(wpc', {}, Queue', Alive' \cup Notified')
  BY <1>2, After
<1>4. Queue' = Alive'
  <2>1. Notifying'
    BY <1>1 DEF IInv, Linking1, Unlinking1
  <2> QED
    BY <2>1, <1>1 DEF Notifying
<1> QED
  BY <1>3, <1>4 DEF PhaseAs

\* A thread begins to wait.
LEMMA Map_Construct ==
  ASSUME IInv, NEW w \in Waiters, Construct(w)
  PROVE  Begins(w)
<1>1. stack = <<>> /\ wpc[w] = "idle"
  BY DEF Construct
<1>2. TQTypes /\ Tokens /\ Queue = Alive /\ Phase = PhaseAs(wpc, {}, Queue, Notified)
  BY <1>1, Idle_Before
<1>3. /\ m_h' = m_h /\ next' = [next EXCEPT ![w] = Null]
      /\ notified' = [notified EXCEPT ![w] = FALSE] /\ wpc' = [wpc EXCEPT ![w] = "blocked"]
      /\ outcome' = [outcome EXCEPT ![w] = "none"] /\ Push(Frame("link", w, "head"))
  BY DEF Construct
<1>4. Frame("link", w, "head") \in Frames
  BY DEF Frame, Frames, Kinds, Places, Links
<1>5. Len(stack') = 1 /\ stack'[1] = Frame("link", w, "head")
  BY <1>1, <1>2, <1>3, <1>4, Stack_Push DEF TQTypes
<1>6. OnlyLink' /\ stack'[1].who = w
  BY <1>5 DEF OnlyLink, Frame
<1>7. Phase' = PhaseAs(wpc', {w}, Queue', Notified')
  BY <1>6, TQ_Construct, After
<1>8. Queue' = Queue
  <2>1. \A v \in Queue : next'[v] = next[v]
    BY <1>1, <1>2, <1>3 DEF Alive, TQTypes
  <2> QED
    BY <2>1, <1>3, Queue_Same
<1>9. \A v \in Waiters : v # w => wpc'[v] = wpc[v] /\ (v \in Notified' <=> v \in Notified)
  BY <1>2, <1>3 DEF TQTypes, Notified
<1>10. wpc'[w] # "idle" /\ Phase[w] = "idle"
  BY <1>1, <1>2, <1>3 DEF TQTypes, PhaseAs
<1>11. Phase' = [Phase EXCEPT ![w] = "entering"]
  BY <1>2, <1>7, <1>8, <1>9, <1>10 DEF PhaseAs
<1> QED
  BY <1>3, <1>10, <1>11 DEF Begins

\* Taking the token is not seen, nor is a timeout: the thread is still in the queue.
LEMMA Map_Wake ==
  ASSUME IInv, NEW w \in Waiters, Wake(w) \/ TimeOut(w) \/ Unlink_Linked(w)
  PROVE  Stays
<1>1. /\ stack = <<>> /\ UNCHANGED <<m_h, next, notified, outcome, stack>>
      /\ wpc[w] # "idle" /\ \E l \in {"woken", "timeout", "unlink"} : wpc' = [wpc EXCEPT ![w] = l]
  BY DEF Wake, TimeOut, Unlink_Linked, nodeVars
<1>2. TQTypes /\ Phase = PhaseAs(wpc, {}, Queue, Notified)
  BY <1>1, Idle_Before
<1>3. Len(stack') = 0
  BY <1>1
<1>4. Phase' = PhaseAs(wpc', {}, Queue', Notified')
  BY <1>3, TQ_Wake, Idle_After
<1>5. Queue' = Queue /\ Notified' = Notified
  BY <1>1, Queue_Is DEF Notified
<1>6. \A v \in Waiters : wpc'[v] = "idle" <=> wpc[v] = "idle"
  BY <1>1, <1>2 DEF TQTypes
<1>7. Phase' = Phase
  BY <1>2, <1>4, <1>5, <1>6 DEF PhaseAs
<1> QED
  BY <1>1, <1>7 DEF Stays

\* Nor is the call of the SVC.
LEMMA Map_Unlink_Svc ==
  ASSUME IInv, NEW w \in Waiters, Unlink_Svc(w)
  PROVE  Stays
<1>1. /\ stack = <<>> /\ UNCHANGED <<m_h, next, notified, outcome>>
      /\ wpc[w] = "unlink" /\ wpc' = [wpc EXCEPT ![w] = "unlinking"]
      /\ Push(Frame("unlink", w, "load"))
  BY DEF Unlink_Svc, nodeVars
<1>2. TQTypes /\ Phase = PhaseAs(wpc, {}, Queue, Notified)
  BY <1>1, Idle_Before
<1>3. Frame("unlink", w, "load") \in Frames
  BY DEF Frame, Frames, Kinds, Places, Links
<1>4. Len(stack') = 1 /\ stack'[1] = Frame("unlink", w, "load")
  BY <1>1, <1>2, <1>3, Stack_Push DEF TQTypes
<1>5. OnlyUnlink'
  BY <1>4 DEF OnlyUnlink, Frame
<1>6. Phase' = PhaseAs(wpc', {}, Queue', Notified')
  BY <1>5, TQ_Unlink_Svc, After
<1>7. Queue' = Queue /\ Notified' = Notified
  BY <1>1, Queue_Is DEF Notified
<1>8. \A v \in Waiters : wpc'[v] = "idle" <=> wpc[v] = "idle"
  BY <1>1, <1>2 DEF TQTypes
<1>9. Phase' = Phase
  BY <1>2, <1>6, <1>7, <1>8 DEF PhaseAs
<1> QED
  BY <1>1, <1>9 DEF Stays

\* The wait returns and says whether it was notified.
LEMMA Map_Finish ==
  ASSUME IInv, NEW w \in Waiters, Unlink_Unlinked(w) \/ Unlink_Return(w)
  PROVE  Leaves(w)
<1>1. stack = <<>> /\ stack' = stack /\ wpc[w] # "idle"
  BY DEF Unlink_Unlinked, Unlink_Return
<1>2. TQTypes /\ Tokens /\ Queue = Alive /\ Phase = PhaseAs(wpc, {}, Queue, Notified)
  BY <1>1, Idle_Before
<1>3. IInv' /\ w \notin Queue /\ Queue' = Queue
  BY TQ_Finish
<1>4. /\ notified' = [notified EXCEPT ![w] = FALSE] /\ wpc' = [wpc EXCEPT ![w] = "idle"]
      /\ outcome' = [outcome EXCEPT ![w] = IF notified[w] THEN "notified" ELSE "timeout"]
  BY <1>2 DEF Unlink_Unlinked, Unlink_Return, Finish, Tokens
<1>5. Phase' = PhaseAs(wpc', {}, Queue', Notified')
  BY <1>1, <1>3, Idle_After
<1>6. \A v \in Waiters : v # w => wpc'[v] = wpc[v] /\ (v \in Notified' <=> v \in Notified)
  BY <1>2, <1>4 DEF TQTypes, Notified
<1>7. wpc'[w] = "idle"
  BY <1>2, <1>4 DEF TQTypes
<1>8. Phase[w] = IF notified[w] THEN "notified" ELSE "timeout"
  BY <1>1, <1>2, <1>3 DEF PhaseAs, Notified
<1>9. Phase' = [Phase EXCEPT ![w] = "idle"]
  BY <1>2, <1>3, <1>5, <1>6, <1>7 DEF PhaseAs
<1> QED
  BY <1>4, <1>8, <1>9 DEF Leaves

\* A handler that goes on keeps its kind and its thread.
LEMMA Go_Keeps ==
  ASSUME stack \in Seq(Frames), stack # <<>>, NEW pc, NEW i, NEW in, Go(pc, i, in)
  PROVE  /\ Len(stack') = Len(stack) /\ Len(stack) \in Nat /\ Len(stack) # 0
         /\ \A k \in 1 .. Len(stack) :
                stack'[k].kind = stack[k].kind /\ stack'[k].who = stack[k].who
<1> DEFINE fr == [Top EXCEPT !.pc = pc, !.i = i, !.in = in]
<1> DEFINE S == Frames \cup {fr}
<1>1. Len(stack) \in Nat /\ Len(stack) # 0 /\ Len(stack) \in 1 .. Len(stack)
  OBVIOUS
<1>2. Top \in Frames /\ Top = stack[Len(stack)]
  BY <1>1 DEF Top
<1>3. fr.kind = Top.kind /\ fr.who = Top.who
  BY <1>2 DEF Frames
<1>4. stack' = [stack EXCEPT ![Len(stack)] = fr]
  BY DEF Go
<1> HIDE DEF fr
<1>5. stack \in Seq(S) /\ fr \in S
  OBVIOUS
<1> HIDE DEF S
<1>6. /\ Len(stack') = Len(stack)
      /\ \A k \in 1 .. Len(stack) : stack'[k] = IF k = Len(stack) THEN fr ELSE stack[k]
  BY <1>1, <1>4, <1>5, ExceptSeq
<1> QED
  BY <1>1, <1>2, <1>3, <1>6

\* The thread enters the queue with the step that links it.
LEMMA Map_Link ==
  ASSUME IInv, Link_Head \/ Link_Next \/ Link_Store \/ Link_Swap
  PROVE  Stays \/ (Top.who \in Waiters /\ Enters(Top.who))
<1> DEFINE t == Top.who
<1>1. /\ stack # <<>> /\ Top.kind = "link" /\ UNCHANGED <<wpc, outcome>>
      /\ \/ UNCHANGED <<notified, unlinked>>
         \/ /\ notified' = [notified EXCEPT ![t] = FALSE]
            /\ unlinked' = [unlinked EXCEPT ![t] = FALSE]
  BY DEF Link_Head, Link_Next, Link_Store, Link_Swap, Running, nodeVars
<1>2. /\ TQTypes /\ Tokens /\ Len(stack) = 1 /\ stack[1] = Top /\ t \in Waiters
      /\ Linking1 /\ wpc[t] = "blocked" /\ ~unlinked[t] /\ Queue = Alive \ {t} /\ t \in Alive
  BY <1>1, Mode_Link DEF IInv, LinkFrame
<1>3. ~notified[t]
  BY <1>2 DEF Tokens
<1>4. Notified' = Notified /\ Alive' = Alive
  BY <1>1, <1>2, <1>3 DEF Notified, Alive, TQTypes
<1>5. IInv'
  BY TQ_Link_Head, TQ_Link_Next, TQ_Link_Store, TQ_Link_Swap
<1>6. Phase = PhaseAs(wpc, {t}, Alive \ {t}, Notified)
  BY <1>2, Phase_Linking
<1>7. Return \/ \E pc, i, in : Go(pc, i, in)
  BY DEF Link_Head, Link_Next, Link_Store, Link_Swap
<1>8. CASE Return
  <2>1. Len(stack') = 0
    BY <1>1, <1>2, <1>8, Stack_Return DEF TQTypes
  <2>2. Phase' = PhaseAs(wpc, {}, Alive, Notified)
    BY <2>1, <1>1, <1>4, <1>5, Idle_After
  <2>3. Phase[t] = "entering" /\ Phase' = [Phase EXCEPT ![t] = "waiting"]
    BY <2>2, <1>2, <1>6 DEF PhaseAs
  <2> QED
    BY <2>3, <1>1, <1>2 DEF Enters
<1>9. CASE \E pc, i, in : Go(pc, i, in)
  <2>1. Len(stack') = 1 /\ stack'[1].kind = "link" /\ stack'[1].who = t
    BY <1>1, <1>2, <1>9, Go_Keeps DEF TQTypes
  <2>2. OnlyLink'
    BY <2>1 DEF OnlyLink
  <2>3. Phase' = PhaseAs(wpc, {t}, Queue', Notified) /\ Linking1'
    BY <2>1, <2>2, <1>1, <1>4, <1>5, After
  <2>4. Queue' = Alive \ {t}
    BY <2>1, <2>3, <1>4 DEF Linking1
  <2> QED
    BY <2>3, <2>4, <1>1, <1>6 DEF Stays
<1> QED
  BY <1>7, <1>8, <1>9

\* It gives up with the step that takes it out of the list.
LEMMA Map_Unlink ==
  ASSUME IInv, Unlink_Load \/ Unlink_Head \/ Unlink_Walk \/ Unlink_Swap \/ Unlink_Mark
  PROVE  Stays \/ (Top.who \in Waiters /\ GivesUp(Top.who))
<1> DEFINE t == Top.who
<1>1. /\ stack # <<>> /\ Top.kind = "unlink" /\ UNCHANGED <<wpc, outcome, notified>>
  BY DEF Unlink_Load, Unlink_Head, Unlink_Walk, Unlink_Swap, Unlink_Mark, Running, nodeVars
<1>2. /\ TQTypes /\ Tokens /\ Len(stack) = 1 /\ stack[1] = Top /\ t \in Waiters
      /\ Unlinking1 /\ Queue \subseteq Alive
  BY <1>1, Mode_Unlink DEF IInv, UnlinkFrame
<1>3. Notified' = Notified /\ Notified \cap Alive = {}
  BY <1>1, <1>2 DEF Notified, Alive, Tokens
<1>4. IInv' /\ (Queue' = Queue \/ Queue' = Queue \ {t})
  BY TQ_Unlink_Load, TQ_Unlink_Head, TQ_Unlink_Walk, TQ_Unlink_Swap, TQ_Unlink_Mark
<1>5. Phase = PhaseAs(wpc, {}, Queue, Notified)
  BY <1>2, Phase_Unlinking
<1>6. Return \/ \E pc, i, in : Go(pc, i, in)
  BY DEF Unlink_Load, Unlink_Head, Unlink_Walk, Unlink_Swap, Unlink_Mark
<1>7. Phase' = PhaseAs(wpc, {}, Queue', Notified)
  <2>1. CASE Return
    <3>1. Len(stack') = 0
      BY <2>1, <1>1, <1>2, Stack_Return DEF TQTypes
    <3> QED
      BY <3>1, <1>1, <1>3, <1>4, Idle_After
  <2>2. CASE \E pc, i, in : Go(pc, i, in)
    <3>1. Len(stack') = 1 /\ stack'[1].kind = "unlink"
      BY <2>2, <1>1, <1>2, Go_Keeps DEF TQTypes
    <3>2. OnlyUnlink'
      BY <3>1 DEF OnlyUnlink
    <3> QED
      BY <3>2, <1>1, <1>3, <1>4, After
  <2> QED
    BY <2>1, <2>2, <1>6
<1>8. CASE Queue' = Queue
  BY <1>1, <1>5, <1>7, <1>8 DEF Stays
<1>9. CASE t \in Queue /\ Queue' = Queue \ {t}
  <2>1. wpc[t] # "idle" /\ t \notin Notified
    BY <1>2, <1>3, <1>9 DEF Alive
  <2>2. Phase[t] = "waiting" /\ Phase' = [Phase EXCEPT ![t] = "timeout"]
    BY <2>1, <1>2, <1>5, <1>7, <1>9 DEF PhaseAs
  <2> QED
    BY <2>2, <1>1, <1>2 DEF GivesUp
<1> QED
  BY <1>4, <1>8, <1>9

\* Before a step of a notification, no other handler is under way.
LEMMA Notify_Before ==
  ASSUME IInv, stack = <<>> \/ (stack # <<>> /\ Top.kind \in {"one", "all"})
  PROVE  /\ Notifying /\ OnlyNotify /\ TQTypes /\ Tokens /\ Queue \subseteq Alive
         /\ Phase = PhaseAs(wpc, {}, Queue, Alive \cup Notified)
<1>1. Notifying /\ TQTypes /\ Tokens
  BY Mode_Idle, Mode_Notify DEF IInv
<1>2. OnlyNotify /\ Queue \subseteq Alive
  BY <1>1 DEF Notifying, NotifyFrame, OnlyNotify
<1> QED
  BY <1>1, <1>2, Phase_Notifying

\* The start of a notification is not seen.
LEMMA Map_Notify ==
  ASSUME Preemptible \subseteq {"one", "all"}, IInv, NEW kind \in {"one", "all"}, Notify(kind)
  PROVE  Stays
<1>1. /\ UNCHANGED <<m_h, next, notified, unlinked, wpc, outcome>>
             /\ Push(Frame(kind, Null, "head"))
      /\ stack = <<>> \/ (stack # <<>> /\ Top.kind \in {"one", "all"})
  BY DEF Notify, nodeVars
<1>2. OnlyNotify /\ TQTypes /\ Phase = PhaseAs(wpc, {}, Queue, Alive \cup Notified)
  BY <1>1, Notify_Before
<1>3. Frame(kind, Null, "head") \in Frames /\ Frame(kind, Null, "head").kind = kind
  BY DEF Frame, Frames, Kinds, Places, Links
<1>4. /\ Len(stack) \in Nat /\ Len(stack') = Len(stack) + 1
      /\ \A k \in 1 .. Len(stack) : stack'[k] = stack[k]
      /\ stack'[Len(stack) + 1] = Frame(kind, Null, "head")
  BY <1>1, <1>2, <1>3, Stack_Push DEF TQTypes
<1>5. \A k \in 1 .. Len(stack') : k \in 1 .. Len(stack) \/ k = Len(stack) + 1
  BY <1>4
<1>6. OnlyNotify'
  BY <1>2, <1>3, <1>4, <1>5 DEF OnlyNotify
<1>7. IInv' /\ Queue' = Queue
  BY TQ_Notify
<1>8. Phase' = PhaseAs(wpc', {}, Queue', Alive' \cup Notified')
  BY <1>6, <1>7, After
<1>9. Alive' = Alive /\ Notified' = Notified
  BY <1>1 DEF Alive, Notified
<1> QED
  BY <1>1, <1>2, <1>7, <1>8, <1>9 DEF Stays

\* After a step of a notification, too, only notifications are under way.
LEMMA Notify_After ==
  ASSUME IInv, stack # <<>>, Top.kind \in {"one", "all"}, IInv',
         Return \/ \E pc, i, in : Go(pc, i, in)
  PROVE  Phase' = PhaseAs(wpc', {}, Queue', Alive' \cup Notified')
<1>1. OnlyNotify /\ TQTypes
  BY Notify_Before
<1>2. OnlyNotify'
  <2>1. CASE Return
    <3>1. /\ Len(stack') \in Nat /\ Len(stack) = Len(stack') + 1
          /\ \A k \in 1 .. Len(stack') : stack'[k] = stack[k]
      BY <2>1, <1>1, Stack_Return DEF TQTypes
    <3>2. \A k \in 1 .. Len(stack') : k \in 1 .. Len(stack)
      BY <3>1
    <3> QED
      BY <3>1, <3>2, <1>1 DEF OnlyNotify
  <2>2. CASE \E pc, i, in : Go(pc, i, in)
    <3>1. /\ Len(stack') = Len(stack)
          /\ \A k \in 1 .. Len(stack) : stack'[k].kind = stack[k].kind
      BY <2>2, <1>1, Go_Keeps DEF TQTypes
    <3> QED
      BY <3>1, <1>1 DEF OnlyNotify
  <2> QED
    BY <2>1, <2>2
<1> QED
  BY <1>2, After

\* notify_all notifies all that wait, when it takes the list.
LEMMA Map_All_Head ==
  ASSUME IInv, All_Head
  PROVE  Stays \/ NotifiesAll
<1>1. /\ stack # <<>> /\ Top.kind = "all" /\ UNCHANGED <<notified, unlinked, wpc, outcome>>
      /\ Return \/ \E pc, i, in : Go(pc, i, in)
  BY DEF All_Head, Running, nodeVars
<1>2. Queue \subseteq Alive /\ Phase = PhaseAs(wpc, {}, Queue, Alive \cup Notified)
  BY <1>1, Notify_Before
<1>3. IInv' /\ Queue' = {}
  BY TQ_All_Head
<1>4. Phase' = PhaseAs(wpc', {}, Queue', Alive' \cup Notified')
  BY <1>1, <1>3, Notify_After
<1>5. Alive' = Alive /\ Notified' = Notified
  BY <1>1 DEF Alive, Notified
<1>6. Phase' = PhaseAs(wpc, {}, {}, Alive \cup Notified)
  BY <1>1, <1>3, <1>4, <1>5
<1>7. CASE Queue = {}
  BY <1>1, <1>2, <1>6, <1>7 DEF Stays
<1>8. CASE Queue # {}
  <2>1. \A w \in Waiters : Phase[w] = "waiting" <=> w \in Queue
    BY <1>2 DEF PhaseAs, Alive
  <2>2. \E w \in Waiters : Phase[w] = "waiting"
    BY <2>1, <1>2, <1>8 DEF Alive
  <2>3. \A w \in Queue : wpc[w] # "idle" /\ w \in Alive
    BY <1>2 DEF Alive
  <2>4. Phase' = [w \in Waiters |-> IF w \in Queue THEN "notified" ELSE Phase[w]]
    BY <2>3, <1>2, <1>6 DEF PhaseAs
  <2>5. Phase' = [w \in Waiters |-> IF Phase[w] = "waiting" THEN "notified" ELSE Phase[w]]
    BY <2>1, <2>4
  <2> QED
    BY <2>2, <2>5, <1>1 DEF NotifiesAll
<1> QED
  BY <1>7, <1>8

\* notify_one notifies the head, when it takes it.
LEMMA Map_One ==
  ASSUME IInv, One_Head \/ One_Swap
  PROVE  Stays \/ NotifiesOne
<1>1. /\ stack # <<>> /\ Top.kind = "one" /\ UNCHANGED <<notified, unlinked, wpc, outcome>>
      /\ Return \/ \E pc, i, in : Go(pc, i, in)
  BY DEF One_Head, One_Swap, Running, nodeVars
<1>2. Queue \subseteq Alive /\ Phase = PhaseAs(wpc, {}, Queue, Alive \cup Notified)
  BY <1>1, Notify_Before
<1>3. IInv' /\ (Queue' = Queue \/ (m_h \in Queue /\ Queue' = Queue \ {m_h}))
  BY TQ_One_Head, TQ_One_Swap
<1>4. Phase' = PhaseAs(wpc', {}, Queue', Alive' \cup Notified')
  BY <1>1, <1>3, Notify_After
<1>5. Alive' = Alive /\ Notified' = Notified
  BY <1>1 DEF Alive, Notified
<1>6. Phase' = PhaseAs(wpc, {}, Queue', Alive \cup Notified)
  BY <1>1, <1>4, <1>5
<1>7. CASE Queue' = Queue
  BY <1>1, <1>2, <1>6, <1>7 DEF Stays
<1>8. CASE m_h \in Queue /\ Queue' = Queue \ {m_h}
  <2>1. m_h \in Waiters /\ m_h \in Alive /\ wpc[m_h] # "idle"
    BY <1>2, <1>8 DEF Alive
  <2>2. Phase[m_h] = "waiting" /\ Phase' = [Phase EXCEPT ![m_h] = "notified"]
    BY <2>1, <1>2, <1>6, <1>8 DEF PhaseAs
  <2> QED
    BY <2>1, <2>2, <1>1 DEF NotifiesOne
<1> QED
  BY <1>3, <1>7, <1>8

\* What was taken was notified already.
LEMMA Map_Post ==
  ASSUME IInv, All_Post \/ One_Post
  PROVE  Stays
<1> DEFINE i == Top.i
<1>1. /\ stack # <<>> /\ Top.kind \in {"one", "all"} /\ UNCHANGED <<wpc, outcome>>
      /\ Return \/ \E pc, j, in : Go(pc, j, in)
      /\ notified' = [notified EXCEPT ![i] = TRUE] /\ unlinked' = [unlinked EXCEPT ![i] = TRUE]
  BY DEF All_Post, One_Post, Running, MarkAndPost
<1>2. TQTypes /\ Phase = PhaseAs(wpc, {}, Queue, Alive \cup Notified)
  BY <1>1, Notify_Before
<1>3. IInv' /\ Queue' = Queue /\ i \in Alive
  BY TQ_All_Post, TQ_One_Post
<1>4. Phase' = PhaseAs(wpc', {}, Queue', Alive' \cup Notified')
  BY <1>1, <1>3, Notify_After
<1> HIDE DEF i
<1>5. /\ i \in Waiters /\ notified'[i] /\ unlinked'[i]
      /\ \A v \in Waiters : v # i => notified'[v] = notified[v] /\ unlinked'[v] = unlinked[v]
  BY <1>1, <1>2, <1>3 DEF TQTypes, Alive
<1>6. Alive' \cup Notified' = Alive \cup Notified
  BY <1>1, <1>3, <1>5 DEF Alive, Notified
<1> QED
  BY <1>1, <1>2, <1>3, <1>4, <1>6 DEF Stays

\* Every step is one of the abstract queue, or none.
LEMMA Map_Next ==
  ASSUME Preemptible \subseteq {"one", "all"}, IInv, [Next]_vars
  PROVE  Maps
<1>1. CASE UNCHANGED vars
  <2>1. UNCHANGED <<m_h, next, notified, wpc, outcome, stack>>
    BY <1>1 DEF vars, nodeVars
  <2>2. Phase' = Phase
    BY <2>1, Queue_Is DEF Phase, PhaseOf, Linking, Carried, NodesFrom, Walk
  <2> QED
    BY <2>1, <2>2 DEF Maps, Stays
<1>2. ASSUME NEW w \in Waiters, Construct(w) \/ TimeOut(w) \/ Thread(w) PROVE Maps
  BY <1>2, Map_Construct, Map_Wake, Map_Unlink_Svc, Map_Finish DEF Thread, Maps
<1>3. ASSUME NEW kind \in {"one", "all"}, Notify(kind) PROVE Maps
  BY <1>3, Map_Notify DEF Maps
<1>4. CASE Link_Head \/ Link_Next \/ Link_Store \/ Link_Swap
  BY <1>4, Map_Link DEF Maps
<1>5. CASE Unlink_Load \/ Unlink_Head \/ Unlink_Walk \/ Unlink_Swap \/ Unlink_Mark
  BY <1>5, Map_Unlink DEF Maps
<1>6. CASE All_Head \/ All_Post \/ One_Head \/ One_Swap \/ One_Post
  BY <1>6, Map_All_Head, Map_One, Map_Post DEF Maps
<1> QED
  BY <1>1, <1>2, <1>3, <1>4, <1>5, <1>6 DEF Next, Handler

\* Nobody waits.
LEMMA Map_Init == Init => Abstract!WQInit
<1> SUFFICES ASSUME Init PROVE Abstract!WQInit
  OBVIOUS
<1>1. \A w \in Waiters : PhaseOf(w) = "idle"
  <2>1. Linking = {}
    BY DEF Init, Linking
  <2> QED
    BY <2>1 DEF Init, PhaseOf
<1> QED
  BY <1>1 DEF Init, Abstract!WQInit

\* ImplementsWaitQueue: the list with its handlers, interrupts and timeouts is a wait
\* queue. Every wait ends by one notification or by giving up, and wait_for() says which.
THEOREM QueueImplemented ==
  ASSUME Preemptible \subseteq {"one", "all"}
  PROVE  Spec => ImplementsWaitQueue
<1>1. IInv /\ [Next]_vars => [Abstract!WQNext]_(Abstract!wqVars)
  <2> SUFFICES ASSUME Maps PROVE [Abstract!WQNext]_(Abstract!wqVars)
    BY Map_Next
  <2>1. CASE Stays
    BY <2>1 DEF Stays, Phase, Abstract!wqVars
  <2>2. CASE NotifiesOne
    BY <2>2 DEF NotifiesOne, Phase, Abstract!WQNext, Abstract!NotifyOne, Abstract!Waiting
  <2>3. CASE NotifiesAll
    BY <2>3 DEF NotifiesAll, Phase, Abstract!WQNext, Abstract!NotifyAll, Abstract!Waiting
  <2>4. ASSUME NEW w \in Waiters, Begins(w) \/ Enters(w) \/ GivesUp(w) \/ Leaves(w)
        PROVE  Abstract!WQNext
    BY <2>4 DEF Begins, Enters, GivesUp, Leaves, Phase, Abstract!WQNext,
       Abstract!Begin, Abstract!Enter, Abstract!GiveUp, Abstract!Leave
  <2> QED
    BY <2>1, <2>2, <2>3, <2>4 DEF Maps
<1> QED
  BY <1>1, Map_Init, Invariance, PTL DEF Spec, ImplementsWaitQueue, Abstract!WQSpec
=============================================================================
