-------------------------- MODULE PackagesTheorems --------------------------
(***************************************************************************)
(* What the operators of Packages return and preserve, for every set of    *)
(* file names: the facts that the proofs about Controler and Client need.  *)
(***************************************************************************)
EXTENDS Packages, Integers, TLAPS, FiniteSetTheorems, SequenceTheorems,
        NaturalsInduction, WellFoundedInduction

-----------------------------------------------------------------------------
(* Numbers and loops *)

\* Every set of natural numbers has a least one.
LEMMA LeastNumber ==
  ASSUME NEW T, T \subseteq Nat, T # {}
  PROVE  \E x \in T : \A y \in T : x <= y
<1> DEFINE R == {ss \in Nat \X Nat : ss[1] < ss[2]}
<1>1. IsWellFoundedOn(R, Nat)
  BY NatLessThanWellFounded DEF OpToRel
<1>2. PICK x \in T : \A y \in T : <<y, x>> \notin R
  BY <1>1, WFMin
<1>3. ASSUME NEW y \in T PROVE x <= y
  <2>1. x \in Nat /\ y \in Nat /\ <<y, x>> \in Nat \X Nat
    OBVIOUS
  <2>2. ~(<<y, x>>[1] < <<y, x>>[2])
    BY <1>2, <2>1
  <2> QED
    BY <2>1, <2>2
<1> QED
  BY <1>3

\* A set that has 0, and with a number the next, has them all.
LEMMA Induction ==
  ASSUME NEW S, 0 \in S, \A n \in Nat : n \in S => n + 1 \in S
  PROVE  \A n \in Nat : n \in S
<1> SUFFICES ASSUME Nat \ S # {} PROVE FALSE
  OBVIOUS
<1>1. PICK x \in Nat \ S : \A y \in Nat \ S : x <= y
  BY LeastNumber
<1>2. x - 1 \in Nat /\ x - 1 < x /\ x - 1 + 1 = x
  BY <1>1
<1> QED
  BY <1>1, <1>2

\* The first number of a set is in it, and no other one is less.
LEMMA FirstIn ==
  ASSUME NEW I, I \subseteq Nat, I # {}
  PROVE  First(I) \in I /\ \A i \in I : First(I) <= i
BY LeastNumber DEF First

\* There is the sequence of values that n steps go through, if each of them
\* leads from a value of V to one.
LEMMA Steps ==
  ASSUME NEW V, NEW b \in V, NEW n \in Nat, NEW step \in [1 .. n -> [V -> V]]
  PROVE  \E f \in [0 .. n -> V] :
           f[0] = b /\ \A i \in 1 .. n : f[i] = step[i][f[i - 1]]
<1> DEFINE Goes(m, f) ==
      /\ f \in [0 .. m -> V]
      /\ f[0] = b
      /\ \A i \in 1 .. m : f[i] = step[i][f[i - 1]]
<1> DEFINE S == {m \in Nat : m <= n => \E f : Goes(m, f)}
<1>1. 0 \in S
  <2>1. PICK f : f = [i \in 0 .. 0 |-> b]
    OBVIOUS
  <2>2. f \in [0 .. 0 -> V] /\ f[0] = b
    BY <2>1
  <2>3. 1 .. 0 = {}
    OBVIOUS
  <2>4. Goes(0, f)
    BY <2>2, <2>3
  <2> HIDE DEF Goes
  <2> QED
    BY <2>4
<1>2. ASSUME NEW m \in Nat, m \in S PROVE m + 1 \in S
  <2> SUFFICES ASSUME m + 1 <= n PROVE \E f : Goes(m + 1, f)
    OBVIOUS
  <2>1. PICK f : Goes(m, f)
    BY <1>2
  <2>2. m + 1 \in 1 .. n /\ m \in 0 .. m
    OBVIOUS
  <2>3. step[m + 1][f[m]] \in V
    BY <2>1, <2>2
  <2>4. PICK g : g = [i \in 0 .. m + 1 |-> IF i = m + 1 THEN step[m + 1][f[m]] ELSE f[i]]
    OBVIOUS
  <2>5. g \in [0 .. m + 1 -> V]
    <3>1. \A i \in 0 .. m + 1 : i # m + 1 => i \in 0 .. m
      OBVIOUS
    <3> QED
      BY <2>1, <2>3, <2>4, <3>1
  <2>6. g[0] = b
    <3>1. 0 \in 0 .. m + 1 /\ 0 # m + 1
      OBVIOUS
    <3> QED
      BY <2>1, <2>4, <3>1
  <2>7. ASSUME NEW i \in 1 .. m + 1 PROVE g[i] = step[i][g[i - 1]]
    <3>1. i \in 0 .. m + 1 /\ i - 1 \in 0 .. m + 1 /\ i - 1 # m + 1
      OBVIOUS
    <3>2. g[i - 1] = f[i - 1]
      BY <2>4, <3>1
    <3>3. CASE i = m + 1
      <4>1. i - 1 = m
        BY <3>3
      <4> QED
        BY <2>4, <3>1, <3>2, <3>3, <4>1
    <3>4. CASE i # m + 1
      <4>1. i \in 1 .. m
        BY <3>4
      <4> QED
        BY <2>1, <2>4, <3>1, <3>2, <3>4, <4>1
    <3> QED
      BY <3>3, <3>4
  <2>8. Goes(m + 1, g)
    BY <2>5, <2>6, <2>7
  <2> HIDE DEF Goes
  <2> QED
    BY <2>8
<1> HIDE DEF S
<1>3. n \in S
  BY <1>1, <1>2, Induction
<1> QED
  BY <1>3 DEF S

\* What holds first, and after each step, holds last.
LEMMA Along ==
  ASSUME NEW V, NEW n \in Nat, NEW f, f[0] \in V,
         \A i \in 1 .. n : f[i - 1] \in V => f[i] \in V
  PROVE  f[n] \in V
<1> DEFINE S == {m \in Nat : m <= n => f[m] \in V}
<1>1. 0 \in S
  OBVIOUS
<1>2. ASSUME NEW m \in Nat, m \in S PROVE m + 1 \in S
  <2> SUFFICES ASSUME m + 1 <= n PROVE f[m + 1] \in V
    OBVIOUS
  <2>1. m + 1 \in 1 .. n /\ m + 1 - 1 = m /\ f[m] \in V
    BY <1>2
  <2> QED
    BY <2>1
<1> HIDE DEF S
<1>3. n \in S
  BY <1>1, <1>2, Induction
<1> QED
  BY <1>3 DEF S

\* The body of a loop over elements of E stays in I.
StaysIn(body, I, E) == \A x \in I, e \in E : body[x][e] \in I

\* There is the sequence of values that the loop goes through.
LEMMA Turns ==
  ASSUME NEW I, NEW E, NEW body, NEW s \in I, NEW n \in Nat,
         NEW q \in [1 .. n -> E], StaysIn(body, I, E)
  PROVE  \E f : f = [i \in 0 .. n |-> IF i = 0 THEN s ELSE body[f[i - 1]][q[i]]]
<1>1. PICK step : step = [i \in 1 .. n |-> [x \in I |-> body[x][q[i]]]]
  OBVIOUS
<1>2. step \in [1 .. n -> [I -> I]]
  <2>1. ASSUME NEW i \in 1 .. n PROVE [x \in I |-> body[x][q[i]]] \in [I -> I]
    <3>1. q[i] \in E
      OBVIOUS
    <3> QED
      BY <3>1 DEF StaysIn
  <2> QED
    BY <1>1, <2>1
<1>3. PICK f \in [0 .. n -> I] :
        f[0] = s /\ \A i \in 1 .. n : f[i] = step[i][f[i - 1]]
  BY <1>2, Steps
<1>4. ASSUME NEW i \in 0 .. n
      PROVE  f[i] = IF i = 0 THEN s ELSE body[f[i - 1]][q[i]]
  <2>1. CASE i = 0
    BY <1>3, <2>1
  <2>2. CASE i # 0
    <3>1. i \in 1 .. n /\ i - 1 \in 0 .. n
      BY <2>2
    <3>2. f[i - 1] \in I
      BY <3>1
    <3>3. step[i][f[i - 1]] = body[f[i - 1]][q[i]]
      BY <1>1, <3>1, <3>2
    <3> QED
      BY <1>3, <2>2, <3>1, <3>3
  <2> QED
    BY <2>1, <2>2
<1>5. f = [i \in 0 .. n |-> IF i = 0 THEN s ELSE body[f[i - 1]][q[i]]]
  BY <1>4
<1> QED
  BY <1>5

\* A loop whose body stays in I ends in I.
LEMMA LoopIn ==
  ASSUME NEW I, NEW E, NEW body, NEW s \in I, NEW q \in Seq(E),
         StaysIn(body, I, E)
  PROVE  Loop(body, s, q) \in I
<1>1. PICK n \in Nat : n = Len(q) /\ q \in [1 .. n -> E]
  BY LenProperties
<1> DEFINE Goes(f) ==
      f = [i \in 0 .. Len(q) |-> IF i = 0 THEN s ELSE body[f[i - 1]][q[i]]]
<1>2. \E f : Goes(f)
  <2>1. PICK f :
          f = [i \in 0 .. n |-> IF i = 0 THEN s ELSE body[f[i - 1]][q[i]]]
    BY <1>1, Turns
  <2>2. Goes(f)
    BY <1>1, <2>1
  <2> HIDE DEF Goes
  <2> QED
    BY <2>2
<1>3. PICK f : f = CHOOSE g : Goes(g)
  OBVIOUS
<1>4. Goes(f)
  <2> HIDE DEF Goes
  <2> QED
    BY <1>2, <1>3
<1>5. Loop(body, s, q) = f[n]
  BY <1>1, <1>3 DEF Loop
<1>6. f = [i \in 0 .. n |-> IF i = 0 THEN s ELSE body[f[i - 1]][q[i]]]
  BY <1>1, <1>4
<1>7. f[0] = s
  BY <1>6
<1>8. ASSUME NEW i \in 1 .. n, f[i - 1] \in I PROVE f[i] \in I
  <2>1. i \in 0 .. n /\ i # 0 /\ q[i] \in E
    BY <1>1
  <2>2. f[i] = body[f[i - 1]][q[i]]
    BY <1>6, <2>1
  <2> QED
    BY <1>8, <2>1, <2>2 DEF StaysIn
<1>9. f[n] \in I
  BY <1>7, <1>8, Along
<1> QED
  BY <1>5, <1>9

\* f goes from b through n steps, all in V.
Iterates(f, V, b, n, step) ==
  /\ f \in [0 .. n -> V]
  /\ f[0] = b
  /\ \A i \in 1 .. n : f[i] = step[f[i - 1]]

\* A function that is defined by how often it may call itself has a value at
\* every depth, and all of them are in the set that a call stays in.
LEMMA Nested ==
  ASSUME NEW V, NEW b \in V, NEW n \in Nat, NEW step \in [V -> V]
  PROVE  \E f : Iterates(f, V, b, n, step)
<1>1. PICK steps : steps = [i \in 1 .. n |-> step]
  OBVIOUS
<1>2. steps \in [1 .. n -> [V -> V]]
  BY <1>1
<1>3. PICK f \in [0 .. n -> V] :
        f[0] = b /\ \A i \in 1 .. n : f[i] = steps[i][f[i - 1]]
  BY <1>2, Steps
<1>4. \A i \in 1 .. n : f[i] = step[f[i - 1]]
  BY <1>1, <1>3
<1>5. Iterates(f, V, b, n, step)
  BY <1>3, <1>4 DEF Iterates
<1> QED
  BY <1>5

-----------------------------------------------------------------------------
(* The requirements of an object, in order *)

\* A finite set of numbered things has an order by number.
LEMMA Sorted ==
  ASSUME NEW R, IsFiniteSet(R), R \subseteq Object
  PROVE  \E q \in [1 .. Cardinality(R) -> R] :
           \A i, j \in DOMAIN q :
             i < j => q[i] # q[j] /\ NameOf(q[i]) <= NameOf(q[j])
<1> DEFINE Order(q, T) ==
      /\ q \in [1 .. Cardinality(T) -> T]
      /\ \A i, j \in DOMAIN q :
           i < j => q[i] # q[j] /\ NameOf(q[i]) <= NameOf(q[j])
<1> DEFINE S == {n \in Nat : \A T \in SUBSET R :
                   Cardinality(T) = n => \E q : Order(q, T)}
<1>1. \A T \in SUBSET R : /\ IsFiniteSet(T)
                          /\ Cardinality(T) \in Nat
                          /\ \A o \in T : o \in Object /\ NameOf(o) \in Nat
  BY FS_Subset, FS_CardinalityType, NameAssumption DEF Object, NameOf
<1>2. 0 \in S
  <2> SUFFICES ASSUME NEW T \in SUBSET R, Cardinality(T) = 0
               PROVE  \E q : Order(q, T)
    OBVIOUS
  <2>1. PICK q : q = [i \in 1 .. 0 |-> 0]
    OBVIOUS
  <2>2. 1 .. 0 = {} /\ DOMAIN q = {} /\ q \in [{} -> T]
    BY <2>1
  <2>3. Order(q, T)
    BY <2>2
  <2> HIDE DEF Order
  <2> QED
    BY <2>3
<1>3. ASSUME NEW n \in Nat, n \in S PROVE n + 1 \in S
  <2> SUFFICES ASSUME NEW T \in SUBSET R, Cardinality(T) = n + 1
               PROVE  \E q : Order(q, T)
    OBVIOUS
  <2>1. PICK x \in T : \A y \in T : NameOf(x) <= NameOf(y)
    <3>1. T # {}
      BY <1>1, FS_EmptySet
    <3>2. NamesOf(T) \subseteq Nat /\ NamesOf(T) # {}
      BY <1>1, <3>1 DEF NamesOf
    <3>3. PICK m \in NamesOf(T) : \A k \in NamesOf(T) : m <= k
      BY <3>2, LeastNumber
    <3> QED
      BY <3>3 DEF NamesOf
  <2>2. Cardinality(T \ {x}) = n /\ T \ {x} \in SUBSET R
    <3>1. IsFiniteSet(T) /\ Cardinality(T) = n + 1
      BY <1>1
    <3>2. Cardinality(T \ {x}) = Cardinality(T) - 1
      BY <3>1, FS_RemoveElement
    <3> QED
      BY <3>1, <3>2
  <2>3. PICK p : Order(p, T \ {x})
    BY <1>3, <2>2
  <2>4. DOMAIN p = 1 .. n /\ \A i \in 1 .. n : p[i] \in T /\ p[i] # x
    BY <2>2, <2>3
  <2>5. PICK q : q = [i \in 1 .. n + 1 |-> IF i = 1 THEN x ELSE p[i - 1]]
    OBVIOUS
  <2>6. \A i \in 1 .. n + 1 : i # 1 => i - 1 \in 1 .. n /\ q[i] = p[i - 1]
    BY <2>5
  <2>7. q[1] = x /\ DOMAIN q = 1 .. n + 1
    BY <2>5
  <2>8. q \in [1 .. n + 1 -> T]
    BY <2>1, <2>4, <2>5, <2>6
  <2>9. ASSUME NEW i \in 1 .. n + 1, NEW j \in 1 .. n + 1, i < j
        PROVE  q[i] # q[j] /\ NameOf(q[i]) <= NameOf(q[j])
    <3>1. j # 1 /\ j - 1 \in 1 .. n /\ q[j] = p[j - 1]
      BY <2>6, <2>9
    <3>2. CASE i = 1
      BY <2>1, <2>4, <2>7, <3>1, <3>2
    <3>3. CASE i # 1
      <4>1. i - 1 \in 1 .. n /\ q[i] = p[i - 1] /\ i - 1 < j - 1
        BY <2>6, <2>9, <3>3
      <4> QED
        BY <2>3, <2>4, <3>1, <4>1
    <3> QED
      BY <3>2, <3>3
  <2>10. Order(q, T)
    BY <2>7, <2>8, <2>9
  <2> HIDE DEF Order
  <2> QED
    BY <2>10
<1> HIDE DEF S
<1>4. \A n \in Nat : n \in S
  BY <1>2, <1>3, Induction
<1>5. PICK q : Order(q, R)
  BY <1>1, <1>4 DEF S
<1> QED
  BY <1>5

\* The sequence has what is required, once, and nothing else.
LEMMA RequiredIn ==
  ASSUME NEW heap, NEW o, heap[o].reqs \subseteq Object
  PROVE  /\ Required(heap, o) \in Seq(heap[o].reqs)
         /\ Len(Required(heap, o)) = Cardinality(heap[o].reqs)
         /\ \A i, j \in 1 .. Len(Required(heap, o)) :
              i < j => Required(heap, o)[i] # Required(heap, o)[j]
         /\ \A r \in heap[o].reqs :
              \E i \in 1 .. Len(Required(heap, o)) : Required(heap, o)[i] = r
<1> DEFINE R == heap[o].reqs
<1>1. IsFiniteSet(Object)
  BY FS_Product, NameAssumption, StampAssumption DEF Object
<1>2. IsFiniteSet(R) /\ Cardinality(R) \in Nat
  BY <1>1, FS_Subset, FS_CardinalityType
<1> DEFINE Order(q) ==
      \A i, j \in DOMAIN q :
        i < j => q[i] # q[j] /\ NameOf(q[i]) <= NameOf(q[j])
<1>3. \E q \in [1 .. Cardinality(R) -> R] : Order(q)
  BY <1>2, Sorted
<1>4. PICK q : q = CHOOSE p \in [1 .. Cardinality(R) -> R] : Order(p)
  OBVIOUS
<1>5. q \in [1 .. Cardinality(R) -> R] /\ Order(q)
  <2> HIDE DEF Order, R
  <2> QED
    BY <1>3, <1>4
<1>6. Required(heap, o) = q
  BY <1>4 DEF Required
<1>7. PICK n \in Nat : n = Cardinality(R)
  BY <1>2
<1>8. q \in Seq(R) /\ Len(q) = n
  <2>1. q \in [1 .. n -> R]
    BY <1>5, <1>7
  <2> HIDE DEF R
  <2> QED
    BY <2>1, SeqDef, LenProperties
<1>9. \A i, j \in 1 .. n : i # j => q[i] # q[j]
  <2>1. DOMAIN q = 1 .. n
    BY <1>5, <1>7
  <2> SUFFICES ASSUME NEW i \in 1 .. n, NEW j \in 1 .. n, i # j PROVE q[i] # q[j]
    OBVIOUS
  <2>2. i < j \/ j < i
    OBVIOUS
  <2> QED
    BY <1>5, <2>1, <2>2
<1>10. \A r \in R : \E i \in 1 .. n : q[i] = r
  <2>1. q \in Injection(1 .. n, R)
    BY <1>5, <1>7, <1>9 DEF Injection, IsInjective
  <2>2. Cardinality(1 .. n) = n
    <3>1. Cardinality(1 .. n) = IF 1 > n THEN 0 ELSE n - 1 + 1
      BY FS_Interval
    <3> QED
      BY <3>1
  <2>3. q \in Surjection(1 .. n, R)
    BY <1>2, <1>7, <2>1, <2>2, FS_Injection
  <2> QED
    BY <2>3 DEF Surjection
<1> QED
  BY <1>6, <1>7, <1>8, <1>9, <1>10

-----------------------------------------------------------------------------
(* What can be reached *)

\* T has what its members require.
Closed(graph, T) == \A x \in T \cap DOMAIN graph : graph[x].reqs \subseteq T

Nodes(graph, S) == S \cup UNION {graph[x].reqs : x \in DOMAIN graph}

\* The members of all closed sets around T.
Least(graph, nodes, T) ==
  {x \in nodes : \A U \in SUBSET nodes : T \subseteq U /\ Closed(graph, U) => x \in U}

\* T and what its members require.
Grown(graph, T) == T \cup UNION {graph[x].reqs : x \in T \cap DOMAIN graph}

Growing(graph, nodes, g) ==
  g = [T \in SUBSET nodes |-> IF Grown(graph, T) = T THEN T
                              ELSE g[Grown(graph, T)]]

\* A set grows into closed sets around it only.
LEMMA GrownIn ==
  ASSUME NEW graph, NEW S, NEW T \in SUBSET Nodes(graph, S)
  PROVE  /\ Grown(graph, T) \in SUBSET Nodes(graph, S)
         /\ T \subseteq Grown(graph, T)
         /\ Grown(graph, T) = T <=> Closed(graph, T)
         /\ \A U : T \subseteq U /\ Closed(graph, U) => Grown(graph, T) \subseteq U
<1>1. Grown(graph, T) \in SUBSET Nodes(graph, S)
  BY DEF Grown, Nodes
<1>2. T \subseteq Grown(graph, T)
  BY DEF Grown
<1>3. Grown(graph, T) = T <=> Closed(graph, T)
  BY DEF Grown, Closed
<1>4. ASSUME NEW U, T \subseteq U, Closed(graph, U)
      PROVE  Grown(graph, T) \subseteq U
  BY <1>4 DEF Grown, Closed
<1> QED
  BY <1>1, <1>2, <1>3, <1>4

\* The least closed set of nodes around T is a closed set of nodes, and part of
\* every closed set that has T.
LEMMA LeastIn ==
  ASSUME NEW graph, NEW S, NEW T \in SUBSET Nodes(graph, S)
  PROVE  /\ T \subseteq Least(graph, Nodes(graph, S), T)
         /\ Closed(graph, Least(graph, Nodes(graph, S), T))
         /\ Least(graph, Nodes(graph, S), T) \in SUBSET Nodes(graph, S)
         /\ \A U : T \subseteq U /\ Closed(graph, U) =>
              Least(graph, Nodes(graph, S), T) \subseteq U
<1> DEFINE N == Nodes(graph, S)
<1> DEFINE L == Least(graph, N, T)
<1>1. T \subseteq L /\ L \in SUBSET N
  BY DEF Least
<1>2. ASSUME NEW x \in L \cap DOMAIN graph, NEW y \in graph[x].reqs PROVE y \in L
  <2>1. y \in N
    BY DEF Nodes
  <2>2. ASSUME NEW U \in SUBSET N, T \subseteq U, Closed(graph, U) PROVE y \in U
    <3>1. x \in U
      BY <2>2 DEF Least
    <3> QED
      BY <2>2, <3>1 DEF Closed
  <2> QED
    BY <2>1, <2>2 DEF Least
<1>3. ASSUME NEW U, T \subseteq U, Closed(graph, U) PROVE L \subseteq U
  <2>1. U \cap N \in SUBSET N /\ T \subseteq U \cap N
    BY <1>3
  <2>2. Closed(graph, U \cap N)
    BY <1>3 DEF Closed, Nodes
  <2> QED
    BY <2>1, <2>2 DEF Least
<1>4. Closed(graph, L)
  BY <1>2 DEF Closed
<1> QED
  BY <1>1, <1>3, <1>4

\* What the recursion finds is that.
LEMMA GrowingIsLeast ==
  ASSUME NEW graph, NEW S, IsFiniteSet(Nodes(graph, S)), NEW g,
         Growing(graph, Nodes(graph, S), g),
         NEW T \in SUBSET Nodes(graph, S)
  PROVE  g[T] = Least(graph, Nodes(graph, S), T)
<1> DEFINE N == Nodes(graph, S)
<1> DEFINE L(U) == Least(graph, N, U)
<1> DEFINE Wrong == {U \in SUBSET N : g[U] # L(U)}
<1> DEFINE Left(U) == Cardinality(N \ U)
<1>1. \A U \in SUBSET N : IsFiniteSet(N \ U) /\ Left(U) \in Nat
  BY FS_Subset, FS_CardinalityType
<1> SUFFICES ASSUME Wrong # {} PROVE FALSE
  OBVIOUS
<1>2. PICK U \in Wrong : \A W \in Wrong : Left(U) <= Left(W)
  <2> DEFINE Sizes == {Left(W) : W \in Wrong}
  <2>1. Sizes \subseteq Nat /\ Sizes # {}
    BY <1>1
  <2> HIDE DEF Sizes
  <2>2. PICK m \in Sizes : \A k \in Sizes : m <= k
    BY <2>1, LeastNumber
  <2> QED
    BY <2>2 DEF Sizes
<1>3. g[U] = IF Grown(graph, U) = U THEN U ELSE g[Grown(graph, U)]
  BY DEF Growing
<1>4. CASE Grown(graph, U) = U
  <2>1. L(U) = U
    BY <1>4, GrownIn, LeastIn
  <2> QED
    BY <1>3, <1>4, <2>1
<1>5. CASE Grown(graph, U) # U
  <2> DEFINE W == Grown(graph, U)
  <2>1. W \in SUBSET N /\ U \subseteq W /\ W # U
    BY <1>5, GrownIn
  <2>2. L(W) = L(U)
    <3>1. L(U) \subseteq L(W)
      BY <2>1, LeastIn
    <3>2. W \subseteq L(U)
      BY GrownIn, LeastIn
    <3>3. L(W) \subseteq L(U)
      BY <2>1, <3>2, LeastIn
    <3> QED
      BY <3>1, <3>3
  <2>3. Left(W) < Left(U)
    <3>1. N \ W \subseteq N \ U /\ N \ W # N \ U
      BY <2>1
    <3>2. Left(W) <= Left(U) /\ Left(W) # Left(U)
      BY <1>1, <3>1, FS_Subset
    <3> QED
      BY <1>1, <2>1, <3>2
  <2>4. g[W] = L(W)
    <3> SUFFICES ASSUME g[W] # L(W) PROVE FALSE
      OBVIOUS
    <3>1. W \in Wrong
      BY <2>1
    <3>2. Left(U) <= Left(W)
      BY <1>2, <3>1
    <3>3. Left(U) \in Nat /\ Left(W) \in Nat
      BY <1>1, <2>1
    <3> HIDE DEF Left, W, L
    <3> QED
      BY <2>3, <3>2, <3>3
  <2> QED
    BY <1>3, <1>5, <2>2, <2>4
<1> QED
  BY <1>4, <1>5

\* The closure is the least closed set around S.
LEMMA ClosureIs ==
  ASSUME NEW graph, NEW S, IsFiniteSet(Nodes(graph, S))
  PROVE  /\ S \subseteq Closure(graph, S)
         /\ Closed(graph, Closure(graph, S))
         /\ \A U : S \subseteq U /\ Closed(graph, U) => Closure(graph, S) \subseteq U
<1> DEFINE N == Nodes(graph, S)
<1> DEFINE L(T) == Least(graph, N, T)
<1> DEFINE Goes(f) ==
      f = [T \in SUBSET N |->
             LET U == T \cup UNION {graph[x].reqs : x \in T \cap DOMAIN graph}
             IN  IF U = T THEN T ELSE f[U]]
<1>1. \A f : Goes(f) <=> Growing(graph, N, f)
  BY DEF Growing, Grown
<1>2. \E f : Goes(f)
  <2>1. PICK f : f = [T \in SUBSET N |-> L(T)]
    OBVIOUS
  <2>2. ASSUME NEW T \in SUBSET N
        PROVE  L(T) = IF Grown(graph, T) = T THEN T ELSE f[Grown(graph, T)]
    <3>1. CASE Grown(graph, T) = T
      BY <3>1, GrownIn, LeastIn
    <3>2. CASE Grown(graph, T) # T
      <4> DEFINE W == Grown(graph, T)
      <4>1. W \in SUBSET N /\ T \subseteq W
        BY GrownIn
      <4>2. L(T) \subseteq L(W)
        BY <4>1, LeastIn
      <4>3. W \subseteq L(T)
        BY GrownIn, LeastIn
      <4>4. L(W) \subseteq L(T)
        BY <4>1, <4>3, LeastIn
      <4> QED
        BY <2>1, <3>2, <4>1, <4>2, <4>4
    <3> QED
      BY <3>1, <3>2
  <2>3. Growing(graph, N, f)
    BY <2>1, <2>2 DEF Growing
  <2> HIDE DEF Goes
  <2> QED
    BY <1>1, <2>3
<1>3. PICK g : g = CHOOSE f : Goes(f)
  OBVIOUS
<1>4. Growing(graph, N, g)
  <2> HIDE DEF Goes
  <2> QED
    BY <1>1, <1>2, <1>3
<1>5. Closure(graph, S) = g[S]
  BY <1>3 DEF Closure, Nodes
<1>6. S \in SUBSET N
  BY DEF Nodes
<1>7. Closure(graph, S) = L(S)
  BY <1>4, <1>5, <1>6, GrowingIsLeast
<1> QED
  BY <1>6, <1>7, LeastIn

-----------------------------------------------------------------------------
(* Worlds, and what an operation leaves alone *)

\* The heaps that differ from h in pointers only.
KinHeaps(D, h) ==
  {g \in [D -> Fields(D)] :
     \A o \in D : g[o].using = h[o].using /\ g[o].kind = h[o].kind}

\* The worlds that differ from w in pointers and in the exception only.
Kin(D, w) ==
  {x \in Worlds(D) : x.map = w.map /\ x.heap \in KinHeaps(D, w.heap)}

\* The two parts of an object.
LEMMA ObjectNames ==
  ASSUME NEW o \in Object
  PROVE  NameOf(o) \in Name /\ NameOf(o) \in Nat /\ o[2] \in Stamp
BY NameAssumption DEF Object, NameOf

\* There are only finitely many objects.
LEMMA ObjectsFinite ==
  ASSUME NEW D, D \subseteq Object
  PROVE  IsFiniteSet(D) /\ Cardinality(D) \in Nat
<1>1. IsFiniteSet(Object)
  BY FS_Product, NameAssumption, StampAssumption DEF Object
<1> QED
  BY <1>1, FS_Subset, FS_CardinalityType

\* Calls nest a natural number of times.
LEMMA DepthIsNumber == Depth \in Nat
BY FS_CardinalityType, NameAssumption DEF Depth

\* What an object requires is a sequence of objects.
LEMMA RequiredSeq ==
  ASSUME NEW D, D \subseteq Object, NEW heap \in [D -> Fields(D)], NEW o \in D
  PROVE  Required(heap, o) \in Seq(D)
<1>1. heap[o].reqs \subseteq D /\ heap[o].reqs \subseteq Object
  BY DEF Fields
<1>2. Required(heap, o) \in Seq(heap[o].reqs)
  BY <1>1, RequiredIn
<1> QED
  BY <1>1, <1>2, SeqMonotonic

\* Pointers of an object that are replaced by others.
LEMMA Rewired ==
  ASSUME NEW D, NEW h \in [D -> Fields(D)], NEW o \in D, NEW R \in SUBSET D
  PROVE  [h EXCEPT ![o].reqs = R] \in KinHeaps(D, h)
<1> DEFINE f == [h[o] EXCEPT !.reqs = R]
<1>1. f \in Fields(D) /\ f.using = h[o].using /\ f.kind = h[o].kind
  BY DEF Fields
<1>2. [h EXCEPT ![o].reqs = R] = [h EXCEPT ![o] = f]
  OBVIOUS
<1> HIDE DEF f
<1> QED
  BY <1>1, <1>2 DEF KinHeaps

\* Differing in pointers only is an equivalence.
LEMMA KinHeapsOf ==
  ASSUME NEW D, NEW h \in [D -> Fields(D)]
  PROVE  /\ h \in KinHeaps(D, h)
         /\ \A g \in KinHeaps(D, h) :
              /\ g \in [D -> Fields(D)]
              /\ KinHeaps(D, g) = KinHeaps(D, h)
BY DEF KinHeaps

\* The parts of a world.
LEMMA WorldFields ==
  ASSUME NEW D, NEW w \in Worlds(D)
  PROVE  /\ w.heap \in [D -> Fields(D)]
         /\ DOMAIN w.heap = D
         /\ w.map \in SUBSET D
         /\ w.failed \in Failures
         /\ w = [heap |-> w.heap, map |-> w.map, failed |-> w.failed]
BY DEF Worlds

\* Differing in pointers and the exception only is an equivalence, and leaves
\* the users alone.
LEMMA KinOf ==
  ASSUME NEW D, NEW w \in Worlds(D)
  PROVE  /\ w \in Kin(D, w)
         /\ \A x \in Kin(D, w) : /\ x \in Worlds(D)
                                 /\ Kin(D, x) = Kin(D, w)
                                 /\ x.map = w.map
                                 /\ Users(x) = Users(w)
<1>1. w \in Kin(D, w)
  BY WorldFields, KinHeapsOf DEF Kin
<1>2. ASSUME NEW x \in Kin(D, w)
      PROVE  /\ x \in Worlds(D)
             /\ Kin(D, x) = Kin(D, w)
             /\ x.map = w.map
             /\ Users(x) = Users(w)
  <2>1. x \in Worlds(D) /\ x.map = w.map /\ x.heap \in KinHeaps(D, w.heap)
    BY DEF Kin
  <2>2. KinHeaps(D, x.heap) = KinHeaps(D, w.heap)
    BY <2>1, WorldFields, KinHeapsOf
  <2>3. Users(x) = Users(w)
    BY <2>1, WorldFields DEF Users, KinHeaps
  <2> QED
    BY <2>1, <2>2, <2>3 DEF Kin
<1> QED
  BY <1>1, <1>2

\* An exception changes nothing but the exception.
LEMMA KinFail ==
  ASSUME NEW D, NEW w, NEW x \in Kin(D, w), NEW e \in Failures
  PROVE  Fail(x, e) \in Kin(D, w)
BY DEF Kin, Fail, Worlds

\* Other pointers change nothing but the pointers.
LEMMA KinWith ==
  ASSUME NEW D, NEW w \in Worlds(D), NEW h \in KinHeaps(D, w.heap)
  PROVE  [w EXCEPT !.heap = h] \in Kin(D, w)
<1>1. h \in [D -> Fields(D)]
  BY DEF KinHeaps
<1> QED
  BY <1>1, WorldFields DEF Kin, Worlds

-----------------------------------------------------------------------------
(* Visits and checks *)

\* The colours after a visit are sets of names, and the edge that closed a
\* cycle joins two objects.
LEMMA VisitOnceIn ==
  ASSUME NEW D, D \subseteq Object, NEW heap \in [D -> Fields(D)], NEW visit,
         StaysIn(visit, Colours(D), D), NEW x \in Colours(D), NEW o \in D
  PROVE  VisitOnce(heap, visit, x, o) \in Colours(D)
<1>0. DOMAIN heap = D
  OBVIOUS
<1> DEFINE Look == [acc \in Colours(D) |-> [v \in D |->
        IF acc.closing # {} \/ NameOf(v) \in acc.black THEN acc
        ELSE IF NameOf(v) \in acc.grey THEN [acc EXCEPT !.closing = {<<o, v>>}]
        ELSE visit[acc][v]]]
<1> DEFINE begin == [x EXCEPT !.grey = @ \cup {NameOf(o)}]
<1> DEFINE end == Loop(Look, begin, Required(heap, o))
<1>1. StaysIn(Look, Colours(D), D)
  <2> SUFFICES ASSUME NEW acc \in Colours(D), NEW v \in D
               PROVE  Look[acc][v] \in Colours(D)
    BY DEF StaysIn
  <2>1. [acc EXCEPT !.closing = {<<o, v>>}] \in Colours(D)
    BY DEF Colours
  <2>2. visit[acc][v] \in Colours(D)
    BY DEF StaysIn
  <2> QED
    BY <2>1, <2>2
<1>2. NameOf(o) \in Name
  BY ObjectNames
<1>3. begin \in Colours(D)
  BY <1>2 DEF Colours
<1>4. end \in Colours(D)
  <2> HIDE DEF Look, begin
  <2> QED
    BY <1>1, <1>3, RequiredSeq, LoopIn
<1>5. VisitOnce(heap, visit, x, o) =
        IF end.closing # {} THEN end
        ELSE [end EXCEPT !.grey = @ \ {NameOf(o)}, !.black = @ \cup {NameOf(o)}]
  BY <1>0 DEF VisitOnce
<1> HIDE DEF end
<1>6. [end EXCEPT !.grey = @ \ {NameOf(o)}, !.black = @ \cup {NameOf(o)}] \in Colours(D)
  BY <1>2, <1>4 DEF Colours
<1> QED
  BY <1>4, <1>5, <1>6

\* The values of DFS_visit, by how deep it may still nest.
DFSCalls(D, heap, g) ==
  /\ \A s, u : DFSVisit(heap, s, u) = g[Depth][s][u]
  /\ g[0] = [x \in Colours(D) |-> [o \in D |-> x]]
  /\ \A d \in 1 .. Depth :
       g[d] = [x \in Colours(D) |-> [o \in D |-> VisitOnce(heap, g[d - 1], x, o)]]
  /\ \A d \in 0 .. Depth : g[d] \in [Colours(D) -> [D -> Colours(D)]]

\* There are such values.
LEMMA DFSLevels ==
  ASSUME NEW D, D \subseteq Object, NEW heap \in [D -> Fields(D)]
  PROVE  \E g : DFSCalls(D, heap, g)
<1> DEFINE C == Colours(D)
<1> DEFINE V == [C -> [D -> C]]
<1> DEFINE Once(v) == [x \in C |-> [o \in D |-> VisitOnce(heap, v, x, o)]]
<1> DEFINE b == [x \in C |-> [o \in D |-> x]]
<1> DEFINE Goes(f) == f = [d \in 0 .. Depth |-> IF d = 0 THEN b ELSE Once(f[d - 1])]
<1>1. b \in V
  OBVIOUS
<1>2. \A v \in V : Once(v) \in V
  <2> SUFFICES ASSUME NEW v \in V PROVE Once(v) \in V
    OBVIOUS
  <2>1. StaysIn(v, C, D)
    BY DEF StaysIn
  <2>2. \A x \in C, o \in D : VisitOnce(heap, v, x, o) \in C
    BY <2>1, VisitOnceIn
  <2> QED
    BY <2>2
<1>3. \E f : Goes(f)
  <2> HIDE DEF V, Once, b
  <2>1. PICK step : step = [v \in V |-> Once(v)]
    OBVIOUS
  <2>2. step \in [V -> V]
    BY <1>2, <2>1
  <2>3. PICK f : Iterates(f, V, b, Depth, step)
    BY <1>1, <2>2, DepthIsNumber, Nested
  <2>4. ASSUME NEW i \in 0 .. Depth
        PROVE  f[i] = IF i = 0 THEN b ELSE Once(f[i - 1])
    <3>1. CASE i = 0
      BY <2>3, <3>1 DEF Iterates
    <3>2. CASE i # 0
      <4>1. i \in 1 .. Depth /\ i - 1 \in 0 .. Depth
        BY <3>2, DepthIsNumber
      <4>2. f[i - 1] \in V
        BY <2>3, <4>1 DEF Iterates
      <4>3. f[i] = step[f[i - 1]]
        BY <2>3, <4>1 DEF Iterates
      <4> QED
        BY <2>1, <3>2, <4>2, <4>3
    <3> QED
      BY <3>1, <3>2
  <2>5. DOMAIN f = 0 .. Depth /\ f = [i \in DOMAIN f |-> f[i]]
    BY <2>3 DEF Iterates
  <2>6. f = [i \in 0 .. Depth |-> IF i = 0 THEN b ELSE Once(f[i - 1])]
    BY <2>4, <2>5
  <2> QED
    BY <2>6
<1>4. PICK g : g = CHOOSE f : Goes(f)
  OBVIOUS
<1>5. Goes(g)
  <2> HIDE DEF Goes
  <2> QED
    BY <1>3, <1>4
<1>6. \A s, u : DFSVisit(heap, s, u) = g[Depth][s][u]
  BY <1>4 DEF DFSVisit
<1>7. ASSUME NEW d \in 0 .. Depth PROVE g[d] \in V
  <2> HIDE DEF V, Once, b
  <2>1. g[0] = b
    BY <1>5, DepthIsNumber
  <2>2. ASSUME NEW i \in 1 .. d, g[i - 1] \in V PROVE g[i] \in V
    <3>1. g[i] = Once(g[i - 1])
      BY <1>5, DepthIsNumber
    <3> QED
      BY <1>2, <2>2, <3>1
  <2> QED
    BY <1>1, <2>1, <2>2, Along
<1>8. /\ g[0] = b
      /\ \A d \in 1 .. Depth : g[d] = Once(g[d - 1])
  <2> HIDE DEF Once, b
  <2> QED
    BY <1>5, DepthIsNumber
<1>9. DFSCalls(D, heap, g)
  BY <1>6, <1>7, <1>8 DEF DFSCalls
<1> QED
  BY <1>9

\* DFS_visit, however deep it nests, ends with colours.
LEMMA DFSVisitIn ==
  ASSUME NEW D, D \subseteq Object, NEW heap \in [D -> Fields(D)],
         NEW s \in Colours(D), NEW u \in D
  PROVE  DFSVisit(heap, s, u) \in Colours(D)
<1>1. PICK g : DFSCalls(D, heap, g)
  BY DFSLevels
<1>2. DFSVisit(heap, s, u) = g[Depth][s][u] /\ g[Depth] \in [Colours(D) -> [D -> Colours(D)]]
  BY <1>1, DepthIsNumber DEF DFSCalls
<1> QED
  BY <1>2

\* So does the visit of what an object requires.
LEMMA VisitRequiredIn ==
  ASSUME NEW D, D \subseteq Object, NEW heap \in [D -> Fields(D)],
         NEW s \in Colours(D), NEW o \in D
  PROVE  VisitRequired(heap, s, o) \in Colours(D)
<1> DEFINE Look == [acc \in Colours(D) |-> [v \in D |->
                      IF acc.closing # {} \/ NameOf(v) \in acc.black THEN acc
                      ELSE DFSVisit(heap, acc, v)]]
<1>1. StaysIn(Look, Colours(D), D)
  <2> SUFFICES ASSUME NEW acc \in Colours(D), NEW v \in D
               PROVE  Look[acc][v] \in Colours(D)
    BY DEF StaysIn
  <2>1. DFSVisit(heap, acc, v) \in Colours(D)
    BY DFSVisitIn
  <2> QED
    BY <2>1
<1>2. VisitRequired(heap, s, o) = Loop(Look, s, Required(heap, o))
  BY DEF VisitRequired
<1> HIDE DEF Look
<1> QED
  BY <1>1, <1>2, RequiredSeq, LoopIn

\* cycle_check takes a pointer away at most, and throws if it does.
LEMMA CycleCheckIn ==
  ASSUME NEW D, D \subseteq Object, NEW w \in Worlds(D), NEW o \in D
  PROVE  CycleCheck(w, o) \in Kin(D, w)
<1>1. w.heap \in [D -> Fields(D)]
  BY WorldFields
<1>2. White \in Colours(D)
  BY DEF White, Colours
<1>3. ClosingEdge(w.heap, o) \in SUBSET (D \X D)
  <2>1. VisitRequired(w.heap, White, o) \in Colours(D)
    BY <1>1, <1>2, VisitRequiredIn
  <2> QED
    BY <2>1 DEF ClosingEdge, Colours
<1>4. CASE ClosingEdge(w.heap, o) = {}
  BY <1>4, KinOf DEF CycleCheck
<1>5. CASE ClosingEdge(w.heap, o) # {}
  <2>1. PICK e : e = CHOOSE c \in ClosingEdge(w.heap, o) : TRUE
    OBVIOUS
  <2>2. e \in D \X D
    BY <1>3, <1>5, <2>1
  <2>3. e[1] \in D
    BY <2>2
  <2> DEFINE cut == [w.heap EXCEPT ![e[1]].reqs = @ \ {e[2]}]
  <2>4. cut \in KinHeaps(D, w.heap)
    <3>1. w.heap[e[1]].reqs \ {e[2]} \in SUBSET D
      BY <1>1, <2>3 DEF Fields
    <3> QED
      BY <1>1, <2>3, <3>1, Rewired
  <2>5. CycleCheck(w, o) = Fail([w EXCEPT !.heap = cut], "cycle found")
    BY <1>5, <2>1, Zenon DEF CycleCheck
  <2> HIDE DEF cut
  <2>6. [w EXCEPT !.heap = cut] \in Kin(D, w)
    BY <2>4, KinWith
  <2>7. "cycle found" \in Failures
    BY DEF Failures
  <2> QED
    BY <2>5, <2>6, <2>7, KinFail
<1> QED
  BY <1>4, <1>5

-----------------------------------------------------------------------------
(* connect_equal_pointers *)

\* What changes pointers only.
Connecting(D) ==
  {f \in [Worlds(D) -> [D -> Worlds(D)]] :
     \A x \in Worlds(D), o \in D : f[x][o] \in Kin(D, x)}

\* The object of the map under a name that is there.
LEMMA AtIn ==
  ASSUME NEW w, NEW n, Has(w, n)
  PROVE  At(w, n) \in w.map /\ NameOf(At(w, n)) = n
BY DEF Has, At, NamesOf

\* Redirecting a pointer to the object of the map changes pointers only.
LEMMA RedirectIn ==
  ASSUME NEW D, NEW w \in Worlds(D), NEW o \in D, NEW r, Has(w, NameOf(r))
  PROVE  Redirect(w, o, r) \in Kin(D, w)
<1>1. w.heap \in [D -> Fields(D)] /\ At(w, NameOf(r)) \in D
  BY AtIn, WorldFields
<1> DEFINE R == (w.heap[o].reqs \ {r}) \cup {At(w, NameOf(r))}
<1>2. R \in SUBSET D
  BY <1>1 DEF Fields
<1>3. Redirect(w, o, r) = [w EXCEPT !.heap = [w.heap EXCEPT ![o].reqs = R]]
  BY Zenon DEF Redirect
<1> HIDE DEF R
<1>4. [w.heap EXCEPT ![o].reqs = R] \in KinHeaps(D, w.heap)
  BY <1>1, <1>2, Rewired
<1> QED
  BY <1>3, <1>4, KinWith

\* A call of connect_equal_pointers changes pointers and the exception only, if
\* the calls it makes do.
LEMMA ConnectOnceIn ==
  ASSUME NEW D, D \subseteq Object, NEW connect \in Connecting(D),
         NEW x \in Worlds(D), NEW p \in D
  PROVE  ConnectOnce(connect, x, p) \in Kin(D, x)
<1>1. DOMAIN x.heap = D
  BY WorldFields
<1> DEFINE Connect == [acc \in Worlds(D) |-> [r \in D |->
        IF acc.failed # "no" THEN acc
        ELSE IF Has(acc, NameOf(r)) THEN Redirect(acc, p, r)
        ELSE connect[acc][r]]]
<1>2. StaysIn(Connect, Kin(D, x), D)
  <2> SUFFICES ASSUME NEW acc \in Kin(D, x), NEW r \in D
               PROVE  Connect[acc][r] \in Kin(D, x)
    BY DEF StaysIn
  <2>1. acc \in Worlds(D) /\ Kin(D, acc) = Kin(D, x)
    BY KinOf
  <2>2. connect[acc][r] \in Kin(D, x)
    BY <2>1 DEF Connecting
  <2>3. Has(acc, NameOf(r)) => Redirect(acc, p, r) \in Kin(D, x)
    BY <2>1, RedirectIn
  <2> QED
    BY <2>1, <2>2, <2>3
<1>3. ConnectOnce(connect, x, p) =
        Loop(Connect, CycleCheck(x, p), Required(x.heap, p))
  BY <1>1 DEF ConnectOnce
<1> HIDE DEF Connect
<1>4. Required(x.heap, p) \in Seq(D)
  BY RequiredSeq, WorldFields
<1> QED
  BY <1>2, <1>3, <1>4, CycleCheckIn, LoopIn

\* The values of connect_equal_pointers, by how deep it may still nest.
ConnectCalls(D, g) ==
  /\ \A w \in Worlds(D) : \A p : ConnectEqualPointers(w, p) = g[Depth][w][p]
  /\ g[0] = [x \in Worlds(D) |-> [p \in D |-> x]]
  /\ \A d \in 1 .. Depth :
       g[d] = [x \in Worlds(D) |-> [p \in D |-> ConnectOnce(g[d - 1], x, p)]]
  /\ \A d \in 0 .. Depth : g[d] \in Connecting(D)

\* There are such values.
LEMMA ConnectLevels ==
  ASSUME NEW D, D \subseteq Object
  PROVE  \E g : ConnectCalls(D, g)
<1> DEFINE W == Worlds(D)
<1> DEFINE V == Connecting(D)
<1> DEFINE Once(v) == [x \in W |-> [o \in D |-> ConnectOnce(v, x, o)]]
<1> DEFINE b == [x \in W |-> [o \in D |-> x]]
<1> DEFINE Goes(f) == f = [d \in 0 .. Depth |-> IF d = 0 THEN b ELSE Once(f[d - 1])]
<1>1. b \in V
  BY KinOf DEF Connecting
<1>2. \A v \in V : Once(v) \in V
  <2> SUFFICES ASSUME NEW v \in V PROVE Once(v) \in V
    OBVIOUS
  <2>1. \A x \in W, o \in D : /\ ConnectOnce(v, x, o) \in Kin(D, x)
                              /\ ConnectOnce(v, x, o) \in W
    BY ConnectOnceIn, KinOf
  <2> QED
    BY <2>1 DEF Connecting
<1>3. \E f : Goes(f)
  <2> HIDE DEF V, Once, b
  <2>1. PICK step : step = [v \in V |-> Once(v)]
    OBVIOUS
  <2>2. step \in [V -> V]
    BY <1>2, <2>1
  <2>3. PICK f : Iterates(f, V, b, Depth, step)
    BY <1>1, <2>2, DepthIsNumber, Nested
  <2>4. ASSUME NEW i \in 0 .. Depth
        PROVE  f[i] = IF i = 0 THEN b ELSE Once(f[i - 1])
    <3>1. CASE i = 0
      BY <2>3, <3>1 DEF Iterates
    <3>2. CASE i # 0
      <4>1. i \in 1 .. Depth /\ i - 1 \in 0 .. Depth
        BY <3>2, DepthIsNumber
      <4>2. f[i - 1] \in V
        BY <2>3, <4>1 DEF Iterates
      <4>3. f[i] = step[f[i - 1]]
        BY <2>3, <4>1 DEF Iterates
      <4> QED
        BY <2>1, <3>2, <4>2, <4>3
    <3> QED
      BY <3>1, <3>2
  <2>5. DOMAIN f = 0 .. Depth /\ f = [i \in DOMAIN f |-> f[i]]
    BY <2>3 DEF Iterates
  <2>6. f = [i \in 0 .. Depth |-> IF i = 0 THEN b ELSE Once(f[i - 1])]
    BY <2>4, <2>5
  <2> QED
    BY <2>6
<1>4. PICK g : g = CHOOSE f : Goes(f)
  OBVIOUS
<1>5. Goes(g)
  <2> HIDE DEF Goes
  <2> QED
    BY <1>3, <1>4
<1>6. ASSUME NEW w \in W, NEW p
      PROVE  ConnectEqualPointers(w, p) = g[Depth][w][p]
  <2>1. DOMAIN w.heap = D
    BY WorldFields
  <2> QED
    BY <1>4, <2>1 DEF ConnectEqualPointers
<1>7. ASSUME NEW d \in 0 .. Depth PROVE g[d] \in V
  <2> HIDE DEF V, Once, b
  <2>1. g[0] = b
    BY <1>5, DepthIsNumber
  <2>2. ASSUME NEW i \in 1 .. d, g[i - 1] \in V PROVE g[i] \in V
    <3>1. g[i] = Once(g[i - 1])
      BY <1>5, DepthIsNumber
    <3> QED
      BY <1>2, <2>2, <3>1
  <2> QED
    BY <1>1, <2>1, <2>2, Along
<1>8. /\ g[0] = b
      /\ \A d \in 1 .. Depth : g[d] = Once(g[d - 1])
  <2> HIDE DEF Once, b
  <2> QED
    BY <1>5, DepthIsNumber
<1>9. ConnectCalls(D, g)
  BY <1>6, <1>7, <1>8 DEF ConnectCalls
<1> QED
  BY <1>9

\* So connect_equal_pointers does, however deep it nests.
LEMMA ConnectIn ==
  ASSUME NEW D, D \subseteq Object, NEW w \in Worlds(D), NEW p \in D
  PROVE  ConnectEqualPointers(w, p) \in Kin(D, w)
<1>1. PICK g : ConnectCalls(D, g)
  BY ConnectLevels
<1>2. ConnectEqualPointers(w, p) = g[Depth][w][p] /\ g[Depth] \in Connecting(D)
  BY <1>1, DepthIsNumber DEF ConnectCalls
<1> QED
  BY <1>2 DEF Connecting

-----------------------------------------------------------------------------
(* add *)

\* No two of the objects have one file name.
OneEach(S) == \A o, p \in S : NameOf(o) = NameOf(p) => o = p

\* The worlds that have what users asked for in w.
Additions(D, w) ==
  {x \in Worlds(D) : /\ OneEach(x.map)
                     /\ Users(w) \subseteq Users(x)
                     /\ \A o \in D : x.heap[o].kind = w.heap[o].kind}

\* What keeps it, if it is called to add a package that is not there or for a
\* user.
Adding(D) ==
  {f \in [Worlds(D) -> [D -> [BOOLEAN -> Worlds(D)]]] :
     \A x \in Worlds(D), p \in D, flag \in BOOLEAN :
       OneEach(x.map) /\ (flag \/ ~Has(x, NameOf(p))) =>
         f[x][p][flag] \in Additions(D, x)}

\* Additions add up, and what changes pointers only is one.
LEMMA AdditionsOf ==
  ASSUME NEW D, NEW w \in Worlds(D)
  PROVE  /\ OneEach(w.map) => w \in Additions(D, w)
         /\ \A x \in Additions(D, w) : /\ x \in Worlds(D)
                                       /\ OneEach(x.map)
                                       /\ Additions(D, x) \subseteq Additions(D, w)
         /\ OneEach(w.map) => Kin(D, w) \subseteq Additions(D, w)
<1>1. OneEach(w.map) => w \in Additions(D, w)
  BY DEF Additions
<1>2. ASSUME NEW x \in Additions(D, w)
      PROVE  x \in Worlds(D) /\ OneEach(x.map)
             /\ Additions(D, x) \subseteq Additions(D, w)
  BY DEF Additions
<1>3. ASSUME OneEach(w.map), NEW x \in Kin(D, w) PROVE x \in Additions(D, w)
  <2>1. x \in Worlds(D) /\ x.map = w.map /\ Users(x) = Users(w)
    BY KinOf
  <2>2. \A o \in D : x.heap[o].kind = w.heap[o].kind
    BY DEF Kin, KinHeaps
  <2> QED
    BY <1>3, <2>1, <2>2 DEF Additions
<1> QED
  BY <1>1, <1>2, <1>3

\* A flag that is set, and the pointer in the map.
LEMMA SetUsingIn ==
  ASSUME NEW D, NEW w \in Worlds(D), NEW o \in D, NEW flag \in BOOLEAN
  PROVE  /\ SetUsing(w, o, flag) \in Worlds(D)
         /\ SetUsing(w, o, flag).map = w.map
         /\ \A p \in D : SetUsing(w, o, flag).heap[p].kind = w.heap[p].kind
         /\ (flag \/ o \notin w.map) => Users(w) \subseteq Users(SetUsing(w, o, flag))
<1>1. w.heap \in [D -> Fields(D)] /\ w.map \subseteq D
  BY WorldFields
<1> DEFINE f == [w.heap[o] EXCEPT !.using = flag]
<1> DEFINE x == [w EXCEPT !.heap = [w.heap EXCEPT ![o] = f]]
<1>2. f \in Fields(D) /\ f.using = flag /\ f.kind = w.heap[o].kind
  BY <1>1 DEF Fields
<1>3. [w EXCEPT !.heap[o].using = flag] = x
  BY Zenon
<1> HIDE DEF f
<1>4. x \in Worlds(D) /\ x.map = w.map /\ x.heap = [w.heap EXCEPT ![o] = f]
  BY <1>1, <1>2, WorldFields DEF Worlds
<1>5. \A p \in D : x.heap[p].kind = w.heap[p].kind
  BY <1>1, <1>2, <1>4
<1>6. ASSUME flag \/ o \notin w.map PROVE Users(w) \subseteq Users(x)
  BY <1>1, <1>2, <1>4, <1>6 DEF Users
<1> HIDE DEF x
<1> QED
  BY <1>3, <1>4, <1>5, <1>6 DEF SetUsing

\* emplace adds an object whose name is not there, and keeps the map filed.
LEMMA EmplaceIn ==
  ASSUME NEW D, NEW w \in Worlds(D), NEW o \in D
  PROVE  /\ Emplace(w, o) \in Worlds(D)
         /\ OneEach(w.map) => Emplace(w, o) \in Additions(D, w)
<1>1. CASE Has(w, NameOf(o))
  BY <1>1, AdditionsOf DEF Emplace
<1>2. CASE ~Has(w, NameOf(o))
  <2> DEFINE x == [w EXCEPT !.map = @ \cup {o}]
  <2>1. x \in Worlds(D) /\ x.heap = w.heap /\ x.map = w.map \cup {o}
    BY WorldFields DEF Worlds
  <2>2. OneEach(w.map) => OneEach(w.map \cup {o})
    BY <1>2 DEF OneEach, Has, NamesOf
  <2>3. Users(w) \subseteq Users(x)
    BY <2>1 DEF Users
  <2>4. Emplace(w, o) = x
    BY <1>2 DEF Emplace
  <2> HIDE DEF x
  <2> QED
    BY <2>1, <2>2, <2>3, <2>4 DEF Additions
<1> QED
  BY <1>1, <1>2

\* A call of add is an addition, if the calls it makes for what is required are;
\* it sets no flag back, since it is for a user or for a name that is not there.
LEMMA AddOnceIn ==
  ASSUME NEW D, D \subseteq Object, NEW add \in Adding(D),
         NEW x \in Worlds(D), NEW p \in D, NEW flag \in BOOLEAN
  PROVE  /\ AddOnce(add, x, p, flag) \in Worlds(D)
         /\ OneEach(x.map) /\ (flag \/ ~Has(x, NameOf(p))) =>
              AddOnce(add, x, p, flag) \in Additions(D, x)
<1>1. DOMAIN x.heap = D
  BY WorldFields
<1>2. PICK c : c = ConnectEqualPointers(x, p)
  OBVIOUS
<1>3. c \in Kin(D, x) /\ c \in Worlds(D) /\ c.map = x.map
  BY <1>2, ConnectIn, KinOf
<1> DEFINE AddRequired == [acc \in Worlds(D) |-> [r \in D |->
        IF acc.failed # "no" THEN acc
        ELSE IF ~Has(acc, NameOf(r)) THEN add[acc][r][FALSE]
        ELSE IF SamePackage(acc.heap, At(acc, NameOf(r)), r) THEN acc
        ELSE Fail(acc, "file_name is unique")]]
<1> DEFINE begin == Emplace(SetUsing(c, p, flag), p)
<1>4. AddOnce(add, x, p, flag) =
        IF c.failed # "no" THEN c
        ELSE Loop(AddRequired, begin, Required(c.heap, p))
  BY <1>1, <1>2 DEF AddOnce
<1>5. Required(c.heap, p) \in Seq(D)
  BY <1>3, RequiredSeq, WorldFields
<1>6. ASSUME NEW acc \in Worlds(D) PROVE Fail(acc, "file_name is unique") \in Kin(D, acc)
  <2>1. "file_name is unique" \in Failures
    BY DEF Failures
  <2> QED
    BY <2>1, KinOf, KinFail
<1>7. StaysIn(AddRequired, Worlds(D), D)
  <2> SUFFICES ASSUME NEW acc \in Worlds(D), NEW r \in D
               PROVE  AddRequired[acc][r] \in Worlds(D)
    BY DEF StaysIn
  <2>1. add[acc][r][FALSE] \in Worlds(D)
    <3>1. add[acc][r] \in [BOOLEAN -> Worlds(D)]
      BY DEF Adding
    <3> QED
      BY <3>1, Zenon
  <2>2. Fail(acc, "file_name is unique") \in Worlds(D)
    BY <1>6, KinOf
  <2> QED
    BY <2>1, <2>2
<1>8. StaysIn(AddRequired, Additions(D, x), D)
  <2> SUFFICES ASSUME NEW acc \in Additions(D, x), NEW r \in D
               PROVE  AddRequired[acc][r] \in Additions(D, x)
    BY DEF StaysIn
  <2>1. acc \in Worlds(D) /\ OneEach(acc.map) /\ Additions(D, acc) \subseteq Additions(D, x)
    BY AdditionsOf
  <2>2. ~Has(acc, NameOf(r)) => add[acc][r][FALSE] \in Additions(D, x)
    BY <2>1 DEF Adding
  <2>3. Fail(acc, "file_name is unique") \in Additions(D, x)
    BY <1>6, <2>1, AdditionsOf
  <2> QED
    BY <2>1, <2>2, <2>3
<1>9. begin \in Worlds(D)
  BY <1>3, SetUsingIn, EmplaceIn
<1>10. ASSUME OneEach(x.map), flag \/ ~Has(x, NameOf(p)) PROVE begin \in Additions(D, x)
  <2>1. PICK s : s = SetUsing(c, p, flag)
    OBVIOUS
  <2>2. flag \/ p \notin c.map
    BY <1>3, <1>10 DEF Has, NamesOf
  <2>3. s \in Worlds(D) /\ s.map = x.map /\ Users(x) \subseteq Users(s)
    BY <1>3, <2>1, <2>2, SetUsingIn, KinOf
  <2>4. \A o \in D : s.heap[o].kind = x.heap[o].kind
    BY <1>3, <2>1, SetUsingIn DEF Kin, KinHeaps
  <2>5. s \in Additions(D, x)
    BY <1>10, <2>3, <2>4 DEF Additions
  <2> QED
    BY <1>10, <2>1, <2>3, <2>5, EmplaceIn, AdditionsOf
<1> HIDE DEF AddRequired, begin
<1>11. Loop(AddRequired, begin, Required(c.heap, p)) \in Worlds(D)
  BY <1>5, <1>7, <1>9, LoopIn
<1>12. OneEach(x.map) /\ (flag \/ ~Has(x, NameOf(p))) =>
         Loop(AddRequired, begin, Required(c.heap, p)) \in Additions(D, x)
  BY <1>5, <1>8, <1>10, LoopIn
<1>13. OneEach(x.map) => c \in Additions(D, x)
  BY <1>3, AdditionsOf
<1> QED
  BY <1>3, <1>4, <1>11, <1>12, <1>13

\* The values of add, by how deep it may still nest.
AddCalls(D, g) ==
  /\ \A w \in Worlds(D) : \A o, main : AddNew(w, o, main) = g[Depth][w][o][main]
  /\ g[0] = [x \in Worlds(D) |-> [p \in D |-> [flag \in BOOLEAN |-> x]]]
  /\ \A d \in 1 .. Depth :
       g[d] = [x \in Worlds(D) |-> [p \in D |-> [flag \in BOOLEAN |->
                 AddOnce(g[d - 1], x, p, flag)]]]
  /\ \A d \in 0 .. Depth : g[d] \in Adding(D)

\* There are such values.
LEMMA AddLevels ==
  ASSUME NEW D, D \subseteq Object
  PROVE  \E g : AddCalls(D, g)
<1> DEFINE W == Worlds(D)
<1> DEFINE V == Adding(D)
<1> DEFINE Once(v) ==
      [x \in W |-> [p \in D |-> [flag \in BOOLEAN |-> AddOnce(v, x, p, flag)]]]
<1> DEFINE b == [x \in W |-> [p \in D |-> [flag \in BOOLEAN |-> x]]]
<1> DEFINE Goes(f) == f = [d \in 0 .. Depth |-> IF d = 0 THEN b ELSE Once(f[d - 1])]
<1>1. b \in V
  BY AdditionsOf DEF Adding
<1>2. \A v \in V : Once(v) \in V
  <2> SUFFICES ASSUME NEW v \in V PROVE Once(v) \in V
    OBVIOUS
  <2>1. \A x \in W, p \in D, flag \in BOOLEAN :
          /\ AddOnce(v, x, p, flag) \in W
          /\ OneEach(x.map) /\ (flag \/ ~Has(x, NameOf(p))) =>
               AddOnce(v, x, p, flag) \in Additions(D, x)
    BY AddOnceIn
  <2> QED
    BY <2>1 DEF Adding
<1>3. \E f : Goes(f)
  <2> HIDE DEF V, Once, b
  <2>1. PICK step : step = [v \in V |-> Once(v)]
    OBVIOUS
  <2>2. step \in [V -> V]
    BY <1>2, <2>1
  <2>3. PICK f : Iterates(f, V, b, Depth, step)
    BY <1>1, <2>2, DepthIsNumber, Nested
  <2>4. ASSUME NEW i \in 0 .. Depth
        PROVE  f[i] = IF i = 0 THEN b ELSE Once(f[i - 1])
    <3>1. CASE i = 0
      BY <2>3, <3>1 DEF Iterates
    <3>2. CASE i # 0
      <4>1. i \in 1 .. Depth /\ i - 1 \in 0 .. Depth
        BY <3>2, DepthIsNumber
      <4>2. f[i - 1] \in V
        BY <2>3, <4>1 DEF Iterates
      <4>3. f[i] = step[f[i - 1]]
        BY <2>3, <4>1 DEF Iterates
      <4> QED
        BY <2>1, <3>2, <4>2, <4>3
    <3> QED
      BY <3>1, <3>2
  <2>5. DOMAIN f = 0 .. Depth /\ f = [i \in DOMAIN f |-> f[i]]
    BY <2>3 DEF Iterates
  <2>6. f = [i \in 0 .. Depth |-> IF i = 0 THEN b ELSE Once(f[i - 1])]
    BY <2>4, <2>5
  <2> QED
    BY <2>6
<1>4. PICK g : g = CHOOSE f : Goes(f)
  OBVIOUS
<1>5. Goes(g)
  <2> HIDE DEF Goes
  <2> QED
    BY <1>3, <1>4
<1>6. ASSUME NEW w \in W, NEW o, NEW main
      PROVE  AddNew(w, o, main) = g[Depth][w][o][main]
  <2>1. DOMAIN w.heap = D
    BY WorldFields
  <2> QED
    BY <1>4, <2>1 DEF AddNew
<1>7. ASSUME NEW d \in 0 .. Depth PROVE g[d] \in V
  <2> HIDE DEF V, Once, b
  <2>1. g[0] = b
    BY <1>5, DepthIsNumber
  <2>2. ASSUME NEW i \in 1 .. d, g[i - 1] \in V PROVE g[i] \in V
    <3>1. g[i] = Once(g[i - 1])
      BY <1>5, DepthIsNumber
    <3> QED
      BY <1>2, <2>2, <3>1
  <2> QED
    BY <1>1, <2>1, <2>2, Along
<1>8. /\ g[0] = b
      /\ \A d \in 1 .. Depth : g[d] = Once(g[d - 1])
  <2> HIDE DEF Once, b
  <2> QED
    BY <1>5, DepthIsNumber
<1>9. AddCalls(D, g)
  BY <1>6, <1>7, <1>8 DEF AddCalls
<1> QED
  BY <1>9

\* So add is, however deep it nests.
LEMMA AddNewIn ==
  ASSUME NEW D, D \subseteq Object, NEW w \in Worlds(D), NEW o \in D,
         NEW main \in BOOLEAN
  PROVE  /\ AddNew(w, o, main) \in Worlds(D)
         /\ OneEach(w.map) /\ (main \/ ~Has(w, NameOf(o))) =>
              AddNew(w, o, main) \in Additions(D, w)
<1>1. PICK g : AddCalls(D, g)
  BY AddLevels
<1>2. AddNew(w, o, main) = g[Depth][w][o][main] /\ g[Depth] \in Adding(D)
  BY <1>1, DepthIsNumber DEF AddCalls
<1> QED
  BY <1>2 DEF Adding

\* A package that is added for a user takes none away.
LEMMA ManagerAddIn ==
  ASSUME NEW D, D \subseteq Object, NEW w \in Worlds(D), OneEach(w.map), NEW o \in D
  PROVE  ManagerAdd(w, o) \in Additions(D, w)
<1> DEFINE old == At(w, NameOf(o))
<1>1. CASE ~Has(w, NameOf(o))
  <2>1. AddNew(w, o, TRUE) \in Additions(D, w)
    BY AddNewIn
  <2> QED
    BY <1>1, <2>1 DEF ManagerAdd
<1>2. CASE Has(w, NameOf(o))
  <2>1. old \in w.map /\ old \in D
    BY <1>2, AtIn, WorldFields
  <2>2. ASSUME NEW e \in Failures PROVE Fail(w, e) \in Additions(D, w)
    BY KinOf, KinFail, AdditionsOf
  <2>3. PICK s : s = SetUsing(w, old, TRUE)
    OBVIOUS
  <2>4. /\ s \in Worlds(D) /\ s.map = w.map /\ Users(w) \subseteq Users(s)
        /\ \A p \in D : s.heap[p].kind = w.heap[p].kind
    <3> HIDE DEF old
    <3>1. /\ SetUsing(w, old, TRUE) \in Worlds(D)
          /\ SetUsing(w, old, TRUE).map = w.map
          /\ \A p \in D : SetUsing(w, old, TRUE).heap[p].kind = w.heap[p].kind
          /\ (TRUE \/ old \notin w.map) => Users(w) \subseteq Users(SetUsing(w, old, TRUE))
      BY <2>1, SetUsingIn, Zenon
    <3> QED
      BY <2>3, <3>1
  <2>5. s \in Additions(D, w)
    BY <2>4 DEF Additions
  <2>6. AddNew(s, o, TRUE) \in Additions(D, s)
    BY <2>4, AddNewIn
  <2>7. AddNew(s, o, TRUE) \in Additions(D, w)
    BY <2>5, <2>6, AdditionsOf
  <2>8. /\ "file_name is unique" \in Failures
        /\ "This package is already exist" \in Failures
    BY DEF Failures
  <2> QED
    BY <1>2, <2>2, <2>3, <2>7, <2>8 DEF ManagerAdd
<1> QED
  BY <1>1, <1>2

-----------------------------------------------------------------------------
(* cycle_destroy *)

\* What is left of a visit that breaks cycles, if only pointers change.
KinBreaking(D, x) == {y \in Breaking(D) : y.heap \in KinHeaps(D, x.heap)}

Destroying(D) ==
  {f \in [Breaking(D) -> [D -> Breaking(D)]] :
     \A x \in Breaking(D), o \in D : f[x][o] \in KinBreaking(D, x)}

\* Breaking circles further is breaking circles.
LEMMA KinBreakingOf ==
  ASSUME NEW D, NEW x \in Breaking(D)
  PROVE  /\ x \in KinBreaking(D, x)
         /\ x.heap \in [D -> Fields(D)] /\ DOMAIN x.heap = D
         /\ \A y \in KinBreaking(D, x) :
              /\ y \in Breaking(D)
              /\ KinBreaking(D, y) = KinBreaking(D, x)
              /\ \A b \in BOOLEAN : [y EXCEPT !.done = b] \in KinBreaking(D, x)
<1>1. x.heap \in [D -> Fields(D)]
  BY DEF Breaking
<1>2. x \in KinBreaking(D, x)
  BY <1>1, KinHeapsOf DEF KinBreaking
<1>3. ASSUME NEW y \in KinBreaking(D, x)
      PROVE  y \in Breaking(D) /\ KinBreaking(D, y) = KinBreaking(D, x)
  BY <1>1, KinHeapsOf DEF KinBreaking
<1>4. ASSUME NEW y \in KinBreaking(D, x), NEW b \in BOOLEAN
      PROVE  [y EXCEPT !.done = b] \in KinBreaking(D, x)
  BY DEF KinBreaking, Breaking
<1> QED
  BY <1>1, <1>2, <1>3, <1>4

\* A visit of cycle_destroy erases pointers only, if the visits it makes do.
LEMMA DestroyOnceIn ==
  ASSUME NEW D, D \subseteq Object, NEW visit \in Destroying(D),
         NEW x \in Breaking(D), NEW o \in D
  PROVE  DestroyOnce(visit, x, o) \in KinBreaking(D, x)
<1>1. DOMAIN x.heap = D /\ NameOf(o) \in Name
  BY KinBreakingOf, ObjectNames
<1> DEFINE Judge(seen, v) ==
        IF NameOf(v) \in seen.grey
        THEN [seen EXCEPT !.heap[o].reqs = @ \ {v}, !.done = FALSE]
        ELSE [seen EXCEPT !.grey = @ \ {NameOf(o)},
                          !.black = @ \cup {NameOf(o)}]
<1> DEFINE Look == [acc \in Breaking(D) |-> [v \in D |->
        IF ~acc.done THEN acc
        ELSE IF NameOf(v) \in acc.grey \cup acc.black THEN Judge(acc, v)
        ELSE Judge([visit[acc][v] EXCEPT !.done = TRUE], v)]]
<1> DEFINE begin == [x EXCEPT !.grey = @ \cup {NameOf(o)},
                              !.black = @ \ {NameOf(o)}, !.done = TRUE]
<1>2. ASSUME NEW seen \in KinBreaking(D, x), NEW v \in D
      PROVE  Judge(seen, v) \in KinBreaking(D, x)
  <2>1. seen \in Breaking(D) /\ seen.heap \in [D -> Fields(D)]
    BY DEF KinBreaking, Breaking
  <2> DEFINE h == [seen.heap EXCEPT ![o].reqs = @ \ {v}]
  <2>2. h \in KinHeaps(D, x.heap)
    <3>1. seen.heap[o].reqs \ {v} \in SUBSET D
      BY <2>1 DEF Fields
    <3>2. h \in KinHeaps(D, seen.heap)
      BY <2>1, <3>1, Rewired
    <3> QED
      BY <3>2, KinBreakingOf, KinHeapsOf DEF KinBreaking
  <2> DEFINE cut == [seen EXCEPT !.heap = h, !.done = FALSE]
  <2> DEFINE left == [seen EXCEPT !.grey = @ \ {NameOf(o)}, !.black = @ \cup {NameOf(o)}]
  <2>3. [seen EXCEPT !.heap[o].reqs = @ \ {v}, !.done = FALSE] = cut
    BY Zenon
  <2> HIDE DEF h
  <2>4. cut \in KinBreaking(D, x)
    BY <2>1, <2>2 DEF KinBreaking, Breaking, KinHeaps
  <2>5. left \in KinBreaking(D, x)
    BY <1>1, <2>1 DEF KinBreaking, Breaking
  <2> QED
    BY <2>3, <2>4, <2>5
<1>3. StaysIn(Look, KinBreaking(D, x), D)
  <2> SUFFICES ASSUME NEW acc \in KinBreaking(D, x), NEW v \in D
               PROVE  Look[acc][v] \in KinBreaking(D, x)
    BY DEF StaysIn
  <2>1. acc \in Breaking(D) /\ KinBreaking(D, acc) = KinBreaking(D, x)
    BY KinBreakingOf
  <2>2. visit[acc][v] \in KinBreaking(D, x)
    BY <2>1 DEF Destroying
  <2>3. [visit[acc][v] EXCEPT !.done = TRUE] \in KinBreaking(D, x)
    BY <2>2, KinBreakingOf, Zenon
  <2>4. /\ Judge(acc, v) \in KinBreaking(D, x)
        /\ Judge([visit[acc][v] EXCEPT !.done = TRUE], v) \in KinBreaking(D, x)
    BY <1>2, <2>3
  <2> HIDE DEF Judge
  <2> QED
    BY <2>1, <2>4
<1>4. begin \in KinBreaking(D, x)
  BY <1>1, KinBreakingOf DEF KinBreaking, Breaking
<1>5. DestroyOnce(visit, x, o) = Loop(Look, begin, Required(x.heap, o))
  BY <1>1, Zenon DEF DestroyOnce
<1>6. Required(x.heap, o) \in Seq(D)
  BY RequiredSeq, KinBreakingOf
<1> HIDE DEF Look, begin
<1> QED
  BY <1>3, <1>4, <1>5, <1>6, LoopIn

\* So the visit does, however deep it nests.
LEMMA DestroyVisitIn ==
  ASSUME NEW D, D \subseteq Object, NEW s \in Breaking(D), NEW u \in D
  PROVE  DestroyVisit(s, u) \in KinBreaking(D, s)
<1> DEFINE B == Breaking(D)
<1> DEFINE V == Destroying(D)
<1> DEFINE Once(v) == [x \in B |-> [o \in D |-> DestroyOnce(v, x, o)]]
<1> DEFINE b == [x \in B |-> [o \in D |-> x]]
<1> DEFINE Goes(f) == f = [d \in 0 .. Depth |-> IF d = 0 THEN b ELSE Once(f[d - 1])]
<1>1. b \in V
  BY KinBreakingOf DEF Destroying
<1>2. \A v \in V : Once(v) \in V
  <2> SUFFICES ASSUME NEW v \in V PROVE Once(v) \in V
    OBVIOUS
  <2>1. \A x \in B, o \in D : /\ DestroyOnce(v, x, o) \in KinBreaking(D, x)
                              /\ DestroyOnce(v, x, o) \in B
    BY DestroyOnceIn, KinBreakingOf
  <2> QED
    BY <2>1 DEF Destroying
<1>3. \E f : Goes(f)
  <2> HIDE DEF V, Once, b
  <2>1. PICK step : step = [v \in V |-> Once(v)]
    OBVIOUS
  <2>2. step \in [V -> V]
    BY <1>2, <2>1
  <2>3. PICK f : Iterates(f, V, b, Depth, step)
    BY <1>1, <2>2, DepthIsNumber, Nested
  <2>4. ASSUME NEW i \in 0 .. Depth
        PROVE  f[i] = IF i = 0 THEN b ELSE Once(f[i - 1])
    <3>1. CASE i = 0
      BY <2>3, <3>1 DEF Iterates
    <3>2. CASE i # 0
      <4>1. i \in 1 .. Depth /\ i - 1 \in 0 .. Depth
        BY <3>2, DepthIsNumber
      <4>2. f[i - 1] \in V
        BY <2>3, <4>1 DEF Iterates
      <4>3. f[i] = step[f[i - 1]]
        BY <2>3, <4>1 DEF Iterates
      <4> QED
        BY <2>1, <3>2, <4>2, <4>3
    <3> QED
      BY <3>1, <3>2
  <2>5. DOMAIN f = 0 .. Depth /\ f = [i \in DOMAIN f |-> f[i]]
    BY <2>3 DEF Iterates
  <2>6. f = [i \in 0 .. Depth |-> IF i = 0 THEN b ELSE Once(f[i - 1])]
    BY <2>4, <2>5
  <2> QED
    BY <2>6
<1>4. PICK g : g = CHOOSE f : Goes(f)
  OBVIOUS
<1>5. Goes(g)
  <2> HIDE DEF Goes
  <2> QED
    BY <1>3, <1>4
<1>6. DestroyVisit(s, u) = g[Depth][s][u]
  <2>1. DOMAIN s.heap = D
    BY KinBreakingOf
  <2> QED
    BY <1>4, <2>1 DEF DestroyVisit
<1>7. g[Depth] \in V
  <2> HIDE DEF V, Once, b
  <2>1. g[0] = b
    BY <1>5, DepthIsNumber
  <2>2. ASSUME NEW i \in 1 .. Depth, g[i - 1] \in V PROVE g[i] \in V
    <3>1. g[i] = Once(g[i - 1])
      BY <1>5, DepthIsNumber
    <3> QED
      BY <1>2, <2>2, <3>1
  <2> QED
    BY <1>1, <2>1, <2>2, DepthIsNumber, Along
<1> QED
  BY <1>6, <1>7 DEF Destroying

\* And however often it is repeated.
LEMMA DestroyAllIn ==
  ASSUME NEW D, D \subseteq Object, NEW s \in Breaking(D), NEW u \in D
  PROVE  DestroyAll(s, u) \in KinBreaking(D, s)
<1> DEFINE V == KinBreaking(D, s)
<1> DEFINE b == DestroyVisit(s, u)
<1> DEFINE Once(v) == IF v.done THEN v ELSE DestroyVisit(v, u)
<1>1. PICK n \in Nat : n = Cardinality(s.heap[u].reqs)
  <2>1. s.heap[u].reqs \subseteq Object
    BY KinBreakingOf DEF Fields
  <2> QED
    BY <2>1, ObjectsFinite
<1> DEFINE Goes(f) == f = [i \in 0 .. n |-> IF i = 0 THEN b ELSE Once(f[i - 1])]
<1>2. b \in V
  BY DestroyVisitIn
<1>3. \A v \in V : Once(v) \in V
  <2> SUFFICES ASSUME NEW v \in V PROVE Once(v) \in V
    OBVIOUS
  <2>1. DestroyVisit(v, u) \in V
    BY DestroyVisitIn, KinBreakingOf
  <2> QED
    BY <2>1
<1>4. \E f : Goes(f)
  <2> HIDE DEF V, Once, b
  <2>1. PICK step : step = [v \in V |-> Once(v)]
    OBVIOUS
  <2>2. step \in [V -> V]
    BY <1>3, <2>1
  <2>3. PICK f : Iterates(f, V, b, n, step)
    BY <1>2, <2>2, Nested
  <2>4. ASSUME NEW i \in 0 .. n
        PROVE  f[i] = IF i = 0 THEN b ELSE Once(f[i - 1])
    <3>1. CASE i = 0
      BY <2>3, <3>1 DEF Iterates
    <3>2. CASE i # 0
      <4>1. i \in 1 .. n /\ i - 1 \in 0 .. n
        BY <3>2
      <4>2. f[i - 1] \in V
        BY <2>3, <4>1 DEF Iterates
      <4>3. f[i] = step[f[i - 1]]
        BY <2>3, <4>1 DEF Iterates
      <4> QED
        BY <2>1, <3>2, <4>2, <4>3
    <3> QED
      BY <3>1, <3>2
  <2>5. DOMAIN f = 0 .. n /\ f = [i \in DOMAIN f |-> f[i]]
    BY <2>3 DEF Iterates
  <2>6. f = [i \in 0 .. n |-> IF i = 0 THEN b ELSE Once(f[i - 1])]
    BY <2>4, <2>5
  <2> QED
    BY <2>6
<1>5. PICK g : g = CHOOSE f : Goes(f)
  OBVIOUS
<1>6. Goes(g)
  <2> HIDE DEF Goes
  <2> QED
    BY <1>4, <1>5
<1>7. DestroyAll(s, u) = g[n]
  <2>1. \A f : Goes(f) <=>
          f = [i \in 0 .. n |-> IF i = 0 THEN DestroyVisit(s, u)
                                ELSE IF f[i - 1].done THEN f[i - 1]
                                ELSE DestroyVisit(f[i - 1], u)]
    OBVIOUS
  <2> QED
    BY <1>1, <1>5, <2>1, Zenon DEF DestroyAll
<1>8. g[n] \in V
  <2> HIDE DEF V, Once, b
  <2>1. g[0] = b
    BY <1>6
  <2>2. ASSUME NEW i \in 1 .. n, g[i - 1] \in V PROVE g[i] \in V
    <3>1. g[i] = Once(g[i - 1])
      BY <1>6
    <3> QED
      BY <1>3, <2>2, <3>1
  <2> QED
    BY <1>2, <2>1, <2>2, Along
<1> QED
  BY <1>7, <1>8

\* cycle_destroy changes pointers only.
LEMMA CycleDestroyIn ==
  ASSUME NEW D, D \subseteq Object, NEW w \in Worlds(D), NEW o \in D
  PROVE  CycleDestroy(w, o) \in Kin(D, w)
<1>1. w.heap \in [D -> Fields(D)] /\ DOMAIN w.heap = D
  BY WorldFields
<1> DEFINE begin == [heap |-> w.heap, grey |-> {}, black |-> {}, done |-> TRUE]
<1> DEFINE Look == [acc \in Breaking(D) |-> [v \in D |->
                 IF NameOf(v) \in acc.grey \cup acc.black THEN acc
                 ELSE DestroyAll(acc, v)]]
<1>2. begin \in Breaking(D) /\ begin.heap = w.heap
  BY <1>1 DEF Breaking
<1>3. StaysIn(Look, KinBreaking(D, begin), D)
  <2> HIDE DEF begin
  <2> SUFFICES ASSUME NEW acc \in KinBreaking(D, begin), NEW v \in D
               PROVE  Look[acc][v] \in KinBreaking(D, begin)
    BY DEF StaysIn
  <2>1. acc \in Breaking(D) /\ KinBreaking(D, acc) = KinBreaking(D, begin)
    BY <1>2, KinBreakingOf
  <2>2. DestroyAll(acc, v) \in KinBreaking(D, begin)
    BY <2>1, DestroyAllIn
  <2> QED
    BY <2>1, <2>2
<1>4. CycleDestroy(w, o) =
        [w EXCEPT !.heap = Loop(Look, begin, Required(w.heap, o)).heap]
  BY <1>1, Zenon DEF CycleDestroy
<1>5. Required(w.heap, o) \in Seq(D)
  BY <1>1, RequiredSeq
<1> HIDE DEF Look, begin
<1>6. Loop(Look, begin, Required(w.heap, o)) \in KinBreaking(D, begin)
  BY <1>2, <1>3, <1>5, KinBreakingOf, LoopIn
<1>7. Loop(Look, begin, Required(w.heap, o)).heap \in KinHeaps(D, w.heap)
  BY <1>2, <1>6 DEF KinBreaking
<1> QED
  BY <1>4, <1>7, KinWith

-----------------------------------------------------------------------------
(* write_package_to_file and write_package_manager_to_file *)

\* What is written of worlds that differ in pointers and the exception only.
KinWritings(D, w) == {y \in Writings(D) : y.world \in Kin(D, w)}

\* What a call of write_package_to_json may be.
Writing(D) ==
  {f \in [Writings(D) -> [D -> Writings(D)]] :
     \A x \in Writings(D), p \in D : f[x][p] \in KinWritings(D, x.world)}

\* Nothing written is the beginning of writing.
LEMMA KinWritingsOf ==
  ASSUME NEW D, NEW x \in Writings(D)
  PROVE  /\ x \in KinWritings(D, x.world)
         /\ x.world \in Worlds(D) /\ x.written \in SUBSET D
BY KinOf DEF KinWritings, Writings

\* Writing on, and what may become of the world and the entries meanwhile.
LEMMA KinWritingsWith ==
  ASSUME NEW D, NEW w \in Worlds(D), NEW x \in KinWritings(D, w)
  PROVE  /\ x \in Writings(D)
         /\ x.world \in Worlds(D) /\ x.written \in SUBSET D
         /\ x.world \in Kin(D, w)
         /\ KinWritings(D, x.world) = KinWritings(D, w)
         /\ \A y \in Kin(D, w) : [x EXCEPT !.world = y] \in KinWritings(D, w)
         /\ \A S \in SUBSET D : [x EXCEPT !.written = S] \in KinWritings(D, w)
<1>1. x \in Writings(D) /\ x.world \in Kin(D, w)
  BY DEF KinWritings
<1>2. KinWritings(D, x.world) = KinWritings(D, w)
  BY <1>1, KinOf DEF KinWritings
<1>3. x.world \in Worlds(D) /\ x.written \in SUBSET D
  BY <1>1, KinWritingsOf
<1>4. ASSUME NEW y \in Kin(D, w) PROVE [x EXCEPT !.world = y] \in KinWritings(D, w)
  <2>1. y \in Worlds(D)
    BY KinOf
  <2> QED
    BY <1>1, <2>1 DEF KinWritings, Writings
<1>5. ASSUME NEW S \in SUBSET D PROVE [x EXCEPT !.written = S] \in KinWritings(D, w)
  BY <1>1 DEF KinWritings, Writings
<1> QED
  BY <1>1, <1>2, <1>3, <1>4, <1>5

\* A call of write_package_to_json changes pointers and the exception only, and
\* writes entries of objects, if the calls it makes do.
LEMMA WriteNestedIn ==
  ASSUME NEW D, D \subseteq Object, NEW write \in Writing(D),
         NEW x \in Writings(D), NEW p \in D
  PROVE  WriteNested(write, x, p) \in KinWritings(D, x.world)
<1>1. x.world \in Worlds(D) /\ DOMAIN x.world.heap = D
  BY KinWritingsOf, WorldFields
<1> DEFINE I == KinWritings(D, x.world)
<1> DEFINE Write == [acc \in Writings(D) |-> [r \in D |->
        IF acc.world.failed # "no" THEN acc ELSE write[acc][r]]]
<1> DEFINE begin == [x EXCEPT !.written = @ \cup {p}]
<1>2. PICK checked : checked = CycleCheck(x.world, p)
  OBVIOUS
<1>3. checked \in Kin(D, x.world)
  BY <1>1, <1>2, CycleCheckIn
<1>4. x \in I
  BY KinWritingsOf
<1>5. StaysIn(Write, I, D)
  <2> SUFFICES ASSUME NEW acc \in I, NEW r \in D
               PROVE  Write[acc][r] \in I
    BY DEF StaysIn
  <2>1. acc \in Writings(D) /\ KinWritings(D, acc.world) = I
    BY <1>1, KinWritingsWith
  <2>2. write[acc][r] \in I
    BY <2>1 DEF Writing
  <2> QED
    BY <2>1, <2>2
<1>6. begin \in I
  <2>1. x.written \cup {p} \in SUBSET D
    BY KinWritingsOf
  <2> QED
    BY <1>1, <1>4, <2>1, KinWritingsWith
<1>7. Required(x.world.heap, p) \in Seq(D)
  BY <1>1, RequiredSeq, WorldFields
<1>8. [x EXCEPT !.world = checked] \in I
  BY <1>1, <1>3, <1>4, KinWritingsWith
<1>9. [x EXCEPT !.world = Fail(checked, "unreal package")] \in I
  <2>1. "unreal package" \in Failures
    BY DEF Failures
  <2>2. Fail(checked, "unreal package") \in Kin(D, x.world)
    BY <1>3, <2>1, KinFail
  <2> QED
    BY <1>1, <1>4, <2>2, KinWritingsWith
<1>10. WriteNested(write, x, p) =
         IF checked.failed # "no" THEN [x EXCEPT !.world = checked]
         ELSE IF NameOf(p) \in NamesOf(x.written)
         THEN [x EXCEPT !.world = Fail(checked, "unreal package")]
         ELSE Loop(Write, begin, Required(x.world.heap, p))
  BY <1>1, <1>2, Zenon DEF WriteNested
<1> HIDE DEF Write, begin, I
<1>11. Loop(Write, begin, Required(x.world.heap, p)) \in I
  BY <1>5, <1>6, <1>7, LoopIn
<1>12. WriteNested(write, x, p) \in I
  BY <1>8, <1>9, <1>10, <1>11
<1> QED
  BY <1>12 DEF I

\* The values of write_package_to_json, by how deep it may still nest.
WriteCalls(D, g) ==
  /\ \A w \in Worlds(D) : \A o :
       WriteToJson(w, o) = g[Depth][[world |-> w, written |-> {}]][o]
  /\ g[0] = [x \in Writings(D) |-> [p \in D |-> x]]
  /\ \A d \in 1 .. Depth :
       g[d] = [x \in Writings(D) |-> [p \in D |-> WriteNested(g[d - 1], x, p)]]
  /\ \A d \in 0 .. Depth : g[d] \in Writing(D)

\* There are such values.
LEMMA WriteLevels ==
  ASSUME NEW D, D \subseteq Object
  PROVE  \E g : WriteCalls(D, g)
<1> DEFINE W == Writings(D)
<1> DEFINE V == Writing(D)
<1> DEFINE Once(v) == [x \in W |-> [p \in D |-> WriteNested(v, x, p)]]
<1> DEFINE b == [x \in W |-> [p \in D |-> x]]
<1> DEFINE Goes(f) == f = [d \in 0 .. Depth |-> IF d = 0 THEN b ELSE Once(f[d - 1])]
<1>1. b \in V
  BY KinWritingsOf DEF Writing
<1>2. \A v \in V : Once(v) \in V
  <2> SUFFICES ASSUME NEW v \in V PROVE Once(v) \in V
    OBVIOUS
  <2>1. \A x \in W, p \in D : /\ WriteNested(v, x, p) \in KinWritings(D, x.world)
                              /\ WriteNested(v, x, p) \in W
    BY WriteNestedIn DEF KinWritings
  <2> QED
    BY <2>1 DEF Writing
<1>3. \E f : Goes(f)
  <2> HIDE DEF V, Once, b
  <2>1. PICK step : step = [v \in V |-> Once(v)]
    OBVIOUS
  <2>2. step \in [V -> V]
    BY <1>2, <2>1
  <2>3. PICK f : Iterates(f, V, b, Depth, step)
    BY <1>1, <2>2, DepthIsNumber, Nested
  <2>4. ASSUME NEW i \in 0 .. Depth
        PROVE  f[i] = IF i = 0 THEN b ELSE Once(f[i - 1])
    <3>1. CASE i = 0
      BY <2>3, <3>1 DEF Iterates
    <3>2. CASE i # 0
      <4>1. i \in 1 .. Depth /\ i - 1 \in 0 .. Depth
        BY <3>2, DepthIsNumber
      <4>2. f[i - 1] \in V
        BY <2>3, <4>1 DEF Iterates
      <4>3. f[i] = step[f[i - 1]]
        BY <2>3, <4>1 DEF Iterates
      <4> QED
        BY <2>1, <3>2, <4>2, <4>3
    <3> QED
      BY <3>1, <3>2
  <2>5. DOMAIN f = 0 .. Depth /\ f = [i \in DOMAIN f |-> f[i]]
    BY <2>3 DEF Iterates
  <2>6. f = [i \in 0 .. Depth |-> IF i = 0 THEN b ELSE Once(f[i - 1])]
    BY <2>4, <2>5
  <2> QED
    BY <2>6
<1>4. PICK g : g = CHOOSE f : Goes(f)
  OBVIOUS
<1>5. Goes(g)
  <2> HIDE DEF Goes
  <2> QED
    BY <1>3, <1>4
<1>6. ASSUME NEW w \in Worlds(D), NEW o
      PROVE  WriteToJson(w, o) = g[Depth][[world |-> w, written |-> {}]][o]
  <2>1. DOMAIN w.heap = D
    BY WorldFields
  <2> QED
    BY <1>4, <2>1 DEF WriteToJson
<1>7. ASSUME NEW d \in 0 .. Depth PROVE g[d] \in V
  <2> HIDE DEF V, Once, b
  <2>1. g[0] = b
    BY <1>5, DepthIsNumber
  <2>2. ASSUME NEW i \in 1 .. d, g[i - 1] \in V PROVE g[i] \in V
    <3>1. g[i] = Once(g[i - 1])
      BY <1>5, DepthIsNumber
    <3> QED
      BY <1>2, <2>2, <3>1
  <2> QED
    BY <1>1, <2>1, <2>2, Along
<1>8. /\ g[0] = b
      /\ \A d \in 1 .. Depth : g[d] = Once(g[d - 1])
  <2> HIDE DEF Once, b
  <2> QED
    BY <1>5, DepthIsNumber
<1>9. WriteCalls(D, g)
  BY <1>6, <1>7, <1>8 DEF WriteCalls
<1> QED
  BY <1>9

\* So write_package_to_json does, however deep it nests.
LEMMA WriteToJsonIn ==
  ASSUME NEW D, D \subseteq Object, NEW w \in Worlds(D), NEW o \in D
  PROVE  WriteToJson(w, o) \in KinWritings(D, w)
<1>1. PICK g : WriteCalls(D, g)
  BY WriteLevels
<1>2. /\ WriteToJson(w, o) = g[Depth][[world |-> w, written |-> {}]][o]
      /\ g[Depth] \in Writing(D)
  BY <1>1, DepthIsNumber DEF WriteCalls
<1>3. [world |-> w, written |-> {}] \in Writings(D)
  BY DEF Writings
<1> QED
  BY <1>2, <1>3 DEF Writing

\* And write_package_manager_to_file, in whatever order the map comes.
LEMMA WriteAllIn ==
  ASSUME NEW D, D \subseteq Object, NEW w \in Worlds(D), NEW order \in Seq(D)
  PROVE  WriteAll(w, order) \in KinWritings(D, w)
<1>1. DOMAIN w.heap = D
  BY WorldFields
<1> DEFINE I == KinWritings(D, w)
<1> DEFINE Joined(first, one) ==
        [one EXCEPT !.written =
           first \cup {o \in @ : NameOf(o) \notin NamesOf(first)}]
<1> DEFINE Write == [acc \in Writings(D) |-> [o \in D |->
        IF acc.world.failed # "no" THEN acc
        ELSE Joined(acc.written, WriteToJson(acc.world, o))]]
<1> DEFINE begin == [world |-> w, written |-> {}]
<1>2. begin \in I
  BY KinOf DEF KinWritings, Writings
<1>3. StaysIn(Write, I, D)
  <2> HIDE DEF I
  <2> SUFFICES ASSUME NEW acc \in I, NEW o \in D
               PROVE  Write[acc][o] \in I
    BY DEF StaysIn
  <2>1. /\ acc \in Writings(D) /\ acc.world \in Worlds(D)
        /\ acc.written \in SUBSET D /\ KinWritings(D, acc.world) = I
    BY KinWritingsWith DEF I
  <2>2. PICK one : one = WriteToJson(acc.world, o)
    OBVIOUS
  <2>3. one \in I
    BY <2>1, <2>2, WriteToJsonIn
  <2>4. acc.written \cup {p \in one.written : NameOf(p) \notin NamesOf(acc.written)}
          \in SUBSET D
    BY <2>1, <2>3, KinWritingsWith DEF I
  <2>5. Joined(acc.written, one) \in I
    BY <2>3, <2>4, KinWritingsWith DEF I
  <2> HIDE DEF Joined
  <2> QED
    BY <2>1, <2>2, <2>5
<1>4. WriteAll(w, order) = Loop(Write, begin, order)
  BY <1>1, Zenon DEF WriteAll
<1> HIDE DEF Write, begin, I
<1>5. WriteAll(w, order) \in I
  BY <1>2, <1>3, <1>4, LoopIn
<1> QED
  BY <1>5 DEF I

\* An order of a set is a sequence of its elements, and has all of them.
LEMMA OrdersIn ==
  ASSUME NEW S, IsFiniteSet(S), NEW order \in Orders(S)
  PROVE  /\ order \in Seq(S)
         /\ \A x \in S : \E i \in 1 .. Len(order) : order[i] = x
<1> DEFINE V == [SUBSET S -> SUBSET Seq(S)]
<1> DEFINE b == [T \in SUBSET S |-> {<<>>}]
<1> DEFINE Once(v) ==
      [T \in SUBSET S |-> UNION {{<<x>> \o q : q \in v[T \ {x}]} : x \in T}]
<1>1. PICK n \in Nat : n = Cardinality(S)
  BY FS_CardinalityType
<1> DEFINE Goes(f) == f = [i \in 0 .. n |-> IF i = 0 THEN b ELSE Once(f[i - 1])]
<1>2. b \in V
  BY EmptySeq
<1>3. \A v \in V : Once(v) \in V
  <2> SUFFICES ASSUME NEW v \in V PROVE Once(v) \in V
    OBVIOUS
  <2>1. ASSUME NEW T \in SUBSET S, NEW x \in T, NEW q \in v[T \ {x}]
        PROVE  <<x>> \o q \in Seq(S)
    <3>1. q \in Seq(S) /\ <<x>> \in Seq(S)
      OBVIOUS
    <3> QED
      BY <3>1, ConcatProperties
  <2>2. ASSUME NEW T \in SUBSET S
        PROVE  UNION {{<<x>> \o q : q \in v[T \ {x}]} : x \in T} \in SUBSET Seq(S)
    <3> SUFFICES ASSUME NEW x \in T, NEW e \in {<<x>> \o q : q \in v[T \ {x}]}
                 PROVE  e \in Seq(S)
      BY Zenon
    <3>1. PICK q \in v[T \ {x}] : e = <<x>> \o q
      BY Zenon
    <3> QED
      BY <2>1, <3>1, Zenon
  <2> QED
    BY <2>2
<1>4. \E f : Goes(f)
  <2> HIDE DEF V, Once, b
  <2>1. PICK step : step = [v \in V |-> Once(v)]
    OBVIOUS
  <2>2. step \in [V -> V]
    BY <1>3, <2>1
  <2>3. PICK f : Iterates(f, V, b, n, step)
    BY <1>2, <2>2, Nested
  <2>4. ASSUME NEW i \in 0 .. n
        PROVE  f[i] = IF i = 0 THEN b ELSE Once(f[i - 1])
    <3>1. CASE i = 0
      BY <2>3, <3>1 DEF Iterates
    <3>2. CASE i # 0
      <4>1. i \in 1 .. n /\ i - 1 \in 0 .. n
        BY <3>2
      <4>2. f[i - 1] \in V
        BY <2>3, <4>1 DEF Iterates
      <4>3. f[i] = step[f[i - 1]]
        BY <2>3, <4>1 DEF Iterates
      <4> QED
        BY <2>1, <3>2, <4>2, <4>3
    <3> QED
      BY <3>1, <3>2
  <2>5. DOMAIN f = 0 .. n /\ f = [i \in DOMAIN f |-> f[i]]
    BY <2>3 DEF Iterates
  <2>6. f = [i \in 0 .. n |-> IF i = 0 THEN b ELSE Once(f[i - 1])]
    BY <2>4, <2>5
  <2> QED
    BY <2>6
<1>5. PICK g : g = CHOOSE f : Goes(f)
  OBVIOUS
<1>6. Goes(g)
  <2> HIDE DEF Goes
  <2> QED
    BY <1>4, <1>5
<1>7. Orders(S) = g[n][S]
  BY <1>1, <1>5 DEF Orders
<1>8. g[n] \in V
  <2> HIDE DEF V, Once, b
  <2>1. g[0] = b
    BY <1>6
  <2>2. ASSUME NEW i \in 1 .. n, g[i - 1] \in V PROVE g[i] \in V
    <3>1. g[i] = Once(g[i - 1])
      BY <1>6
    <3> QED
      BY <1>3, <2>2, <3>1
  <2> QED
    BY <1>2, <2>1, <2>2, Along
<1> DEFINE Meets(q, T) == \A x \in T : \E i \in 1 .. Len(q) : q[i] = x
<1> DEFINE K == {m \in Nat : m <= n =>
                   \A T \in SUBSET S : Cardinality(T) <= m =>
                     \A q \in g[m][T] : q \in Seq(S) /\ Meets(q, T)}
<1>9. 0 \in K
  <2> SUFFICES ASSUME NEW T \in SUBSET S, Cardinality(T) <= 0, NEW q \in g[0][T]
               PROVE  q \in Seq(S) /\ Meets(q, T)
    OBVIOUS
  <2>1. IsFiniteSet(T)
    BY FS_Subset
  <2>2. T = {}
    BY <2>1, FS_CardinalityType, FS_EmptySet
  <2>3. g[0] = b
    BY <1>6
  <2>4. q = <<>>
    BY <2>3
  <2> QED
    BY <2>2, <2>4, EmptySeq
<1>10. ASSUME NEW m \in Nat, m \in K PROVE m + 1 \in K
  <2> SUFFICES ASSUME m + 1 <= n, NEW T \in SUBSET S, Cardinality(T) <= m + 1,
                      NEW q \in g[m + 1][T]
               PROVE  q \in Seq(S) /\ Meets(q, T)
    <3> HIDE DEF Meets, Once
    <3> QED
      OBVIOUS
  <2>1. g[m + 1] = Once(g[m])
    <3> HIDE DEF V, Once, b
    <3>1. PICK i \in 1 .. n : i = m + 1
      OBVIOUS
    <3>2. g[i] = Once(g[i - 1]) /\ i - 1 = m
      BY <1>6, <3>1
    <3> QED
      BY <3>1, <3>2
  <2>2. q \in UNION {{<<x>> \o p : p \in g[m][T \ {x}]} : x \in T}
    BY <2>1
  <2>3. PICK x \in T : q \in {<<x>> \o p : p \in g[m][T \ {x}]}
    BY <2>2, Zenon
  <2>4. PICK p \in g[m][T \ {x}] : q = <<x>> \o p
    BY <2>3, Zenon
  <2>5. IsFiniteSet(T) /\ Cardinality(T \ {x}) = Cardinality(T) - 1
    BY FS_Subset, FS_RemoveElement
  <2>6. Cardinality(T) \in Nat /\ Cardinality(T \ {x}) <= m
    BY <2>5, FS_CardinalityType
  <2>7. p \in Seq(S) /\ Meets(p, T \ {x})
    <3>1. T \ {x} \in SUBSET S /\ m <= n
      OBVIOUS
    <3> HIDE DEF Meets
    <3> QED
      BY <1>10, <2>4, <2>6, <3>1
  <2>8. x \in S /\ <<x>> \in Seq(S) /\ Len(<<x>>) = 1 /\ <<x>>[1] = x
    BY <2>4
  <2>9. /\ q \in Seq(S) /\ Len(q) = 1 + Len(p) /\ Len(p) \in Nat
        /\ q[1] = x /\ \A i \in 1 .. Len(p) : q[i + 1] = p[i]
    BY <2>4, <2>7, <2>8, ConcatProperties, LenProperties
  <2>10. ASSUME NEW y \in T PROVE \E i \in 1 .. Len(q) : q[i] = y
    <3>1. CASE y = x
      BY <2>9, <3>1
    <3>2. CASE y # x
      <4>1. PICK i \in 1 .. Len(p) : p[i] = y
        BY <2>7, <3>2
      <4>2. i + 1 \in 1 .. Len(q) /\ q[i + 1] = y
        BY <2>9, <4>1
      <4> QED
        BY <4>2
    <3> QED
      BY <3>1, <3>2
  <2> QED
    BY <2>9, <2>10
<1> HIDE DEF K
<1>11. n \in K
  BY <1>9, <1>10, Induction
<1>12. Cardinality(S) <= n /\ S \in SUBSET S
  BY <1>1
<1> QED
  BY <1>7, <1>11, <1>12 DEF K

-----------------------------------------------------------------------------
(* What is live, erased and updated *)

\* What can be reached in a heap are finitely many of its objects.
LEMMA WorldNodes ==
  ASSUME NEW D, D \subseteq Object, NEW h \in [D -> Fields(D)], NEW S \in SUBSET D
  PROVE  IsFiniteSet(Nodes(h, S)) /\ Closed(h, D)
<1>1. \A x \in D : h[x].reqs \subseteq D
  BY DEF Fields
<1>2. Nodes(h, S) \subseteq D
  BY <1>1 DEF Nodes
<1>3. IsFiniteSet(D)
  BY ObjectsFinite
<1>4. IsFiniteSet(Nodes(h, S))
  BY <1>2, <1>3, FS_Subset
<1>5. Closed(h, D)
  BY <1>1 DEF Closed
<1> QED
  BY <1>4, <1>5

\* Without the objects that nothing reaches the others are what they were.
LEMMA LiveIn ==
  ASSUME NEW D, D \subseteq Object, NEW w \in Worlds(D), NEW h,
         h = [o \in Live(w) |-> w.heap[o]]
  PROVE  /\ Live(w) \subseteq D
         /\ w.map \subseteq Live(w)
         /\ h \in [Live(w) -> Fields(Live(w))]
         /\ Closure(h, w.map) = Live(w)
<1> DEFINE L == Live(w)
<1>1. w.heap \in [D -> Fields(D)] /\ w.map \in SUBSET D
  BY WorldFields
<1>2. /\ w.map \subseteq L
      /\ Closed(w.heap, L)
      /\ \A U : w.map \subseteq U /\ Closed(w.heap, U) => L \subseteq U
  BY <1>1, WorldNodes, ClosureIs DEF Live
<1>3. L \subseteq D
  BY <1>1, <1>2, WorldNodes
<1>4. \A o \in L : w.heap[o].reqs \subseteq L
  BY <1>1, <1>2, <1>3 DEF Closed
<1>5. h \in [L -> Fields(L)]
  <2>1. \A o \in L : w.heap[o] \in Fields(L)
    BY <1>1, <1>3, <1>4 DEF Fields
  <2> HIDE DEF L
  <2> QED
    BY <2>1 DEF L
<1>6. Closure(h, w.map) = L
  <2> HIDE DEF L
  <2>1. L \subseteq Object /\ w.map \in SUBSET L
    BY <1>2, <1>3
  <2>2. /\ w.map \subseteq Closure(h, w.map)
        /\ Closed(h, Closure(h, w.map))
        /\ \A U : w.map \subseteq U /\ Closed(h, U) => Closure(h, w.map) \subseteq U
    BY <1>5, <2>1, WorldNodes, ClosureIs
  <2>3. Closure(h, w.map) \subseteq L
    BY <1>2, <1>5, <2>1, <2>2, WorldNodes
  <2>4. \A o \in L : h[o] = w.heap[o]
    BY DEF L
  <2>5. Closed(w.heap, Closure(h, w.map))
    BY <1>5, <2>2, <2>3, <2>4 DEF Closed
  <2> QED
    BY <1>2, <2>2, <2>3, <2>5
<1> QED
  BY <1>2, <1>3, <1>5, <1>6

\* Erasing names takes the users with those names away and nobody else.
LEMMA EraseIn ==
  ASSUME NEW D, NEW w \in Worlds(D), OneEach(w.map), NEW names
  PROVE  /\ Erase(w, names) \in Worlds(D)
         /\ OneEach(Erase(w, names).map)
         /\ Users(Erase(w, names)) = {o \in Users(w) : NameOf(o) \notin names}
<1>1. /\ Erase(w, names) \in Worlds(D)
      /\ Erase(w, names).heap = w.heap
      /\ Erase(w, names).map = {o \in w.map : NameOf(o) \notin names}
  BY WorldFields DEF Erase, Worlds
<1>2. OneEach(Erase(w, names).map)
  BY <1>1 DEF OneEach
<1> QED
  BY <1>1, <1>2 DEF Users

\* map_erase_visit erases the package itself and what is not marked.
LEMMA EraseVisitIn ==
  ASSUME NEW D, D \subseteq Object, NEW w \in Worlds(D), NEW o \in D, NEW marked,
         NEW x \in EraseVisit(w, o, marked)
  PROVE  x = o \/ NameOf(x) \notin marked
<1> DEFINE Passes(r) == NameOf(r) \notin marked /\ ~w.heap[r].using
<1> DEFINE graph == [y \in D |-> [reqs |-> {r \in w.heap[y].reqs : Passes(r)}]]
<1> DEFINE U == {o} \cup {y \in D : Passes(y)}
<1>1. w.heap \in [D -> Fields(D)] /\ DOMAIN w.heap = D
  BY WorldFields
<1>2. DOMAIN graph = D /\ \A y \in D : graph[y].reqs = {r \in w.heap[y].reqs : Passes(r)}
  OBVIOUS
<1>3. \A y \in D : w.heap[y].reqs \subseteq D
  BY <1>1 DEF Fields
<1>4. EraseVisit(w, o, marked) = Closure(graph, {o})
  BY <1>1 DEF EraseVisit
<1> HIDE DEF graph
<1>5. IsFiniteSet(Nodes(graph, {o}))
  <2>1. Nodes(graph, {o}) \subseteq D
    BY <1>2, <1>3 DEF Nodes
  <2> QED
    BY <2>1, ObjectsFinite, FS_Subset
<1>6. Closed(graph, U)
  BY <1>2, <1>3 DEF Closed
<1>7. Closure(graph, {o}) \subseteq U
  <2>1. {o} \subseteq U
    OBVIOUS
  <2> HIDE DEF U
  <2> QED
    BY <1>5, <1>6, <2>1, ClosureIs
<1> QED
  BY <1>4, <1>7

\* remove takes no package of a user away but the one it is called for.
LEMMA ManagerRemoveIn ==
  ASSUME NEW D, D \subseteq Object, NEW w \in Worlds(D), OneEach(w.map),
         NEW o \in w.map, NEW V, Users(w) \ {o} \subseteq V
  PROVE  /\ ManagerRemove(w, o, V) \in Worlds(D)
         /\ OneEach(ManagerRemove(w, o, V).map)
         /\ \A u \in Users(w) : u = o \/ u \in Users(ManagerRemove(w, o, V))
<1>1. CASE NameOf(o) \in NamesOf(V)
  <2> DEFINE e == "this package is using by other"
  <2>1. e \in Failures
    BY DEF Failures
  <2>2. Fail(w, e) \in Kin(D, w)
    BY <2>1, KinOf, KinFail
  <2>3. ManagerRemove(w, o, V) = Fail(w, e)
    BY <1>1 DEF ManagerRemove
  <2> HIDE DEF e
  <2> QED
    BY <2>2, <2>3, KinOf
<1>2. CASE NameOf(o) \notin NamesOf(V)
  <2> DEFINE names == NamesOf(EraseVisit(w, o, NamesOf(V)))
  <2>1. ManagerRemove(w, o, V) = Erase(w, names)
    BY <1>2 DEF ManagerRemove
  <2>2. ASSUME NEW u \in Users(w), u # o PROVE NameOf(u) \notin names
    <3> SUFFICES ASSUME NEW x \in EraseVisit(w, o, NamesOf(V)), NameOf(x) = NameOf(u)
                 PROVE  FALSE
      BY DEF NamesOf
    <3>1. u \in w.map /\ NameOf(u) \in NamesOf(V)
      BY <2>2 DEF Users, NamesOf
    <3>2. x = o
      BY <3>1, EraseVisitIn, WorldFields
    <3> QED
      BY <2>2, <3>1, <3>2 DEF OneEach
  <2> HIDE DEF names
  <2> QED
    BY <2>1, <2>2, EraseIn
<1> QED
  BY <1>1, <1>2

\* remove_unuse takes no package of a user away.
LEMMA ManagerRemoveUnuseIn ==
  ASSUME NEW D, NEW w \in Worlds(D), OneEach(w.map), NEW V, Users(w) \subseteq V
  PROVE  /\ ManagerRemoveUnuse(w, V) \in Worlds(D)
         /\ OneEach(ManagerRemoveUnuse(w, V).map)
         /\ Users(ManagerRemoveUnuse(w, V)) = Users(w)
<1> DEFINE names == NamesOf(w.map) \ NamesOf(V)
<1>1. ManagerRemoveUnuse(w, V) = Erase(w, names)
  BY DEF ManagerRemoveUnuse
<1>2. \A u \in Users(w) : NameOf(u) \notin names
  BY DEF NamesOf
<1> HIDE DEF names
<1>3. /\ Erase(w, names) \in Worlds(D)
      /\ OneEach(Erase(w, names).map)
      /\ Users(Erase(w, names)) = {o \in Users(w) : NameOf(o) \notin names}
  BY EraseIn
<1> QED
  BY <1>1, <1>2, <1>3

\* global_update leaves the map and the flags alone.
LEMMA ManagerGlobalUpdateIn ==
  ASSUME NEW D, NEW w \in Worlds(D)
  PROVE  /\ ManagerGlobalUpdate(w) \in Worlds(D)
         /\ ManagerGlobalUpdate(w).map = w.map
         /\ Users(ManagerGlobalUpdate(w)) = Users(w)
<1>0. w.heap \in [D -> Fields(D)] /\ DOMAIN w.heap = D /\ w.map \subseteq D
  BY WorldFields
<1> DEFINE f(o) == [w.heap[o] EXCEPT !.current = w.heap[o].last]
<1> DEFINE h == [o \in D |-> IF o \in w.map THEN f(o) ELSE w.heap[o]]
<1>1. \A o \in D : f(o) \in Fields(D) /\ f(o).using = w.heap[o].using
  BY <1>0 DEF Fields
<1>2. ManagerGlobalUpdate(w) = [w EXCEPT !.heap = h]
  BY <1>0, Zenon DEF ManagerGlobalUpdate
<1> HIDE DEF f
<1>3. h \in [D -> Fields(D)] /\ \A o \in D : h[o].using = w.heap[o].using
  BY <1>0, <1>1
<1> HIDE DEF h
<1>4. /\ [w EXCEPT !.heap = h] \in Worlds(D)
      /\ [w EXCEPT !.heap = h].map = w.map
      /\ [w EXCEPT !.heap = h].heap = h
  BY <1>3, WorldFields DEF Worlds
<1> QED
  BY <1>0, <1>2, <1>3, <1>4 DEF Users

-----------------------------------------------------------------------------
(* What the removals leave, if the objects are those of the map *)

\* The threads visit what can be reached, and nothing else, if no two objects
\* have one name: then colours by name are as good as colours of objects.
LEMMA VisitedReaches ==
  ASSUME NEW D, D \subseteq Object, NEW w \in Worlds(D), OneEach(D),
         NEW users \in SUBSET D, NEW V \in Visited(w, users)
  PROVE  /\ V = Closure(w.heap, users)
         /\ users \subseteq V /\ V \in SUBSET D
         /\ \A o \in V : w.heap[o].reqs \subseteq V
<1> DEFINE C == Closure(w.heap, users)
<1>1. w.heap \in [D -> Fields(D)] /\ DOMAIN w.heap = D
  BY WorldFields
<1>2. \A o \in D : w.heap[o].reqs \subseteq D
  BY <1>1 DEF Fields
<1>3. IsFiniteSet(Nodes(w.heap, users)) /\ Closed(w.heap, D)
  BY <1>1, WorldNodes
<1>4. C \subseteq D
  BY <1>3, ClosureIs
<1>5. /\ V \subseteq C /\ users \subseteq V
      /\ \A o \in V : NamesOf(w.heap[o].reqs) \subseteq NamesOf(V)
  BY DEF Visited
<1> HIDE DEF C
<1>6. ASSUME NEW o \in V, NEW r \in w.heap[o].reqs
      PROVE  r \in V
  <2>1. o \in D /\ r \in D
    BY <1>2, <1>4, <1>5
  <2>2. NameOf(r) \in NamesOf(V)
    BY <1>5 DEF NamesOf
  <2>3. PICK p \in V : NameOf(p) = NameOf(r)
    BY <2>2 DEF NamesOf
  <2>4. p \in D
    BY <1>4, <1>5
  <2> QED
    BY <2>1, <2>3, <2>4 DEF OneEach
<1>7. Closed(w.heap, V)
  BY <1>6 DEF Closed
<1>8. C \subseteq V
  BY <1>3, <1>5, <1>7, ClosureIs DEF C
<1> QED
  BY <1>4, <1>5, <1>6, <1>8 DEF C

\* What is closed under requirements lives on its own.
LEMMA ClosedLives ==
  ASSUME NEW D, D \subseteq Object, NEW w \in Worlds(D),
         \A o \in w.map : w.heap[o].reqs \subseteq w.map
  PROVE  Live(w) = w.map
<1>1. w.heap \in [D -> Fields(D)] /\ w.map \in SUBSET D
  BY WorldFields
<1>2. IsFiniteSet(Nodes(w.heap, w.map))
  BY <1>1, WorldNodes
<1>3. Closed(w.heap, w.map)
  BY DEF Closed
<1>4. PICK S : S = w.map
  OBVIOUS
<1>5. S \subseteq Closure(w.heap, S) /\ Closure(w.heap, S) \subseteq S
  BY <1>2, <1>3, <1>4, ClosureIs
<1> QED
  BY <1>4, <1>5 DEF Live

\* Erasing the names of all but a part of the map leaves that part.
LEMMA EraseLeaves ==
  ASSUME NEW D, D \subseteq Object, NEW w \in Worlds(D), D = w.map, OneEach(D),
         NEW V \in SUBSET D, \A o \in V : w.heap[o].reqs \subseteq V,
         NEW names, \A o \in D : NameOf(o) \in names <=> o \notin V
  PROVE  Erase(w, names).map = V /\ Live(Erase(w, names)) = V
<1>1. /\ Erase(w, names) \in Worlds(D)
      /\ Erase(w, names).heap = w.heap
      /\ Erase(w, names).map = {o \in w.map : NameOf(o) \notin names}
  BY WorldFields DEF Erase, Worlds
<1>2. Erase(w, names).map = V
  BY <1>1
<1>3. Live(Erase(w, names)) = Erase(w, names).map
  BY <1>1, <1>2, ClosedLives
<1> QED
  BY <1>2, <1>3

\* Where no two objects have one name, names tell members apart.
LEMMA NamesTell ==
  ASSUME NEW D, OneEach(D), NEW S \in SUBSET D, NEW x \in D
  PROVE  NameOf(x) \in NamesOf(S) <=> x \in S
BY DEF NamesOf, OneEach

\* remove_unuse, from whatever state in which the objects are those of the map:
\* what is left is what users asked for and what that needs, however far, and
\* the objects are again those of the map.  Its threads find the same whatever
\* their order.
THEOREM SweepLeavesNeeded ==
  ASSUME NEW D, D \subseteq Object, NEW w \in Worlds(D), D = w.map, OneEach(D),
         NEW V \in Visited(w, Users(w))
  PROVE  /\ ManagerRemoveUnuse(w, V).map = Closure(w.heap, Users(w))
         /\ Live(ManagerRemoveUnuse(w, V)) = ManagerRemoveUnuse(w, V).map
<1>1. Users(w) \in SUBSET D
  BY DEF Users
<1>2. /\ V = Closure(w.heap, Users(w))
      /\ V \in SUBSET D
      /\ \A o \in V : w.heap[o].reqs \subseteq V
  BY <1>1, VisitedReaches
<1> DEFINE names == NamesOf(w.map) \ NamesOf(V)
<1>3. \A o \in D : NameOf(o) \in names <=> o \notin V
  <2> TAKE o \in D
  <2>1. NameOf(o) \in NamesOf(V) <=> o \in V
    BY <1>2, NamesTell
  <2>2. NameOf(o) \in NamesOf(w.map)
    BY DEF NamesOf
  <2> QED
    BY <2>1, <2>2
<1>4. ManagerRemoveUnuse(w, V) = Erase(w, names)
  BY DEF ManagerRemoveUnuse
<1> HIDE DEF names
<1>5. Erase(w, names).map = V /\ Live(Erase(w, names)) = V
  BY <1>2, <1>3, EraseLeaves
<1> QED
  BY <1>2, <1>4, <1>5

\* map_erase_visit goes on to all that is required, not marked and no user's.
LEMMA EraseVisitGoesOn ==
  ASSUME NEW D, D \subseteq Object, NEW w \in Worlds(D), NEW o \in D, NEW marked
  PROVE  /\ o \in EraseVisit(w, o, marked)
         /\ EraseVisit(w, o, marked) \in SUBSET D
         /\ \A x \in EraseVisit(w, o, marked), r \in D :
              r \in w.heap[x].reqs /\ NameOf(r) \notin marked /\ ~w.heap[r].using
                => r \in EraseVisit(w, o, marked)
<1> DEFINE Passes(r) == NameOf(r) \notin marked /\ ~w.heap[r].using
<1> DEFINE graph == [y \in D |-> [reqs |-> {r \in w.heap[y].reqs : Passes(r)}]]
<1>1. w.heap \in [D -> Fields(D)] /\ DOMAIN w.heap = D
  BY WorldFields
<1>2. /\ DOMAIN graph = D
      /\ \A y \in D : graph[y].reqs = {r \in w.heap[y].reqs : Passes(r)}
  OBVIOUS
<1>3. \A y \in D : w.heap[y].reqs \subseteq D
  BY <1>1 DEF Fields
<1>4. EraseVisit(w, o, marked) = Closure(graph, {o})
  BY <1>1 DEF EraseVisit
<1> HIDE DEF graph
<1>5. IsFiniteSet(Nodes(graph, {o}))
  <2>1. Nodes(graph, {o}) \subseteq D
    BY <1>2, <1>3 DEF Nodes
  <2> QED
    BY <2>1, ObjectsFinite, FS_Subset
<1>6. Closed(graph, D)
  BY <1>2, <1>3 DEF Closed
<1>7. PICK E : E = Closure(graph, {o})
  OBVIOUS
<1>8. o \in E /\ E \subseteq D /\ Closed(graph, E)
  <2>1. {o} \subseteq D
    OBVIOUS
  <2> QED
    BY <1>5, <1>6, <1>7, <2>1, ClosureIs
<1>9. ASSUME NEW x \in E, NEW r \in D,
             r \in w.heap[x].reqs, NameOf(r) \notin marked, ~w.heap[r].using
      PROVE  r \in E
  <2>1. x \in D /\ r \in graph[x].reqs
    BY <1>2, <1>8, <1>9
  <2> QED
    BY <1>2, <1>8, <2>1 DEF Closed
<1> QED
  BY <1>4, <1>7, <1>8, <1>9

\* remove, from a state in which the objects are those of the map and all of
\* them are needed: it is refused exactly for what other users need, and else
\* leaves what they need, however far, and nothing more; the objects are again
\* those of the map.  Requirements may turn around, and be shared.
THEOREM RemoveLeavesNeeded ==
  ASSUME NEW D, D \subseteq Object, NEW w \in Worlds(D), D = w.map, OneEach(D),
         w.map = Closure(w.heap, Users(w)), w.failed = "no",
         NEW o \in w.map, NEW V \in Visited(w, Users(w) \ {o})
  PROVE  LET left == ManagerRemove(w, o, V)
             needed == Closure(w.heap, Users(w) \ {o})
         IN  /\ left.failed = "no" <=> o \notin needed
             /\ left.failed # "no" => left.map = w.map
             /\ left.failed = "no" => left.map = needed /\ Live(left) = needed
<1> DEFINE U == Users(w) \ {o}
<1> DEFINE E == EraseVisit(w, o, NamesOf(V))
<1>1. w.heap \in [D -> Fields(D)] /\ DOMAIN w.heap = D
  BY WorldFields
<1>2. U \in SUBSET D /\ Users(w) \in SUBSET D
  BY DEF Users
<1>3. /\ V = Closure(w.heap, U)
      /\ U \subseteq V /\ V \in SUBSET D
      /\ \A x \in V : w.heap[x].reqs \subseteq V
  BY <1>2, VisitedReaches
<1>4. \A x \in D : NameOf(x) \in NamesOf(V) <=> x \in V
  <2>1. V \in SUBSET D
    BY <1>3
  <2> TAKE x \in D
  <2> QED
    BY <2>1, NamesTell
<1>5. CASE o \in V
  <2> DEFINE e == "this package is using by other"
  <2>1. ManagerRemove(w, o, V) = Fail(w, e)
    BY <1>4, <1>5 DEF ManagerRemove
  <2>2. Fail(w, e).failed = e /\ Fail(w, e).map = w.map
    BY WorldFields DEF Fail, Worlds
  <2> QED
    BY <1>3, <1>5, <2>1, <2>2
<1>6. CASE o \notin V
  <2>1. ManagerRemove(w, o, V) = Erase(w, NamesOf(E))
    BY <1>4, <1>6 DEF ManagerRemove
  <2>2. /\ o \in E /\ E \in SUBSET D
        /\ \A x \in E, r \in D :
             r \in w.heap[x].reqs /\ r \notin V /\ ~w.heap[r].using => r \in E
    BY <1>4, EraseVisitGoesOn
  <2>3. \A x \in E : x \notin V
    <3> TAKE x \in E
    <3>1. x = o \/ NameOf(x) \notin NamesOf(V)
      BY EraseVisitIn
    <3> QED
      BY <1>4, <1>6, <2>2, <3>1
  <2> HIDE DEF E
  <2>4. ASSUME NEW x \in E \cup V, NEW r \in w.heap[x].reqs
        PROVE  r \in E \cup V
    <3>1. x \in D /\ r \in D
      BY <1>1, <1>3, <2>2 DEF Fields
    <3>2. CASE x \in V
      BY <1>3, <3>2
    <3>3. CASE x \in E /\ r \notin V
      <4>1. w.heap[r].using => r = o
        BY <1>3, <3>1, <3>3 DEF Users
      <4> QED
        BY <2>2, <3>1, <3>3, <4>1
    <3> QED
      BY <3>2, <3>3
  <2>5. Closed(w.heap, E \cup V)
    BY <2>4 DEF Closed
  <2>6. Users(w) \subseteq E \cup V
    BY <1>3, <2>2
  <2>7. D \subseteq E \cup V
    <3>1. IsFiniteSet(Nodes(w.heap, Users(w)))
      BY <1>1, <1>2, WorldNodes
    <3>2. PICK W : W = E \cup V
      OBVIOUS
    <3>3. Closure(w.heap, Users(w)) \subseteq W
      BY <2>5, <2>6, <3>1, <3>2, ClosureIs
    <3> QED
      BY <3>2, <3>3
  <2>8. \A x \in D : NameOf(x) \in NamesOf(E) <=> x \notin V
    <3> TAKE x \in D
    <3>1. NameOf(x) \in NamesOf(E) <=> x \in E
      BY <2>2, NamesTell
    <3> QED
      BY <2>3, <2>7, <3>1
  <2>9. PICK names : names = NamesOf(E)
    OBVIOUS
  <2>10. Erase(w, names).map = V /\ Live(Erase(w, names)) = V
    <3>1. \A x \in D : NameOf(x) \in names <=> x \notin V
      BY <2>8, <2>9
    <3>2. V \in SUBSET D /\ \A x \in V : w.heap[x].reqs \subseteq V
      BY <1>3
    <3> HIDE DEF U
    <3> QED
      BY <3>1, <3>2, EraseLeaves
  <2>11. Erase(w, names).failed = "no"
    BY WorldFields DEF Erase, Worlds
  <2> QED
    BY <1>3, <1>6, <2>1, <2>9, <2>10, <2>11
<1> QED
  BY <1>5, <1>6

-----------------------------------------------------------------------------
(* Files *)

\* What can be reached in a file are finitely many names.
LEMMA FileNodes ==
  ASSUME NEW file, IsFile(file), NEW S, IsFiniteSet(S)
  PROVE  /\ IsFiniteSet(Nodes(file, S))
         /\ \A n \in DOMAIN file : file[n] \in Fields(Name) /\ n \in Name
<1>1. \A n \in DOMAIN file : file[n] \in Fields(Name) /\ n \in Name
  BY DEF IsFile
<1>2. \A n \in DOMAIN file : file[n].reqs \subseteq Name
  BY <1>1 DEF Fields
<1>3. Nodes(file, S) \subseteq S \cup Name
  BY <1>2 DEF Nodes
<1>4. IsFiniteSet(S \cup Name)
  BY NameAssumption, FS_Union
<1> QED
  BY <1>1, <1>3, <1>4, FS_Subset

\* The tree that is read has the name it is read for, and what its members
\* require.
LEMMA Readings ==
  ASSUME NEW file, IsFile(file), NEW n, CanRead(file, n)
  PROVE  /\ n \in Closure(file, {n})
         /\ Closure(file, {n}) \subseteq DOMAIN file
         /\ Closure(file, {n}) \subseteq Name
         /\ \A m \in Closure(file, {n}) : file[m].reqs \subseteq Closure(file, {n})
<1>1. IsFiniteSet(Nodes(file, {n}))
  BY FileNodes, FS_Singleton
<1>2. n \in Closure(file, {n}) /\ Closed(file, Closure(file, {n}))
  BY <1>1, ClosureIs
<1>3. Closure(file, {n}) \subseteq DOMAIN file
  BY DEF CanRead
<1>4. Closure(file, {n}) \subseteq Name
  BY <1>3 DEF IsFile
<1> QED
  BY <1>2, <1>3, <1>4 DEF Closed

\* A new object is an object, is not there yet and has the name it is for.
LEMMA NewObjectIn ==
  ASSUME NEW w, NEW names, names \subseteq Name, HasRoom(w, names), NEW n \in names
  PROVE  /\ NewObject(w, n) \in Object
         /\ NewObject(w, n) \notin DOMAIN w.heap
         /\ NameOf(NewObject(w, n)) = n
<1> DEFINE K == {k \in Stamp : <<n, k>> \notin DOMAIN w.heap}
<1>1. K \subseteq Nat /\ K # {}
  BY StampAssumption DEF HasRoom
<1>2. \E k \in Stamp : /\ <<n, k>> \notin DOMAIN w.heap
                       /\ \A j \in Stamp : <<n, j>> \notin DOMAIN w.heap => k <= j
  <2>1. PICK k \in K : \A j \in K : k <= j
    BY <1>1, LeastNumber
  <2> QED
    BY <2>1
<1>3. PICK k \in Stamp : NewObject(w, n) = <<n, k>> /\ <<n, k>> \notin DOMAIN w.heap
  BY <1>2, Zenon DEF NewObject
<1> QED
  BY <1>3 DEF Object, NameOf

\* What is read is new: it changes nothing of what is installed.
LEMMA ReadPackageIn ==
  ASSUME NEW D, D \subseteq Object, NEW w \in Worlds(D), NEW file, IsFile(file),
         NEW n, CanRead(file, n), HasRoom(w, Closure(file, {n}))
  PROVE  \E E : /\ D \subseteq E /\ E \subseteq Object
                /\ ReadPackage(w, file, n) \in Worlds(E)
                /\ NewObject(w, n) \in E
                /\ ReadPackage(w, file, n).map = w.map
                /\ Users(ReadPackage(w, file, n)) = Users(w)
<1> DEFINE R == Closure(file, {n})
<1> DEFINE new == {NewObject(w, m) : m \in R}
<1> DEFINE E == D \cup new
<1> DEFINE f(o) == [file[NameOf(o)] EXCEPT !.reqs = {NewObject(w, q) : q \in @}]
<1> DEFINE g == [o \in new |-> f(o)]
<1> DEFINE h == Over(w.heap, g)
<1>1. w.heap \in [D -> Fields(D)] /\ DOMAIN w.heap = D /\ w.map \subseteq D
  BY WorldFields
<1>2. /\ n \in R /\ R \subseteq DOMAIN file /\ R \subseteq Name
      /\ \A m \in R : file[m].reqs \subseteq R
  BY Readings
<1> HIDE DEF R
<1>3. \A m \in R : /\ NewObject(w, m) \in Object
                   /\ NewObject(w, m) \notin D
                   /\ NameOf(NewObject(w, m)) = m
  BY <1>1, <1>2, NewObjectIn DEF R
<1>4. new \subseteq Object /\ new \cap D = {} /\ \A o \in new : NameOf(o) \in R
  BY <1>3
<1>5. ASSUME NEW o \in new PROVE f(o) \in Fields(E)
  <2>1. NameOf(o) \in R /\ file[NameOf(o)] \in Fields(Name)
    BY <1>2, <1>4 DEF IsFile
  <2>2. {NewObject(w, q) : q \in file[NameOf(o)].reqs} \subseteq new
    BY <1>2, <2>1
  <2> QED
    BY <2>1, <2>2 DEF Fields
<1>6. \A o \in D : w.heap[o] \in Fields(E)
  BY <1>1 DEF Fields
<1> HIDE DEF f, new
<1>7. h \in [E -> Fields(E)] /\ \A o \in D : h[o] = w.heap[o]
  BY <1>1, <1>5, <1>6 DEF Over
<1>8. ReadPackage(w, file, n) = [w EXCEPT !.heap = h]
  BY Zenon DEF ReadPackage, f, new, R
<1> HIDE DEF h
<1>9. /\ [w EXCEPT !.heap = h] \in Worlds(E)
      /\ [w EXCEPT !.heap = h].map = w.map
      /\ [w EXCEPT !.heap = h].heap = h
  BY <1>1, <1>7, WorldFields DEF Worlds
<1>10. Users([w EXCEPT !.heap = h]) = Users(w)
  BY <1>1, <1>7, <1>9 DEF Users
<1>11. NewObject(w, n) \in E /\ D \subseteq E /\ E \subseteq Object
  BY <1>2, <1>4 DEF new
<1> HIDE DEF E
<1> QED
  BY <1>8, <1>9, <1>10, <1>11

\* A package that is wrapped is what it was otherwise.
LEMMA WrapIn ==
  ASSUME NEW D, NEW w \in Worlds(D), NEW o \in D
  PROVE  /\ Wrap(w, o) \in Worlds(D)
         /\ Wrap(w, o).map = w.map
         /\ Users(Wrap(w, o)) = Users(w)
<1>0. w.heap \in [D -> Fields(D)] /\ w.map \subseteq D
  BY WorldFields
<1>1. PICK b \in BOOLEAN : b = TRUE
  BY Zenon
<1> DEFINE f == [w.heap[o] EXCEPT !.wrapped = b]
<1> DEFINE x == [w EXCEPT !.heap = [w.heap EXCEPT ![o] = f]]
<1>2. f \in Fields(D) /\ f.using = w.heap[o].using
  BY <1>0 DEF Fields
<1>3. Wrap(w, o) = x
  BY <1>1, Zenon DEF Wrap
<1> HIDE DEF f
<1>4. x \in Worlds(D) /\ x.map = w.map /\ x.heap = [w.heap EXCEPT ![o] = f]
  BY <1>0, <1>2, WorldFields DEF Worlds
<1>5. Users(x) = Users(w)
  BY <1>0, <1>2, <1>4 DEF Users
<1> QED
  BY <1>3, <1>4, <1>5

\* The entries that are written make a file.
LEMMA EntriesIn ==
  ASSUME NEW D, D \subseteq Object, NEW x \in Writings(D)
  PROVE  IsFile(Entries(x))
<1>0. x.world.heap \in [D -> Fields(D)] /\ x.written \in SUBSET D
  BY KinWritingsOf, WorldFields
<1>1. ASSUME NEW o \in D PROVE EntryOf(x.world.heap, o) \in Fields(Name)
  <2>1. x.world.heap[o] \in Fields(D)
    BY <1>0
  <2>2. NamesOf(x.world.heap[o].reqs) \subseteq Name
    BY <2>1, ObjectNames DEF Fields, NamesOf
  <2> QED
    BY <2>1, <2>2 DEF EntryOf, Fields
<1>2. NamesOf(x.written) \subseteq Name
  BY <1>0, ObjectNames DEF NamesOf
<1>3. ASSUME NEW n \in NamesOf(x.written)
      PROVE  (CHOOSE o \in x.written : NameOf(o) = n) \in D
  BY <1>0 DEF NamesOf
<1>4. /\ DOMAIN Entries(x) = NamesOf(x.written)
      /\ Entries(x) \in [NamesOf(x.written) -> Fields(Name)]
  BY <1>1, <1>3 DEF Entries
<1> QED
  BY <1>2, <1>4 DEF IsFile

\* A file over a file is a file.
LEMMA OverIn ==
  ASSUME NEW f, NEW g, IsFile(f), IsFile(g)
  PROVE  IsFile(Over(f, g))
<1> DEFINE B == DOMAIN f \cup DOMAIN g
<1>1. DOMAIN Over(f, g) = B /\ B \subseteq Name
  BY DEF Over, IsFile
<1>2. \A n \in B : (IF n \in DOMAIN f THEN f[n] ELSE g[n]) \in Fields(Name)
  BY DEF IsFile
<1>3. Over(f, g) \in [B -> Fields(Name)]
  BY <1>2 DEF Over
<1> QED
  BY <1>1, <1>3 DEF IsFile

\* What the using entries of a file need, if the reader reads their trees.
LEMMA StoredIn ==
  ASSUME NEW file, IsFile(file), Loads(file)
  PROVE  /\ StoredUsers(file) \subseteq StoredNames(file)
         /\ StoredNames(file) \subseteq DOMAIN file
         /\ StoredNames(file) \subseteq Name
         /\ \A n \in StoredNames(file) :
              /\ file[n] \in Fields(Name)
              /\ file[n].reqs \subseteq StoredNames(file)
              /\ \E u \in StoredUsers(file) : n \in Closure(file, {u})
         /\ \A T : StoredUsers(file) \subseteq T /\ Closed(file, T) =>
              StoredNames(file) \subseteq T
<1> DEFINE U == StoredUsers(file)
<1> DEFINE N == StoredNames(file)
<1> DEFINE T == UNION {Closure(file, {n}) : n \in U}
<1>1. IsFiniteSet(Nodes(file, U)) /\ U \subseteq DOMAIN file
  <2>1. U \subseteq DOMAIN file /\ DOMAIN file \subseteq Name
    BY DEF StoredUsers, IsFile
  <2>2. IsFiniteSet(U)
    BY <2>1, NameAssumption, FS_Subset
  <2> QED
    BY <2>1, <2>2, FileNodes
<1>2. /\ U \subseteq N /\ Closed(file, N)
      /\ \A S : U \subseteq S /\ Closed(file, S) => N \subseteq S
  BY <1>1, ClosureIs DEF StoredNames
<1>3. \A n \in U : CanRead(file, n)
  BY DEF Loads
<1>4. U \subseteq T /\ T \subseteq DOMAIN file
  BY <1>3, Readings
<1>5. Closed(file, T)
  <2> SUFFICES ASSUME NEW n \in U, NEW m \in Closure(file, {n})
               PROVE  file[m].reqs \subseteq T
    BY DEF Closed
  <2>1. file[m].reqs \subseteq Closure(file, {n})
    BY <1>3, Readings
  <2> QED
    BY <2>1
<1> HIDE DEF T, N
<1>6. N \subseteq T
  BY <1>2, <1>4, <1>5
<1>7. N \subseteq DOMAIN file /\ N \subseteq Name
  BY <1>4, <1>6 DEF IsFile
<1>8. ASSUME NEW n \in N
      PROVE  /\ file[n] \in Fields(Name) /\ file[n].reqs \subseteq N
             /\ \E u \in U : n \in Closure(file, {u})
  <2>1. file[n] \in Fields(Name) /\ file[n].reqs \subseteq N
    BY <1>2, <1>7 DEF Closed, IsFile
  <2>2. \E u \in U : n \in Closure(file, {u})
    BY <1>6 DEF T
  <2> QED
    BY <2>1, <2>2
<1> QED
  BY <1>2, <1>7, <1>8 DEF N

\* What is loaded from a file that can be read.
LEMMA LoadedIn ==
  ASSUME NEW file, IsFile(file), Loads(file), NEW k \in Stamp
  PROVE  \E D : /\ D \subseteq Object
                /\ Loaded(file, k) \in Worlds(D)
                /\ OneEach(Loaded(file, k).map)
<1> DEFINE N == StoredNames(file)
<1> DEFINE D == {<<n, k>> : n \in N}
<1>1. N \subseteq Name /\ \A n \in N : file[n] \in Fields(Name) /\ file[n].reqs \subseteq N
  BY StoredIn
<1> HIDE DEF N
<1>2. D \subseteq Object /\ OneEach(D)
  BY <1>1 DEF Object, OneEach, NameOf
<1> DEFINE f(o) == [file[NameOf(o)] EXCEPT !.reqs = {<<q, k>> : q \in @}]
<1> DEFINE h == [o \in D |-> f(o)]
<1>3. ASSUME NEW o \in D PROVE f(o) \in Fields(D)
  <2>1. NameOf(o) \in N
    BY DEF NameOf
  <2>2. file[NameOf(o)] \in Fields(Name) /\ file[NameOf(o)].reqs \subseteq N
    BY <1>1, <2>1
  <2>3. {<<q, k>> : q \in file[NameOf(o)].reqs} \subseteq D
    BY <2>2
  <2> QED
    BY <2>2, <2>3 DEF Fields
<1>4. Loaded(file, k) = [heap |-> h, map |-> D, failed |-> "no"]
  BY Zenon DEF Loaded, N
<1> HIDE DEF f
<1>5. h \in [D -> Fields(D)]
  BY <1>3
<1> HIDE DEF h, D
<1>6. Loaded(file, k) \in Worlds(D) /\ Loaded(file, k).map = D
  BY <1>4, <1>5 DEF Worlds, Failures
<1> QED
  BY <1>2, <1>6

=============================================================================
