---------------------------- MODULE HashMapProofs ----------------------------
(***************************************************************************)
(* Proofs about HashMap, for every set of keys, hash function, capacity    *)
(* and load factor.  First what chain_contains, chain_insert and           *)
(* chain_erase (map.h) do with a chain, however long: chain_contains stops *)
(* before the last node and relies on the tail pointer for it, which       *)
(* chain_erase has to set back when it takes that node away.  Then what    *)
(* the operations do with one map, of any capacity: a map is seen as the   *)
(* nodes it has, and its loops are followed by induction.  Last what a     *)
(* program with any number of maps can rely on.                            *)
(***************************************************************************)
EXTENDS HashMap, TLAPS, SequenceTheorems, Integers, WellFoundedInduction

-----------------------------------------------------------------------------
(* One chain *)

\* A node of the chain has the key.
Holds(c, k) == \E i \in DOMAIN c.nodes : c.nodes[i].key = k

\* x is a node of the chain.
In(c, x) == \E i \in DOMAIN c.nodes : c.nodes[i] = x

\* What ChainOK says, node by node: the keys of the nodes, and the tail pointer
\* at the last of them.
LEMMA Chains ==
  ASSUME NEW c, ChainOK(c)
  PROVE  /\ c.nodes \in Seq([key : Key, value : Value])
         /\ Len(c.nodes) \in Nat
         /\ DOMAIN c.nodes = 1 .. Len(c.nodes)
         /\ c.nodes # <<>> <=> Len(c.nodes) >= 1
         /\ \A i \in 1 .. Len(c.nodes) : /\ c.nodes[i] \in [key : Key, value : Value]
                                         /\ c.nodes[i].key \in Key
         /\ \A i, j \in 1 .. Len(c.nodes) :
              c.nodes[i].key = c.nodes[j].key => i = j
         /\ c.tail = IF c.nodes = <<>> THEN NoKey
                     ELSE c.nodes[Len(c.nodes)].key
         /\ c = [nodes |-> c.nodes, tail |-> c.tail]
         /\ c.tail \in Key \cup {NoKey}
<1>1. /\ c.nodes \in Seq([key : Key, value : Value])
      /\ c = [nodes |-> c.nodes, tail |-> c.tail]
      /\ c.tail \in Key \cup {NoKey}
  BY DEF ChainOK, Chain
<1>2. /\ Len(c.nodes) \in Nat
      /\ DOMAIN c.nodes = 1 .. Len(c.nodes)
      /\ c.nodes \in [1 .. Len(c.nodes) -> [key : Key, value : Value]]
  BY <1>1, LenProperties
<1>3. c.nodes # <<>> <=> Len(c.nodes) >= 1
  BY <1>1, <1>2, EmptySeq
<1>4. \A i \in 1 .. Len(c.nodes) : /\ c.nodes[i] \in [key : Key, value : Value]
                                   /\ c.nodes[i].key \in Key
  BY <1>2
<1>5. \A i, j \in 1 .. Len(c.nodes) : c.nodes[i].key = c.nodes[j].key => i = j
  BY <1>2 DEF ChainOK, KeysOnce
<1>6. c.tail = IF c.nodes = <<>> THEN NoKey ELSE c.nodes[Len(c.nodes)].key
  BY DEF ChainOK, TailOK, Last
<1> QED
  BY <1>1, <1>2, <1>3, <1>4, <1>5, <1>6

\* chain_contains finds the key of every node and no other, although its loop
\* leaves out the last one.
THEOREM ContainsEveryNode ==
  ASSUME NEW c, ChainOK(c), NEW k \in Key
  PROVE  ChainContains(c, k) <=> Holds(c, k)
<1>0. PICK n \in Nat : n = Len(c.nodes) /\ DOMAIN c.nodes = 1 .. n
  BY Chains
<1>1. CASE c.nodes = <<>>
  <2>1. n = 0
    BY <1>0, <1>1, EmptySeq
  <2> QED
    BY <1>0, <1>1, <2>1 DEF ChainContains, Holds
<1>2. CASE c.nodes # <<>>
  <2>1. n >= 1 /\ 1 \in 1 .. n /\ n \in 1 .. n
    BY <1>0, <1>2, Chains
  <2>2. c.tail = c.nodes[n].key /\ Head(c.nodes) = c.nodes[1]
    BY <1>0, <1>2, Chains, HeadTailProperties
  <2>3. ASSUME Holds(c, k)
        PROVE  ChainContains(c, k)
    <3>1. PICK i \in 1 .. n : c.nodes[i].key = k
      BY <1>0, <2>3 DEF Holds
    <3>2. i = n \/ i \in 1 .. n - 1
      BY <3>1
    <3> QED
      BY <1>0, <1>2, <2>2, <3>1, <3>2 DEF ChainContains
  <2>4. ASSUME ChainContains(c, k)
        PROVE  Holds(c, k)
    <3>1. \A i \in 1 .. n - 1 : i \in 1 .. n
      BY <2>1
    <3> QED
      BY <1>0, <2>1, <2>2, <2>4, <3>1 DEF ChainContains, Holds
  <2> QED
    BY <2>3, <2>4
<1> QED
  BY <1>1, <1>2

\* chain_insert adds a node in front, and leaves the tail at the last one.
THEOREM InsertAddsNode ==
  ASSUME NEW c, ChainOK(c), NEW k \in Key, NEW v \in Value, ~Holds(c, k)
  PROVE  /\ ChainOK(ChainInsert(c, Node(k, v)))
         /\ Len(ChainInsert(c, Node(k, v)).nodes) = Len(c.nodes) + 1
         /\ \A x : In(ChainInsert(c, Node(k, v)), x) <=>
                     x = Node(k, v) \/ In(c, x)
<1> DEFINE d == ChainInsert(c, Node(k, v))
<1>0. PICK n \in Nat : n = Len(c.nodes) /\ DOMAIN c.nodes = 1 .. n
  BY Chains
<1>1. /\ Node(k, v) \in [key : Key, value : Value]
      /\ Node(k, v).key = k
  BY DEF Node
<1>2. /\ d.nodes = <<Node(k, v)>> \o c.nodes
      /\ d.tail = IF c.nodes = <<>> THEN k ELSE c.tail
      /\ d = [nodes |-> d.nodes, tail |-> d.tail]
  BY <1>1 DEF ChainInsert
<1>3. /\ d.nodes \in Seq([key : Key, value : Value])
      /\ Len(d.nodes) = n + 1
      /\ DOMAIN d.nodes = 1 .. n + 1
      /\ \A i \in 1 .. n + 1 :
           d.nodes[i] = IF i = 1 THEN Node(k, v) ELSE c.nodes[i - 1]
  <2>1. <<Node(k, v)>> \in Seq([key : Key, value : Value])
        /\ Len(<<Node(k, v)>>) = 1 /\ <<Node(k, v)>>[1] = Node(k, v)
    BY <1>1
  <2>2. c.nodes \in Seq([key : Key, value : Value])
    BY Chains
  <2>3. /\ d.nodes \in Seq([key : Key, value : Value])
        /\ Len(d.nodes) = 1 + n
        /\ \A i \in 1 .. 1 + n :
             d.nodes[i] = IF i <= 1 THEN <<Node(k, v)>>[i] ELSE c.nodes[i - 1]
    BY <1>0, <1>2, <2>1, <2>2, ConcatProperties
  <2>4. DOMAIN d.nodes = 1 .. Len(d.nodes)
    BY <2>3, LenProperties
  <2>5. 1 + n = n + 1 /\ \A i \in 1 .. n + 1 : i <= 1 <=> i = 1
    OBVIOUS
  <2> QED
    BY <2>1, <2>3, <2>4, <2>5
<1> HIDE DEF d
<1>4. /\ d.nodes[1] = Node(k, v) /\ d.nodes[1].key = k
      /\ \A i \in 1 .. n : d.nodes[i + 1] = c.nodes[i]
      /\ \A i \in 1 .. n + 1 : i = 1 \/ i - 1 \in 1 .. n
      /\ \A i \in 1 .. n : i + 1 \in 1 .. n + 1 /\ i + 1 # 1 /\ i + 1 - 1 = i
      /\ 1 \in 1 .. n + 1
  <2>1. /\ \A i \in 1 .. n + 1 : i = 1 \/ i - 1 \in 1 .. n
        /\ \A i \in 1 .. n : i + 1 \in 1 .. n + 1 /\ i + 1 # 1 /\ i + 1 - 1 = i
        /\ 1 \in 1 .. n + 1
    OBVIOUS
  <2>2. d.nodes[1] = Node(k, v) /\ d.nodes[1].key = k
    BY <1>1, <1>3, <2>1
  <2>3. ASSUME NEW i \in 1 .. n PROVE d.nodes[i + 1] = c.nodes[i]
    <3>1. i + 1 \in 1 .. n + 1 /\ i + 1 # 1 /\ i + 1 - 1 = i
      BY <2>1
    <3>2. d.nodes[i + 1] = c.nodes[i + 1 - 1]
      BY <1>3, <3>1
    <3> QED
      BY <3>1, <3>2
  <2> QED
    BY <2>1, <2>2, <2>3
<1>5. \A x : In(d, x) <=> x = Node(k, v) \/ In(c, x)
  <2> SUFFICES ASSUME NEW x PROVE In(d, x) <=> x = Node(k, v) \/ In(c, x)
    OBVIOUS
  <2>1. ASSUME In(d, x), x # Node(k, v) PROVE In(c, x)
    <3>1. PICK i \in 1 .. n + 1 : d.nodes[i] = x
      BY <1>3, <2>1 DEF In
    <3>2. i # 1 /\ i - 1 \in 1 .. n
      BY <1>4, <2>1, <3>1
    <3>3. c.nodes[i - 1] = x
      BY <1>3, <3>1, <3>2
    <3> QED
      BY <1>0, <3>2, <3>3 DEF In
  <2>2. ASSUME x = Node(k, v) PROVE In(d, x)
    BY <1>3, <1>4, <2>2 DEF In
  <2>3. ASSUME In(c, x) PROVE In(d, x)
    <3>1. PICK i \in 1 .. n : c.nodes[i] = x
      BY <1>0, <2>3 DEF In
    <3>2. i + 1 \in 1 .. n + 1 /\ d.nodes[i + 1] = x
      BY <1>4, <3>1
    <3> QED
      BY <1>3, <3>2 DEF In
  <2> QED
    BY <2>1, <2>2, <2>3
<1>6. KeysOnce(d)
  <2> SUFFICES ASSUME NEW i \in 1 .. n + 1, NEW j \in 1 .. n + 1,
                      d.nodes[i].key = d.nodes[j].key
               PROVE  i = j
    BY <1>3 DEF KeysOnce
  <2>1. ~(\E l \in 1 .. n : c.nodes[l].key = k)
    BY <1>0 DEF Holds
  <2>2. CASE i = 1 /\ j = 1
    BY <2>2
  <2>3. CASE i = 1 /\ j # 1
    <3>1. j - 1 \in 1 .. n /\ d.nodes[j] = c.nodes[j - 1]
      BY <1>3, <1>4, <2>3
    <3>2. d.nodes[i].key = k
      BY <1>4, <2>3
    <3> QED
      BY <2>1, <3>1, <3>2
  <2>4. CASE i # 1 /\ j = 1
    <3>1. i - 1 \in 1 .. n /\ d.nodes[i] = c.nodes[i - 1]
      BY <1>3, <1>4, <2>4
    <3>2. d.nodes[j].key = k
      BY <1>4, <2>4
    <3> QED
      BY <2>1, <3>1, <3>2
  <2>5. CASE i # 1 /\ j # 1
    <3>1. i - 1 \in 1 .. n /\ j - 1 \in 1 .. n
      BY <1>4, <2>5
    <3>2. c.nodes[i - 1].key = c.nodes[j - 1].key
      BY <1>3, <2>5
    <3>3. i - 1 = j - 1
      BY <1>0, <3>1, <3>2, Chains
    <3> QED
      BY <3>3
  <2> QED
    BY <2>2, <2>3, <2>4, <2>5
<1>7. TailOK(d)
  <2>1. d.nodes # <<>>
    BY <1>3, EmptySeq
  <2>2. Last(d.nodes) = d.nodes[n + 1]
    BY <1>3 DEF Last
  <2>3. CASE c.nodes = <<>>
    <3>1. n = 0
      BY <1>0, <2>3, EmptySeq
    <3> QED
      BY <1>2, <1>4, <2>1, <2>2, <2>3, <3>1 DEF TailOK
  <2>4. CASE c.nodes # <<>>
    <3>1. n \in 1 .. n /\ c.tail = c.nodes[n].key
      BY <1>0, <2>4, Chains
    <3> QED
      BY <1>2, <1>4, <2>1, <2>2, <2>4, <3>1 DEF TailOK
  <2> QED
    BY <2>3, <2>4
<1>8. d \in Chain
  BY <1>2, <1>3, Chains DEF Chain
<1> QED
  BY <1>0, <1>3, <1>5, <1>6, <1>7, <1>8 DEF d, ChainOK

\* A sequence without its entry at p.
LEMMA Removed ==
  ASSUME NEW S, NEW s \in Seq(S), NEW p \in 1 .. Len(s)
  PROVE  /\ RemoveAt(s, p) \in Seq(S)
         /\ Len(RemoveAt(s, p)) = Len(s) - 1
         /\ \A i \in 1 .. Len(s) - 1 :
              RemoveAt(s, p)[i] = IF i < p THEN s[i] ELSE s[i + 1]
<1> PICK n \in Nat : n = Len(s)
  BY LenProperties
<1>0. \A i \in 1 .. n : s[i] \in S
  BY ElementOfSeq
<1>1. PICK x \in Seq(S) : x = SubSeq(s, 1, p - 1)
  <2>1. 1 \in Int /\ p - 1 \in Int /\ \A i \in 1 .. p - 1 : s[i] \in S
    BY <1>0
  <2>2. SubSeq(s, 1, p - 1) \in Seq(S)
    BY <2>1, SubSeqProperties, Zenon
  <2> QED
    BY <2>2, Zenon
<1>2. Len(x) = p - 1 /\ \A i \in 1 .. p - 1 : x[i] = s[i]
  <2>1. \A i \in 1 .. p - 1 : s[i] \in S
    BY <1>0
  <2>2. /\ Len(x) = IF 1 <= p - 1 THEN p - 1 - 1 + 1 ELSE 0
        /\ \A i \in 1 .. p - 1 - 1 + 1 : x[i] = s[1 + i - 1]
    BY <1>1, <2>1, SubSeqProperties
  <2> QED
    BY <2>2
<1>3. PICK y \in Seq(S) : y = SubSeq(s, p + 1, n)
  <2>1. p + 1 \in Int /\ n \in Int /\ \A i \in p + 1 .. n : s[i] \in S
    BY <1>0
  <2>2. SubSeq(s, p + 1, n) \in Seq(S)
    BY <2>1, SubSeqProperties, Zenon
  <2> QED
    BY <2>2, Zenon
<1>4. Len(y) = n - p /\ \A i \in 1 .. n - p : y[i] = s[p + i]
  <2>1. \A i \in p + 1 .. n : s[i] \in S
    BY <1>0
  <2>2. /\ Len(y) = IF p + 1 <= n THEN n - (p + 1) + 1 ELSE 0
        /\ \A i \in 1 .. n - (p + 1) + 1 : y[i] = s[(p + 1) + i - 1]
    BY <1>3, <2>1, SubSeqProperties, SMTT(30)
  <2>3. /\ (IF p + 1 <= n THEN n - (p + 1) + 1 ELSE 0) = n - p
        /\ n - (p + 1) + 1 = n - p
        /\ \A i \in 1 .. n - p : (p + 1) + i - 1 = p + i
    OBVIOUS
  <2> QED
    BY <2>2, <2>3
<1>5. PICK z : z = x \o y /\ z = RemoveAt(s, p)
  BY <1>1, <1>3 DEF RemoveAt
<1>6. /\ z \in Seq(S)
      /\ Len(z) = Len(x) + Len(y)
      /\ \A i \in 1 .. Len(x) + Len(y) :
           z[i] = IF i <= Len(x) THEN x[i] ELSE y[i - Len(x)]
  BY <1>5, ConcatProperties, ZenonT(60)
<1>7. Len(z) = n - 1
  BY <1>2, <1>4, <1>6
<1>8. ASSUME NEW i \in 1 .. n - 1
      PROVE  z[i] = IF i < p THEN s[i] ELSE s[i + 1]
  <2>1. (p - 1) + (n - p) = n - 1
    OBVIOUS
  <2>2. z[i] = IF i <= p - 1 THEN x[i] ELSE y[i - (p - 1)]
    BY <1>2, <1>4, <1>6, <2>1
  <2>3. CASE i < p
    BY <1>2, <2>2, <2>3
  <2>4. CASE ~(i < p)
    <3>1. i - (p - 1) \in 1 .. n - p /\ p + (i - (p - 1)) = i + 1 /\ ~(i <= p - 1)
      BY <2>4
    <3> QED
      BY <1>4, <2>2, <2>4, <3>1
  <2> QED
    BY <2>3, <2>4
<1> QED
  BY <1>5, <1>6, <1>7, <1>8

\* chain_erase takes away the node with the key and no other, and its result
\* has its tail at the last node again: what the next chain_contains relies on.
THEOREM EraseRemovesNode ==
  ASSUME NEW c, ChainOK(c), NEW k \in Key
  PROVE  /\ ChainOK(ChainErase(c, k))
         /\ Len(c.nodes) = Len(ChainErase(c, k).nodes) + IF Holds(c, k) THEN 1 ELSE 0
         /\ \A x : In(ChainErase(c, k), x) <=> In(c, x) /\ x.key # k
<1>0. PICK n \in Nat : n = Len(c.nodes) /\ DOMAIN c.nodes = 1 .. n
  BY Chains
<1> DEFINE at == {i \in DOMAIN c.nodes : c.nodes[i].key = k}
<1>1. CASE ~Holds(c, k)
  <2>1. at = {}
    BY <1>1 DEF Holds
  <2>2. ChainErase(c, k) = c
    BY <2>1 DEF ChainErase
  <2>3. \A x : In(c, x) => x.key # k
    BY <1>1 DEF Holds, In
  <2> QED
    BY <1>0, <1>1, <2>2, <2>3
<1>2. CASE Holds(c, k)
  <2>1. PICK p \in 1 .. n : c.nodes[p].key = k
    BY <1>0, <1>2 DEF Holds
  <2>2. at = {p}
    BY <1>0, <2>1, Chains
  <2>3. (CHOOSE j \in at : \A l \in at : j <= l) = p
    <3>1. p <= p /\ at # {} /\ \A j \in at : j = p
      BY <2>2
    <3>2. \E j \in at : \A l \in at : j <= l
      BY <2>2, <3>1
    <3> QED
      BY <3>1, <3>2
  <2>4. ChainContains(c, k)
    BY <1>2, ContainsEveryNode
  <2>5. ChainErase(c, k) =
          IF n = 1 THEN EmptyChain
          ELSE [nodes |-> RemoveAt(c.nodes, p),
                tail |-> IF p > 1 /\ c.tail = k THEN c.nodes[p - 1].key ELSE c.tail]
    BY <1>0, <2>2, <2>3, <2>4 DEF ChainErase
  <2>6. \A i \in 1 .. n : c.nodes[i].key = k <=> i = p
    BY <1>0, <2>1, Chains
  <2>7. CASE n = 1
    <3>1. ChainErase(c, k) = [nodes |-> <<>>, tail |-> NoKey]
      BY <2>5, <2>7 DEF EmptyChain
    <3>2. /\ <<>> \in Seq([key : Key, value : Value]) /\ Len(<<>>) = 0
          /\ DOMAIN <<>> = {}
      BY EmptySeq
    <3>3. ChainOK(ChainErase(c, k))
      BY <3>1, <3>2 DEF ChainOK, Chain, TailOK, KeysOnce
    <3>4. ASSUME NEW x PROVE ~(In(c, x) /\ x.key # k)
      <4>1. \A i \in 1 .. n : i = p
        BY <2>7
      <4> QED
        BY <1>0, <2>1, <4>1 DEF In
    <3>5. \A x : ~In(ChainErase(c, k), x)
      BY <3>1, <3>2 DEF In
    <3> QED
      BY <1>0, <1>2, <2>7, <3>1, <3>2, <3>3, <3>4, <3>5
  <2>8. CASE n # 1
    <3>1. PICK s : s = RemoveAt(c.nodes, p)
      OBVIOUS
    <3>2. PICK t : t = IF p > 1 /\ c.tail = k THEN c.nodes[p - 1].key ELSE c.tail
      OBVIOUS
    <3>3. PICK d : d = ChainErase(c, k) /\ d = [nodes |-> s, tail |-> t]
      BY <2>5, <2>8, <3>1, <3>2
    <3>4. /\ s \in Seq([key : Key, value : Value])
          /\ Len(s) = n - 1
          /\ \A i \in 1 .. n - 1 :
               s[i] = IF i < p THEN c.nodes[i] ELSE c.nodes[i + 1]
      <4>1. c.nodes \in Seq([key : Key, value : Value])
        BY Chains, Zenon
      <4>2. n = Len(c.nodes)
        BY <1>0
      <4>3. PICK S, b : S = [key : Key, value : Value] /\ b = c.nodes
        OBVIOUS
      <4>4. b \in Seq(S) /\ n = Len(b)
        BY <4>1, <4>2, <4>3
      <4>5. /\ RemoveAt(b, p) \in Seq(S)
            /\ Len(RemoveAt(b, p)) = n - 1
            /\ \A i \in 1 .. n - 1 :
                 RemoveAt(b, p)[i] = IF i < p THEN b[i] ELSE b[i + 1]
        BY ONLY <4>4, p \in 1 .. n, Removed, Zenon
      <4> QED
        BY <3>1, <4>3, <4>5
    <3>5. DOMAIN s = 1 .. n - 1
      BY <3>4, LenProperties
    \* The nodes of the result are those of the chain but the one at p.
    <3>6. ASSUME NEW i \in 1 .. n - 1
          PROVE  \E l \in 1 .. n : /\ l # p /\ s[i] = c.nodes[l]
                                   /\ l = IF i < p THEN i ELSE i + 1
      <4>1. CASE i < p
        <5>1. i \in 1 .. n /\ i # p
          BY <4>1
        <5> QED
          BY <3>4, <4>1, <5>1
      <4>2. CASE ~(i < p)
        <5>1. i + 1 \in 1 .. n /\ i + 1 # p
          BY <4>2
        <5> QED
          BY <3>4, <4>2, <5>1
      <4> QED
        BY <4>1, <4>2
    <3>7. ASSUME NEW l \in 1 .. n, l # p
          PROVE  \E i \in 1 .. n - 1 : s[i] = c.nodes[l]
      <4>1. CASE l < p
        <5>1. l \in 1 .. n - 1
          BY <4>1
        <5> QED
          BY <3>4, <4>1, <5>1
      <4>2. CASE ~(l < p)
        <5>1. l - 1 \in 1 .. n - 1 /\ ~(l - 1 < p) /\ l - 1 + 1 = l
          BY <3>7, <4>2
        <5> QED
          BY <3>4, <5>1
      <4> QED
        BY <4>1, <4>2
    <3>8. KeysOnce(d)
      <4> SUFFICES ASSUME NEW i \in 1 .. n - 1, NEW j \in 1 .. n - 1,
                          s[i].key = s[j].key
                   PROVE  i = j
        BY <3>3, <3>5 DEF KeysOnce
      <4>1. PICK l \in 1 .. n : s[i] = c.nodes[l] /\ l = IF i < p THEN i ELSE i + 1
        BY <3>6
      <4>2. PICK m \in 1 .. n : s[j] = c.nodes[m] /\ m = IF j < p THEN j ELSE j + 1
        BY <3>6
      <4>3. l = m
        BY <1>0, <4>1, <4>2, Chains
      <4> QED
        BY <4>1, <4>2, <4>3
    <3>9. TailOK(d)
      <4>1. /\ n - 1 \in 1 .. n - 1 /\ n \in 1 .. n /\ s # <<>> /\ c.nodes # <<>>
        <5>1. n - 1 \in 1 .. n - 1 /\ n \in 1 .. n
          BY <2>8
        <5> QED
          BY <1>0, <3>4, <5>1, EmptySeq
      <4>2. c.tail = c.nodes[n].key
        BY <1>0, <4>1, Chains
      <4>3. Last(s) = s[n - 1]
        BY <3>4 DEF Last
      <4>4. CASE p = n
        <5>1. p > 1 /\ n - 1 < p
          BY <2>8, <4>4
        <5> QED
          BY <2>1, <3>2, <3>3, <3>4, <4>1, <4>2, <4>3, <4>4, <5>1 DEF TailOK
      <4>5. CASE p # n
        <5>1. ~(n - 1 < p) /\ n - 1 + 1 = n
          BY <4>5
        <5>2. s[n - 1] = c.nodes[n]
          BY <3>4, <4>1, <5>1
        <5>3. c.tail # k
          BY <2>6, <4>1, <4>2, <4>5
        <5> QED
          BY <3>2, <3>3, <4>1, <4>2, <4>3, <5>2, <5>3 DEF TailOK
      <4> QED
        BY <4>4, <4>5
    <3>10. d \in Chain
      <4>1. t \in Key \cup {NoKey}
        <5>1. CASE p > 1 /\ c.tail = k
          <6>1. p - 1 \in 1 .. n
            BY <5>1
          <6> QED
            BY <1>0, <3>2, <5>1, <6>1, Chains
        <5>2. CASE ~(p > 1 /\ c.tail = k)
          BY <3>2, <5>2, Chains
        <5> QED
          BY <5>1, <5>2
      <4> QED
        BY <3>3, <3>4, <4>1 DEF Chain
    <3>11. ASSUME NEW x PROVE In(d, x) <=> In(c, x) /\ x.key # k
      <4>1. ASSUME In(d, x) PROVE In(c, x) /\ x.key # k
        <5>1. PICK i \in 1 .. n - 1 : s[i] = x
          BY <3>3, <3>5, <4>1 DEF In
        <5>2. PICK l \in 1 .. n : l # p /\ s[i] = c.nodes[l]
          BY <3>6
        <5> QED
          BY <1>0, <2>6, <5>1, <5>2 DEF In
      <4>2. ASSUME In(c, x), x.key # k PROVE In(d, x)
        <5>1. PICK l \in 1 .. n : c.nodes[l] = x
          BY <1>0, <4>2 DEF In
        <5>2. PICK i \in 1 .. n - 1 : s[i] = c.nodes[l]
          BY <2>1, <3>7, <4>2, <5>1
        <5> QED
          BY <3>3, <3>5, <5>1, <5>2 DEF In
      <4> QED
        BY <4>1, <4>2
    <3>12. Len(c.nodes) = Len(d.nodes) + 1
      BY <1>0, <3>3, <3>4
    <3> QED
      BY <1>2, <3>3, <3>8, <3>9, <3>10, <3>11, <3>12 DEF ChainOK
  <2> QED
    BY <2>7, <2>8
<1> QED
  BY <1>1, <1>2

-----------------------------------------------------------------------------
(* One map *)

Entry == [key : Key, value : Value]

\* The node x is in the map, in the chain of its hash.
Has(m, x) == x \in Entry /\ In(m.chain[Index(m, x.key)], x)

HasKey(m, k) == \E x : Has(m, x) /\ x.key = k

-----------------------------------------------------------------------------
(* Induction, over a set of numbers *)

\* Every set of natural numbers has a least one.
LEMMA LeastNumber ==
  ASSUME NEW T, T \subseteq Nat, T # {}
  PROVE  \E x \in T : \A y \in T : ~(y < x)
<1> DEFINE R == {ss \in Nat \X Nat : ss[1] < ss[2]}
<1>1. IsWellFoundedOn(R, Nat)
  BY NatLessThanWellFounded DEF OpToRel
<1>2. PICK x \in T : \A y \in T : <<y, x>> \notin R
  BY <1>1, WFMin
<1> QED
  BY <1>2

\* A set that has 0, and with a number the next, has them all.
LEMMA Induction ==
  ASSUME NEW S, 0 \in S, \A n \in Nat : n \in S => n + 1 \in S
  PROVE  \A n \in Nat : n \in S
<1> SUFFICES ASSUME Nat \ S # {} PROVE FALSE
  OBVIOUS
<1>1. PICK x \in Nat \ S : \A y \in Nat \ S : ~(y < x)
  BY LeastNumber
<1>2. x - 1 \in Nat /\ x - 1 < x /\ x - 1 + 1 = x
  BY <1>1
<1> QED
  BY <1>1, <1>2

-----------------------------------------------------------------------------
(* Nodes and chains of a map *)

\* The fields of a map, and the chains, one by one.
LEMMA MapFields ==
  ASSUME NEW m, MapOK(m)
  PROVE  /\ m.capacity \in Nat \ {0} /\ m.size \in Nat
         /\ m = [capacity |-> m.capacity, size |-> m.size, chain |-> m.chain]
         /\ m.chain \in [0 .. m.capacity - 1 -> Chain]
         /\ \A i \in 0 .. m.capacity - 1 : ChainOK(m.chain[i])
<1>1. m \in [capacity : Nat \ {0}, size : Nat,
             chain : [0 .. m.capacity - 1 -> Chain]]
  BY DEF MapOK
<1>2. DOMAIN m.chain = 0 .. m.capacity - 1
  BY <1>1
<1> QED
  BY <1>1, <1>2 DEF MapOK

\* The remainder of a hash is the index of a chain.
LEMMA IndexInRange ==
  ASSUME NEW m, m.capacity \in Nat \ {0}, NEW k \in Key
  PROVE  Index(m, k) \in 0 .. m.capacity - 1
<1>1. Hash[k] \in Nat
  BY HashAssumption
<1> QED
  BY <1>1 DEF Index

\* A node in any chain is in the chain of its hash, and is an entry.
LEMMA InItsChain ==
  ASSUME NEW m, MapOK(m), NEW i \in 0 .. m.capacity - 1, NEW x, In(m.chain[i], x)
  PROVE  Has(m, x) /\ x \in Entry /\ x.key \in Key /\ Index(m, x.key) = i
<1>1. PICK c : c = m.chain[i] /\ ChainOK(c)
  BY MapFields
<1>2. PICK j \in DOMAIN c.nodes : c.nodes[j] = x
  BY <1>1 DEF In
<1>3. x \in Entry /\ x.key \in Key
  BY <1>1, <1>2, Chains DEF Entry
<1>4. Index(m, x.key) = i
  BY <1>1, <1>2, MapFields DEF MapOK
<1> QED
  BY <1>3, <1>4 DEF Has

\* No two nodes have one key.
LEMMA HasOnce ==
  ASSUME NEW m, MapOK(m), NEW x, NEW y, Has(m, x), Has(m, y), x.key = y.key
  PROVE  x = y
<1>1. x.key \in Key
  BY DEF Has, Entry
<1>2. PICK c : c = m.chain[Index(m, x.key)] /\ ChainOK(c)
  BY <1>1, MapFields, IndexInRange
<1>3. In(c, x) /\ In(c, y)
  BY <1>2 DEF Has
<1> QED
  BY <1>2, <1>3, Chains DEF In

\* contains finds the keys of the nodes.
LEMMA Containing ==
  ASSUME NEW m, MapOK(m), NEW k \in Key
  PROVE  ContainsKey(m, k) <=> HasKey(m, k)
<1>1. PICK i \in 0 .. m.capacity - 1 : i = Index(m, k)
  BY MapFields, IndexInRange
<1>2. PICK c : c = m.chain[i] /\ ChainOK(c)
  BY MapFields
<1>3. ContainsKey(m, k) <=> Holds(c, k)
  BY <1>1, <1>2, ContainsEveryNode DEF ContainsKey
<1>4. ASSUME Holds(c, k) PROVE HasKey(m, k)
  <2>1. PICK x : In(c, x) /\ x.key = k
    BY <1>4 DEF Holds, In
  <2> QED
    BY <1>2, <2>1, InItsChain DEF HasKey
<1>5. ASSUME HasKey(m, k) PROVE Holds(c, k)
  BY <1>1, <1>2, <1>5 DEF HasKey, Has, Holds, In
<1> QED
  BY <1>3, <1>4, <1>5

\* find returns the node with the key.
LEMMA Finding ==
  ASSUME NEW m, MapOK(m), NEW x, Has(m, x)
  PROVE  Find(m, x.key) = x
<1>1. x.key \in Key
  BY DEF Has, Entry
<1>2. PICK c : c = m.chain[Index(m, x.key)] /\ ChainOK(c)
  BY <1>1, MapFields, IndexInRange
<1>3. PICK j \in DOMAIN c.nodes : c.nodes[j] = x
  BY <1>2 DEF Has, In
<1> DEFINE at == {i \in DOMAIN c.nodes : c.nodes[i].key = x.key}
<1>4. at = {j}
  BY <1>2, <1>3, Chains
<1>5. j <= j
  BY <1>2, <1>3, Chains, SMTT(30)
<1>6. (CHOOSE i \in at : \A l \in at : i <= l) = j
  <2>1. \E i \in at : \A l \in at : i <= l
    BY <1>4, <1>5
  <2> QED
    BY <1>4, <2>1
<1> QED
  BY <1>2, <1>3, <1>6 DEF Find

-----------------------------------------------------------------------------
(* Iterations *)

\* An iteration goes through the chains, one after the other.
LEMMA EntriesStep ==
  ASSUME NEW m, MapOK(m)
  PROVE  /\ EntriesBelow(m)[0] = <<>>
         /\ \A i \in 0 .. m.capacity - 1 :
              EntriesBelow(m)[i + 1] = EntriesBelow(m)[i] \o m.chain[i].nodes
<1> DEFINE Goes(n, f) ==
      f = [i \in 0 .. n |-> IF i = 0 THEN <<>> ELSE f[i - 1] \o m.chain[i - 1].nodes]
<1> DEFINE S == {n \in Nat : \E f : Goes(n, f)}
<1>1. 0 \in S
  <2>1. PICK f : f = [i \in 0 .. 0 |-> <<>>]
    OBVIOUS
  <2>2. Goes(0, f)
    BY <2>1
  <2> QED
    BY <2>2
<1>2. ASSUME NEW n \in Nat, n \in S PROVE n + 1 \in S
  <2>1. PICK f : Goes(n, f)
    BY <1>2
  <2>2. PICK g : g = [i \in 0 .. n + 1 |-> IF i = n + 1 THEN f[n] \o m.chain[n].nodes
                                                         ELSE f[i]]
    OBVIOUS
  <2>3. ASSUME NEW i \in 0 .. n + 1
        PROVE  g[i] = IF i = 0 THEN <<>> ELSE g[i - 1] \o m.chain[i - 1].nodes
    <3>1. CASE i = n + 1
      <4>1. i # 0 /\ i - 1 = n /\ i - 1 \in 0 .. n + 1 /\ i - 1 # n + 1
        BY <3>1
      <4> QED
        BY <2>2, <3>1, <4>1
    <3>2. CASE i # n + 1
      <4>1. i \in 0 .. n /\ (i # 0 => i - 1 \in 0 .. n + 1 /\ i - 1 # n + 1)
        BY <3>2
      <4>2. f[i] = IF i = 0 THEN <<>> ELSE f[i - 1] \o m.chain[i - 1].nodes
        BY <2>1, <4>1
      <4> QED
        BY <2>2, <3>2, <4>1, <4>2
    <3> QED
      BY <3>1, <3>2
  <2>4. Goes(n + 1, g)
    BY <2>2, <2>3
  <2> QED
    BY <2>4, SMTT(30)
<1> HIDE DEF S
<1>3. m.capacity \in S
  BY <1>1, <1>2, Induction, MapFields
<1> USE DEF S
<1>4. \E f : Goes(m.capacity, f)
  BY <1>3
<1>5. Goes(m.capacity, EntriesBelow(m))
  BY <1>4 DEF EntriesBelow
<1>6. PICK n \in Nat : n = m.capacity
  BY MapFields
<1>7. PICK e : e = EntriesBelow(m)
  OBVIOUS
<1>8. e = [i \in 0 .. n |-> IF i = 0 THEN <<>> ELSE e[i - 1] \o m.chain[i - 1].nodes]
  BY <1>5, <1>6, <1>7
<1>9. e[0] = <<>>
  BY <1>8
<1>10. \A j \in 0 .. n :
         e[j] = IF j = 0 THEN <<>> ELSE e[j - 1] \o m.chain[j - 1].nodes
  BY <1>8
<1>11. ASSUME NEW i \in 0 .. n - 1 PROVE e[i + 1] = e[i] \o m.chain[i].nodes
  <2>1. PICK j \in 0 .. n : j = i + 1 /\ j # 0 /\ j - 1 = i
    OBVIOUS
  <2>2. e[j] = e[j - 1] \o m.chain[j - 1].nodes
    BY <1>10, <2>1
  <2> QED
    BY <2>1, <2>2
<1> QED
  BY <1>6, <1>7, <1>9, <1>11

\* x is in the sequence, and no key is in it twice.
Listed(s, x) == \E a \in DOMAIN s : s[a] = x
Distinct(s) == \A a, b \in DOMAIN s : s[a].key = s[b].key => a = b

\* Two sequences one after the other list what each of them lists.
LEMMA Joined ==
  ASSUME NEW s \in Seq(Entry), NEW t \in Seq(Entry)
  PROVE  /\ s \o t \in Seq(Entry)
         /\ Len(s \o t) = Len(s) + Len(t)
         /\ \A x : Listed(s \o t, x) <=> Listed(s, x) \/ Listed(t, x)
         /\ /\ Distinct(s) /\ Distinct(t)
            /\ \A x, y : Listed(s, x) /\ Listed(t, y) => x.key # y.key
            => Distinct(s \o t)
<1>1. PICK n \in Nat, p \in Nat : /\ n = Len(s) /\ DOMAIN s = 1 .. n
                                  /\ p = Len(t) /\ DOMAIN t = 1 .. p
  BY LenProperties
<1>2. PICK r \in Seq(Entry) : r = s \o t
  BY ConcatProperties
<1>3. /\ Len(r) = n + p /\ DOMAIN r = 1 .. n + p
      /\ \A i \in 1 .. n + p : r[i] = IF i <= n THEN s[i] ELSE t[i - n]
  BY <1>1, <1>2, ConcatProperties, LenProperties
<1>4. \A i \in 1 .. n : i \in 1 .. n + p /\ r[i] = s[i]
  <2>1. \A i \in 1 .. n : i \in 1 .. n + p /\ i <= n
    OBVIOUS
  <2> QED
    BY <1>3, <2>1
<1>5. \A i \in 1 .. p : n + i \in 1 .. n + p /\ r[n + i] = t[i]
  <2>1. \A i \in 1 .. p : n + i \in 1 .. n + p /\ ~(n + i <= n) /\ (n + i) - n = i
    OBVIOUS
  <2> QED
    BY <1>3, <2>1
<1>6. \A i \in 1 .. n + p : \/ i \in 1 .. n /\ r[i] = s[i]
                            \/ i - n \in 1 .. p /\ r[i] = t[i - n] /\ ~(i \in 1 .. n)
  BY <1>3
<1>7. ASSUME NEW x PROVE Listed(r, x) <=> Listed(s, x) \/ Listed(t, x)
  <2>1. Listed(s, x) => Listed(r, x)
    BY <1>1, <1>3, <1>4 DEF Listed
  <2>2. Listed(t, x) => Listed(r, x)
    BY <1>1, <1>3, <1>5 DEF Listed
  <2>3. ASSUME Listed(r, x) PROVE Listed(s, x) \/ Listed(t, x)
    <3>1. PICK i \in 1 .. n + p : r[i] = x
      BY <1>3, <2>3 DEF Listed
    <3>2. CASE i \in 1 .. n /\ r[i] = s[i]
      BY <1>1, <3>1, <3>2 DEF Listed
    <3>3. CASE i - n \in 1 .. p /\ r[i] = t[i - n]
      BY <1>1, <3>1, <3>3 DEF Listed
    <3> QED
      BY <1>6, <3>2, <3>3
  <2> QED
    BY <2>1, <2>2, <2>3
<1>8. ASSUME Distinct(s), Distinct(t),
             \A x, y : Listed(s, x) /\ Listed(t, y) => x.key # y.key,
             NEW i \in 1 .. n + p, NEW j \in 1 .. n + p, r[i].key = r[j].key
      PROVE  i = j
  <2>1. CASE i \in 1 .. n /\ j \in 1 .. n
    BY <1>1, <1>4, <1>8, <2>1 DEF Distinct
  <2>2. CASE i \notin 1 .. n /\ j \notin 1 .. n
    <3>1. i - n \in 1 .. p /\ j - n \in 1 .. p
      BY <1>6, <2>2
    <3>2. r[i] = t[i - n] /\ r[j] = t[j - n]
      BY <1>6, <2>2
    <3>3. i - n = j - n
      BY <1>1, <1>8, <3>1, <3>2 DEF Distinct
    <3> QED
      BY <3>3
  <2>3. CASE i \in 1 .. n /\ j \notin 1 .. n
    <3>1. Listed(s, r[i]) /\ Listed(t, r[j])
      BY <1>1, <1>6, <2>3 DEF Listed
    <3> QED
      BY <1>8, <3>1
  <2>4. CASE i \notin 1 .. n /\ j \in 1 .. n
    <3>1. Listed(s, r[j]) /\ Listed(t, r[i])
      BY <1>1, <1>6, <2>4 DEF Listed
    <3> QED
      BY <1>8, <3>1
  <2> QED
    BY <2>1, <2>2, <2>3, <2>4
<1>9. /\ Distinct(s) /\ Distinct(t)
      /\ \A x, y : Listed(s, x) /\ Listed(t, y) => x.key # y.key
      => Distinct(r)
  BY <1>3, <1>8 DEF Distinct
<1> QED
  BY <1>1, <1>2, <1>3, <1>7, <1>9

\* An iteration up to chain i has met the nodes with an index below i, each
\* once.
LEMMA EntriesBelowMeet ==
  ASSUME NEW m, MapOK(m), NEW e, e = EntriesBelow(m)
  PROVE  \A i \in 0 .. m.capacity :
           /\ e[i] \in Seq(Entry)
           /\ \A x : Listed(e[i], x) <=> Has(m, x) /\ Index(m, x.key) < i
           /\ Distinct(e[i])
<1> DEFINE P(i) == /\ e[i] \in Seq(Entry)
                   /\ \A x : Listed(e[i], x) <=> Has(m, x) /\ Index(m, x.key) < i
                   /\ Distinct(e[i])
<1> DEFINE S == {i \in Nat : i <= m.capacity => P(i)}
<1>0. PICK n \in Nat : n = m.capacity
  BY MapFields
<1>1. \A x : Has(m, x) => Index(m, x.key) \in 0 .. n - 1
  BY <1>0, MapFields, IndexInRange DEF Has, Entry
<1>2. 0 \in S
  <2>1. e[0] = <<>> /\ e[0] \in Seq(Entry) /\ DOMAIN e[0] = {}
    <3>1. e[0] = <<>>
      BY EntriesStep
    <3>2. <<>> \in Seq(Entry) /\ DOMAIN <<>> = {}
      OBVIOUS
    <3> QED
      BY <3>1, <3>2
  <2>2. \A x : ~(Has(m, x) /\ Index(m, x.key) < 0)
    BY <1>1
  <2> QED
    BY <2>1, <2>2 DEF Listed, Distinct
<1>3. ASSUME NEW i \in Nat, i \in S PROVE i + 1 \in S
  <2> SUFFICES ASSUME i + 1 <= n PROVE P(i + 1)
    BY <1>0
  <2>1. P(i)
    BY <1>0, <1>3
  <2>2. i \in 0 .. n - 1
    OBVIOUS
  <2>3. PICK c : c = m.chain[i] /\ ChainOK(c)
    BY <1>0, <2>2, MapFields
  <2>4. c.nodes \in Seq(Entry) /\ Distinct(c.nodes)
    BY <2>3, Chains, ZenonT(60) DEF Entry, Distinct
  <2>5. e[i + 1] = e[i] \o c.nodes
    BY <1>0, <2>2, <2>3, EntriesStep
  <2>6. ASSUME NEW x PROVE Listed(c.nodes, x) <=> Has(m, x) /\ Index(m, x.key) = i
    <3>1. Listed(c.nodes, x) <=> In(c, x)
      BY DEF Listed, In
    <3>2. In(c, x) => Has(m, x) /\ Index(m, x.key) = i
      BY <1>0, <2>2, <2>3, InItsChain
    <3>3. Has(m, x) /\ Index(m, x.key) = i => In(c, x)
      BY <2>3 DEF Has
    <3> QED
      BY <3>1, <3>2, <3>3
  <2>7. \A x, y : Listed(e[i], x) /\ Listed(c.nodes, y) => x.key # y.key
    BY <2>1, <2>6
  <2>8. e[i + 1] \in Seq(Entry) /\ Distinct(e[i + 1])
    BY <2>1, <2>4, <2>5, <2>7, Joined
  <2>9. \A x : Listed(e[i + 1], x) <=> Listed(e[i], x) \/ Listed(c.nodes, x)
    BY <2>1, <2>4, <2>5, Joined
  <2>10. ASSUME NEW x
         PROVE  Listed(e[i + 1], x) <=> Has(m, x) /\ Index(m, x.key) < i + 1
    <3>1. Has(m, x) => (Index(m, x.key) < i + 1 <=>
                          Index(m, x.key) < i \/ Index(m, x.key) = i)
      BY <1>1
    <3> QED
      BY <2>1, <2>6, <2>9, <3>1
  <2> QED
    BY <2>8, <2>10
<1> HIDE DEF S
<1>4. \A i \in Nat : i \in S
  BY <1>2, <1>3, Induction
<1> QED
  BY <1>0, <1>4 DEF S

\* An iteration meets the nodes of the map, each once.
LEMMA EntriesMeet ==
  ASSUME NEW m, MapOK(m)
  PROVE  /\ Entries(m) \in Seq(Entry)
         /\ Len(Entries(m)) \in Nat
         /\ DOMAIN Entries(m) = 1 .. Len(Entries(m))
         /\ \A x : Listed(Entries(m), x) <=> Has(m, x)
         /\ Distinct(Entries(m))
<1>0. PICK n \in Nat : n = m.capacity /\ n \in 0 .. n
  BY MapFields
<1>1. PICK e : e = EntriesBelow(m)
  OBVIOUS
<1>2. \A x : Has(m, x) => Index(m, x.key) < n
  BY <1>0, MapFields, IndexInRange DEF Has, Entry
<1>3. /\ e[n] \in Seq(Entry)
      /\ \A x : Listed(e[n], x) <=> Has(m, x) /\ Index(m, x.key) < n
      /\ Distinct(e[n])
  BY <1>0, <1>1, EntriesBelowMeet
<1>4. Entries(m) = e[n]
  BY <1>0, <1>1 DEF Entries
<1> QED
  BY <1>2, <1>3, <1>4, LenProperties

\* How many entries an iteration meets.
Count(m) == Len(Entries(m))

\* The number of entries is not zero if there is a node.
LEMMA CountIsNumber ==
  ASSUME NEW m, MapOK(m)
  PROVE  /\ Count(m) \in Nat
         /\ (\A x : ~Has(m, x)) => Count(m) = 0
         /\ \A x : Has(m, x) => Count(m) >= 1
<1>1. PICK s \in Seq(Entry), n \in Nat :
        s = Entries(m) /\ n = Len(s) /\ DOMAIN s = 1 .. n
  BY EntriesMeet
<1>2. \A x : Listed(s, x) <=> Has(m, x)
  BY <1>1, EntriesMeet
<1>3. ASSUME \A x : ~Has(m, x) PROVE n = 0
  <2>1. ~(1 \in 1 .. n)
    BY <1>1, <1>2, <1>3 DEF Listed
  <2> QED
    BY <2>1
<1>4. ASSUME NEW x, Has(m, x) PROVE n >= 1
  BY <1>1, <1>2, <1>4 DEF Listed
<1> QED
  BY <1>1, <1>3, <1>4 DEF Count

\* w is m but for chain i, and its size.
DiffersAt(m, w, i) ==
  /\ w.capacity = m.capacity
  /\ \A j \in 0 .. m.capacity - 1 : j # i => w.chain[j] = m.chain[j]

\* w has as many entries more than m as c has more than o.
CountMoves(m, w, o, c) == Count(w) + Len(o.nodes) = Count(m) + Len(c.nodes)

\* If one chain is different, so is the number of entries, and by as much.
LEMMA OneChainDiffers ==
  ASSUME NEW m, MapOK(m), NEW w, MapOK(w),
         NEW i \in 0 .. m.capacity - 1, DiffersAt(m, w, i)
  PROVE  CountMoves(m, w, m.chain[i], w.chain[i])
<1>0. PICK n \in Nat : n = m.capacity /\ n = w.capacity /\ i \in 0 .. n - 1
  BY MapFields DEF DiffersAt
<1>7. PICK a \in Nat, b \in Nat : a = Len(m.chain[i].nodes) /\ b = Len(w.chain[i].nodes)
  BY <1>0, MapFields, Chains
<1>1. PICK d, e : d = EntriesBelow(w) /\ e = EntriesBelow(m)
  OBVIOUS
<1> DEFINE P(j) == /\ Len(d[j]) \in Nat /\ Len(e[j]) \in Nat
                   /\ j <= i => Len(d[j]) = Len(e[j])
                   /\ i < j => Len(d[j]) + a = Len(e[j]) + b
<1> DEFINE S == {j \in Nat : j <= n => P(j)}
<1>2. 0 \in S
  <2>1. d[0] = <<>> /\ e[0] = <<>>
    BY <1>1, EntriesStep
  <2>2. Len(<<>>) = 0 /\ ~(i < 0)
    BY <1>0
  <2> QED
    BY <2>1, <2>2
<1>3. ASSUME NEW j \in Nat, j \in S PROVE j + 1 \in S
  <2> SUFFICES ASSUME j + 1 <= n PROVE P(j + 1)
    OBVIOUS
  <2>1. P(j) /\ j \in 0 .. n - 1 /\ j \in 0 .. n
    BY <1>3
  <2>2. PICK u \in Seq(Entry), v \in Seq(Entry) :
          /\ u = w.chain[j].nodes /\ v = m.chain[j].nodes
          /\ Len(u) \in Nat /\ Len(v) \in Nat
    BY <1>0, <2>1, MapFields, Chains DEF Entry
  <2>3. d[j + 1] = d[j] \o u /\ e[j + 1] = e[j] \o v
    BY <1>0, <1>1, <2>1, <2>2, EntriesStep
  <2>4. d[j] \in Seq(Entry) /\ e[j] \in Seq(Entry)
    BY <1>0, <1>1, <2>1, EntriesBelowMeet
  <2>5. Len(d[j + 1]) = Len(d[j]) + Len(u) /\ Len(e[j + 1]) = Len(e[j]) + Len(v)
    BY <2>2, <2>3, <2>4, Joined
  <2>6. IF j = i THEN Len(u) + a = Len(v) + b ELSE Len(u) = Len(v)
    <3>1. CASE j = i
      <4>1. Len(u) = b /\ Len(v) = a
        BY <1>7, <2>2, <3>1
      <4> QED
        BY <3>1, <4>1
    <3>2. CASE j # i
      BY <1>0, <2>1, <2>2, <3>2 DEF DiffersAt
    <3> QED
      BY <3>1, <3>2
  <2>7. PICK p \in Nat, q \in Nat, r \in Nat, t \in Nat :
          p = Len(d[j]) /\ q = Len(e[j]) /\ r = Len(u) /\ t = Len(v)
    BY <2>1, <2>2
  <2>8. Len(d[j + 1]) = p + r /\ Len(e[j + 1]) = q + t
    BY <2>5, <2>7
  <2>9. /\ j <= i => p = q
        /\ i < j => p + a = q + b
        /\ IF j = i THEN r + a = t + b ELSE r = t
    BY <2>1, <2>6, <2>7
  <2>10. /\ j + 1 <= i => p + r = q + t
         /\ i < j + 1 => (p + r) + a = (q + t) + b
    BY <1>0, <2>9
  <2> QED
    BY <2>8, <2>10
<1> HIDE DEF S
<1>4. n \in S
  BY <1>2, <1>3, Induction
<1>5. Len(d[n]) + a = Len(e[n]) + b
  <2>1. i < n /\ n <= n
    BY <1>0
  <2>2. P(n)
    BY <1>4, <2>1, Zenon DEF S
  <2> QED
    BY <2>1, <2>2, Zenon
<1>6. Entries(w) = d[n] /\ Entries(m) = e[n]
  BY <1>0, <1>1 DEF Entries
<1> QED
  BY <1>5, <1>6, <1>7, Zenon DEF Count, CountMoves

\* A map with another chain in one place, and another size.
WithChain(m, i, c, z) == [capacity |-> m.capacity, size |-> z,
                          chain |-> [m.chain EXCEPT ![i] = c]]

\* Only the nodes of that chain are others then.
LEMMA ChainReplaced ==
  ASSUME NEW m, MapOK(m), NEW i \in 0 .. m.capacity - 1,
         NEW c, ChainOK(c), \A x : In(c, x) => Index(m, x.key) = i,
         NEW z \in Nat, NEW w, w = WithChain(m, i, c, z)
  PROVE  /\ MapOK(w)
         /\ w.capacity = m.capacity /\ w.size = z
         /\ \A x : Has(w, x) <=> /\ x \in Entry
                                 /\ IF Index(m, x.key) = i THEN In(c, x)
                                                           ELSE Has(m, x)
         /\ CountMoves(m, w, m.chain[i], c)
<1>0. PICK n \in Nat \ {0} : n = m.capacity /\ i \in 0 .. n - 1
  BY MapFields
<1>1. c \in Chain /\ m.chain \in [0 .. n - 1 -> Chain]
  BY <1>0, MapFields DEF ChainOK
<1>2. /\ w.capacity = n /\ w.size = z
      /\ w.chain \in [0 .. n - 1 -> Chain]
      /\ w.chain[i] = c
      /\ \A j \in 0 .. n - 1 : j # i => w.chain[j] = m.chain[j]
      /\ w \in [capacity : Nat \ {0}, size : Nat, chain : [0 .. n - 1 -> Chain]]
  BY <1>0, <1>1 DEF WithChain
<1>3. \A k : Index(w, k) = Index(m, k)
  BY <1>0, <1>2 DEF Index
<1>4. ASSUME NEW j \in 0 .. n - 1
      PROVE  /\ ChainOK(w.chain[j])
             /\ \A l \in DOMAIN w.chain[j].nodes : Index(w, w.chain[j].nodes[l].key) = j
  <2>1. CASE j = i
    BY <1>2, <1>3, <2>1 DEF In
  <2>2. CASE j # i
    <3>1. PICK o : o = m.chain[j] /\ o = w.chain[j] /\ ChainOK(o)
      BY <1>0, <1>2, <2>2, MapFields
    <3>2. \A x : In(o, x) => Index(m, x.key) = j
      BY <1>0, <3>1, InItsChain
    <3> QED
      BY <1>3, <3>1, <3>2 DEF In
  <2> QED
    BY <2>1, <2>2
<1>5. MapOK(w)
  <2>1. DOMAIN w.chain = 0 .. n - 1
    BY <1>2
  <2> QED
    BY <1>2, <1>4, <2>1 DEF MapOK
<1>6. ASSUME NEW x, x \in Entry
      PROVE  Has(w, x) <=> IF Index(m, x.key) = i THEN In(c, x) ELSE Has(m, x)
  <2>1. Index(m, x.key) \in 0 .. n - 1
    BY <1>0, <1>6, IndexInRange DEF Entry
  <2> QED
    BY <1>2, <1>3, <1>6, <2>1 DEF Has
<1>7. \A x : Has(w, x) => x \in Entry
  BY DEF Has
<1>8. CountMoves(m, w, m.chain[i], c)
  <2>1. DiffersAt(m, w, i)
    BY <1>0, <1>2 DEF DiffersAt
  <2>2. CountMoves(m, w, m.chain[i], w.chain[i])
    BY <1>5, <2>1, OneChainDiffers
  <2> QED
    BY <1>2, <2>2
<1> QED
  BY <1>0, <1>2, <1>5, <1>6, <1>7, <1>8

-----------------------------------------------------------------------------
(* Single operations *)

\* A node whose key is not there is put in front of the chain of its hash.
LEMMA PlaceAddsNode ==
  ASSUME NEW m, MapOK(m), NEW x \in Entry, ~HasKey(m, x.key)
  PROVE  /\ MapOK(Place(m, x))
         /\ Place(m, x).capacity = m.capacity
         /\ Place(m, x).size = m.size + 1
         /\ Count(Place(m, x)) = Count(m) + 1
         /\ \A y : Has(Place(m, x), y) <=> Has(m, y) \/ y = x
<1>1. /\ x.key \in Key /\ x.value \in Value /\ x = Node(x.key, x.value)
  BY DEF Entry, Node
<1>2. PICK i \in 0 .. m.capacity - 1 : i = Index(m, x.key)
  BY <1>1, MapFields, IndexInRange
<1>3. PICK o : o = m.chain[i] /\ ChainOK(o)
  BY MapFields
<1>4. ~Holds(o, x.key)
  BY <1>1, <1>2, <1>3, Containing, ContainsEveryNode DEF ContainsKey
<1>5. PICK c : c = ChainInsert(o, x)
  OBVIOUS
<1>6. /\ ChainOK(c)
      /\ Len(c.nodes) = Len(o.nodes) + 1
      /\ \A y : In(c, y) <=> y = x \/ In(o, y)
  BY <1>1, <1>3, <1>4, <1>5, InsertAddsNode
<1>7. \A y : In(c, y) => Index(m, y.key) = i
  BY <1>2, <1>3, <1>6, InItsChain
<1>8. PICK z \in Nat : z = m.size + 1
  BY MapFields
<1>9. PICK w : w = WithChain(m, i, c, z)
  OBVIOUS
<1>10. Place(m, x) = w
  <2>1. PICK f, n, h : f = m.chain /\ n = m.capacity /\ h = m.size
    OBVIOUS
  <2>2. m = [capacity |-> n, size |-> h, chain |-> f]
    BY <2>1, MapFields
  <2>3. Place(m, x) = [m EXCEPT !.chain = [f EXCEPT ![i] = c], !.size = z]
    <3>1. Place(m, x) = [m EXCEPT !.chain[i] = ChainInsert(@, x), !.size = @ + 1]
      BY <1>2 DEF Place
    <3> QED
      BY <1>3, <1>5, <1>8, <2>1, <2>2, <3>1
  <2> QED
    BY <1>9, <2>1, <2>2, <2>3 DEF WithChain
<1>11. /\ MapOK(w) /\ w.capacity = m.capacity /\ w.size = z
       /\ \A y : Has(w, y) <=> /\ y \in Entry
                               /\ IF Index(m, y.key) = i THEN In(c, y)
                                                         ELSE Has(m, y)
       /\ CountMoves(m, w, o, c)
  BY <1>3, <1>6, <1>7, <1>9, ChainReplaced
<1>12. Count(w) = Count(m) + 1
  <2>1. PICK p \in Nat, q \in Nat, r \in Nat, t \in Nat :
          p = Len(c.nodes) /\ q = Len(o.nodes) /\ r = Count(w) /\ t = Count(m)
    BY <1>3, <1>6, <1>11, Chains, CountIsNumber
  <2>2. r + q = t + p /\ p = q + 1
    BY <1>6, <1>11, <2>1 DEF CountMoves
  <2>3. r = t + 1
    BY <2>2
  <2> QED
    BY <2>1, <2>3
<1>13. ASSUME NEW y PROVE Has(w, y) <=> Has(m, y) \/ y = x
  <2>1. Has(m, y) => y \in Entry
    BY DEF Has
  <2>2. Index(m, y.key) = i /\ y \in Entry => (In(o, y) <=> Has(m, y))
    BY <1>3 DEF Has
  <2> QED
    BY <1>2, <1>6, <1>11, <2>1, <2>2
<1> QED
  BY <1>8, <1>10, <1>11, <1>12, <1>13

\* What an operation keeps: size() is not below the number of entries, and
\* the chains are short.
Covers(m) == m.size >= Count(m)
Bounded(m) == Count(m) <= (LoadFactor + 1) * m.capacity
Sound(m) == MapOK(m) /\ Covers(m) /\ Bounded(m)

\* size() is exact in w if it was in m.
StaysExact(m, w) == Exact(m) => Exact(w)

\* Erasing a key takes away its node, if there is one.
LEMMA EraseTakesNode ==
  ASSUME NEW m, Sound(m), NEW k \in Key
  PROVE  /\ Sound(Erase(m, k))
         /\ StaysExact(m, Erase(m, k))
         /\ \A y : Has(Erase(m, k), y) <=> Has(m, y) /\ y.key # k
<1>0. MapOK(m)
  BY DEF Sound
<1>1. PICK i \in 0 .. m.capacity - 1 : i = Index(m, k)
  BY <1>0, MapFields, IndexInRange
<1>2. PICK o : o = m.chain[i] /\ ChainOK(o)
  BY <1>0, MapFields
<1>3. PICK c : c = ChainErase(o, k)
  OBVIOUS
<1>4. /\ ChainOK(c)
      /\ Len(o.nodes) = Len(c.nodes) + IF Holds(o, k) THEN 1 ELSE 0
      /\ \A y : In(c, y) <=> In(o, y) /\ y.key # k
  BY <1>2, <1>3, EraseRemovesNode
<1>5. \A y : In(c, y) => Index(m, y.key) = i
  BY <1>0, <1>2, <1>4, InItsChain
<1>6. PICK p \in Nat, q \in Nat, r \in Nat, t \in Nat :
        p = Len(c.nodes) /\ q = Len(o.nodes) /\ r = m.size /\ t = Count(m)
  BY <1>0, <1>2, <1>4, Chains, CountIsNumber, MapFields
<1>7. q = p \/ (q = p + 1 /\ t >= 1)
  <2>1. CASE Holds(o, k)
    <3>1. PICK y : In(o, y)
      BY <2>1 DEF Holds, In
    <3>2. Has(m, y)
      BY <1>0, <1>2, <3>1, InItsChain
    <3>3. t >= 1
      BY <1>0, <1>6, <3>2, CountIsNumber
    <3> QED
      BY <1>4, <1>6, <2>1, <3>3
  <2>2. CASE ~Holds(o, k)
    <3>1. (IF Holds(o, k) THEN 1 ELSE 0) = 0
      BY <2>2
    <3>2. Len(o.nodes) = Len(c.nodes) + 0
      BY <1>4, <3>1, Zenon
    <3> QED
      BY <1>6, <3>2
  <2> QED
    BY <2>1, <2>2
<1>8. r >= t
  BY <1>6 DEF Sound, Covers
<1>9. PICK z \in Nat : z = r - (q - p)
  BY <1>7, <1>8
<1>10. PICK w : w = WithChain(m, i, c, z)
  OBVIOUS
<1>11. Erase(m, k) = w
  <2>1. PICK f, n : f = m.chain /\ n = m.capacity
    OBVIOUS
  <2>2. m = [capacity |-> n, size |-> r, chain |-> f]
    BY <1>0, <1>6, <2>1, MapFields
  <2>3. Erase(m, k) = [m EXCEPT !.chain = [f EXCEPT ![i] = c], !.size = z]
    <3>1. Erase(m, k) = [m EXCEPT !.chain[i] = c,
                                  !.size = @ - (Len(o.nodes) - Len(c.nodes))]
      BY <1>1, <1>2, <1>3 DEF Erase
    <3> QED
      BY <1>6, <1>9, <2>1, <2>2, <3>1
  <2> QED
    BY <1>10, <2>1, <2>2, <2>3 DEF WithChain
<1>12. /\ MapOK(w) /\ w.capacity = m.capacity /\ w.size = z
       /\ \A y : Has(w, y) <=> /\ y \in Entry
                               /\ IF Index(m, y.key) = i THEN In(c, y)
                                                         ELSE Has(m, y)
       /\ CountMoves(m, w, o, c)
  BY <1>0, <1>2, <1>4, <1>5, <1>10, ChainReplaced
<1>13. PICK v \in Nat : v = Count(w)
  BY <1>12, CountIsNumber
<1>14. v + q = t + p
  BY <1>6, <1>12, <1>13 DEF CountMoves
<1>15. Covers(w)
  <2>1. z >= v
    BY <1>8, <1>9, <1>14
  <2> QED
    BY <1>12, <1>13, <2>1 DEF Covers
<1>16. StaysExact(m, w)
  <2>1. r = t => z = v
    BY <1>9, <1>14
  <2> QED
    BY <1>6, <1>12, <1>13, <2>1 DEF StaysExact, Exact, Count
<1>17. Bounded(w)
  <2>1. v <= t
    BY <1>7, <1>14
  <2>2. PICK l \in Nat : l = (LoadFactor + 1) * m.capacity
    BY <1>0, MapFields, LoadAssumption
  <2>3. t <= l
    BY <1>6, <2>2 DEF Sound, Bounded
  <2>4. v <= l
    BY <2>1, <2>3
  <2> QED
    BY <1>12, <1>13, <2>2, <2>4 DEF Bounded
<1>18. ASSUME NEW y PROVE Has(w, y) <=> Has(m, y) /\ y.key # k
  <2>1. Has(m, y) => y \in Entry
    BY DEF Has
  <2>2. Index(m, y.key) = i /\ y \in Entry => (In(o, y) <=> Has(m, y))
    BY <1>2 DEF Has
  <2>3. y.key = k => Index(m, y.key) = i
    BY <1>1
  <2> QED
    BY <1>4, <1>12, <2>1, <2>2, <2>3
<1> QED
  BY <1>11, <1>12, <1>15, <1>16, <1>17, <1>18 DEF Sound

-----------------------------------------------------------------------------
(* Maps without nodes *)

\* A map without nodes: all chains are empty.
Hollow(n, z) == [capacity |-> n, size |-> z,
                 chain |-> [i \in 0 .. n - 1 |-> EmptyChain]]

\* It has no nodes, and is as a map should be.
LEMMA EmptyHasNone ==
  ASSUME NEW n \in Nat \ {0}, NEW z \in Nat, NEW m, m = Hollow(n, z)
  PROVE  /\ MapOK(m) /\ m.capacity = n /\ m.size = z
         /\ \A x : ~Has(m, x)
         /\ Count(m) = 0
<1>2. PICK c : c = EmptyChain /\ c = [nodes |-> <<>>, tail |-> NoKey]
  BY DEF EmptyChain
<1>3. /\ <<>> \in Seq([key : Key, value : Value]) /\ DOMAIN <<>> = {}
  OBVIOUS
<1>4. ChainOK(c) /\ c \in Chain /\ DOMAIN c.nodes = {}
  BY <1>2, <1>3 DEF ChainOK, Chain, TailOK, KeysOnce
<1>5. /\ m.capacity = n /\ m.size = z
      /\ DOMAIN m.chain = 0 .. n - 1
      /\ \A i \in 0 .. n - 1 : m.chain[i] = c
      /\ m \in [capacity : Nat \ {0}, size : Nat, chain : [0 .. n - 1 -> Chain]]
  <2>1. PICK f : f = [i \in 0 .. n - 1 |-> c]
    OBVIOUS
  <2>2. m = [capacity |-> n, size |-> z, chain |-> f]
    BY <1>2, <2>1 DEF Hollow
  <2>3. f \in [0 .. n - 1 -> Chain]
    BY <1>4, <2>1
  <2> QED
    BY <2>1, <2>2, <2>3
<1>6. MapOK(m)
  <2>1. \A i \in DOMAIN m.chain : ChainOK(m.chain[i]) /\ DOMAIN m.chain[i].nodes = {}
    BY <1>4, <1>5
  <2>2. m \in [capacity : Nat \ {0}, size : Nat, chain : [0 .. m.capacity - 1 -> Chain]]
    BY <1>5
  <2> QED
    BY <2>1, <2>2 DEF MapOK
<1>7. ASSUME NEW x PROVE ~Has(m, x)
  <2> SUFFICES ASSUME Has(m, x) PROVE FALSE
    OBVIOUS
  <2>1. Index(m, x.key) \in 0 .. n - 1
    BY <1>5, IndexInRange DEF Has, Entry
  <2> QED
    BY <1>4, <1>5, <2>1 DEF Has, In
<1> QED
  BY <1>5, <1>6, <1>7, CountIsNumber

-----------------------------------------------------------------------------
(* Loops *)

\* The bodies of the loops, by number.
Body(b, m, x) == IF b = 1 THEN Place(m, x)
                 ELSE IF b = 2 THEN Insert(m, x)
                 ELSE IF b = 3 THEN EraseNode(m, x) ELSE InsertMoved(m, x)

\* f maps a number of turns to what they make of m.
Turning(f, b, m, nodes, n) ==
  f = [i \in 0 .. n |-> IF i = 0 THEN m ELSE Body(b, f[i - 1], nodes[i])]

\* There is such a function.
LEMMA Turns ==
  ASSUME NEW b, NEW m, NEW nodes, NEW l \in Nat
  PROVE  \E f : Turning(f, b, m, nodes, l)
<1> DEFINE Goes(n, f) == Turning(f, b, m, nodes, n)
<1> DEFINE S == {n \in Nat : \E f : Goes(n, f)}
<1>1. 0 \in S
  <2>1. PICK f : f = [i \in 0 .. 0 |-> m]
    OBVIOUS
  <2>2. Goes(0, f)
    BY <2>1 DEF Turning
  <2> QED
    BY <2>2
<1>2. ASSUME NEW n \in Nat, n \in S PROVE n + 1 \in S
  <2>1. PICK f : Goes(n, f)
    BY <1>2
  <2>2. PICK g : g = [i \in 0 .. n + 1 |-> IF i = n + 1 THEN Body(b, f[n], nodes[n + 1])
                                                         ELSE f[i]]
    OBVIOUS
  <2>3. ASSUME NEW i \in 0 .. n + 1
        PROVE  g[i] = IF i = 0 THEN m ELSE Body(b, g[i - 1], nodes[i])
    <3>1. CASE i = n + 1
      <4>1. i # 0 /\ i - 1 = n /\ i - 1 \in 0 .. n + 1 /\ i - 1 # n + 1
        BY <3>1
      <4> QED
        BY <2>2, <3>1, <4>1
    <3>2. CASE i # n + 1
      <4>1. i \in 0 .. n /\ (i # 0 => i - 1 \in 0 .. n + 1 /\ i - 1 # n + 1)
        BY <3>2
      <4>2. f[i] = IF i = 0 THEN m ELSE Body(b, f[i - 1], nodes[i])
        BY <2>1, <4>1 DEF Turning
      <4> QED
        BY <2>2, <3>2, <4>1, <4>2
    <3> QED
      BY <3>1, <3>2
  <2>4. Goes(n + 1, g)
    BY <2>2, <2>3 DEF Turning
  <2> HIDE DEF Goes
  <2> QED
    BY <2>4
<1> HIDE DEF S
<1>3. l \in S
  BY <1>1, <1>2, Induction
<1> QED
  BY <1>3 DEF S

\* f follows the loop of body b over the nodes, from m to w.
Follows(f, b, m, nodes, w) ==
  /\ f[0] = m
  /\ \A i \in 1 .. Len(nodes) : f[i] = Body(b, f[i - 1], nodes[i])
  /\ f[Len(nodes)] = w

\* The loops as functions of the number of turns.
LEMMA PlaceLoop ==
  ASSUME NEW m, NEW nodes, Len(nodes) \in Nat
  PROVE  \E f : Follows(f, 1, m, nodes, Loop(Place, m, nodes))
<1> DEFINE Goes(f) ==
      f = [i \in 0 .. Len(nodes) |-> IF i = 0 THEN m ELSE Place(f[i - 1], nodes[i])]
<1>1. \E f : Goes(f)
  <2>0. PICK f : Turning(f, 1, m, nodes, Len(nodes))
    BY Turns
  <2>1. f = [i \in 0 .. Len(nodes) |-> IF i = 0 THEN m ELSE Body(1, f[i - 1], nodes[i])]
    BY <2>0 DEF Turning
  <2>2. \A i : Body(1, f[i - 1], nodes[i]) = Place(f[i - 1], nodes[i])
    BY DEF Body
  <2>3. f = [i \in 0 .. Len(nodes) |->
               IF i = 0 THEN m ELSE Place(f[i - 1], nodes[i])]
    BY <2>1, <2>2
  <2> QED
    BY <2>3
<1>2. PICK f : f = CHOOSE g : Goes(g)
  OBVIOUS
<1>3. Goes(f)
  BY <1>1, <1>2
<1>4. Loop(Place, m, nodes) = f[Len(nodes)]
  BY <1>2 DEF Loop
<1>5. PICK n \in Nat : n = Len(nodes)
  OBVIOUS
<1>6. f = [i \in 0 .. n |-> IF i = 0 THEN m ELSE Place(f[i - 1], nodes[i])]
  BY <1>3, <1>5
<1>7. f[0] = m /\ \A i \in 1 .. n : f[i] = Body(1, f[i - 1], nodes[i])
  BY <1>6 DEF Body
<1>8. Follows(f, 1, m, nodes, Loop(Place, m, nodes))
  BY <1>4, <1>5, <1>7, Zenon DEF Follows
<1> QED
  BY <1>8, Zenon

\* The same for the loop of a copy.
LEMMA InsertLoop ==
  ASSUME NEW m, NEW nodes, Len(nodes) \in Nat
  PROVE  \E f : Follows(f, 2, m, nodes, Loop(Insert, m, nodes))
<1> DEFINE Goes(f) ==
      f = [i \in 0 .. Len(nodes) |-> IF i = 0 THEN m ELSE Insert(f[i - 1], nodes[i])]
<1>1. \E f : Goes(f)
  <2>0. PICK f : Turning(f, 2, m, nodes, Len(nodes))
    BY Turns
  <2>1. f = [i \in 0 .. Len(nodes) |-> IF i = 0 THEN m ELSE Body(2, f[i - 1], nodes[i])]
    BY <2>0 DEF Turning
  <2>2. \A i : Body(2, f[i - 1], nodes[i]) = Insert(f[i - 1], nodes[i])
    BY DEF Body
  <2>3. f = [i \in 0 .. Len(nodes) |->
               IF i = 0 THEN m ELSE Insert(f[i - 1], nodes[i])]
    BY <2>1, <2>2
  <2> QED
    BY <2>3
<1>2. PICK f : f = CHOOSE g : Goes(g)
  OBVIOUS
<1>3. Goes(f)
  BY <1>1, <1>2
<1>4. Loop(Insert, m, nodes) = f[Len(nodes)]
  BY <1>2 DEF Loop
<1>5. PICK n \in Nat : n = Len(nodes)
  OBVIOUS
<1>6. f = [i \in 0 .. n |-> IF i = 0 THEN m ELSE Insert(f[i - 1], nodes[i])]
  BY <1>3, <1>5
<1>7. f[0] = m /\ \A i \in 1 .. n : f[i] = Body(2, f[i - 1], nodes[i])
  BY <1>6 DEF Body
<1>8. Follows(f, 2, m, nodes, Loop(Insert, m, nodes))
  BY <1>4, <1>5, <1>7, Zenon DEF Follows
<1> QED
  BY <1>8, Zenon

\* The same for the loop of an erasure.
LEMMA EraseLoop ==
  ASSUME NEW m, NEW nodes, Len(nodes) \in Nat
  PROVE  \E f : Follows(f, 3, m, nodes, Loop(EraseNode, m, nodes))
<1> DEFINE Goes(f) ==
      f = [i \in 0 .. Len(nodes) |-> IF i = 0 THEN m ELSE EraseNode(f[i - 1], nodes[i])]
<1>1. \E f : Goes(f)
  <2>0. PICK f : Turning(f, 3, m, nodes, Len(nodes))
    BY Turns
  <2>1. f = [i \in 0 .. Len(nodes) |-> IF i = 0 THEN m ELSE Body(3, f[i - 1], nodes[i])]
    BY <2>0 DEF Turning
  <2>2. \A i : Body(3, f[i - 1], nodes[i]) = EraseNode(f[i - 1], nodes[i])
    BY DEF Body
  <2>3. f = [i \in 0 .. Len(nodes) |->
               IF i = 0 THEN m ELSE EraseNode(f[i - 1], nodes[i])]
    BY <2>1, <2>2
  <2> QED
    BY <2>3
<1>2. PICK f : f = CHOOSE g : Goes(g)
  OBVIOUS
<1>3. Goes(f)
  BY <1>1, <1>2
<1>4. Loop(EraseNode, m, nodes) = f[Len(nodes)]
  BY <1>2 DEF Loop
<1>5. PICK n \in Nat : n = Len(nodes)
  OBVIOUS
<1>6. f = [i \in 0 .. n |-> IF i = 0 THEN m ELSE EraseNode(f[i - 1], nodes[i])]
  BY <1>3, <1>5
<1>7. f[0] = m /\ \A i \in 1 .. n : f[i] = Body(3, f[i - 1], nodes[i])
  BY <1>6 DEF Body
<1>8. Follows(f, 3, m, nodes, Loop(EraseNode, m, nodes))
  BY <1>4, <1>5, <1>7, Zenon DEF Follows
<1> QED
  BY <1>8, Zenon

\* The same for the loop of rehash.
LEMMA InsertMovedLoop ==
  ASSUME NEW m, NEW nodes, Len(nodes) \in Nat
  PROVE  \E f : Follows(f, 4, m, nodes, Loop(InsertMoved, m, nodes))
<1> DEFINE Goes(f) ==
      f = [i \in 0 .. Len(nodes) |-> IF i = 0 THEN m ELSE InsertMoved(f[i - 1], nodes[i])]
<1>1. \E f : Goes(f)
  <2>0. PICK f : Turning(f, 4, m, nodes, Len(nodes))
    BY Turns
  <2>1. f = [i \in 0 .. Len(nodes) |-> IF i = 0 THEN m ELSE Body(4, f[i - 1], nodes[i])]
    BY <2>0 DEF Turning
  <2>2. \A i : Body(4, f[i - 1], nodes[i]) = InsertMoved(f[i - 1], nodes[i])
    BY DEF Body
  <2>3. f = [i \in 0 .. Len(nodes) |->
               IF i = 0 THEN m ELSE InsertMoved(f[i - 1], nodes[i])]
    BY <2>1, <2>2
  <2> QED
    BY <2>3
<1>2. PICK f : f = CHOOSE g : Goes(g)
  OBVIOUS
<1>3. Goes(f)
  BY <1>1, <1>2
<1>4. Loop(InsertMoved, m, nodes) = f[Len(nodes)]
  BY <1>2 DEF Loop
<1>5. PICK n \in Nat : n = Len(nodes)
  OBVIOUS
<1>6. f = [i \in 0 .. n |-> IF i = 0 THEN m ELSE InsertMoved(f[i - 1], nodes[i])]
  BY <1>3, <1>5
<1>7. f[0] = m /\ \A i \in 1 .. n : f[i] = Body(4, f[i - 1], nodes[i])
  BY <1>6 DEF Body
<1>8. Follows(f, 4, m, nodes, Loop(InsertMoved, m, nodes))
  BY <1>4, <1>5, <1>7, Zenon DEF Follows
<1> QED
  BY <1>8, Zenon

-----------------------------------------------------------------------------
(* Growing *)

\* Placing nodes with different keys in a map without nodes makes, after every
\* turn, a map of those that were placed, which counts them right.
Placed(u, n, nodes, i) ==
  /\ MapOK(u)
  /\ u.capacity = n
  /\ u.size = i
  /\ Count(u) = i
  /\ \A y : Has(u, y) <=> \E j \in 1 .. i : nodes[j] = y

LEMMA PlaceTurns ==
  ASSUME NEW n \in Nat \ {0}, NEW nodes \in Seq(Entry), Distinct(nodes),
         NEW w, NEW f, Follows(f, 1, Hollow(n, 0), nodes, w),
         NEW l \in Nat, l = Len(nodes)
  PROVE  \A i \in 0 .. l : Placed(f[i], n, nodes, i)
<1>1. DOMAIN nodes = 1 .. l
  BY LenProperties
<1>3. /\ f[0] = Hollow(n, 0)
      /\ \A i \in 1 .. l : f[i] = Place(f[i - 1], nodes[i])
  BY DEF Follows, Body
<1> DEFINE P(i) == /\ MapOK(f[i])
                   /\ f[i].capacity = n
                   /\ f[i].size = i
                   /\ Count(f[i]) = i
                   /\ \A y : Has(f[i], y) <=> \E j \in 1 .. i : nodes[j] = y
<1> DEFINE S == {i \in Nat : i <= l => P(i)}
<1>4. 0 \in S
  <2>1. MapOK(f[0]) /\ f[0].capacity = n /\ f[0].size = 0 /\ Count(f[0]) = 0
    BY <1>3, EmptyHasNone
  <2>2. \A y : ~Has(f[0], y)
    BY <1>3, EmptyHasNone
  <2>3. 1 .. 0 = {}
    OBVIOUS
  <2> QED
    BY <2>1, <2>2, <2>3
<1>5. ASSUME NEW i \in Nat, i \in S PROVE i + 1 \in S
  <2> SUFFICES ASSUME i + 1 <= l PROVE P(i + 1)
    OBVIOUS
  <2>1. P(i) /\ i + 1 \in 1 .. l /\ (i + 1) - 1 = i
    BY <1>5
  <2>2. PICK x \in Entry : x = nodes[i + 1]
    BY <1>1, <2>1
  <2>3. PICK u : u = f[i] /\ f[i + 1] = Place(u, x)
    BY <1>3, <2>1, <2>2
  <2>4. ~HasKey(u, x.key)
    <3> SUFFICES ASSUME NEW y, Has(u, y), y.key = x.key PROVE FALSE
      BY DEF HasKey
    <3>1. PICK j \in 1 .. i : nodes[j] = y
      BY <2>1, <2>3
    <3>2. j \in 1 .. l /\ j # i + 1
      BY <2>1
    <3> QED
      BY <1>1, <2>1, <2>2, <3>1, <3>2 DEF Distinct
  <2>5. MapOK(u) /\ u.capacity = n /\ u.size = i /\ Count(u) = i
    BY <2>1, <2>3
  <2>6. PICK v : v = Place(u, x)
    OBVIOUS
  <2>7. /\ MapOK(v) /\ v.capacity = n /\ v.size = i + 1 /\ Count(v) = i + 1
        /\ \A y : Has(v, y) <=> Has(u, y) \/ y = x
    BY <2>4, <2>5, <2>6, PlaceAddsNode
  <2>8. ASSUME NEW y PROVE Has(v, y) <=> \E j \in 1 .. i + 1 : nodes[j] = y
    <3>1. \A j : j \in 1 .. i + 1 <=> j \in 1 .. i \/ j = i + 1
      OBVIOUS
    <3>2. Has(u, y) <=> \E j \in 1 .. i : nodes[j] = y
      BY <2>1, <2>3
    <3> QED
      BY <2>2, <2>7, <3>1, <3>2
  <2> QED
    BY <2>3, <2>6, <2>7, <2>8
<1> HIDE DEF S
<1>6. \A i \in Nat : i \in S
  BY <1>4, <1>5, Induction
<1> QED
  BY <1>6, SMTT(40) DEF S, Placed

LEMMA PlaceAll ==
  ASSUME NEW n \in Nat \ {0}, NEW nodes \in Seq(Entry), Distinct(nodes),
         NEW w, w = Loop(Place, Hollow(n, 0), nodes)
  PROVE  /\ MapOK(w)
         /\ w.capacity = n
         /\ w.size = Len(nodes)
         /\ Count(w) = Len(nodes)
         /\ \A y : Has(w, y) <=> Listed(nodes, y)
<1>1. PICK l \in Nat : l = Len(nodes) /\ DOMAIN nodes = 1 .. l /\ l \in 0 .. l
  BY LenProperties
<1>2. PICK f : Follows(f, 1, Hollow(n, 0), nodes, w)
  BY <1>1, PlaceLoop
<1>3. f[l] = w
  BY <1>1, <1>2 DEF Follows
<1>4. Placed(w, n, nodes, l)
  BY <1>1, <1>2, <1>3, PlaceTurns
<1> QED
  BY <1>1, <1>4 DEF Placed, Listed

\* A rehash keeps the nodes, doubles the capacity and counts right.
LEMMA RehashKeeps ==
  ASSUME NEW m, MapOK(m)
  PROVE  /\ MapOK(Rehash(m))
         /\ Rehash(m).capacity = 2 * m.capacity
         /\ Exact(Rehash(m))
         /\ Count(Rehash(m)) = Count(m)
         /\ \A y : Has(Rehash(m), y) <=> Has(m, y)
<1>1. PICK n \in Nat \ {0} : n = 2 * m.capacity
  BY MapFields
<1>2. PICK nodes \in Seq(Entry) :
        nodes = Entries(m) /\ Distinct(nodes) /\ \A y : Listed(nodes, y) <=> Has(m, y)
  BY EntriesMeet
<1>3. Empty(n) = Hollow(n, 0)
  BY DEF Empty, Hollow
<1>4. PICK w : w = Loop(Place, Hollow(n, 0), nodes)
  OBVIOUS
<1>5. Rehash(m) = w
  BY <1>1, <1>2, <1>3, <1>4 DEF Rehash
<1>6. /\ MapOK(w) /\ w.capacity = n /\ w.size = Len(nodes) /\ Count(w) = Len(nodes)
      /\ \A y : Has(w, y) <=> Listed(nodes, y)
  BY <1>2, <1>4, PlaceAll
<1> QED
  BY <1>1, <1>2, <1>5, <1>6 DEF Exact, Count

\* A load that is not above l leaves room for one more.
LEMMA QuotientLeavesRoom ==
  ASSUME NEW s \in Nat, NEW c \in Nat \ {0}, NEW l \in Nat, ~(s \div c > l)
  PROVE  s + 1 <= (l + 1) * c
<1>1. PICK q \in Nat : q = s \div c
  OBVIOUS
<1>2. s < (q + 1) * c
  BY <1>1
<1>3. (q + 1) * c <= (l + 1) * c
  BY <1>1
<1> QED
  BY <1>2, <1>3

\* A full array has room when it is doubled.
LEMMA DoublingLeavesRoom ==
  ASSUME NEW n \in Nat, NEW c \in Nat \ {0}, NEW l \in Nat, n <= (l + 1) * c
  PROVE  n + 1 <= (l + 1) * (2 * c)
<1>1. PICK p \in Nat : p = (l + 1) * c /\ p >= 1
  OBVIOUS
<1>2. (l + 1) * (2 * c) = 2 * p
  BY <1>1
<1> QED
  BY <1>1, <1>2

\* There is room for one more node.
Room(m) == Count(m) + 1 <= (LoadFactor + 1) * m.capacity

\* Growing keeps the nodes and makes room.
LEMMA GrowMakesRoom ==
  ASSUME NEW m, Sound(m)
  PROVE  /\ Sound(Grow(m))
         /\ Room(Grow(m))
         /\ StaysExact(m, Grow(m))
         /\ \A y : Has(Grow(m), y) <=> Has(m, y)
<1>0. MapOK(m)
  BY DEF Sound
<1>1. PICK c \in Nat \ {0}, s \in Nat, n \in Nat, l \in Nat :
        c = m.capacity /\ s = m.size /\ n = Count(m) /\ l = LoadFactor
  BY <1>0, MapFields, CountIsNumber, LoadAssumption
<1>2. n <= s /\ n <= (l + 1) * c
  BY <1>1 DEF Sound, Covers, Bounded
<1>3. CASE Loaded(m)
  <2>1. PICK w : w = Rehash(m) /\ w = Grow(m)
    BY <1>3 DEF Grow
  <2>2. /\ MapOK(w) /\ w.capacity = 2 * c /\ Exact(w) /\ Count(w) = n
        /\ \A y : Has(w, y) <=> Has(m, y)
    BY <1>0, <1>1, <2>1, RehashKeeps
  <2>3. n + 1 <= (l + 1) * (2 * c)
    BY <1>2, DoublingLeavesRoom
  <2>4. Room(w)
    BY <1>1, <2>2, <2>3 DEF Room
  <2>5. n <= (l + 1) * (2 * c)
    <3>1. PICK p \in Nat : p = (l + 1) * (2 * c)
      OBVIOUS
    <3> QED
      BY <2>3, <3>1
  <2>6. Bounded(w) /\ Covers(w)
    BY <1>1, <2>2, <2>5 DEF Bounded, Covers, Exact, Count
  <2> QED
    BY <2>1, <2>2, <2>4, <2>6 DEF Sound, StaysExact
<1>4. CASE ~Loaded(m)
  <2>1. Grow(m) = m
    BY <1>4 DEF Grow
  <2>2. ~(s \div c > l)
    BY <1>1, <1>4 DEF Loaded
  <2>3. s + 1 <= (l + 1) * c
    BY <2>2, QuotientLeavesRoom
  <2>4. n + 1 <= (l + 1) * c
    <3>1. PICK p \in Nat : p = (l + 1) * c
      OBVIOUS
    <3> QED
      BY <1>2, <2>3, <3>1
  <2>5. Room(m)
    BY <1>1, <2>4 DEF Room
  <2> QED
    BY <2>1, <2>5 DEF StaysExact
<1> QED
  BY <1>3, <1>4

\* A doubled array is not loaded by fewer nodes than were in a full one.
LEMMA HalfNotLoaded ==
  ASSUME NEW n \in Nat, NEW c \in Nat \ {0}, NEW l \in Nat \ {0},
         NEW i \in Nat, i <= n, n <= (l + 1) * c
  PROVE  ~(i \div (2 * c) > l)
<1>1. PICK q \in Nat : q = i \div (2 * c) /\ q * (2 * c) <= i
  OBVIOUS
<1>2. q * (2 * c) <= (l + 1) * c
  <2>1. PICK a \in Nat, b \in Nat : a = q * (2 * c) /\ b = (l + 1) * c
    OBVIOUS
  <2> QED
    BY <1>1, <2>1
<1>3. (2 * q) * c <= (l + 1) * c
  BY <1>2
<1>4. 2 * q <= l + 1
  <2> SUFFICES ASSUME 2 * q >= (l + 1) + 1 PROVE FALSE
    OBVIOUS
  <2>1. (2 * q) * c >= ((l + 1) + 1) * c
    OBVIOUS
  <2>2. ((l + 1) + 1) * c = (l + 1) * c + c
    OBVIOUS
  <2>3. PICK a \in Nat, b \in Nat : a = (2 * q) * c /\ b = (l + 1) * c
    OBVIOUS
  <2> QED
    BY <1>3, <2>1, <2>2, <2>3
<1> QED
  BY <1>1, <1>4

\* The loop of rehash calls insert, which grows the array itself and looks for
\* the key: in a sound map it does neither, so that Rehash, which only places
\* the nodes, is what the code makes, and rehash does not call itself.
THEOREM RehashInserts ==
  ASSUME NEW m, Sound(m)
  PROVE  Loop(InsertMoved, Empty(2 * m.capacity), Entries(m)) = Rehash(m)
<1>1. PICK c \in Nat \ {0}, k \in Nat, t \in Nat \ {0} :
        c = m.capacity /\ k = Count(m) /\ t = LoadFactor /\ MapOK(m)
  BY MapFields, CountIsNumber, LoadAssumption DEF Sound
<1>2. k <= (t + 1) * c
  BY <1>1 DEF Sound, Bounded
<1>3. PICK nodes \in Seq(Entry) :
        nodes = Entries(m) /\ Distinct(nodes) /\ k = Len(nodes) /\ DOMAIN nodes = 1 .. k
  BY <1>1, EntriesMeet DEF Count
<1>4. PICK n \in Nat \ {0} : n = 2 * c
  OBVIOUS
<1>5. PICK e : e = Hollow(n, 0) /\ e = Empty(n)
  BY DEF Empty, Hollow
<1>6. PICK g : Follows(g, 1, e, nodes, Loop(Place, e, nodes))
  BY <1>3, PlaceLoop
<1>7. PICK f : Follows(f, 4, e, nodes, Loop(InsertMoved, e, nodes))
  BY <1>3, InsertMovedLoop
<1>8. \A i \in 0 .. k : Placed(g[i], n, nodes, i)
  BY <1>3, <1>5, <1>6, PlaceTurns
<1>9. /\ f[0] = e /\ \A i \in 1 .. k : f[i] = InsertMoved(f[i - 1], nodes[i])
      /\ g[0] = e /\ \A i \in 1 .. k : g[i] = Place(g[i - 1], nodes[i])
  BY <1>3, <1>6, <1>7 DEF Follows, Body
<1> DEFINE S == {i \in Nat : i <= k => f[i] = g[i]}
<1>10. 0 \in S
  BY <1>9
<1>11. ASSUME NEW i \in Nat, i \in S PROVE i + 1 \in S
  <2> SUFFICES ASSUME i + 1 <= k PROVE f[i + 1] = g[i + 1]
    OBVIOUS
  <2>1. i \in 0 .. k /\ i + 1 \in 1 .. k /\ (i + 1) - 1 = i /\ i <= k
    OBVIOUS
  <2>2. PICK u : u = g[i] /\ u = f[i] /\ Placed(u, n, nodes, i)
    BY <1>8, <1>11, <2>1
  <2>3. PICK x \in Entry : x = nodes[i + 1] /\ x.key \in Key
    <3>1. nodes[i + 1] \in Entry
      BY <1>3, <2>1
    <3> QED
      BY <3>1 DEF Entry
  <2>4. ~HasKey(u, x.key)
    <3> SUFFICES ASSUME NEW y, Has(u, y), y.key = x.key PROVE FALSE
      BY DEF HasKey
    <3>1. PICK j \in 1 .. i : nodes[j] = y
      BY <2>2 DEF Placed
    <3>2. j \in 1 .. k /\ j # i + 1
      BY <2>1
    <3> QED
      BY <1>3, <2>1, <2>3, <3>1, <3>2 DEF Distinct
  <2>5. ~ContainsKey(u, x.key)
    BY <2>2, <2>3, <2>4, Containing DEF Placed
  <2>6. ~Loaded(u)
    <3>1. ~(i \div (2 * c) > t)
      BY <1>2, <2>1, HalfNotLoaded
    <3>2. u.size = i /\ u.capacity = 2 * c
      BY <1>4, <2>2 DEF Placed
    <3> QED
      BY <1>1, <3>1, <3>2 DEF Loaded
  <2>7. InsertMoved(u, x) = Place(u, x)
    BY <2>5, <2>6 DEF InsertMoved, Insert, Grow
  <2> QED
    BY <1>9, <2>1, <2>2, <2>3, <2>7
<1> HIDE DEF S
<1>12. k \in S
  BY <1>10, <1>11, Induction
<1>13. f[k] = g[k]
  BY <1>12 DEF S
<1>14. Loop(InsertMoved, e, nodes) = Loop(Place, e, nodes)
  BY <1>3, <1>6, <1>7, <1>13 DEF Follows
<1> QED
  BY <1>1, <1>3, <1>4, <1>5, <1>14, Zenon DEF Rehash

\* A node is inserted if no node has its key, and nothing changes otherwise.
LEMMA InsertAddsOnce ==
  ASSUME NEW m, Sound(m), NEW x \in Entry
  PROVE  /\ Sound(Insert(m, x))
         /\ StaysExact(m, Insert(m, x))
         /\ \A y : Has(Insert(m, x), y) <=> Has(m, y) \/ (y = x /\ ~HasKey(m, x.key))
         /\ HasKey(m, x.key) => Insert(m, x) = m
<1>0. MapOK(m) /\ x.key \in Key
  BY DEF Sound, Entry
<1>1. ContainsKey(m, x.key) <=> HasKey(m, x.key)
  BY <1>0, Containing
<1>2. CASE HasKey(m, x.key)
  <2>1. Insert(m, x) = m
    BY <1>1, <1>2 DEF Insert
  <2> QED
    BY <1>2, <2>1 DEF StaysExact
<1>3. CASE ~HasKey(m, x.key)
  <2>1. PICK g : g = Grow(m)
    OBVIOUS
  <2>2. /\ Sound(g) /\ Room(g) /\ StaysExact(m, g)
        /\ \A y : Has(g, y) <=> Has(m, y)
    BY <2>1, GrowMakesRoom
  <2>3. ~HasKey(g, x.key)
    BY <1>3, <2>2 DEF HasKey
  <2>4. PICK w : w = Place(g, x)
    OBVIOUS
  <2>5. Insert(m, x) = w
    BY <1>1, <1>3, <2>1, <2>4 DEF Insert
  <2>6. MapOK(g)
    BY <2>2 DEF Sound
  <2>7. /\ MapOK(w) /\ w.capacity = g.capacity /\ w.size = g.size + 1
        /\ Count(w) = Count(g) + 1
        /\ \A y : Has(w, y) <=> Has(g, y) \/ y = x
    BY <2>3, <2>4, <2>6, PlaceAddsNode
  <2>8. PICK n \in Nat, s \in Nat : n = Count(g) /\ s = g.size
    BY <2>6, CountIsNumber, MapFields
  <2>9. n <= s
    BY <2>2, <2>8 DEF Sound, Covers
  <2>10. Covers(w)
    BY <2>7, <2>8, <2>9 DEF Covers
  <2>11. Bounded(w)
    BY <2>2, <2>7 DEF Bounded, Room
  <2>12. StaysExact(g, w)
    BY <2>7, <2>8 DEF StaysExact, Exact, Count
  <2>13. StaysExact(m, w)
    BY <2>2, <2>12 DEF StaysExact
  <2> QED
    BY <1>3, <2>2, <2>5, <2>7, <2>10, <2>11, <2>13 DEF Sound
<1> QED
  BY <1>2, <1>3

\* insert(&&) does the same, and may grow the array for nothing.
LEMMA InsertMovedAddsOnce ==
  ASSUME NEW m, Sound(m), NEW x \in Entry
  PROVE  /\ Sound(InsertMoved(m, x))
         /\ StaysExact(m, InsertMoved(m, x))
         /\ \A y : Has(InsertMoved(m, x), y) <=>
                     Has(m, y) \/ (y = x /\ ~HasKey(m, x.key))
<1>1. PICK g : g = Grow(m)
  OBVIOUS
<1>2. Sound(g) /\ StaysExact(m, g) /\ \A y : Has(g, y) <=> Has(m, y)
  BY <1>1, GrowMakesRoom
<1>3. HasKey(g, x.key) <=> HasKey(m, x.key)
  BY <1>2 DEF HasKey
<1>4. InsertMoved(m, x) = Insert(g, x)
  BY <1>1 DEF InsertMoved
<1>5. /\ Sound(Insert(g, x)) /\ StaysExact(g, Insert(g, x))
      /\ \A y : Has(Insert(g, x), y) <=> Has(g, y) \/ (y = x /\ ~HasKey(g, x.key))
  BY <1>2, InsertAddsOnce
<1> QED
  BY <1>2, <1>3, <1>4, <1>5 DEF StaysExact

-----------------------------------------------------------------------------
(* Copies *)

\* Inserting nodes with different keys in a map without nodes makes a sound
\* map of them, whatever size it starts from; it counts right if it started
\* from size zero.
LEMMA InsertAll ==
  ASSUME NEW n \in Nat \ {0}, NEW z \in Nat,
         NEW nodes \in Seq(Entry), Distinct(nodes),
         NEW w, w = Loop(Insert, Hollow(n, z), nodes)
  PROVE  /\ Sound(w)
         /\ z = 0 => Exact(w)
         /\ \A y : Has(w, y) <=> Listed(nodes, y)
<1>1. PICK l \in Nat : l = Len(nodes) /\ DOMAIN nodes = 1 .. l
  BY LenProperties
<1>2. PICK f : Follows(f, 2, Hollow(n, z), nodes, w)
  BY <1>1, InsertLoop
<1>3. /\ f[0] = Hollow(n, z) /\ f[l] = w
      /\ \A i \in 1 .. l : f[i] = Insert(f[i - 1], nodes[i])
  BY <1>1, <1>2 DEF Follows, Body
<1> DEFINE P(i) == /\ Sound(f[i])
                   /\ z = 0 => Exact(f[i])
                   /\ \A y : Has(f[i], y) <=> \E j \in 1 .. i : nodes[j] = y
<1> DEFINE S == {i \in Nat : i <= l => P(i)}
<1>4. 0 \in S
  <2>1. PICK u : u = f[0] /\ u = Hollow(n, z)
    BY <1>3
  <2>2. MapOK(u) /\ u.capacity = n /\ u.size = z /\ Count(u) = 0
    BY <2>1, EmptyHasNone
  <2>3. \A y : ~Has(u, y)
    BY <2>1, EmptyHasNone
  <2>4. 0 <= (LoadFactor + 1) * n
    BY LoadAssumption
  <2>5. Sound(u)
    BY <2>2, <2>4 DEF Sound, Covers, Bounded
  <2>6. z = 0 => Exact(u)
    BY <2>2 DEF Exact, Count
  <2>7. 1 .. 0 = {}
    OBVIOUS
  <2> QED
    BY <2>1, <2>3, <2>5, <2>6, <2>7
<1>5. ASSUME NEW i \in Nat, i \in S PROVE i + 1 \in S
  <2> SUFFICES ASSUME i + 1 <= l PROVE P(i + 1)
    OBVIOUS
  <2>1. P(i) /\ i + 1 \in 1 .. l /\ (i + 1) - 1 = i
    BY <1>5
  <2>2. PICK x \in Entry : x = nodes[i + 1]
    BY <1>1, <2>1
  <2>3. PICK u, v : u = f[i] /\ v = f[i + 1] /\ v = Insert(u, x)
    BY <1>3, <2>1, <2>2
  <2>4. ~HasKey(u, x.key)
    <3> SUFFICES ASSUME NEW y, Has(u, y), y.key = x.key PROVE FALSE
      BY DEF HasKey
    <3>1. PICK j \in 1 .. i : nodes[j] = y
      BY <2>1, <2>3
    <3>2. j \in 1 .. l /\ j # i + 1
      BY <2>1
    <3> QED
      BY <1>1, <2>1, <2>2, <3>1, <3>2 DEF Distinct
  <2>5. Sound(u) /\ (z = 0 => Exact(u))
    BY <2>1, <2>3
  <2>6. /\ Sound(v) /\ StaysExact(u, v)
        /\ \A y : Has(v, y) <=> Has(u, y) \/ y = x
    BY <2>3, <2>4, <2>5, InsertAddsOnce
  <2>7. ASSUME NEW y PROVE Has(v, y) <=> \E j \in 1 .. i + 1 : nodes[j] = y
    <3>1. \A j : j \in 1 .. i + 1 <=> j \in 1 .. i \/ j = i + 1
      OBVIOUS
    <3>2. Has(u, y) <=> \E j \in 1 .. i : nodes[j] = y
      BY <2>1, <2>3
    <3> QED
      BY <2>2, <2>6, <3>1, <3>2
  <2> QED
    BY <2>3, <2>5, <2>6, <2>7 DEF StaysExact
<1> HIDE DEF S
<1>6. l \in S
  BY <1>4, <1>5, Induction
<1>7. P(l)
  BY <1>6 DEF S
<1> QED
  BY <1>1, <1>3, <1>7 DEF Listed

\* A map that is new is sound.
LEMMA NewIsSound ==
  ASSUME NEW n \in Nat \ {0}
  PROVE  Sound(Empty(n)) /\ Exact(Empty(n)) /\ \A y : ~Has(Empty(n), y)
<1>1. PICK u : u = Empty(n) /\ u = Hollow(n, 0)
  BY DEF Empty, Hollow
<1>2. MapOK(u) /\ u.capacity = n /\ u.size = 0 /\ Count(u) = 0 /\ \A y : ~Has(u, y)
  BY <1>1, EmptyHasNone
<1>3. 0 <= (LoadFactor + 1) * n
  BY LoadAssumption
<1> QED
  BY <1>1, <1>2, <1>3 DEF Sound, Covers, Bounded, Exact, Count

\* Both copies have the nodes of the original; operator= counts them right.
LEMMA CopiesHaveAll ==
  ASSUME NEW m, MapOK(m)
  PROVE  /\ Sound(Copied(m)) /\ Exact(Copied(m))
         /\ \A y : Has(Copied(m), y) <=> Has(m, y)
         /\ Sound(CopyConstructed(m))
         /\ \A y : Has(CopyConstructed(m), y) <=> Has(m, y)
<1>1. PICK n \in Nat \ {0}, z \in Nat : n = m.capacity /\ z = m.size
  BY MapFields
<1>2. PICK nodes \in Seq(Entry) :
        nodes = Entries(m) /\ Distinct(nodes) /\ \A y : Listed(nodes, y) <=> Has(m, y)
  BY EntriesMeet
<1>3. Empty(n) = Hollow(n, 0)
  BY DEF Empty, Hollow
<1>4. [Empty(n) EXCEPT !.size = z] = Hollow(n, z)
  BY SMTT(40) DEF Empty, Hollow
<1>5. PICK v : v = Loop(Insert, Hollow(n, 0), nodes)
  OBVIOUS
<1>6. Sound(v) /\ Exact(v) /\ \A y : Has(v, y) <=> Listed(nodes, y)
  BY <1>2, <1>5, InsertAll
<1>7. PICK w : w = Loop(Insert, Hollow(n, z), nodes)
  OBVIOUS
<1>8. Sound(w) /\ \A y : Has(w, y) <=> Listed(nodes, y)
  BY <1>2, <1>7, InsertAll
<1>9. Copied(m) = v
  BY <1>1, <1>2, <1>3, <1>5 DEF Copied
<1>10. CopyConstructed(m) = w
  BY <1>1, <1>2, <1>4, <1>7 DEF CopyConstructed
<1> QED
  BY <1>2, <1>6, <1>8, <1>9, <1>10

-----------------------------------------------------------------------------
(* Erasing a range *)

\* The third body erases the key of the node.
LEMMA ThirdErases == \A u, x : Body(3, u, x) = Erase(u, x.key)
BY DEF Body, EraseNode

\* Erasing the nodes of a sequence takes away the keys in it.
LEMMA EraseAll ==
  ASSUME NEW m, Sound(m), NEW nodes \in Seq(Entry),
         NEW w, w = Loop(EraseNode, m, nodes)
  PROVE  /\ Sound(w)
         /\ StaysExact(m, w)
         /\ \A y : Has(w, y) <=> Has(m, y) /\ \A x : Listed(nodes, x) => x.key # y.key
<1>1. PICK l \in Nat : l = Len(nodes) /\ DOMAIN nodes = 1 .. l
  BY LenProperties
<1>2. PICK f : Follows(f, 3, m, nodes, w)
  BY <1>1, EraseLoop
<1>3. /\ f[0] = m /\ f[l] = w
      /\ \A i \in 1 .. l : f[i] = Erase(f[i - 1], nodes[i].key)
  BY <1>1, <1>2, ThirdErases DEF Follows
<1> DEFINE P(i) == /\ Sound(f[i])
                   /\ StaysExact(m, f[i])
                   /\ \A y : Has(f[i], y) <=>
                        Has(m, y) /\ \A j \in 1 .. i : nodes[j].key # y.key
<1> DEFINE S == {i \in Nat : i <= l => P(i)}
<1>4. 0 \in S
  <2>1. 1 .. 0 = {}
    OBVIOUS
  <2> QED
    BY <1>3, <2>1 DEF StaysExact
<1>5. ASSUME NEW i \in Nat, i \in S PROVE i + 1 \in S
  <2> SUFFICES ASSUME i + 1 <= l PROVE P(i + 1)
    OBVIOUS
  <2>1. P(i) /\ i + 1 \in 1 .. l /\ (i + 1) - 1 = i
    BY <1>5
  <2>2. PICK k \in Key : k = nodes[i + 1].key
    <3>1. nodes[i + 1] \in Entry
      BY <1>1, <2>1
    <3> QED
      BY <3>1 DEF Entry
  <2>3. PICK u, v : u = f[i] /\ v = f[i + 1] /\ v = Erase(u, k)
    BY <1>3, <2>1, <2>2
  <2>4. Sound(u) /\ StaysExact(m, u)
    BY <2>1, <2>3
  <2>5. /\ Sound(v) /\ StaysExact(u, v)
        /\ \A y : Has(v, y) <=> Has(u, y) /\ y.key # k
    BY <2>3, <2>4, EraseTakesNode
  <2>6. ASSUME NEW y
        PROVE  Has(v, y) <=> Has(m, y) /\ \A j \in 1 .. i + 1 : nodes[j].key # y.key
    <3>1. \A j : j \in 1 .. i + 1 <=> j \in 1 .. i \/ j = i + 1
      OBVIOUS
    <3>2. Has(u, y) <=> Has(m, y) /\ \A j \in 1 .. i : nodes[j].key # y.key
      BY <2>1, <2>3
    <3> QED
      BY <2>2, <2>5, <3>1, <3>2
  <2> QED
    BY <2>3, <2>4, <2>5, <2>6 DEF StaysExact
<1> HIDE DEF S
<1>6. l \in S
  BY <1>4, <1>5, Induction
<1>7. P(l)
  BY <1>6 DEF S
<1> QED
  BY <1>1, <1>3, <1>7 DEF Listed

\* erase(first, last) takes away the nodes of the range and no other.
LEMMA EraseRangeTakes ==
  ASSUME NEW m, Sound(m),
         NEW i \in DOMAIN Entries(m), NEW j \in DOMAIN Entries(m),
         NEW w, w = EraseRange(m, i, j)
  PROVE  /\ Sound(w)
         /\ StaysExact(m, w)
         /\ \E K \in SUBSET Key : \A y : Has(w, y) <=> Has(m, y) /\ y.key \notin K
<1>0. MapOK(m)
  BY DEF Sound
<1>1. PICK e \in Seq(Entry) : e = Entries(m)
  BY <1>0, EntriesMeet
<1>2. PICK nodes \in Seq(Entry) : nodes = SubSeq(e, i, j)
  <2>1. SubSeq(e, i, j) \in Seq(Entry)
    BY <1>1, SubSeqProperties
  <2> QED
    BY <2>1
<1>3. w = Loop(EraseNode, m, nodes)
  BY <1>1, <1>2 DEF EraseRange
<1>4. /\ Sound(w) /\ StaysExact(m, w)
      /\ \A y : Has(w, y) <=> Has(m, y) /\ \A x : Listed(nodes, x) => x.key # y.key
  BY <1>3, EraseAll, Zenon
<1>5. PICK K \in SUBSET Key : K = {nodes[a].key : a \in DOMAIN nodes}
  <2>1. {nodes[a].key : a \in DOMAIN nodes} \subseteq Key
    <3>1. \A a \in DOMAIN nodes : nodes[a] \in Entry
      BY LenProperties
    <3> QED
      BY <3>1 DEF Entry
  <2> QED
    BY <2>1
<1>6. \A y : y.key \in K <=> \E x : Listed(nodes, x) /\ x.key = y.key
  BY <1>5 DEF Listed
<1>7. \A y : Has(w, y) <=> Has(m, y) /\ y.key \notin K
  BY <1>4, <1>6
<1> QED
  BY <1>4, <1>7

-----------------------------------------------------------------------------
(* Contents *)

\* The content maps the keys of the nodes to their values.
LEMMA ContentOfNodes ==
  ASSUME NEW m, MapOK(m)
  PROVE  /\ Content(m) = [k \in DOMAIN Content(m) |-> Content(m)[k]]
         /\ DOMAIN Content(m) \subseteq Key
         /\ \A k \in Key : k \in DOMAIN Content(m) <=> HasKey(m, k)
         /\ \A x : Has(m, x) => Content(m)[x.key] = x.value
<1>1. PICK K : K = {j \in Key : ContainsKey(m, j)}
  OBVIOUS
<1>2. Content(m) = [k \in K |-> Find(m, k).value]
  BY <1>1 DEF Content
<1>3. \A k \in Key : k \in K <=> HasKey(m, k)
  BY <1>1, Containing
<1>4. ASSUME NEW x, Has(m, x) PROVE x.key \in K /\ Find(m, x.key) = x
  <2>1. x.key \in Key /\ HasKey(m, x.key)
    BY <1>4 DEF Has, HasKey, Entry
  <2> QED
    BY <1>3, <1>4, <2>1, Finding
<1> QED
  BY <1>1, <1>2, <1>3, <1>4

\* f is the function that maps every key of the map to its value.
Describes(f, m) ==
  /\ f = [k \in DOMAIN f |-> f[k]]
  /\ \A k : k \in DOMAIN f <=> k \in Key /\ HasKey(m, k)
  /\ \A x : Has(m, x) => f[x.key] = x.value

\* No other function does.
LEMMA DescribedOnce ==
  ASSUME NEW m, MapOK(m), NEW f, Describes(f, m)
  PROVE  Content(m) = f
<1>1. PICK c : c = Content(m)
  OBVIOUS
<1>2. /\ c = [k \in DOMAIN c |-> c[k]]
      /\ \A k : k \in DOMAIN c <=> k \in Key /\ HasKey(m, k)
      /\ \A x : Has(m, x) => c[x.key] = x.value
  BY <1>1, ContentOfNodes
<1>3. DOMAIN c = DOMAIN f
  BY <1>2 DEF Describes
<1>4. ASSUME NEW k \in DOMAIN c PROVE c[k] = f[k]
  <2>1. PICK x : Has(m, x) /\ x.key = k
    BY <1>2 DEF HasKey
  <2> QED
    BY <1>2, <2>1 DEF Describes
<1> QED
  BY <1>1, <1>2, <1>3, <1>4 DEF Describes

\* Maps with the same nodes have the same content.
LEMMA SameContent ==
  ASSUME NEW m, MapOK(m), NEW w, MapOK(w), \A y : Has(w, y) <=> Has(m, y)
  PROVE  Content(w) = Content(m)
<1>1. PICK f : f = Content(m)
  OBVIOUS
<1>2. /\ f = [k \in DOMAIN f |-> f[k]]
      /\ \A k : k \in DOMAIN f <=> k \in Key /\ HasKey(m, k)
      /\ \A x : Has(m, x) => f[x.key] = x.value
  BY <1>1, ContentOfNodes
<1>3. Describes(f, w)
  BY <1>2 DEF Describes, HasKey
<1> QED
  BY <1>1, <1>3, DescribedOnce

\* One node more is one key more in the content.
LEMMA ContentWithNode ==
  ASSUME NEW m, MapOK(m), NEW w, MapOK(w), NEW x \in Entry, ~HasKey(m, x.key),
         \A y : Has(w, y) <=> Has(m, y) \/ y = x
  PROVE  /\ x.key \notin DOMAIN Content(m)
         /\ Content(w) = [j \in DOMAIN Content(m) \cup {x.key} |->
                            IF j = x.key THEN x.value ELSE Content(m)[j]]
<1>1. PICK c : c = Content(m)
  OBVIOUS
<1>2. /\ \A k : k \in DOMAIN c <=> k \in Key /\ HasKey(m, k)
      /\ \A y : Has(m, y) => c[y.key] = y.value
  BY <1>1, ContentOfNodes
<1>3. PICK f : f = [j \in DOMAIN c \cup {x.key} |-> IF j = x.key THEN x.value ELSE c[j]]
  OBVIOUS
<1>4. DOMAIN f = DOMAIN c \cup {x.key} /\ f = [j \in DOMAIN f |-> f[j]]
  BY <1>3
<1>5. x.key \in Key
  BY DEF Entry
<1>6. ASSUME NEW k PROVE k \in DOMAIN f <=> k \in Key /\ HasKey(w, k)
  <2>1. HasKey(w, k) <=> HasKey(m, k) \/ k = x.key
    BY DEF HasKey
  <2> QED
    BY <1>2, <1>4, <1>5, <2>1
<1>7. ASSUME NEW y, Has(w, y) PROVE f[y.key] = y.value
  <2>1. CASE y = x
    BY <1>3, <2>1
  <2>2. CASE y # x
    <3>1. Has(m, y) /\ HasKey(m, y.key) /\ y.key \in Key /\ y.key # x.key
      BY <1>7, <2>2 DEF HasKey, Has, Entry
    <3> QED
      BY <1>2, <1>3, <3>1
  <2> QED
    BY <2>1, <2>2
<1>8. Describes(f, w)
  BY <1>4, <1>6, <1>7 DEF Describes
<1> QED
  BY <1>1, <1>2, <1>3, <1>8, DescribedOnce

\* The function f without the keys of K.
Without(f, K) == [j \in DOMAIN f \ K |-> f[j]]

\* Without the nodes of some keys, the content lacks those keys.
LEMMA ContentWithoutKeys ==
  ASSUME NEW m, MapOK(m), NEW w, MapOK(w), NEW K,
         \A y : Has(w, y) <=> Has(m, y) /\ y.key \notin K
  PROVE  Content(w) = Without(Content(m), K)
<1>1. PICK c : c = Content(m)
  OBVIOUS
<1>2. /\ \A k : k \in DOMAIN c <=> k \in Key /\ HasKey(m, k)
      /\ \A y : Has(m, y) => c[y.key] = y.value
  BY <1>1, ContentOfNodes
<1>3. PICK f : f = [j \in DOMAIN c \ K |-> c[j]]
  OBVIOUS
<1>4. DOMAIN f = DOMAIN c \ K /\ f = [j \in DOMAIN f |-> f[j]]
  BY <1>3
<1>5. ASSUME NEW k PROVE k \in DOMAIN f <=> k \in Key /\ HasKey(w, k)
  <2>1. HasKey(w, k) <=> HasKey(m, k) /\ k \notin K
    BY DEF HasKey
  <2> QED
    BY <1>2, <1>4, <2>1
<1>6. ASSUME NEW y, Has(w, y) PROVE f[y.key] = y.value
  <2>1. Has(m, y) /\ y.key \in Key /\ HasKey(m, y.key) /\ y.key \notin K
    BY <1>6 DEF HasKey, Has, Entry
  <2> QED
    BY <1>2, <1>3, <2>1
<1>7. Describes(f, w)
  BY <1>4, <1>5, <1>6 DEF Describes
<1> QED
  BY <1>1, <1>3, <1>7, DescribedOnce DEF Without

\* Without nodes there is no content.
LEMMA ContentOfNothing ==
  ASSUME NEW m, MapOK(m), \A y : ~Has(m, y)
  PROVE  Content(m) = Promised!Nothing
<1>1. PICK f : f = Promised!Nothing /\ DOMAIN f = {} /\ f = [k \in {} |-> k]
  BY DEF Promised!Nothing
<1>2. Describes(f, m)
  BY <1>1 DEF Describes, HasKey
<1> QED
  BY <1>1, <1>2, DescribedOnce

-----------------------------------------------------------------------------
(* The maps of the program *)

\* The inductive invariant: that the size covers the entries is needed for
\* the erasures, that the chains are short for the next insertion, and that
\* every node is in the chain of its hash, once, for both.
Inv == /\ maps = [s \in Slot |-> maps[s]]
       /\ \A s \in Slot : Sound(maps[s])

AllExact == \A s \in Slot : Exact(maps[s])

Contents == [s \in Slot |-> Content(maps[s])]

\* One map is replaced by a sound one.
LEMMA OneMapChanges ==
  ASSUME Inv, NEW t \in Slot, NEW w, Sound(w), Set(t, w)
  PROVE  /\ Inv'
         /\ StaysExact(maps[t], w) \/ Exact(w) => (AllExact => AllExact')
         /\ Contents' = [Contents EXCEPT ![t] = Content(w)]
         /\ Content(w) = Content(maps[t]) => Contents' = Contents
<1>1. maps' = [maps EXCEPT ![t] = w]
  BY DEF Set
<1>2. /\ maps' = [s \in Slot |-> maps'[s]]
      /\ \A s \in Slot : maps'[s] = IF s = t THEN w ELSE maps[s]
  BY <1>1 DEF Inv
<1>3. Inv'
  BY <1>2 DEF Inv
<1>4. StaysExact(maps[t], w) \/ Exact(w) => (AllExact => AllExact')
  BY <1>2 DEF AllExact, StaysExact
<1>5. Contents' = [s \in Slot |-> IF s = t THEN Content(w) ELSE Content(maps[s])]
  BY <1>2 DEF Contents
<1> QED
  BY <1>3, <1>4, <1>5 DEF Contents

\* A map takes the place of another one and leaves an empty one.
LEMMA OneMapMoves ==
  ASSUME Inv, NEW s \in Slot, NEW t \in Slot, s # t, maps' = Moved(t, s)
  PROVE  /\ Inv'
         /\ AllExact => AllExact'
         /\ Promised!DMove(t, s)
<1>1. PICK e : e = Empty(1)
  OBVIOUS
<1>2. Sound(e) /\ Exact(e) /\ \A y : ~Has(e, y)
  BY <1>1, NewIsSound
<1>3. Content(e) = Promised!Nothing
  BY <1>2, ContentOfNothing DEF Sound
<1>4. /\ maps' = [u \in Slot |-> maps'[u]]
      /\ \A u \in Slot : maps'[u] = IF u = s THEN e
                                    ELSE IF u = t THEN maps[s] ELSE maps[u]
  <2>1. maps' = [maps EXCEPT ![t] = maps[s], ![s] = e]
    BY <1>1 DEF Moved
  <2> QED
    BY <2>1 DEF Inv
<1>5. Inv'
  BY <1>2, <1>4 DEF Inv
<1>6. AllExact => AllExact'
  BY <1>2, <1>4 DEF AllExact
<1>7. Contents' = [u \in Slot |-> IF u = s THEN Promised!Nothing
                                  ELSE IF u = t THEN Content(maps[s])
                                  ELSE Content(maps[u])]
  BY <1>3, <1>4 DEF Contents
<1>8. Contents' = [Contents EXCEPT ![t] = Contents[s], ![s] = Promised!Nothing]
  BY <1>7 DEF Contents
<1>9. Promised!DMove(t, s)
  BY <1>8 DEF Promised!DMove, Contents
<1> QED
  BY <1>5, <1>6, <1>9

\* An insertion puts a key in the dictionary, or leaves it alone.
LEMMA InsertStep ==
  ASSUME Inv, NEW s \in Slot, NEW k \in Key, NEW v \in Value, DoInsert(s, k, v)
  PROVE  /\ Inv'
         /\ AllExact => AllExact'
         /\ Promised!DInsert(s, k, v) \/ Contents' = Contents
<1>1. PICK m : m = maps[s] /\ Sound(m) /\ MapOK(m)
  BY DEF Inv, Sound
<1>2. PICK x \in Entry : x = Node(k, v) /\ x.key = k /\ x.value = v
  <2>1. Node(k, v) \in Entry /\ Node(k, v).key = k /\ Node(k, v).value = v
    BY DEF Node, Entry
  <2> QED
    BY <2>1
<1>3. PICK w : /\ Set(s, w) /\ Sound(w) /\ StaysExact(m, w)
               /\ \A y : Has(w, y) <=> Has(m, y) \/ (y = x /\ ~HasKey(m, k))
  <2>1. CASE Set(s, Insert(maps[s], Node(k, v)))
    BY <1>1, <1>2, <2>1, InsertAddsOnce
  <2>2. CASE Set(s, InsertMoved(maps[s], Node(k, v)))
    BY <1>1, <1>2, <2>2, InsertMovedAddsOnce
  <2> QED
    BY <2>1, <2>2 DEF DoInsert
<1>4. MapOK(w)
  BY <1>3 DEF Sound
<1>5. /\ Inv' /\ (AllExact => AllExact')
      /\ Contents' = [Contents EXCEPT ![s] = Content(w)]
      /\ Content(w) = Content(m) => Contents' = Contents
  BY <1>1, <1>3, OneMapChanges
<1>6. CASE HasKey(m, k)
  <2>1. Content(w) = Content(m)
    BY <1>1, <1>3, <1>4, <1>6, SameContent
  <2> QED
    BY <1>5, <2>1
<1>7. CASE ~HasKey(m, k)
  <2>1. /\ k \notin DOMAIN Content(m)
        /\ Content(w) = [j \in DOMAIN Content(m) \cup {k} |->
                           IF j = k THEN v ELSE Content(m)[j]]
    BY <1>1, <1>2, <1>3, <1>4, <1>7, ContentWithNode
  <2>2. Contents[s] = Content(m)
    BY <1>1 DEF Contents
  <2>3. Promised!DInsert(s, k, v)
    BY <1>5, <2>1, <2>2 DEF Promised!DInsert, Contents
  <2> QED
    BY <1>5, <2>3
<1> QED
  BY <1>6, <1>7

\* An erasure takes a set of keys away.
LEMMA ErasureStep ==
  ASSUME Inv, NEW s \in Slot, NEW w, Set(s, w), Sound(w), StaysExact(maps[s], w),
         NEW K \in SUBSET Key,
         \A y : Has(w, y) <=> Has(maps[s], y) /\ y.key \notin K
  PROVE  /\ Inv'
         /\ AllExact => AllExact'
         /\ Promised!DErase(s, K)
<1>1. PICK m : m = maps[s] /\ MapOK(m)
  BY DEF Inv, Sound
<1>2. Content(w) = Without(Content(m), K)
  <2>1. MapOK(w)
    BY DEF Sound
  <2>2. \A y : Has(w, y) <=> Has(m, y) /\ y.key \notin K
    BY <1>1
  <2>3. MapOK(m)
    BY <1>1
  <2> QED
    BY ONLY <2>1, <2>2, <2>3, ContentWithoutKeys
<1>3. /\ Inv' /\ (AllExact => AllExact')
      /\ Contents' = [Contents EXCEPT ![s] = Content(w)]
  BY OneMapChanges
<1>4. Contents[s] = Content(m)
  BY <1>1 DEF Contents
<1>5. Promised!DErase(s, K)
  BY <1>2, <1>3, <1>4 DEF Promised!DErase, Contents, Without
<1> QED
  BY <1>3, <1>5

\* erase(key) erases that key.
LEMMA EraseStep ==
  ASSUME Inv, NEW s \in Slot, NEW k \in Key, DoErase(s, k)
  PROVE  /\ Inv'
         /\ AllExact => AllExact'
         /\ \E K \in SUBSET Key : Promised!DErase(s, K)
<1>1. Sound(maps[s])
  BY DEF Inv
<1>2. PICK w : w = Erase(maps[s], k) /\ Set(s, w)
  BY DEF DoErase
<1>3. PICK K \in SUBSET Key : K = {k}
  OBVIOUS
<1>4. /\ Sound(w) /\ StaysExact(maps[s], w)
      /\ \A y : Has(w, y) <=> Has(maps[s], y) /\ y.key \notin K
  BY <1>1, <1>2, <1>3, EraseTakesNode
<1> QED
  BY <1>2, <1>4, ErasureStep

\* erase(first, last) erases the keys of the range.
LEMMA EraseRangeStep ==
  ASSUME Inv, NEW s \in Slot, DoEraseRange(s)
  PROVE  /\ Inv'
         /\ AllExact => AllExact'
         /\ \E K \in SUBSET Key : Promised!DErase(s, K)
<1>1. Sound(maps[s])
  BY DEF Inv
<1>2. PICK i \in DOMAIN Entries(maps[s]), j \in DOMAIN Entries(maps[s]) :
        Set(s, EraseRange(maps[s], i, j))
  BY DEF DoEraseRange
<1>3. PICK w : w = EraseRange(maps[s], i, j)
  OBVIOUS
<1>4. /\ Sound(w) /\ StaysExact(maps[s], w)
      /\ \E K \in SUBSET Key : \A y : Has(w, y) <=> Has(maps[s], y) /\ y.key \notin K
  BY <1>1, <1>3, EraseRangeTakes
<1>5. PICK K \in SUBSET Key : \A y : Has(w, y) <=> Has(maps[s], y) /\ y.key \notin K
  BY <1>4
<1> QED
  BY <1>2, <1>3, <1>4, <1>5, ErasureStep

\* A copy has the content of the original, which keeps it.
LEMMA CopyStep ==
  ASSUME Inv, NEW s \in Slot, NEW t \in Slot, DoCopy(t, s) \/ DoCopyConstruct(t, s)
  PROVE  /\ Inv'
         /\ DoCopy(t, s) => (AllExact => AllExact')
         /\ Promised!DCopy(t, s)
<1>1. PICK m : m = maps[s] /\ MapOK(m)
  BY DEF Inv, Sound
<1>2. PICK w : /\ Set(t, w) /\ Sound(w)
               /\ DoCopy(t, s) => Exact(w)
               /\ \A y : Has(w, y) <=> Has(m, y)
  <2>1. CASE DoCopy(t, s)
    BY <1>1, <2>1, CopiesHaveAll DEF DoCopy
  <2>2. CASE ~DoCopy(t, s)
    BY <1>1, <2>2, CopiesHaveAll DEF DoCopyConstruct
  <2> QED
    BY <2>1, <2>2
<1>3. Content(w) = Content(m)
  BY <1>1, <1>2, SameContent DEF Sound
<1>4. /\ Inv' /\ (Exact(w) => (AllExact => AllExact'))
      /\ Contents' = [Contents EXCEPT ![t] = Content(w)]
  BY <1>2, OneMapChanges
<1>5. Contents[s] = Content(m)
  BY <1>1 DEF Contents
<1>6. Promised!DCopy(t, s)
  BY <1>3, <1>4, <1>5 DEF Promised!DCopy, Contents
<1> QED
  BY <1>2, <1>4, <1>6

\* A move assignment moves the content, or both maps are equal and stay.
LEMMA MoveStep ==
  ASSUME Inv, NEW s \in Slot, NEW t \in Slot, s # t, DoMove(t, s)
  PROVE  /\ Inv'
         /\ AllExact => AllExact'
         /\ Promised!DMove(t, s) \/ Contents' = Contents
<1>1. CASE Same(maps[t], maps[s])
  <2>1. maps' = maps
    BY <1>1 DEF DoMove, MoveAssigned
  <2> QED
    BY <2>1 DEF Inv, AllExact, Contents
<1>2. CASE ~Same(maps[t], maps[s])
  <2>1. maps' = Moved(t, s)
    BY <1>2 DEF DoMove, MoveAssigned
  <2> QED
    BY <2>1, OneMapMoves
<1> QED
  BY <1>1, <1>2

\* What every step does: it keeps the invariant; the sizes stay exact, unless
\* a map is constructed as a copy; and the contents change as those of
\* dictionaries do, or not at all.
LEMMA EveryStep ==
  ASSUME Inv, Next
  PROVE  /\ Inv'
         /\ AllExact => AllExact' \/ \E s, t \in Slot : s # t /\ DoCopyConstruct(t, s)
         /\ Promised!DNext \/ Contents' = Contents
<1>1. ASSUME NEW s \in Slot, NEW k \in Key, NEW v \in Value, DoInsert(s, k, v)
      PROVE  /\ Inv' /\ (AllExact => AllExact')
             /\ Promised!DNext \/ Contents' = Contents
  BY <1>1, InsertStep DEF Promised!DNext
<1>2. ASSUME NEW s \in Slot, NEW k \in Key, DoErase(s, k)
      PROVE  Inv' /\ (AllExact => AllExact') /\ Promised!DNext
  BY <1>2, EraseStep DEF Promised!DNext
<1>3. ASSUME NEW s \in Slot, DoEraseRange(s)
      PROVE  Inv' /\ (AllExact => AllExact') /\ Promised!DNext
  BY <1>3, EraseRangeStep DEF Promised!DNext
<1>4. ASSUME NEW s \in Slot, NEW t \in Slot, s # t,
             DoCopy(t, s) \/ DoCopyConstruct(t, s)
      PROVE  Inv' /\ (DoCopy(t, s) => (AllExact => AllExact')) /\ Promised!DNext
  BY <1>4, CopyStep DEF Promised!DNext
<1>5. ASSUME NEW s \in Slot, NEW t \in Slot, s # t, DoMoveConstruct(t, s)
      PROVE  Inv' /\ (AllExact => AllExact') /\ Promised!DNext
  <2>1. Inv' /\ (AllExact => AllExact') /\ Promised!DMove(t, s)
    BY <1>5, OneMapMoves DEF DoMoveConstruct
  <2> QED
    BY <1>5, <2>1 DEF Promised!DNext
<1>6. ASSUME NEW s \in Slot, NEW t \in Slot, s # t, DoMove(t, s)
      PROVE  /\ Inv' /\ (AllExact => AllExact')
             /\ Promised!DNext \/ Contents' = Contents
  <2>1. /\ Inv' /\ (AllExact => AllExact')
        /\ Promised!DMove(t, s) \/ Contents' = Contents
    BY <1>6, MoveStep
  <2> QED
    BY <1>6, <2>1 DEF Promised!DNext
<1> QED
  BY <1>1, <1>2, <1>3, <1>4, <1>5, <1>6 DEF Next

\* The first state has the invariant, and empty dictionaries.
LEMMA Start == Init => Inv /\ Promised!DInit
<1> SUFFICES ASSUME Init PROVE Inv /\ Promised!DInit
  OBVIOUS
<1>1. PICK e : e = Empty(MinCapacity)
  OBVIOUS
<1>2. Sound(e) /\ MapOK(e) /\ \A y : ~Has(e, y)
  BY <1>1, NewIsSound, CapacityAssumption DEF Sound
<1>3. Content(e) = Promised!Nothing
  BY <1>2, ContentOfNothing
<1>4. maps = [s \in Slot |-> e]
  BY <1>1 DEF Init
<1> QED
  BY <1>2, <1>3, <1>4 DEF Inv, Promised!DInit

\* A step that changes nothing keeps the invariant, and the contents.
LEMMA Stutter == Inv /\ UNCHANGED vars => Inv' /\ Contents' = Contents
BY DEF Inv, Contents, vars

\* The inductive invariant holds.
THEOREM Invariant == Spec => []Inv
<1>1. Init => Inv
  BY Start
<1>2. Inv /\ [Next]_vars => Inv'
  BY EveryStep, Stutter
<1> QED
  BY <1>1, <1>2, PTL DEF Spec

\* Every node is in the chain of its hash, once, and the tail of every chain
\* is at its last node (insert, erase and rehash of map.h).
THEOREM Typing == Spec => []TypeOK
<1>1. Inv => TypeOK
  BY DEF Inv, TypeOK, Sound
<1> QED
  BY <1>1, Invariant, PTL

\* size() is never below the number of entries, so that no erasure makes it
\* wrap around (erase of map.h).
THEOREM SizeNeverWraps == Spec => []SizeCoversEntries
<1>1. Inv => SizeCoversEntries
  BY DEF Inv, SizeCoversEntries, Sound, Covers, Count
<1> QED
  BY <1>1, Invariant, PTL

\* The array is grown in time (check_load_factor of map.h): no map holds more
\* than LoadFactor + 1 nodes for a chain.
THEOREM ChainsStayShort == Spec => []LoadBounded
<1>1. Inv => LoadBounded
  BY DEF Inv, LoadBounded, Sound, Bounded, Count
<1> QED
  BY <1>1, Invariant, PTL

\* Only copy construction makes size() wrong.
THEOREM SizeExactUnlessCopied == Spec => SizeStaysExact
<1>1. Inv /\ [Next]_vars =>
        [(\A s \in Slot : Exact(maps[s])) =>
           \/ \A s \in Slot : Exact(maps'[s])
           \/ \E s, t \in Slot : s # t /\ DoCopyConstruct(t, s)]_vars
  BY EveryStep DEF AllExact
<1> QED
  BY <1>1, Invariant, PTL DEF Spec, SizeStaysExact

\* Through contains and find the maps are dictionaries: every step of the
\* hash maps is a step of the dictionaries, or leaves them alone.
THEOREM MapsAreDictionaries == Spec => ImplementsDictionary
<1>1. Init => Promised!DInit
  BY Start
<1>2. Inv /\ [Next]_vars => [Promised!DNext]_[s \in Slot |-> Content(maps[s])]
  BY EveryStep, Stutter DEF Contents
<1> QED
  BY <1>1, <1>2, Invariant, PTL DEF Spec, ImplementsDictionary, Promised!DSpec

\* find agrees with contains, although it looks at size() and at other nodes.
THEOREM FindsWhatIsContained == Spec => []FindAgrees
<1>1. ASSUME NEW m, Sound(m), NEW k \in Key
      PROVE  Finds(m, k) <=> ContainsKey(m, k)
  <2>1. PICK i \in 0 .. m.capacity - 1 : i = Index(m, k) /\ MapOK(m)
    BY <1>1, MapFields, IndexInRange DEF Sound
  <2>2. PICK c : c = m.chain[i] /\ ChainOK(c)
    BY <2>1, MapFields
  <2>3. ContainsKey(m, k) <=> HasKey(m, k)
    BY <2>1, Containing
  <2>4. ASSUME Finds(m, k) PROVE HasKey(m, k)
    <3>1. PICK x : In(c, x) /\ x.key = k
      BY <2>1, <2>2, <2>4 DEF Finds, In
    <3> QED
      BY <2>1, <2>2, <3>1, InItsChain DEF HasKey
  <2>5. ASSUME HasKey(m, k) PROVE Finds(m, k)
    <3>1. PICK x : Has(m, x) /\ x.key = k
      BY <2>5 DEF HasKey
    <3>2. PICK n \in Nat, z \in Nat : n = Count(m) /\ z = m.size /\ n >= 1
      BY <2>1, <3>1, CountIsNumber, MapFields
    <3>3. m.size # 0
      BY <1>1, <3>2 DEF Sound, Covers
    <3>4. \E j \in DOMAIN c.nodes : c.nodes[j].key = k
      BY <2>1, <2>2, <3>1 DEF Has, In
    <3> QED
      BY <2>1, <2>2, <3>3, <3>4 DEF Finds
  <2> QED
    BY <2>3, <2>4, <2>5
<1>2. Inv => FindAgrees
  BY <1>1 DEF Inv, FindAgrees
<1> QED
  BY <1>2, Invariant, PTL

\* Move assignment between maps that count right moves the content, or both
\* have it already.
THEOREM MovesArriveAlways == Spec => []MovesArrive
<1>1. ASSUME NEW m, MapOK(m), NEW o, MapOK(o), NEW n \in Nat,
             n = Len(Entries(m)), n = Len(Entries(o)), IsPrefix(Entries(m), Entries(o))
      PROVE  Entries(m) = Entries(o) /\ Content(m) = Content(o)
  <2>1. PICK d \in Seq(Entry), e \in Seq(Entry) : d = Entries(m) /\ e = Entries(o)
    BY <1>1, EntriesMeet
  <2>2. SubSeq(d, 1, n) = SubSeq(e, 1, n)
    BY <1>1, <2>1 DEF IsPrefix
  <2>3. SubSeq(d, 1, n) = d /\ SubSeq(e, 1, n) = e
    BY <1>1, <2>1, SubSeqFull
  <2>4. \A y : Has(m, y) <=> Has(o, y)
    <3>1. \A y : Listed(d, y) <=> Has(m, y)
      BY <1>1, <2>1, EntriesMeet
    <3>2. \A y : Listed(e, y) <=> Has(o, y)
      BY <1>1, <2>1, EntriesMeet
    <3> QED
      BY <2>2, <2>3, <3>1, <3>2
  <2> QED
    BY <1>1, <2>1, <2>2, <2>3, <2>4, SameContent
<1>2. ASSUME Inv, NEW s \in Slot, NEW t \in Slot, s # t,
             Exact(maps[s]), Exact(maps[t])
      PROVE  /\ ~Overruns(maps[t], maps[s])
             /\ Content(MoveAssigned(t, s)[t]) = Content(maps[s])
  <2>1. PICK m, o : m = maps[t] /\ o = maps[s] /\ MapOK(m) /\ MapOK(o)
    BY <1>2 DEF Inv, Sound
  <2>2. PICK z \in Nat : z = o.size /\ z = Len(Entries(o))
    BY <1>2, <2>1, MapFields DEF Exact
  <2>3. m.size = o.size => z = Len(Entries(m))
    BY <1>2, <2>1, <2>2 DEF Exact
  <2>4. ~Overruns(m, o)
    BY <1>1, <2>1, <2>2, <2>3 DEF Overruns, IsStrictPrefix
  <2>5. CASE Same(m, o)
    <3>1. Content(m) = Content(o)
      BY <1>1, <2>1, <2>2, <2>3, <2>5 DEF Same
    <3> QED
      BY <2>1, <2>4, <2>5, <3>1 DEF MoveAssigned
  <2>6. CASE ~Same(m, o)
    <3>1. maps = [u \in Slot |-> maps[u]]
      BY <1>2 DEF Inv
    <3>2. Moved(t, s)[t] = o
      BY <1>2, <2>1, <3>1 DEF Moved
    <3> QED
      BY <2>1, <2>4, <2>6, <3>2 DEF MoveAssigned
  <2> QED
    BY <2>5, <2>6
<1>3. Inv => MovesArrive
  BY <1>2 DEF MovesArrive
<1> QED
  BY <1>3, Invariant, PTL
=============================================================================
