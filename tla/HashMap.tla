------------------------------ MODULE HashMap ------------------------------
(***************************************************************************)
(* Class template Map (map.h): chains of nodes in an array that doubles    *)
(* when the chains get long.  A chain is the sequence of its nodes, head   *)
(* first; the key its tail pointer points to is kept apart, since the code *)
(* keeps it apart.  The chain after the last one, which ends iterations,   *)
(* is always empty and left out.                                           *)
(***************************************************************************)
EXTENDS Naturals, Sequences, SequencesExt

CONSTANTS Key, Value, Slot,
          Hash,          \* the hash function
          MinCapacity,   \* MIN_CAPACITY
          LoadFactor,    \* LOAD_FACTOR
          NoKey,         \* the tail of an empty chain
          MaxSize        \* bound: no copy construction makes size() larger

ASSUME HashAssumption == Hash \in [Key -> Nat]
ASSUME CapacityAssumption == MinCapacity \in Nat \ {0}
ASSUME LoadAssumption == LoadFactor \in Nat \ {0}
ASSUME NoKeyAssumption == NoKey \notin Key
ASSUME MaxSizeAssumption == MaxSize \in Nat

VARIABLE maps            \* the maps of the program, by slot

vars == <<maps>>

-----------------------------------------------------------------------------
(* ChainHead *)

Node(k, v) == [key |-> k, value |-> v]
EmptyChain == [nodes |-> <<>>, tail |-> NoKey]

\* Looks at both ends, and then at all but the last node.
ChainContains(c, k) ==
  /\ c.nodes # <<>>
  /\ \/ Head(c.nodes).key = k
     \/ c.tail = k
     \/ \E i \in 1 .. Len(c.nodes) - 1 : c.nodes[i].key = k

ChainInsert(c, node) ==
  [nodes |-> <<node>> \o c.nodes,
   tail |-> IF c.nodes = <<>> THEN node.key ELSE c.tail]

\* Fault: the tail stays where it was.
ChainEraseKeepingTail(c, k) ==
  LET at == {i \in DOMAIN c.nodes : c.nodes[i].key = k}
  IN  IF at = {} \/ ~ChainContains(c, k) THEN c
      ELSE IF Len(c.nodes) = 1 THEN EmptyChain
      ELSE [c EXCEPT !.nodes = RemoveAt(@, CHOOSE i \in at : TRUE)]

ChainErase(c, k) ==
  LET at == {i \in DOMAIN c.nodes : c.nodes[i].key = k}
      i == CHOOSE j \in at : \A l \in at : j <= l
  IN  IF at = {} \/ ~ChainContains(c, k) THEN c
      ELSE IF Len(c.nodes) = 1 THEN EmptyChain
      ELSE [nodes |-> RemoveAt(c.nodes, i),
            tail |-> IF i > 1 /\ c.tail = k THEN c.nodes[i - 1].key ELSE c.tail]

-----------------------------------------------------------------------------
(* Map *)

Empty(n) == [capacity |-> n, size |-> 0,
             chain |-> [i \in 0 .. n - 1 |-> EmptyChain]]

Index(m, k) == Hash[k] % m.capacity

ContainsKey(m, k) == ChainContains(m.chain[Index(m, k)], k)

\* The nodes of the chains below i, in the order of an iteration.
EntriesBelow(m) ==
  LET below[i \in 0 .. m.capacity] ==
        IF i = 0 THEN <<>> ELSE below[i - 1] \o m.chain[i - 1].nodes
  IN  below
Entries(m) == EntriesBelow(m)[m.capacity]

\* What a loop over the nodes makes of the map.
Loop(Body(_, _), m, nodes) ==
  LET after[i \in 0 .. Len(nodes)] ==
        IF i = 0 THEN m ELSE Body(after[i - 1], nodes[i])
  IN  after[Len(nodes)]

\* find: whether there is a node with the key, and the first one.
Finds(m, k) ==
  /\ m.size # 0
  /\ \E i \in DOMAIN m.chain[Index(m, k)].nodes :
       m.chain[Index(m, k)].nodes[i].key = k

Find(m, k) ==
  LET nodes == m.chain[Index(m, k)].nodes
      at == {i \in DOMAIN nodes : nodes[i].key = k}
  IN  nodes[CHOOSE i \in at : \A j \in at : i <= j]

Place(m, node) ==
  [m EXCEPT !.chain[Index(m, node.key)] = ChainInsert(@, node),
            !.size = @ + 1]

\* Fault: the nodes keep the indices they had.
RehashInPlace(m) ==
  [m EXCEPT !.capacity = 2 * @,
            !.chain = [i \in 0 .. 2 * m.capacity - 1 |->
                         IF i < m.capacity THEN m.chain[i] ELSE EmptyChain]]

\* Fault: the nodes are counted once more.
RehashCountingOn(m) ==
  Loop(Place, [Empty(2 * m.capacity) EXCEPT !.size = m.size], Entries(m))

\* The size is counted again, whatever it was.  The load is at most half of
\* what it was, so the insertions do not rehash again: HashMapProofs shows it.
Rehash(m) == Loop(Place, Empty(2 * m.capacity), Entries(m))

Loaded(m) == m.size \div m.capacity > LoadFactor

\* Fault: the array never grows.
GrowNever(m) == m

Grow(m) == IF Loaded(m) THEN Rehash(m) ELSE m

\* insert(const &) and emplace leave the map alone if it has the key.
Insert(m, node) == IF ContainsKey(m, node.key) THEN m ELSE Place(Grow(m), node)

\* insert(&&) grows before it looks.
InsertMoved(m, node) == Insert(Grow(m), node)

\* The size of the chain that erases tells whether there was a node.
Erase(m, k) ==
  LET c == m.chain[Index(m, k)]
      rest == ChainErase(c, k)
  IN  [m EXCEPT !.chain[Index(m, k)] = rest,
                !.size = @ - (Len(c.nodes) - Len(rest.nodes))]

\* erase(first, last), for the nodes i to j of an iteration.
EraseNode(m, node) == Erase(m, node.key)
EraseRange(m, i, j) == Loop(EraseNode, m, SubSeq(Entries(m), i, j))

\* Fault: the entries are not looked at.
SameSize(m, o) == m.size = o.size /\ m.capacity = o.capacity

\* operator==: the iterations meet the same entries in the same order, until
\* the one over m is at its end; whatever o has behind that is not looked at.
Same(m, o) == /\ m.size = o.size
              /\ m.capacity = o.capacity
              /\ IsPrefix(Entries(m), Entries(o))

\* The iteration over o is at its end first: its null pointer is followed.
Overruns(m, o) == /\ m.size = o.size
                  /\ m.capacity = o.capacity
                  /\ IsStrictPrefix(Entries(o), Entries(m))

\* operator=(const &) starts from an empty map, the copy constructor from one
\* that has the size of the original already.
Copied(m) == Loop(Insert, Empty(m.capacity), Entries(m))
CopyConstructed(m) ==
  Loop(Insert, [Empty(m.capacity) EXCEPT !.size = m.size], Entries(m))

-----------------------------------------------------------------------------
(* The operations of a program with the maps of Slot *)

Init == maps = [s \in Slot |-> Empty(MinCapacity)]

Set(s, m) == maps' = [maps EXCEPT ![s] = m]

\* Fault: the size stays with the map that had it.
MovedKeepingSize(t, s) ==
  [maps EXCEPT ![t] = [maps[s] EXCEPT !.size = maps[t].size], ![s] = Empty(1)]

\* A source that was moved from has one chain left.
Moved(t, s) == [maps EXCEPT ![t] = maps[s], ![s] = Empty(1)]

\* operator=(&&) tells a map from another one by what they hold, and leaves
\* both alone if they are equal.
MoveAssigned(t, s) == IF Same(maps[t], maps[s]) THEN maps ELSE Moved(t, s)

DoInsert(s, k, v) == \/ Set(s, Insert(maps[s], Node(k, v)))
                     \/ Set(s, InsertMoved(maps[s], Node(k, v)))
DoErase(s, k) == Set(s, Erase(maps[s], k))
DoEraseRange(s) ==
  \E i, j \in DOMAIN Entries(maps[s]) : i <= j /\ Set(s, EraseRange(maps[s], i, j))
DoCopy(t, s) == Set(t, Copied(maps[s]))
DoMoveConstruct(t, s) == maps' = Moved(t, s)
\* Nothing follows a comparison that overruns: the program has ended.
DoMove(t, s) == ~Overruns(maps[t], maps[s]) /\ maps' = MoveAssigned(t, s)
DoCopyConstruct(t, s) == /\ CopyConstructed(maps[s]).size <= MaxSize
                         /\ Set(t, CopyConstructed(maps[s]))

\* A map is put in the place of another one by construction or assignment.
Next == \/ \E s \in Slot, k \in Key, v \in Value : DoInsert(s, k, v)
        \/ \E s \in Slot, k \in Key : DoErase(s, k)
        \/ \E s \in Slot : DoEraseRange(s)
        \/ \E s, t \in Slot :
             /\ s # t
             /\ \/ DoCopy(t, s)
                \/ DoMoveConstruct(t, s)
                \/ DoMove(t, s)
                \/ DoCopyConstruct(t, s)

Spec == Init /\ [][Next]_vars

-----------------------------------------------------------------------------
(* Properties *)

Chain == [nodes : Seq([key : Key, value : Value]), tail : Key \cup {NoKey}]

\* The tail pointer is at the last node.
TailOK(c) == c.tail = IF c.nodes = <<>> THEN NoKey ELSE Last(c.nodes).key

KeysOnce(c) == \A i, j \in DOMAIN c.nodes :
                 c.nodes[i].key = c.nodes[j].key => i = j

ChainOK(c) == c \in Chain /\ TailOK(c) /\ KeysOnce(c)

\* Every node is in the chain of its hash, once, and the tail of every chain
\* is where its nodes end.
MapOK(m) ==
  /\ m \in [capacity : Nat \ {0}, size : Nat,
            chain : [0 .. m.capacity - 1 -> Chain]]
  /\ \A i \in DOMAIN m.chain :
       /\ ChainOK(m.chain[i])
       /\ \A j \in DOMAIN m.chain[i].nodes : Index(m, m.chain[i].nodes[j].key) = i

TypeOK == /\ maps = [s \in Slot |-> maps[s]]
          /\ \A s \in Slot : MapOK(maps[s])

\* size() never falls below the number of entries, so that it does not wrap
\* around at zero when they are erased.  It may be above it: the copy
\* constructor counts the entries twice, and erasures do not make that good.
SizeCoversEntries ==
  \A s \in Slot : maps[s].size >= Len(Entries(maps[s]))

\* Only copy construction makes size() wrong: an insertion or an erasure moves
\* it by the entries it adds and takes, and a rehash, a copy or a move of a map
\* that counts right counts right.
Exact(m) == m.size = Len(Entries(m))
SizeStaysExact ==
  [][(\A s \in Slot : Exact(maps[s])) =>
       \/ \A s \in Slot : Exact(maps'[s])
       \/ \E s, t \in Slot : s # t /\ DoCopyConstruct(t, s)]_vars

\* The chains stay short: insertions grow the array in time, also after maps
\* of any capacity were copied, moved from or erased.
LoadBounded ==
  \A s \in Slot :
    Len(Entries(maps[s])) <= (LoadFactor + 1) * maps[s].capacity

\* find, which relies on size() and goes through all nodes, finds the keys that
\* contains, which relies on the tail, says are there.
FindAgrees ==
  \A s \in Slot, k \in Key : Finds(maps[s], k) <=> ContainsKey(maps[s], k)

\* The content of the maps, as contains and find see it.
Content(m) == [k \in {j \in Key : ContainsKey(m, j)} |-> Find(m, k).value]

Promised == INSTANCE Dictionary WITH content <- [s \in Slot |-> Content(maps[s])]

\* Through contains and find the maps are dictionaries: no rehash, copy, move
\* or erasure loses an entry, doubles one or changes its value.
ImplementsDictionary == Promised!DSpec

\* Move assignment tells maps apart by size(), capacity and the entries of the
\* target, in their order.  Between maps that count right that is enough: it
\* reads no node that is not there, and the target ends with what the source had.
MovesArrive ==
  \A s, t \in Slot : s # t /\ Exact(maps[s]) /\ Exact(maps[t]) =>
    /\ ~Overruns(maps[t], maps[s])
    /\ Content(MoveAssigned(t, s)[t]) = Content(maps[s])
=============================================================================
