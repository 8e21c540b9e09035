------------------------------ MODULE Packages ------------------------------
(***************************************************************************)
(* The objects of class Package and the functions of Package_manager,      *)
(* Default_read and P_IOF that work on them, as operators on a world w:    *)
(*                                                                         *)
(*   w.heap    the objects and their fields; reqs is the vector of         *)
(*             pointers to the required packages, which the code keeps     *)
(*             sorted by file name                                         *)
(*   w.map     the objects in the hash map of the manager, each under its  *)
(*             file name                                                   *)
(*   w.failed  the exception that ended the operation                      *)
(*                                                                         *)
(* An object is a pair of a file name and a stamp, so that two objects can *)
(* have one file name: the one in the map, and one that was removed from   *)
(* it while another object still requires it.  Objects that nothing        *)
(* reaches from the map any more are freed by their shared_ptr.            *)
(*                                                                         *)
(* File names are numbers, in their alphabetical order, which is also the  *)
(* order of the entries of a file.  The kinds are those of Main_package    *)
(* and Support_package; an Empty_package is wrapped around a package of    *)
(* that kind, whose fields it has for its own.  The title is the display   *)
(* name, for a wrapper that of the linked package: its own is the same     *)
(* with "-last".  Versions are compared as texts, so numbers stand for     *)
(* their place in the alphabet.  Publishers are only compared, along with  *)
(* the versions, which stand for them too.                                 *)
(*                                                                         *)
(* Functions of the program that call themselves are given what they call, *)
(* and nest no more than Depth times: each call is for a file name that    *)
(* those around it are not for.                                            *)
(***************************************************************************)
EXTENDS Naturals, Sequences, FiniteSets

CONSTANTS Name,     \* file names
          Stamp,    \* bounds the number of live objects with one file name
          Title     \* display names of packages

ASSUME NameAssumption == Name \subseteq Nat /\ IsFiniteSet(Name)
ASSUME StampAssumption ==
  Stamp \subseteq Nat /\ IsFiniteSet(Stamp) /\ Stamp # {}

Object == Name \X Stamp
NameOf(o) == o[1]
NamesOf(S) == {NameOf(o) : o \in S}
Depth == Cardinality(Name)

\* The fields of an object or an entry, whose requirements are among S.
Kind == {"main", "support"}
Fields(S) == [kind : Kind, current : Nat, last : Nat, using : BOOLEAN,
              wrapped : BOOLEAN, title : Title, reqs : SUBSET S]

\* The contents of files.
IsFile(f) == DOMAIN f \subseteq Name /\ f \in [DOMAIN f -> Fields(Name)]

\* The exceptions of an operation, or that there was none.
Failures == {"no", "cycle found", "file_name is unique", "unreal package",
             "This package is already exist", "this package is using by other",
             "This package did not exist"}

\* The worlds with the objects D.
Worlds(D) == [heap : [D -> Fields(D)], map : SUBSET D, failed : Failures]

\* f, and g where f has nothing.
Over(f, g) ==
  [x \in DOMAIN f \cup DOMAIN g |-> IF x \in DOMAIN f THEN f[x] ELSE g[x]]

\* What a loop with this body over the elements of q makes of s.
Loop(body, s, q) ==
  LET after[i \in 0 .. Len(q)] == IF i = 0 THEN s ELSE body[after[i - 1]][q[i]]
  IN  after[Len(q)]

\* The required packages of an object, in the order of its vector.
Required(heap, o) ==
  CHOOSE q \in [1 .. Cardinality(heap[o].reqs) -> heap[o].reqs] :
    \A i, j \in DOMAIN q : i < j => q[i] # q[j] /\ NameOf(q[i]) <= NameOf(q[j])

\* What can be reached from S through reqs, in a heap or in a file.
Closure(graph, S) ==
  LET nodes == S \cup UNION {graph[x].reqs : x \in DOMAIN graph}
      grow[T \in SUBSET nodes] ==
        LET U == T \cup UNION {graph[x].reqs : x \in T \cap DOMAIN graph}
        IN  IF U = T THEN T ELSE grow[U]
  IN  grow[S]

\* The objects that are not freed.
Live(w) == Closure(w.heap, w.map)
Users(w) == {o \in w.map : w.heap[o].using}

\* The object that the map has under name n.
Has(w, n) == n \in NamesOf(w.map)
At(w, n) == CHOOSE o \in w.map : NameOf(o) = n

Fail(w, what) == [w EXCEPT !.failed = what]

-----------------------------------------------------------------------------
(* Default_read *)

\* The reader follows the required names depth first and throws when it meets
\* a name twice or finds no entry for it: it reads trees only.  The reader of
\* wrappers throws unless what is linked is a main package.
CanRead(file, n) ==
  LET R == Closure(file, {n})
  IN  /\ R \subseteq DOMAIN file
      /\ \A m \in R : file[m].wrapped => file[m].kind = "main"
      /\ \A m \in R : Cardinality({k \in R : m \in file[k].reqs})
                        = IF m = n THEN 0 ELSE 1

\* A new object for name n.
NewObject(w, n) ==
  <<n, CHOOSE k \in Stamp :
         /\ <<n, k>> \notin DOMAIN w.heap
         /\ \A j \in Stamp : <<n, j>> \notin DOMAIN w.heap => k <= j>>

\* Stamps are left for what is read.
HasRoom(w, names) ==
  \A n \in names : \E k \in Stamp : <<n, k>> \notin DOMAIN w.heap

\* The tree of n, in objects of its own.
ReadPackage(w, file, n) ==
  LET new == {NewObject(w, m) : m \in Closure(file, {n})}
  IN  [w EXCEPT !.heap = Over(@,
         [o \in new |-> [file[NameOf(o)] EXCEPT
                           !.reqs = {NewObject(w, q) : q \in @}]])]

-----------------------------------------------------------------------------
(* Empty_read *)

First(I) == CHOOSE i \in I : \A j \in I : i <= j

\* The wrappers with a title, and the packages of that title that are newer
\* than a wrapper.
Wrappers(file, t) ==
  {n \in DOMAIN file : file[n].wrapped /\ file[n].title = t}
NewerThan(file, n) ==
  {m \in DOMAIN file : /\ ~file[m].wrapped
                       /\ file[m].title = file[n].title
                       /\ file[m].current > file[n].current}

\* The entry that is read for title t: the loop ends at the first package that
\* is newer than the wrapper, whatever comes behind it.
FindLast(file, t) ==
  LET n == First(Wrappers(file, t))
      newer == NewerThan(file, n)
  IN  IF newer = {} THEN n ELSE First(newer)

\* It comes wrapped, whether it is the wrapper or a newer package.
Wrap(w, o) == [w EXCEPT !.heap[o].wrapped = TRUE]

-----------------------------------------------------------------------------
(* operator== and cycle_check *)

\* A Main_package compares its fields and, one by one, what it requires; a
\* Support_package compares its fields only.  A wrapper compares titles as
\* well, not what kind is linked, and only as many requirements as it has.
SameBut(heap, same, x, y) ==
  LET rx == Required(heap, x)
      ry == Required(heap, y)
      SameRequired ==
        \A i \in DOMAIN rx : i \in DOMAIN ry /\ same[rx[i]][ry[i]]
  IN  /\ NameOf(x) = NameOf(y)
      /\ heap[x].current = heap[y].current
      /\ heap[x].last = heap[y].last
      /\ heap[x].wrapped = heap[y].wrapped
      /\ heap[x].wrapped => heap[x].title = heap[y].title /\ SameRequired
      /\ ~heap[x].wrapped =>
           /\ heap[x].kind = heap[y].kind
           /\ heap[x].kind = "main" => Len(rx) = Len(ry) /\ SameRequired

SamePackage(heap, one, other) ==
  LET D == DOMAIN heap
      same[d \in 0 .. Depth] ==
        IF d = 0 THEN [x \in D |-> [y \in D |-> TRUE]]
        ELSE [x \in D |-> [y \in D |-> SameBut(heap, same[d - 1], x, y)]]
  IN  same[Depth][one][other]

\* Comparing two wrappers reads past the requirements of the second, if all
\* of them are like the first ones of a longer list.
Overruns(heap, x, y) ==
  LET rx == Required(heap, x)
      ry == Required(heap, y)
  IN  /\ heap[x].wrapped /\ heap[y].wrapped
      /\ Len(rx) > Len(ry)
      /\ \A i \in DOMAIN ry : SamePackage(heap, rx[i], ry[i])

\* DFS_visit: depth first over the objects, with colours for their names.
\* closing is the edge that led to a grey name, if there was one.
Colours(D) ==
  [grey : SUBSET Name, black : SUBSET Name, closing : SUBSET (D \X D)]
White == [grey |-> {}, black |-> {}, closing |-> {}]

VisitOnce(heap, visit, x, o) ==
  LET Look == [acc \in Colours(DOMAIN heap) |-> [v \in DOMAIN heap |->
        IF acc.closing # {} \/ NameOf(v) \in acc.black THEN acc
        ELSE IF NameOf(v) \in acc.grey THEN [acc EXCEPT !.closing = {<<o, v>>}]
        ELSE visit[acc][v]]]
      Leave(end) == IF end.closing # {} THEN end
                    ELSE [end EXCEPT !.grey = @ \ {NameOf(o)},
                                     !.black = @ \cup {NameOf(o)}]
  IN  Leave(Loop(Look, [x EXCEPT !.grey = @ \cup {NameOf(o)}],
                 Required(heap, o)))

DFSVisit(heap, s, u) ==
  LET D == DOMAIN heap
      visit[d \in 0 .. Depth] ==
        IF d = 0 THEN [x \in Colours(D) |-> [o \in D |-> x]]
        ELSE [x \in Colours(D) |->
                [o \in D |-> VisitOnce(heap, visit[d - 1], x, o)]]
  IN  visit[Depth][s][u]

\* DFS_visit, for what o requires and is not black.
VisitRequired(heap, s, o) ==
  LET Look == [acc \in Colours(DOMAIN heap) |-> [v \in DOMAIN heap |->
                 IF acc.closing # {} \/ NameOf(v) \in acc.black THEN acc
                 ELSE DFSVisit(heap, acc, v)]]
  IN  Loop(Look, s, Required(heap, o))

ClosingEdge(heap, o) == VisitRequired(heap, White, o).closing

\* cycle_check: the edge that closes a cycle is erased and the check throws.
CycleCheck(w, o) ==
  LET Cut(e) == [w.heap EXCEPT ![e[1]].reqs = @ \ {e[2]}]
      Checked(closing) ==
        IF closing = {} THEN w
        ELSE Fail([w EXCEPT !.heap = Cut(CHOOSE e \in closing : TRUE)],
                  "cycle found")
  IN  Checked(ClosingEdge(w.heap, o))

-----------------------------------------------------------------------------
(* Package_manager::add *)

\* Support_package ignores set_using_flag; a wrapper passes it on.
SetUsing(w, o, flag) ==
  IF w.heap[o].kind = "main" THEN [w EXCEPT !.heap[o].using = flag] ELSE w

\* The pointer of o to r becomes a pointer to the object of the map.
Redirect(w, o, r) ==
  [w EXCEPT !.heap[o].reqs = (@ \ {r}) \cup {At(w, NameOf(r))}]

\* Fault: the pointers are checked and left as they were read.
CheckOnly(w, o) == CycleCheck(w, o)

ConnectOnce(connect, x, p) ==
  LET D == DOMAIN x.heap
      Connect == [acc \in Worlds(D) |-> [r \in D |->
        IF acc.failed # "no" THEN acc
        ELSE IF Has(acc, NameOf(r)) THEN Redirect(acc, p, r)
        ELSE connect[acc][r]]]
  IN  Loop(Connect, CycleCheck(x, p), Required(x.heap, p))

ConnectEqualPointers(w, o) ==
  LET D == DOMAIN w.heap
      connect[d \in 0 .. Depth] ==
        IF d = 0 THEN [x \in Worlds(D) |-> [p \in D |-> x]]
        ELSE [x \in Worlds(D) |->
                [p \in D |-> ConnectOnce(connect[d - 1], x, p)]]
  IN  connect[Depth][w][o]

\* map.emplace keeps an entry that is there already.
Emplace(w, o) == IF Has(w, NameOf(o)) THEN w ELSE [w EXCEPT !.map = @ \cup {o}]

\* add for a package that is not in the map or is to become a user: connect,
\* set the flag, emplace, and add what is required.
AddOnce(add, x, p, flag) ==
  LET D == DOMAIN x.heap
      AddRequired == [acc \in Worlds(D) |-> [r \in D |->
        IF acc.failed # "no" THEN acc
        ELSE IF ~Has(acc, NameOf(r)) THEN add[acc][r][FALSE]
        ELSE IF SamePackage(acc.heap, At(acc, NameOf(r)), r) THEN acc
        ELSE Fail(acc, "file_name is unique")]]
      Place(connected) ==
        IF connected.failed # "no" THEN connected
        ELSE Loop(AddRequired, Emplace(SetUsing(connected, p, flag), p),
                  Required(connected.heap, p))
  IN  Place(ConnectEqualPointers(x, p))

AddNew(w, o, main) ==
  LET D == DOMAIN w.heap
      add[d \in 0 .. Depth] ==
        IF d = 0
        THEN [x \in Worlds(D) |-> [p \in D |-> [flag \in BOOLEAN |-> x]]]
        ELSE [x \in Worlds(D) |-> [p \in D |-> [flag \in BOOLEAN |->
                AddOnce(add[d - 1], x, p, flag)]]]
  IN  add[Depth][w][o][main]

\* Fault: the flag is set before the configurations are compared.
ManagerAddEager(w, o) ==
  LET old == At(w, NameOf(o))
  IN  IF ~Has(w, NameOf(o)) THEN AddNew(w, o, TRUE)
      ELSE IF w.heap[old].using THEN Fail(w, "This package is already exist")
      ELSE IF SamePackage(w.heap, old, o)
           THEN AddNew(SetUsing(w, old, TRUE), o, TRUE)
           ELSE Fail(SetUsing(w, old, TRUE), "file_name is unique")

ManagerAdd(w, o) ==
  LET old == At(w, NameOf(o))
  IN  IF ~Has(w, NameOf(o)) THEN AddNew(w, o, TRUE)
      ELSE IF ~SamePackage(w.heap, old, o) THEN Fail(w, "file_name is unique")
      ELSE IF w.heap[old].using THEN Fail(w, "This package is already exist")
      ELSE AddNew(SetUsing(w, old, TRUE), o, TRUE)

-----------------------------------------------------------------------------
(* Package_manager::cycle_destroy *)

\* DFS_visit_destroy: stops at the first required package whose name is grey
\* when it looks, and erases the pointer to it.  A visit is coloured black
\* only while it looks at a required package, so one that requires nothing
\* stays grey.  What a nested visit returns is not looked at.
Breaking(D) ==
  [heap : [D -> Fields(D)], grey : SUBSET Name, black : SUBSET Name,
   done : BOOLEAN]

DestroyOnce(visit, x, o) ==
  LET D == DOMAIN x.heap
      Judge(seen, v) ==
        IF NameOf(v) \in seen.grey
        THEN [seen EXCEPT !.heap[o].reqs = @ \ {v}, !.done = FALSE]
        ELSE [seen EXCEPT !.grey = @ \ {NameOf(o)},
                          !.black = @ \cup {NameOf(o)}]
      Look == [acc \in Breaking(D) |-> [v \in D |->
        IF ~acc.done THEN acc
        ELSE IF NameOf(v) \in acc.grey \cup acc.black THEN Judge(acc, v)
        ELSE Judge([visit[acc][v] EXCEPT !.done = TRUE], v)]]
  IN  Loop(Look, [x EXCEPT !.grey = @ \cup {NameOf(o)},
                           !.black = @ \ {NameOf(o)}, !.done = TRUE],
           Required(x.heap, o))

DestroyVisit(s, u) ==
  LET D == DOMAIN s.heap
      visit[d \in 0 .. Depth] ==
        IF d = 0 THEN [x \in Breaking(D) |-> [o \in D |-> x]]
        ELSE [x \in Breaking(D) |->
                [o \in D |-> DestroyOnce(visit[d - 1], x, o)]]
  IN  visit[Depth][s][u]

\* The visit is repeated until it has erased no pointer of u.
DestroyAll(s, u) ==
  LET n == Cardinality(s.heap[u].reqs)
      rounds[i \in 0 .. n] ==
        IF i = 0 THEN DestroyVisit(s, u)
        ELSE IF rounds[i - 1].done THEN rounds[i - 1]
        ELSE DestroyVisit(rounds[i - 1], u)
  IN  rounds[n]

CycleDestroy(w, o) ==
  LET D == DOMAIN w.heap
      Look == [acc \in Breaking(D) |-> [v \in D |->
                 IF NameOf(v) \in acc.grey \cup acc.black THEN acc
                 ELSE DestroyAll(acc, v)]]
  IN  [w EXCEPT !.heap =
         Loop(Look,
              [heap |-> w.heap, grey |-> {}, black |-> {}, done |-> TRUE],
              Required(w.heap, o)).heap]

-----------------------------------------------------------------------------
(* Package_manager::remove, remove_unuse and global_update *)

\* What the marking threads may have visited when they are joined, if the
\* packages of users are where they start.  Colours are kept by name: of two
\* objects with one name the threads may visit only the one they come to
\* first, or both when they come to them at the same time.
Visited(w, users) ==
  LET all == Closure(w.heap, users)
      Complete(V) ==
        /\ users \subseteq V
        /\ \A o \in V : NamesOf(w.heap[o].reqs) \subseteq NamesOf(V)
        /\ \A o \in V \ users : \E p \in V : o \in w.heap[p].reqs
  IN  {V \in SUBSET all : Complete(V)}

\* Fault: only the package itself is erased.
EraseVisitNone(w, o, marked) == {o}

\* The objects map_erase_visit goes through, from o.
EraseVisit(w, o, marked) ==
  LET Passes(r) == NameOf(r) \notin marked /\ ~w.heap[r].using
  IN  Closure([x \in DOMAIN w.heap |->
                 [reqs |-> {r \in w.heap[x].reqs : Passes(r)}]], {o})

Erase(w, names) ==
  [w EXCEPT !.map = {o \in @ : NameOf(o) \notin names}]

\* map_erase_visit erases by name, and holds the target by a reference into
\* the map: if it comes to another object with the name of the target, it
\* frees the target while it is still in it.
FreesTarget(w, o, marked) ==
  \E x \in EraseVisit(w, o, marked) \ {o} : NameOf(x) = NameOf(o)

\* remove, of the object o of the map, if the threads visited V.
ManagerRemove(w, o, V) ==
  IF NameOf(o) \in NamesOf(V) THEN Fail(w, "this package is using by other")
  ELSE Erase(w, NamesOf(EraseVisit(w, o, NamesOf(V))))

\* Fault: only what is required is coloured, and not what users asked for.
SweepUnrequired(w, V) ==
  Erase(w, NamesOf(w.map) \ UNION {NamesOf(w.heap[o].reqs) : o \in V})

\* remove_unuse(), if the threads visited V.
ManagerRemoveUnuse(w, V) == Erase(w, NamesOf(w.map) \ NamesOf(V))

\* Fault: only what users require themselves is coloured.
OneThreadShallow(w, order) ==
  [grey |-> {}, closing |-> {},
   black |-> UNION {NamesOf({o} \cup w.heap[o].reqs) : o \in Users(w)}]

\* The colours of remove_unuse_one_thread, which comes to the users in this
\* order.  A circle ends it, as in DFSVisit.
OneThread(w, order) ==
  LET VisitUser == [acc \in Colours(DOMAIN w.heap) |-> [o \in DOMAIN w.heap |->
        IF acc.closing # {} THEN acc
        ELSE VisitRequired(w.heap, [acc EXCEPT !.black = @ \cup {NameOf(o)}],
                           o)]]
  IN  Loop(VisitUser, White, order)

ManagerGlobalUpdate(w) ==
  [w EXCEPT !.heap = [o \in DOMAIN w.heap |->
     IF o \in w.map THEN [w.heap[o] EXCEPT !.current = w.heap[o].last]
     ELSE w.heap[o]]]

-----------------------------------------------------------------------------
(* P_IOF::write_package_to_json *)

EntryOf(heap, o) == [heap[o] EXCEPT !.reqs = NamesOf(@)]

\* What is written, and the world it leaves: the entries of some objects.
Writings(D) == [world : Worlds(D), written : SUBSET D]
Entries(x) == [n \in NamesOf(x.written) |->
                 EntryOf(x.world.heap, CHOOSE o \in x.written : NameOf(o) = n)]

\* Fault: only the entry of o is written.
WriteOwnEntry(w, o) == [world |-> w, written |-> {o}]

\* Fault: a name that is there already is passed over.
WriteOnce(w, o) == [world |-> w, written |-> Closure(w.heap, {o})]

\* o and all it requires are written.  A name that is there already makes the
\* package unreal.
WriteNested(write, x, p) ==
  LET D == DOMAIN x.world.heap
      Write == [acc \in Writings(D) |-> [r \in D |->
        IF acc.world.failed # "no" THEN acc ELSE write[acc][r]]]
      checked == CycleCheck(x.world, p)
  IN  IF checked.failed # "no" THEN [x EXCEPT !.world = checked]
      ELSE IF NameOf(p) \in NamesOf(x.written)
      THEN [x EXCEPT !.world = Fail(checked, "unreal package")]
      ELSE Loop(Write, [x EXCEPT !.written = @ \cup {p}],
                Required(x.world.heap, p))

WriteToJson(w, o) ==
  LET D == DOMAIN w.heap
      write[d \in 0 .. Depth] ==
        IF d = 0 THEN [x \in Writings(D) |-> [p \in D |-> x]]
        ELSE [x \in Writings(D) |->
                [p \in D |-> WriteNested(write[d - 1], x, p)]]
  IN  write[Depth][[world |-> w, written |-> {}]][o]

NoEntries == <<>>

\* The orders in which the entries of a map can come out of its buckets.
Orders(S) ==
  LET orders[n \in 0 .. Cardinality(S)] ==
        IF n = 0 THEN [T \in SUBSET S |-> {<<>>}]
        ELSE [T \in SUBSET S |->
                UNION {{<<x>> \o q : q \in orders[n - 1][T \ {x}]} : x \in T}]
  IN  orders[Cardinality(S)][S]

\* Fault: only what users asked for is written.
WriteUsers(w, order) == [world |-> w, written |-> Users(w)]

\* write_package_manager_to_file: the trees of the packages of the map, each
\* written on its own, in the order of the buckets; the first entry of a name
\* is kept.
WriteAll(w, order) ==
  LET D == DOMAIN w.heap
      Joined(first, one) ==
        [one EXCEPT !.written =
           first \cup {o \in @ : NameOf(o) \notin NamesOf(first)}]
      Write == [acc \in Writings(D) |-> [o \in D |->
        IF acc.world.failed # "no" THEN acc
        ELSE Joined(acc.written, WriteToJson(acc.world, o))]]
  IN  Loop(Write, [world |-> w, written |-> {}], order)

\* What loading a file gives: the trees of its using packages, connected.
\* They all come from one file, so the order in which they are added makes no
\* difference.
StoredUsers(file) == {n \in DOMAIN file : file[n].using}
StoredNames(file) == Closure(file, StoredUsers(file))
Loads(file) == \A n \in StoredUsers(file) : CanRead(file, n)

Loaded(file, k) ==
  LET objects == {<<n, k>> : n \in StoredNames(file)}
  IN  [heap |-> [o \in objects |->
                   [file[NameOf(o)] EXCEPT !.reqs = {<<q, k>> : q \in @}]],
       map |-> objects,
       failed |-> "no"]
=============================================================================
