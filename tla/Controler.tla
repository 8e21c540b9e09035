----------------------------- MODULE Controler -----------------------------
(***************************************************************************)
(* Class Controler (controler.cpp): a package manager, the json            *)
(* repositories packages are read from, and the storage file its state is  *)
(* written to.  Every operation is one action: the program has one thread  *)
(* outside remove and remove_unuse, whose threads are joined before they   *)
(* return (module ParallelRemoval).                                        *)
(*                                                                         *)
(* A file that is written is opened, and so truncated, before the text is  *)
(* made: an exception in between leaves it empty.                          *)
(***************************************************************************)
EXTENDS Packages

CONSTANTS Repositories,   \* sets of lists of repository files: those of a set
                          \* replace each other
          Truncated       \* stands for a storage file without any text

\* No file has such a text.
ASSUME TruncatedAssumption ==
  \A names \in SUBSET Name : Truncated \notin [names -> Fields(Name)]

ASSUME RepositoriesAssumption ==
  \A list \in UNION Repositories :
    DOMAIN list \subseteq Nat /\ \A i \in DOMAIN list : IsFile(list[i])

\* Replacing goes both ways and on and on: sets with a list in common are one.
ASSUME FamiliesAssumption ==
  \A F, G \in Repositories : F \cap G # {} => F = G

VARIABLES heap, map,      \* the package manager
          repos,          \* the repository files, in the order they are tried
          storage,        \* the entries of the storage file, by file name
          answer,         \* "ok", or what() of the exception
          running         \* there is a controler: the program goes on

vars == <<heap, map, repos, storage, answer, running>>

World == [heap |-> heap, map |-> map, failed |-> "no"]

\* Fault: what an operation does not use any more is not freed.
SettleLeaking(w) == map' = w.map /\ heap' = w.heap

\* An operation leaves world w: what is not reachable from the map is freed.
Settle(w) == /\ map' = w.map
             /\ heap' = [o \in Live(w) |-> w.heap[o]]

EmptyWorld == [heap |-> NoEntries, map |-> {}, failed |-> "no"]

Outcome(failed) == IF failed = "no" THEN "ok" ELSE failed

Init == /\ heap = NoEntries
        /\ map = {}
        /\ repos \in UNION Repositories
        /\ storage = NoEntries
        /\ answer = "ok"
        /\ running = TRUE

Unchanged == UNCHANGED <<heap, map, storage>>

-----------------------------------------------------------------------------
(* add_package *)

\* The repositories that have package n.
Holders(n) == {i \in DOMAIN repos : n \in DOMAIN repos[i]}

AddNoSuch(n) == /\ Holders(n) = {}
                /\ answer' = "No such package in repozitories"
                /\ Unchanged

\* The reader throws.
AddUnreadable(n) == /\ Holders(n) # {}
                    /\ ~CanRead(repos[First(Holders(n))], n)
                    /\ answer' = "cycle found in json base"
                    /\ Unchanged

\* The manager throws: whatever it throws, the controler throws "cycle found".
AddRefused(w, o) ==
  /\ Settle(IF w.failed = "cycle found" THEN CycleDestroy(w, o) ELSE w)
  /\ answer' = "cycle found"
  /\ UNCHANGED storage

\* The manager has added the package, and its entries go to the storage.
\* Entries that are there already are kept as they are.
AddStored(w, o) ==
  \E written \in {WriteToJson(w, o)} :
    /\ Settle(written.world)
    /\ \/ /\ written.world.failed # "no"
          /\ storage' = Truncated
          /\ answer' = written.world.failed
       \/ /\ written.world.failed = "no"
          /\ storage = Truncated
          /\ answer' = "bad format"
          /\ UNCHANGED storage
       \/ /\ written.world.failed = "no"
          /\ storage # Truncated
          /\ storage' = Over(storage, Entries(written))
          /\ answer' = "ok"

\* The tree of n, read from a file: a world that has it, and its root.
Reading(file, n) ==
  IF CanRead(file, n) /\ HasRoom(World, Closure(file, {n}))
  THEN {[world |-> ReadPackage(World, file, n), root |-> NewObject(World, n)]}
  ELSE {}

\* The manager is given what was read.
AddReading(r) ==
  \E added \in {ManagerAdd(r.world, r.root)} :
    \/ added.failed # "no" /\ AddRefused(added, r.root)
    \/ added.failed = "no" /\ AddStored(added, r.root)

\* What add_package reads.
PackageReadings(n) ==
  UNION {Reading(repos[i], n) : i \in {j \in Holders(n) : j = First(Holders(n))}}
AddRead(n) == \E r \in PackageReadings(n) : AddReading(r)
AddPackage(n) == AddNoSuch(n) \/ AddUnreadable(n) \/ AddRead(n)

\* read_package for the title t with "-last", of a file that the caller has
\* opened, and add_package_external.  add_package finds no such name: those
\* of the entries end with ".dep".
LastReadings(t) ==
  UNION {{[r EXCEPT !.world = Wrap(@, r.root)] :
            r \in Reading(repos[i], FindLast(repos[i], t))} :
           i \in {i \in DOMAIN repos : Wrappers(repos[i], t) # {}}}
AddLast(t) == \E r \in LastReadings(t) : AddReading(r)

\* The manager compares a wrapper with one that requires less, and follows
\* what is behind the end of a vector, which may end the process.
Overrun(r) ==
  /\ running
  /\ Has(World, NameOf(r.root))
  /\ Overruns(r.world.heap, At(World, NameOf(r.root)), r.root)
  /\ Settle(EmptyWorld)
  /\ answer' = "memory fault"
  /\ running' = FALSE
  /\ UNCHANGED <<repos, storage>>

-----------------------------------------------------------------------------
(* remove_package, remove_unuse, global_update *)

\* The worlds Package_manager::remove can leave.
Removed(n) ==
  IF ~Has(World, n) THEN {Fail(World, "This package did not exist")}
  ELSE {ManagerRemove(World, At(World, n), V) :
          V \in Visited(World, Users(World) \ {At(World, n)})}

\* The storage file does not parse, and nothing else is done.
StorageUnreadable == /\ storage = Truncated
                     /\ answer' = "parse error"
                     /\ Unchanged

\* write_package_manager_to_file, after the manager has left world w.
Store(w) ==
  \E written \in {WriteAll(w, order) : order \in Orders(w.map)} :
    /\ Settle(written.world)
    /\ storage' = IF written.world.failed = "no" THEN Entries(written)
                                                 ELSE Truncated
    /\ answer' = Outcome(written.world.failed)

\* Fault: the file is not written.
StoreNothing(w) == /\ Settle(w)
                   /\ answer' = Outcome(w.failed)
                   /\ UNCHANGED storage

\* An exception of the manager leaves the storage alone.
StoreUnlessFailed(w) == IF w.failed = "no" THEN Store(w)
                        ELSE /\ Settle(w)
                             /\ answer' = w.failed
                             /\ UNCHANGED storage

RemovePackage(n) ==
  \/ StorageUnreadable
  \/ storage # Truncated /\ \E w \in Removed(n) : StoreUnlessFailed(w)

RemoveUnuse ==
  \/ StorageUnreadable
  \/ /\ storage # Truncated
     /\ \E V \in Visited(World, Users(World)) :
          Store(ManagerRemoveUnuse(World, V))

GlobalUpdate ==
  \/ StorageUnreadable
  \/ storage # Truncated /\ Store(ManagerGlobalUpdate(World))

-----------------------------------------------------------------------------
(* Construction *)

Readable(file) == file # Truncated /\ Loads(file)

\* The manager of a new process, made from the using entries of the file.
LoadStorage ==
  /\ Readable(storage)
  /\ Settle(Loaded(storage, First(Stamp)))
  /\ answer' = "ok"
  /\ UNCHANGED storage
  /\ running' = TRUE

\* A file that does not parse, or has a using entry that the reader refuses.
LoadFails ==
  /\ ~Readable(storage)
  /\ Settle(EmptyWorld)
  /\ answer' = "deserealization error"
  /\ UNCHANGED <<storage, running>>

\* Without load_from_storage the empty manager is written to the file.
StartEmpty ==
  /\ Settle(EmptyWorld)
  /\ storage' = NoEntries
  /\ answer' = "ok"
  /\ running' = TRUE

-----------------------------------------------------------------------------

\* The process ends between two operations; its objects are gone.
Stop == /\ running
        /\ running' = FALSE
        /\ Settle(EmptyWorld)
        /\ answer' = "ok"
        /\ UNCHANGED <<repos, storage>>

Start == /\ ~running
         /\ LoadStorage \/ LoadFails \/ StartEmpty
         /\ UNCHANGED repos

\* What the repository files may be replaced by.
Family == UNION {F \in Repositories : repos \in F}

\* The repository files are replaced.
NewRepositories == /\ running
                   /\ repos' \in Family \ {repos}
                   /\ answer' = "ok"
                   /\ UNCHANGED <<heap, map, storage, running>>

Operation ==
  /\ running
  /\ UNCHANGED <<repos, running>>
  /\ \/ \E n \in Name : AddPackage(n) \/ RemovePackage(n)
     \/ \E t \in Title : AddLast(t)
     \/ RemoveUnuse
     \/ GlobalUpdate

Next == \/ Operation
        \/ \E r \in UNION {PackageReadings(n) : n \in Name} \cup
                    UNION {LastReadings(t) : t \in Title} : Overrun(r)
        \/ NewRepositories
        \/ Stop
        \/ Start

Spec == Init /\ [][Next]_vars

-----------------------------------------------------------------------------
(* Properties *)

\* Every pointer points to an object, every file name in the map belongs to
\* its object, and nothing is kept that the map does not reach.
TypeOK == /\ DOMAIN heap \subseteq Object
          /\ World \in Worlds(DOMAIN heap)
          /\ \A o, p \in map : NameOf(o) = NameOf(p) => o = p
          /\ DOMAIN heap = Live(World)
          /\ repos \in UNION Repositories
          /\ storage = Truncated \/ IsFile(storage)
          /\ running \in BOOLEAN

\* The repositories have no support packages, on which no flag can be set and
\* which make removed packages stay referenced.
MainOnly ==
  \A list \in Family : \A i \in DOMAIN list : \A n \in DOMAIN list[i] :
    list[i][n].kind = "main"

\* One file name is one package: every object that an installed package
\* requires, however far, is the one in the map (connect_equal_pointers).
Coherent == MainOnly => DOMAIN heap = map

\* What is installed is what users asked for and what that needs: nothing is
\* missing, and remove leaves nothing behind that only the removed package
\* needed.  (Wrappers whose requirements grow from one repository to the next
\* can break it, since operator== looks at the requirements of the old one only.)
Needed == NamesOf(Closure(heap, Users(World)))
ExactlyNeeded == MainOnly => NamesOf(map) = Needed

\* The storage file always has the packages that are installed, with the
\* fields they have: a process that starts from it finds what the last one
\* left.  Whom they were installed for is left out: write_package_to_file keeps
\* the entry of a dependency that a user installs later, without its flag.
Recorded(o) == [storage[NameOf(o)] EXCEPT !.using = FALSE]
                 = [EntryOf(heap, o) EXCEPT !.using = FALSE]
StorageIsCurrent ==
  MainOnly /\ running =>
             /\ storage # Truncated
             /\ DOMAIN storage = NamesOf(map)
             /\ \A o \in map : Recorded(o)

\* What was written can be read: the next process can start.
StorageReadable == MainOnly => Readable(storage)

\* remove does not come back to the package it removes: map_erase_visit frees
\* no object it still works on, whatever was installed and removed before.
Frees(o) == \E V \in Visited(World, Users(World) \ {o}) :
              NameOf(o) \notin NamesOf(V) /\ FreesTarget(World, o, NamesOf(V))
TargetOutlivesRemoval ==
  running /\ storage # Truncated => \A o \in map : ~Frees(o)

\* Both ways to sweep agree: in whatever order remove_unuse_one_thread comes to
\* the users, it keeps what the threads of remove_unuse may keep, or finds a
\* circle, which the threads pass over.
Keeps(names) == \E V \in Visited(World, Users(World)) : names = NamesOf(V)
SweepsAgree ==
  \A order \in Orders(Users(World)) :
    \E end \in {OneThread(World, order)} :
      IF end.closing = {} THEN Keeps(end.black) ELSE ~MainOnly

\* No operation takes away a package that a user asked for, but remove the
\* one it is called for.
UsersStay ==
  [][running /\ running' =>
       \A n \in NamesOf(Users(World)) \ NamesOf(Users(World))' :
         RemovePackage(n)]_vars

\* An operation that answers with an exception leaves what is installed and
\* whom it was installed for as it was.
RefusedChangesNothing ==
  [][MainOnly /\ running /\ running' /\ answer' # "ok" =>
       map' = map /\ heap' = heap]_vars

\* No package requires itself, however far: the pointers of the packages that
\* are installed lead back to no file name they come from.
NamesAcyclic ==
  \A o \in DOMAIN heap :
    NameOf(o) \notin NamesOf(Closure(heap, heap[o].reqs))

\* remove_unuse takes no package away that a user's package needs.
SweepKeepsNeeded ==
  [][running /\ RemoveUnuse =>
       Needed \cap NamesOf(map) \subseteq NamesOf(map')]_vars

\* Who asks for the last version of a title gets one, and none of the
\* repositories has a newer one.
LastIsNewest ==
  [][\A t \in Title :
       running /\ AddLast(t) /\ answer' = "ok" =>
         \E o \in map' :
           /\ heap'[o].wrapped /\ heap'[o].title = t
           /\ \A i \in DOMAIN repos : \A m \in DOMAIN repos[i] :
                repos[i][m].title = t =>
                  repos[i][m].current <= heap'[o].current]_vars
=============================================================================
