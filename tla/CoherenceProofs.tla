-------------------------- MODULE CoherenceProofs --------------------------
(***************************************************************************)
(* Theorems about Controler and Client with repositories of main packages, *)
(* for every set of file names: one file name is one package, for all that *)
(* the map reaches, what is installed is what users asked for and what     *)
(* that needs, and nothing requires itself, however far.  If the           *)
(* repositories agree on what packages require, the storage file has what  *)
(* is installed, and an exception changes nothing.                         *)
(***************************************************************************)
EXTENDS ControlerProofs, CoherenceTheorems

-----------------------------------------------------------------------------
(* One file name is one package *)

\* The repositories have no wrappers either.
NoWrappers ==
  \A list \in Family : \A i \in DOMAIN list : \A n \in DOMAIN list[i] :
    ~list[i][n].wrapped

\* All objects are those of the map, and the map is tidy.
TidyNow == DOMAIN heap = map /\ Tidy(heap, map)

\* The storage file has main packages only, none of them wrapped.
StoragePlain == storage = Truncated \/ PlainFile(storage)

TidyAndPlain == TidyNow /\ StoragePlain

\* The inductive invariant.
CoherenceInv == MainOnly /\ NoWrappers => TidyAndPlain

\* The repositories that are read are plain files.
LEMMA PlainRepository ==
  ASSUME MainOnly, NoWrappers, repos \in UNION Repositories, NEW i \in DOMAIN repos
  PROVE  PlainFile(repos[i])
<1>1. repos \in Family
  BY DEF Family
<1> QED
  BY <1>1 DEF MainOnly, NoWrappers, PlainFile

\* They are replaced by others of their family.
LEMMA FamilyStays ==
  ASSUME repos \in UNION Repositories, repos' = repos \/ repos' \in Family
  PROVE  MainOnly' /\ NoWrappers' => MainOnly /\ NoWrappers
<1>1. PICK F \in Repositories : repos \in F
  OBVIOUS
<1>2. repos' \in F
  BY <1>1, FamiliesAssumption DEF Family
<1>3. Family = F
  BY <1>1, FamiliesAssumption DEF Family
<1>4. Family' = F
  BY <1>2, FamiliesAssumption DEF Family
<1> QED
  BY <1>3, <1>4 DEF MainOnly, NoWrappers

\* What an operation leaves tidy is tidy when the rest is freed.
LEMMA SettledTidy ==
  ASSUME NEW w, NEW D, D \subseteq Object, w \in Worlds(D), Tidy(w.heap, w.map),
         Settle(w)
  PROVE  TidyNow'
<1>1. map' = w.map /\ heap' = [o \in Live(w) |-> w.heap[o]]
  BY DEF Settle
<1>2. PICK g : g = [o \in Live(w) |-> w.heap[o]]
  OBVIOUS
<1>3. DOMAIN g = w.map /\ Tidy(g, w.map)
  BY <1>2, TidyLives
<1>4. heap' = g
  BY <1>1, <1>2
<1> QED
  BY <1>1, <1>3, <1>4 DEF TidyNow

\* So is nothing at all.
LEMMA EmptyTidy ==
  ASSUME Settle(EmptyWorld)
  PROVE  TidyNow'
<1>1. NoEntries \in [{} -> Fields({})] /\ DOMAIN NoEntries = {}
  BY EmptySeq DEF NoEntries
<1>2. EmptyWorld \in Worlds({})
  BY <1>1 DEF EmptyWorld, Worlds, Failures
<1>3. EmptyWorld.map = {}
  BY DEF EmptyWorld
<1>4. Tidy(EmptyWorld.heap, EmptyWorld.map)
  BY <1>3 DEF Tidy, OneEach, Orderly, KeepsReqs, NoWayBack
<1>5. {} \subseteq Object
  OBVIOUS
<1> QED
  BY <1>2, <1>4, <1>5, SettledTidy

\* The world of the variables, when they are tidy.
LEMMA TidyWorld ==
  ASSUME HeapOK, TidyNow
  PROVE  /\ map \subseteq Object /\ World \in Worlds(map) /\ World.map = map
         /\ World.failed = "no" /\ Tidy(World.heap, World.map)
         /\ AllPlain(map, World.heap) /\ OneEach(map)
BY WorldIs DEF HeapOK, TidyNow, Tidy, AllPlain

\* What has been read for it.
LEMMA ReadingFresh ==
  ASSUME HeapOK, TidyNow, NEW file, IsFile(file), PlainFile(file), NEW n,
         NEW r \in Reading(file, n)
  PROVE  \E E : TreeRead(map, World, E, r.root, r.world)
<1>1. /\ CanRead(file, n) /\ HasRoom(World, Closure(file, {n}))
      /\ r = [world |-> ReadPackage(World, file, n), root |-> NewObject(World, n)]
  BY DEF Reading
<1>2. map \subseteq Object /\ World \in Worlds(map)
  BY TidyWorld
<1>3. PICK E : TreeRead(map, World, E, NewObject(World, n), ReadPackage(World, file, n))
  BY <1>1, <1>2, ReadPackageTree
<1>4. r.root = NewObject(World, n) /\ r.world = ReadPackage(World, file, n)
  BY <1>1
<1> QED
  BY <1>3, <1>4

\* The manager takes it or refuses it.
LEMMA AddReadingTidy ==
  ASSUME HeapOK, TidyAndPlain, NEW r, NEW E,
         TreeRead(map, World, E, r.root, r.world), AddReading(r)
  PROVE  TidyAndPlain'
<1>1. PICK x : x = r.world
  OBVIOUS
<1>2. PICK root : root = r.root
  OBVIOUS
<1>3. PICK a : /\ a = ManagerAdd(x, root)
               /\ \/ a.failed # "no" /\ AddRefused(a, root)
                  \/ a.failed = "no" /\ AddStored(a, root)
  BY <1>1, <1>2 DEF AddReading
<1>4. TreeRead(map, World, E, root, x)
  BY <1>1, <1>2
<1>5. /\ E \subseteq Object /\ x \in Worlds(E) /\ root \in E
  BY <1>4 DEF TreeRead, Tree
<1>6. Answered(E, x, root, a) /\ AllPlain(E, x.heap) /\ Tidy(x.heap, x.map)
  <2>1. /\ map \subseteq Object /\ World \in Worlds(map) /\ map = World.map
        /\ World.failed = "no" /\ Tidy(World.heap, World.map)
    BY TidyWorld DEF TidyAndPlain
  <2>2. /\ Answered(E, x, root, ManagerAdd(x, root))
        /\ AllPlain(E, x.heap) /\ Tidy(x.heap, x.map)
    BY <1>4, <2>1, ReadingTidies
  <2> QED
    BY <1>3, <2>2
<1>7. CASE AddedTo(E, x.heap, x.map, root, a)
  <2>1. /\ a \in Worlds(E) /\ a.failed = "no" /\ Tidy(a.heap, a.map)
        /\ a.heap[root].reqs \subseteq a.map /\ AllPlain(E, a.heap)
    BY <1>7 DEF AddedTo, Added
  <2>2. PICK written : /\ written = WriteToJson(a, root)
                       /\ Settle(written.world)
                       /\ \/ storage' = Truncated
                          \/ storage' = storage
                          \/ /\ storage # Truncated
                             /\ storage' = Over(storage, Entries(written))
    BY <1>3, <2>1 DEF AddStored
  <2>3. written \in WritingsOf(E, a.heap, a.map)
    <3>1. Orderly(a.heap, a.map)
      BY <2>1 DEF Tidy
    <3>2. a.map \in SUBSET E
      BY <2>1, WorldFields
    <3>3. WriteToJson(a, root) \in WritingsOf(E, a.heap, a.map)
      BY <1>5, <2>1, <3>1, <3>2, WriteToJsonQuiet
    <3> QED
      BY <2>2, <3>3
  <2>4. /\ written \in Writings(E) /\ written.world \in Worlds(E)
        /\ written.world.heap = a.heap /\ written.world.map = a.map
    BY <2>3, KinWritingsOf DEF WritingsOf
  <2>5. TidyNow'
    BY <1>5, <2>1, <2>2, <2>4, SettledTidy
  <2>6. PlainFile(Entries(written))
    BY <2>1, <2>4, EntriesPlain
  <2>7. StoragePlain'
    BY <2>2, <2>6, OverPlain DEF StoragePlain, TidyAndPlain
  <2> QED
    BY <2>5, <2>7 DEF TidyAndPlain
<1>8. ASSUME NEW e \in Failures \ {"no", "cycle found"}, a = Fail(x, e)
      PROVE  TidyAndPlain'
  <2>1. a \in Worlds(E) /\ a.failed = e /\ a.map = x.map /\ a.heap = x.heap
    BY <1>5, <1>8 DEF Fail, Worlds
  <2>2. AddRefused(a, root)
    BY <1>3, <1>8, <2>1
  <2>3. Settle(a) /\ storage' = storage
    BY <1>8, <2>1, <2>2 DEF AddRefused
  <2>4. TidyNow'
    BY <1>5, <1>6, <2>1, <2>3, SettledTidy
  <2> QED
    BY <2>3, <2>4 DEF TidyAndPlain, StoragePlain
<1>9. "file_name is unique" \in Failures \ {"no", "cycle found"}
  BY DEF Failures
<1>10. "This package is already exist" \in Failures \ {"no", "cycle found"}
  BY DEF Failures
<1> QED
  BY <1>6, <1>7, <1>8, <1>9, <1>10 DEF Answered

\* What changes nothing leaves it as it was.
LEMMA UnchangedTidy ==
  ASSUME TidyAndPlain, Unchanged
  PROVE  TidyAndPlain'
BY DEF Unchanged, TidyAndPlain, TidyNow, StoragePlain

\* add_package, with all its exceptions.
LEMMA AddPackageTidy ==
  ASSUME HeapOK, TidyAndPlain, MainOnly, NoWrappers, repos \in UNION Repositories,
         NEW n, AddPackage(n)
  PROVE  TidyAndPlain'
<1>1. CASE AddNoSuch(n)
  BY <1>1, UnchangedTidy DEF AddNoSuch
<1>2. CASE AddUnreadable(n)
  BY <1>2, UnchangedTidy DEF AddUnreadable
<1>3. CASE AddRead(n)
  <2>1. PICK r \in PackageReadings(n) : AddReading(r)
    BY <1>3 DEF AddRead
  <2>2. PICK i \in Holders(n) : r \in Reading(repos[i], n)
    BY <2>1 DEF PackageReadings
  <2>3. i \in DOMAIN repos
    BY <2>2 DEF Holders
  <2>4. IsFile(repos[i]) /\ PlainFile(repos[i])
    BY <2>3, RepositoryIn, PlainRepository
  <2>5. TidyNow
    BY DEF TidyAndPlain
  <2>6. PICK E : TreeRead(map, World, E, r.root, r.world)
    BY <2>2, <2>4, <2>5, ReadingFresh
  <2> QED
    BY <2>1, <2>6, AddReadingTidy
<1> QED
  BY <1>1, <1>2, <1>3 DEF AddPackage

\* Nothing is read for the last version of a title.
LEMMA AddLastNever ==
  ASSUME MainOnly, NoWrappers, repos \in UNION Repositories, NEW t, AddLast(t)
  PROVE  FALSE
<1>1. PICK i \in DOMAIN repos : Wrappers(repos[i], t) # {}
  BY DEF AddLast, LastReadings
<1>2. PlainFile(repos[i])
  BY PlainRepository
<1> QED
  BY <1>1, <1>2 DEF PlainFile, Wrappers

\* What is written of a tidy manager.
LEMMA StoreTidy ==
  ASSUME NEW w, NEW D, D \subseteq Object, w \in Worlds(D), Tidy(w.heap, w.map),
         AllPlain(D, w.heap), Store(w)
  PROVE  TidyAndPlain'
<1>1. PICK written : /\ written \in {WriteAll(w, order) : order \in Orders(w.map)}
                     /\ Settle(written.world)
                     /\ storage' = Truncated \/ storage' = Entries(written)
  BY DEF Store
<1>2. PICK order \in Orders(w.map) : written = WriteAll(w, order)
  BY <1>1
<1>3. order \in Seq(w.map) /\ w.map \in SUBSET D
  <2>1. w.map \in SUBSET D /\ IsFiniteSet(w.map)
    BY WorldFields, ObjectsFinite, FS_Subset
  <2> QED
    BY <2>1, OrdersIn
<1>4. written \in WritingsOf(D, w.heap, w.map)
  <2>1. Orderly(w.heap, w.map)
    BY DEF Tidy
  <2>2. WriteAll(w, order) \in WritingsOf(D, w.heap, w.map)
    BY <1>3, <2>1, WriteAllQuiet
  <2> QED
    BY <1>2, <2>2
<1>5. /\ written \in Writings(D) /\ written.world \in Worlds(D)
      /\ written.world.heap = w.heap /\ written.world.map = w.map
  BY <1>4, KinWritingsOf DEF WritingsOf
<1>6. TidyNow'
  BY <1>1, <1>5, SettledTidy
<1>7. PlainFile(Entries(written))
  BY <1>5, EntriesPlain
<1> QED
  BY <1>1, <1>6, <1>7 DEF TidyAndPlain, StoragePlain

\* What remove leaves.
LEMMA RemovedTidy ==
  ASSUME HeapOK, TidyNow, NEW n, NEW w \in Removed(n)
  PROVE  w \in Worlds(map) /\ Tidy(w.heap, w.map) /\ AllPlain(map, w.heap)
<1>1. PICK D : D = map
  OBVIOUS
<1>2. PICK v : v = World
  OBVIOUS
<1>3. /\ D \subseteq Object /\ v \in Worlds(D) /\ D = v.map /\ v.failed = "no"
      /\ Tidy(v.heap, v.map) /\ AllPlain(D, v.heap)
  BY <1>1, <1>2, TidyWorld
<1>4. CASE ~Has(World, n)
  <2>1. w = Fail(v, "This package did not exist")
    BY <1>2, <1>4 DEF Removed
  <2>2. w \in Worlds(D) /\ w.heap = v.heap /\ w.map = v.map
    BY <1>3, <2>1 DEF Fail, Worlds, Failures
  <2> QED
    BY <1>1, <1>3, <2>2
<1>5. CASE Has(World, n)
  <2>1. PICK o : o = At(v, n)
    OBVIOUS
  <2>2. o \in v.map
    BY <1>2, <1>5, <2>1, AtIn
  <2>3. PICK V \in Visited(v, Users(v) \ {o}) : w = ManagerRemove(v, o, V)
    BY <1>2, <1>5, <2>1 DEF Removed
  <2>4. /\ ManagerRemove(v, o, V) \in Worlds(D)
        /\ ManagerRemove(v, o, V).heap = v.heap
        /\ Tidy(v.heap, ManagerRemove(v, o, V).map)
    BY <1>3, <2>2, <2>3, RemoveTidies
  <2> QED
    BY <1>1, <1>3, <2>3, <2>4
<1> QED
  BY <1>4, <1>5

\* remove_package, whether it removes the package, refuses or finds none.
LEMMA RemovePackageTidy ==
  ASSUME HeapOK, TidyAndPlain, NEW n, RemovePackage(n)
  PROVE  TidyAndPlain'
<1>1. CASE StorageUnreadable
  BY <1>1, UnchangedTidy DEF StorageUnreadable
<1>2. CASE ~StorageUnreadable
  <2>1. PICK w \in Removed(n) : StoreUnlessFailed(w)
    BY <1>2 DEF RemovePackage
  <2>2. map \subseteq Object
    BY TidyWorld DEF TidyAndPlain
  <2>3. w \in Worlds(map) /\ Tidy(w.heap, w.map) /\ AllPlain(map, w.heap)
    BY RemovedTidy DEF TidyAndPlain
  <2>4. CASE w.failed = "no"
    <3>1. Store(w)
      BY <2>1, <2>4 DEF StoreUnlessFailed
    <3> QED
      BY <2>2, <2>3, <3>1, StoreTidy
  <2>5. CASE w.failed # "no"
    <3>1. Settle(w) /\ storage' = storage
      BY <2>1, <2>5 DEF StoreUnlessFailed
    <3>2. TidyNow'
      BY <2>2, <2>3, <3>1, SettledTidy
    <3> QED
      BY <3>1, <3>2 DEF TidyAndPlain, StoragePlain
  <2> QED
    BY <2>4, <2>5
<1> QED
  BY <1>1, <1>2

\* remove_unuse, whatever its threads visited.
LEMMA RemoveUnuseTidy ==
  ASSUME HeapOK, TidyAndPlain, RemoveUnuse
  PROVE  TidyAndPlain'
<1>1. CASE StorageUnreadable
  BY <1>1, UnchangedTidy DEF StorageUnreadable
<1>2. CASE ~StorageUnreadable
  <2>1. PICK v : v = World
    OBVIOUS
  <2>2. PICK D : D = map
    OBVIOUS
  <2>3. PICK V \in Visited(v, Users(v)) : Store(ManagerRemoveUnuse(v, V))
    BY <1>2, <2>1 DEF RemoveUnuse
  <2>4. /\ D \subseteq Object /\ v \in Worlds(D) /\ D = v.map
        /\ Tidy(v.heap, v.map) /\ AllPlain(D, v.heap)
    BY <2>1, <2>2, TidyWorld DEF TidyAndPlain
  <2>5. PICK w : w = ManagerRemoveUnuse(v, V)
    OBVIOUS
  <2>6. w \in Worlds(D) /\ w.heap = v.heap /\ w.map = v.map
    <3>1. /\ ManagerRemoveUnuse(v, V) \in Worlds(D)
          /\ ManagerRemoveUnuse(v, V).heap = v.heap
          /\ ManagerRemoveUnuse(v, V).map = v.map
      BY <2>4, SweepTidies
    <3> QED
      BY <2>5, <3>1
  <2>7. Tidy(w.heap, w.map) /\ AllPlain(D, w.heap) /\ Store(w)
    BY <2>3, <2>4, <2>5, <2>6
  <2> QED
    BY <2>4, <2>6, <2>7, StoreTidy
<1> QED
  BY <1>1, <1>2

\* global_update.
LEMMA GlobalUpdateTidy ==
  ASSUME HeapOK, TidyAndPlain, GlobalUpdate
  PROVE  TidyAndPlain'
<1>1. CASE StorageUnreadable
  BY <1>1, UnchangedTidy DEF StorageUnreadable
<1>2. CASE ~StorageUnreadable
  <2>1. PICK v : v = World
    OBVIOUS
  <2>2. PICK D : D = map
    OBVIOUS
  <2>3. PICK w : w = ManagerGlobalUpdate(v) /\ Store(w)
    BY <1>2, <2>1 DEF GlobalUpdate
  <2>4. D \subseteq Object /\ v \in Worlds(D) /\ D = v.map /\ Tidy(v.heap, v.map)
    BY <2>1, <2>2, TidyWorld DEF TidyAndPlain
  <2>5. w \in Worlds(D) /\ w.map = v.map /\ Tidy(w.heap, v.map)
    <3>1. /\ ManagerGlobalUpdate(v) \in Worlds(D)
          /\ ManagerGlobalUpdate(v).map = v.map
          /\ Tidy(ManagerGlobalUpdate(v).heap, v.map)
      BY <2>4, UpdateTidies
    <3> QED
      BY <2>3, <3>1
  <2>6. Tidy(w.heap, w.map) /\ AllPlain(D, w.heap)
    BY <2>4, <2>5 DEF Tidy, AllPlain
  <2> QED
    BY <2>3, <2>4, <2>5, <2>6, StoreTidy
<1> QED
  BY <1>1, <1>2

\* A process starts, with what is in the storage file or without.
LEMMA StartTidy ==
  ASSUME StorageOK, TidyAndPlain, Start
  PROVE  TidyAndPlain'
<1>1. CASE LoadStorage
  <2>1. /\ storage # Truncated /\ Loads(storage)
        /\ Settle(Loaded(storage, First(Stamp)))
        /\ storage' = storage
    BY <1>1 DEF LoadStorage, Readable
  <2>2. IsFile(storage) /\ PlainFile(storage) /\ First(Stamp) \in Stamp
    BY <2>1, StampAssumption, FirstIn DEF StorageOK, TidyAndPlain, StoragePlain
  <2>3. PICK k \in Stamp : k = First(Stamp)
    BY <2>2
  <2>4. PICK D : /\ D \subseteq Object
                 /\ Loaded(storage, k) \in Worlds(D)
                 /\ Tidy(Loaded(storage, k).heap, Loaded(storage, k).map)
    BY <2>1, <2>2, LoadedTidies
  <2>5. PICK w : w = Loaded(storage, k)
    OBVIOUS
  <2>6. TidyNow'
    BY <2>1, <2>3, <2>4, <2>5, SettledTidy
  <2> QED
    BY <2>1, <2>6 DEF TidyAndPlain, StoragePlain
<1>2. CASE LoadFails
  BY <1>2, EmptyTidy DEF LoadFails, TidyAndPlain, StoragePlain
<1>3. CASE StartEmpty
  <2>1. DOMAIN NoEntries = {}
    BY EmptySeq DEF NoEntries
  <2>2. PlainFile(NoEntries)
    BY <2>1 DEF PlainFile
  <2> QED
    BY <1>3, <2>2, EmptyTidy DEF StartEmpty, TidyAndPlain, StoragePlain
<1> QED
  BY <1>1, <1>2, <1>3 DEF Start

\* A process ends.
LEMMA EndTidy ==
  ASSUME TidyAndPlain, Settle(EmptyWorld), storage' = storage
  PROVE  TidyAndPlain'
BY EmptyTidy DEF TidyAndPlain, StoragePlain

\* A step that keeps the repositories or replaces them by others of the family
\* keeps the invariant if it does so for plain repositories.
LEMMA CoherenceStep ==
  ASSUME repos \in UNION Repositories, repos' = repos \/ repos' \in Family,
         CoherenceInv, MainOnly /\ NoWrappers /\ TidyAndPlain => TidyAndPlain'
  PROVE  CoherenceInv'
BY FamilyStays DEF CoherenceInv

\* A step of the controler.
LEMMA NextTidy ==
  ASSUME TypeOK, CoherenceInv, [Next]_vars
  PROVE  CoherenceInv'
<1>1. HeapOK /\ StorageOK /\ repos \in UNION Repositories
  BY TypeOKParts
<1>2. repos' = repos \/ repos' \in Family
  BY DEF Next, Operation, Overrun, NewRepositories, Stop, Start, vars
<1>3. ASSUME MainOnly, NoWrappers, TidyAndPlain PROVE TidyAndPlain'
  <2>1. CASE Operation
    <3>1. ASSUME NEW n \in Name, AddPackage(n) PROVE TidyAndPlain'
      BY <1>1, <1>3, <3>1, AddPackageTidy
    <3>2. ASSUME NEW n \in Name, RemovePackage(n) PROVE TidyAndPlain'
      BY <1>1, <1>3, <3>2, RemovePackageTidy
    <3>3. ASSUME NEW t \in Title, AddLast(t) PROVE TidyAndPlain'
      BY <1>1, <1>3, <3>3, AddLastNever
    <3>4. ASSUME RemoveUnuse PROVE TidyAndPlain'
      BY <1>1, <1>3, <3>4, RemoveUnuseTidy
    <3>5. ASSUME GlobalUpdate PROVE TidyAndPlain'
      BY <1>1, <1>3, <3>5, GlobalUpdateTidy
    <3> QED
      BY <2>1, <3>1, <3>2, <3>3, <3>4, <3>5 DEF Operation
  <2>2. ASSUME NEW r, Overrun(r) PROVE TidyAndPlain'
    BY <1>3, <2>2, EndTidy DEF Overrun
  <2>3. CASE NewRepositories
    BY <1>3, <2>3, UnchangedTidy DEF NewRepositories, Unchanged
  <2>4. CASE Stop
    BY <1>3, <2>4, EndTidy DEF Stop
  <2>5. CASE Start
    BY <1>1, <1>3, <2>5, StartTidy
  <2>6. CASE UNCHANGED vars
    BY <1>3, <2>6, UnchangedTidy DEF vars, Unchanged
  <2> QED
    BY <2>1, <2>2, <2>3, <2>4, <2>5, <2>6 DEF Next
<1> QED
  BY <1>1, <1>2, <1>3, CoherenceStep

\* The first process.
LEMMA InitTidy ==
  ASSUME Init
  PROVE  CoherenceInv
<1>1. heap = NoEntries /\ map = {} /\ storage = NoEntries
  BY DEF Init
<1>2. DOMAIN NoEntries = {}
  BY EmptySeq DEF NoEntries
<1>3. TidyNow
  BY <1>1, <1>2 DEF TidyNow, Tidy, OneEach, Orderly, KeepsReqs, NoWayBack
<1>4. StoragePlain
  BY <1>1, <1>2 DEF StoragePlain, PlainFile
<1> QED
  BY <1>3, <1>4 DEF CoherenceInv, TidyAndPlain

\* A step of the client.
LEMMA ClientNextTidy ==
  ASSUME TypeOK, CoherenceInv, [ClientNext]_vars
  PROVE  CoherenceInv'
<1>1. HeapOK /\ StorageOK /\ repos \in UNION Repositories
  BY TypeOKParts
<1>2. repos' = repos \/ repos' \in Family
  BY DEF ClientNext, Option, Overrun, NewRepositories, Stop, Start, vars
<1>3. ASSUME MainOnly, NoWrappers, TidyAndPlain PROVE TidyAndPlain'
  <2>1. CASE Option
    <3>1. ASSUME NEW n \in Name, AddOption(n) PROVE TidyAndPlain'
      BY <1>1, <1>3, <3>1, AddPackageTidy DEF AddOption
    <3>2. ASSUME NEW n \in Name, RemoveOption(n) PROVE TidyAndPlain'
      <4>1. PICK w \in Removed(n) : Settle(w) /\ storage' = storage
        BY <3>2 DEF RemoveOption
      <4>2. map \subseteq Object
        BY <1>1, <1>3, TidyWorld DEF TidyAndPlain
      <4>3. w \in Worlds(map) /\ Tidy(w.heap, w.map)
        BY <1>1, <1>3, RemovedTidy DEF TidyAndPlain
      <4>4. TidyNow'
        BY <4>1, <4>2, <4>3, SettledTidy
      <4> QED
        BY <1>3, <4>1, <4>4 DEF TidyAndPlain, StoragePlain
    <3>3. ASSUME NEW n \in Name, RemoveFreed(n) PROVE TidyAndPlain'
      BY <1>3, <3>3, EndTidy DEF RemoveFreed
    <3>4. ASSUME RemoveUnuseOption PROVE TidyAndPlain'
      BY <1>1, <1>3, <3>4, RemoveUnuseTidy DEF RemoveUnuseOption
    <3> QED
      BY <2>1, <3>1, <3>2, <3>3, <3>4 DEF Option
  <2>2. ASSUME NEW r, Overrun(r) PROVE TidyAndPlain'
    BY <1>3, <2>2, EndTidy DEF Overrun
  <2>3. CASE NewRepositories
    BY <1>3, <2>3, UnchangedTidy DEF NewRepositories, Unchanged
  <2>4. CASE Stop
    BY <1>3, <2>4, EndTidy DEF Stop
  <2>5. CASE Start
    BY <1>1, <1>3, <2>5, StartTidy
  <2>6. CASE UNCHANGED vars
    BY <1>3, <2>6, UnchangedTidy DEF vars, Unchanged
  <2> QED
    BY <2>1, <2>2, <2>3, <2>4, <2>5, <2>6 DEF ClientNext
<1> QED
  BY <1>1, <1>2, <1>3, CoherenceStep

\* What the invariant says of the operations to come.
LEMMA CoherentNow ==
  ASSUME TypeOK, CoherenceInv, NoWrappers
  PROVE  Coherent /\ ExactlyNeeded
<1>1. SUFFICES ASSUME MainOnly
               PROVE  DOMAIN heap = map /\ NamesOf(map) = Needed
  BY DEF Coherent, ExactlyNeeded
<1>2. HeapOK /\ TidyNow
  BY <1>1, TypeOKParts DEF CoherenceInv, TidyAndPlain
<1>3. PICK D : D = map
  OBVIOUS
<1>4. /\ D \subseteq Object /\ World \in Worlds(D) /\ Tidy(World.heap, D)
      /\ World.map = D /\ World.heap = heap
  BY <1>2, <1>3, TidyWorld, WorldIs
<1>5. heap \in [D -> Fields(D)] /\ D \in SUBSET D
  BY <1>4, WorldFields
<1>6. Closure(heap, Askers(heap, D)) = D
  BY <1>4, <1>5, TidyNeeds
<1>7. Users(World) = Askers(heap, D)
  BY <1>4 DEF Users, Askers
<1> QED
  BY <1>2, <1>3, <1>6, <1>7 DEF TidyNow, Needed

\* remove frees nothing that it works on.
LEMMA TargetsStay ==
  ASSUME TypeOK, CoherenceInv, MainOnly, NoWrappers
  PROVE  TargetOutlivesRemoval /\ OptionTargetOutlives
<1>1. HeapOK /\ TidyNow
  BY TypeOKParts DEF CoherenceInv, TidyAndPlain
<1>2. PICK D : D = map
  OBVIOUS
<1>3. D \subseteq Object /\ World \in Worlds(D) /\ OneEach(D)
  BY <1>1, <1>2, TidyWorld
<1>4. ASSUME NEW o \in D, NEW marked PROVE ~FreesTarget(World, o, marked)
  BY <1>3, TargetStays
<1> QED
  BY <1>2, <1>4 DEF TargetOutlivesRemoval, OptionTargetOutlives, Frees

\* Nothing that is installed leads back to its own name.
LEMMA AcyclicNow ==
  ASSUME TypeOK, CoherenceInv, MainOnly, NoWrappers
  PROVE  NamesAcyclic
<1>1. TidyNow
  BY DEF CoherenceInv, TidyAndPlain
<1> QED
  BY <1>1 DEF TidyNow, Tidy, Orderly, NoWayBack, NamesAcyclic, Below

\* Both ways to sweep keep the same.
LEMMA SweepsAgreeNow ==
  ASSUME TypeOK, CoherenceInv, MainOnly, NoWrappers
  PROVE  SweepsAgree
<1>1. HeapOK /\ TidyNow
  BY TypeOKParts DEF CoherenceInv, TidyAndPlain
<1>2. PICK D, w : D = map /\ w = World
  OBVIOUS
<1>3. D \subseteq Object /\ w \in Worlds(D) /\ D = w.map /\ Tidy(w.heap, w.map)
  BY <1>1, <1>2, TidyWorld
<1>4. ASSUME NEW order \in Orders(Users(w))
      PROVE  /\ OneThread(w, order).closing = {}
             /\ \E V \in Visited(w, Users(w)) :
                  OneThread(w, order).black = NamesOf(V)
  BY <1>3, <1>4, TidySweeps
<1> QED
  BY <1>2, <1>4 DEF SweepsAgree, Keeps

-----------------------------------------------------------------------------
(* Theorems *)

\* As long as the repositories have main packages only, none of them wrapped,
\* all objects are those of the map, the map is tidy and the storage is plain.
LEMMA ControlerCoherenceInv == Spec => []CoherenceInv
<1>1. Init => CoherenceInv
  BY InitTidy
<1>2. TypeOK /\ CoherenceInv /\ [Next]_vars => CoherenceInv'
  BY NextTidy
<1> QED
  BY <1>1, <1>2, ControlerTyping, PTL DEF Spec

\* One file name is one package: connect_equal_pointers leaves no pointer to
\* an object that is not the one of the map.
THEOREM ControlerCoherent == Spec => [](NoWrappers => Coherent)
<1>1. TypeOK /\ CoherenceInv => (NoWrappers => Coherent)
  BY CoherentNow
<1> QED
  BY <1>1, ControlerTyping, ControlerCoherenceInv, PTL

\* What is installed is exactly what users asked for and what that needs.
THEOREM ControlerExactlyNeeded == Spec => [](NoWrappers => ExactlyNeeded)
<1>1. TypeOK /\ CoherenceInv => (NoWrappers => ExactlyNeeded)
  BY CoherentNow
<1> QED
  BY <1>1, ControlerTyping, ControlerCoherenceInv, PTL

\* remove never frees the package it works on.
THEOREM ControlerTargetOutlives ==
  Spec => [](MainOnly /\ NoWrappers => TargetOutlivesRemoval)
<1>1. TypeOK /\ CoherenceInv => (MainOnly /\ NoWrappers => TargetOutlivesRemoval)
  BY TargetsStay
<1> QED
  BY <1>1, ControlerTyping, ControlerCoherenceInv, PTL

\* No package requires itself, however far.
THEOREM ControlerAcyclic == Spec => [](MainOnly /\ NoWrappers => NamesAcyclic)
<1>1. TypeOK /\ CoherenceInv => (MainOnly /\ NoWrappers => NamesAcyclic)
  BY AcyclicNow
<1> QED
  BY <1>1, ControlerTyping, ControlerCoherenceInv, PTL

\* remove_unuse_one_thread keeps what the threads of remove_unuse keep, in
\* whatever order it comes to the users.
THEOREM ControlerSweepsAgree == Spec => [](MainOnly /\ NoWrappers => SweepsAgree)
<1>1. TypeOK /\ CoherenceInv => (MainOnly /\ NoWrappers => SweepsAgree)
  BY SweepsAgreeNow
<1> QED
  BY <1>1, ControlerTyping, ControlerCoherenceInv, PTL

\* The same of the client.
LEMMA ClientCoherenceInv == ClientSpec => []CoherenceInv
<1>1. Init => CoherenceInv
  BY InitTidy
<1>2. TypeOK /\ CoherenceInv /\ [ClientNext]_vars => CoherenceInv'
  BY ClientNextTidy
<1> QED
  BY <1>1, <1>2, ClientTyping, PTL DEF ClientSpec

\* One file name is one package in the client too.
THEOREM ClientCoherent == ClientSpec => [](NoWrappers => Coherent)
<1>1. TypeOK /\ CoherenceInv => (NoWrappers => Coherent)
  BY CoherentNow
<1> QED
  BY <1>1, ClientTyping, ClientCoherenceInv, PTL

\* And what is installed is exactly what users asked for and what that needs.
THEOREM ClientExactlyNeeded == ClientSpec => [](NoWrappers => ExactlyNeeded)
<1>1. TypeOK /\ CoherenceInv => (NoWrappers => ExactlyNeeded)
  BY CoherentNow
<1> QED
  BY <1>1, ClientTyping, ClientCoherenceInv, PTL

\* Option 2 never comes back to the package it removes, whatever the storage
\* file has, also when a write has failed and left it empty.
THEOREM ClientTargetOutlives ==
  ClientSpec => [](MainOnly /\ NoWrappers => OptionTargetOutlives)
<1>1. TypeOK /\ CoherenceInv => (MainOnly /\ NoWrappers => OptionTargetOutlives)
  BY TargetsStay
<1> QED
  BY <1>1, ClientTyping, ClientCoherenceInv, PTL

-----------------------------------------------------------------------------
(* The storage file and the repositories *)

\* A file that all repositories are parts of, as far as requirements go.
IsBase(base) ==
  /\ IsFile(base) /\ PlainFile(base)
  /\ \A list \in Family : \A i \in DOMAIN list : Within(list[i], base)

\* The storage file has what base says, for all that is installed.
Backs(base) ==
  /\ storage # Truncated /\ Backed(storage, base)
  /\ NamesOf(map) \subseteq DOMAIN storage

Mirrored(base) == Backs(base) /\ Mirrors(heap, map, base)

\* The inductive invariants.
MirrorInv == MainOnly /\ NoWrappers => \A base : IsBase(base) => Mirrored(base)
CurrentNow == running => UpToDate(storage, heap, map)
CurrentInv == MainOnly /\ NoWrappers /\ Agreeing => CurrentNow

\* A file that has entries, or none, has a text.
LEMMA FileHasText ==
  ASSUME NEW file, IsFile(file)
  PROVE  file # Truncated
BY TruncatedAssumption DEF IsFile

\* Repositories that agree have such a file.
LEMMA HasBase ==
  ASSUME MainOnly, NoWrappers, Agreeing, repos \in UNION Repositories
  PROVE  \E base : IsBase(base)
<1> DEFINE IsRepository(f) == \E list \in Family : \E i \in DOMAIN list : f = list[i]
<1> DEFINE N == {n \in Name : \E f : IsRepository(f) /\ n \in DOMAIN f}
<1> DEFINE source(n) == CHOOSE f : IsRepository(f) /\ n \in DOMAIN f
<1> DEFINE base == [n \in N |-> source(n)[n]]
<1>1. ASSUME NEW f, IsRepository(f) PROVE IsFile(f) /\ PlainFile(f)
  <2>1. PICK list \in Family : \E i \in DOMAIN list : f = list[i]
    BY <1>1
  <2>2. PICK i \in DOMAIN list : f = list[i]
    BY <2>1
  <2>3. list \in UNION Repositories
    BY DEF Family
  <2>4. IsFile(f)
    BY <2>2, <2>3, RepositoriesAssumption
  <2> QED
    BY <2>2, <2>4 DEF MainOnly, NoWrappers, PlainFile
<1>2. ASSUME NEW f, NEW g, IsRepository(f), IsRepository(g),
             NEW n, n \in DOMAIN f, n \in DOMAIN g
      PROVE  f[n].reqs = g[n].reqs
  BY <1>2 DEF Agreeing
<1>3. ASSUME NEW n \in N PROVE IsRepository(source(n)) /\ n \in DOMAIN source(n)
  <2>1. \E f : IsRepository(f) /\ n \in DOMAIN f
    OBVIOUS
  <2> QED
    BY <2>1
<1>4. ASSUME NEW f, IsRepository(f) PROVE DOMAIN f \subseteq N
  BY <1>1, <1>4 DEF IsFile
<1>5. ASSUME NEW list \in Family, NEW i \in DOMAIN list PROVE IsRepository(list[i])
  OBVIOUS
<1> HIDE DEF source, IsRepository
<1>6. DOMAIN base = N /\ \A n \in N : base[n] = source(n)[n]
  OBVIOUS
<1>7. N \subseteq Name /\ base \in [N -> Fields(Name)]
  BY <1>1, <1>3 DEF IsFile
<1> HIDE DEF base, N
<1>8. IsFile(base)
  BY <1>6, <1>7 DEF IsFile
<1>9. PlainFile(base)
  BY <1>1, <1>3, <1>6 DEF PlainFile
<1>10. ASSUME NEW f, IsRepository(f) PROVE Within(f, base)
  BY <1>2, <1>3, <1>4, <1>6, <1>10 DEF Within
<1> QED
  BY <1>5, <1>8, <1>9, <1>10 DEF IsBase

\* The repositories that are read are within it.
LEMMA RepositoryWithin ==
  ASSUME repos \in UNION Repositories, NEW base, IsBase(base), NEW i \in DOMAIN repos
  PROVE  Within(repos[i], base)
<1>1. repos \in Family
  BY DEF Family
<1> QED
  BY <1>1 DEF IsBase

\* Repositories are replaced by others of one family.
LEMMA FamilyKept ==
  ASSUME repos \in UNION Repositories, repos' = repos \/ repos' \in Family
  PROVE  Family' = Family
<1>1. PICK F \in Repositories : repos \in F
  OBVIOUS
<1>2. repos' \in F
  BY <1>1, FamiliesAssumption DEF Family
<1>3. Family = F
  BY <1>1, FamiliesAssumption DEF Family
<1>4. Family' = F
  BY <1>2, FamiliesAssumption DEF Family
<1> QED
  BY <1>3, <1>4

\* What is kept of the family is kept of what it says.
LEMMA FamilySays ==
  ASSUME Family' = Family
  PROVE  /\ MainOnly' = MainOnly /\ NoWrappers' = NoWrappers
         /\ Agreeing' = Agreeing /\ \A base : IsBase(base)' = IsBase(base)
BY DEF MainOnly, NoWrappers, Agreeing, IsBase

-----------------------------------------------------------------------------
(* What the operations make of it *)

\* What an operation leaves stays as it is when the rest is freed.
LEMMA SettledAs ==
  ASSUME NEW w, NEW D, D \subseteq Object, w \in Worlds(D), Tidy(w.heap, w.map),
         Settle(w)
  PROVE  /\ map' = w.map /\ heap' = [o \in w.map |-> w.heap[o]]
         /\ \A o \in w.map : heap'[o] = w.heap[o]
<1>1. PICK g : g = [o \in Live(w) |-> w.heap[o]]
  OBVIOUS
<1>2. Live(w) = w.map
  BY <1>1, TidyLives
<1> QED
  BY <1>2 DEF Settle

\* It requires what it required.
LEMMA SettledMirrors ==
  ASSUME NEW w, NEW D, D \subseteq Object, w \in Worlds(D), Tidy(w.heap, w.map),
         Settle(w), NEW base, Mirrors(w.heap, w.map, base), Backs(base)'
  PROVE  Mirrored(base)'
<1>1. map' = w.map /\ \A o \in w.map : heap'[o] = w.heap[o]
  BY SettledAs
<1>2. PICK M, g, h : M = w.map /\ g = w.heap /\ h = heap'
  OBVIOUS
<1>3. M \in SUBSET M /\ Mirrors(g, M, base)
  BY <1>2
<1>4. \A o \in M : NamesOf(h[o].reqs) = NamesOf(g[o].reqs)
  BY <1>1, <1>2
<1>5. Mirrors(h, M, base)
  BY <1>3, <1>4, MirrorsAlike
<1> QED
  BY <1>1, <1>2, <1>5 DEF Mirrored

\* Objects with the same fields have the same entries.
LEMMA UpToDateAlike ==
  ASSUME NEW file, NEW h, NEW g, NEW M, \A o \in M : g[o] = h[o],
         UpToDate(file, h, M)
  PROVE  UpToDate(file, g, M)
BY DEF UpToDate, RecordedIn, EntryOf

\* And the file is up to date if it was.
LEMMA SettledUpToDate ==
  ASSUME NEW w, NEW D, D \subseteq Object, w \in Worlds(D), Tidy(w.heap, w.map),
         Settle(w), UpToDate(storage', w.heap, w.map)
  PROVE  UpToDate(storage, heap, map)'
<1>1. map' = w.map /\ \A o \in w.map : heap'[o] = w.heap[o]
  BY SettledAs
<1>2. PICK M, g, h, f : M = w.map /\ g = w.heap /\ h = heap' /\ f = storage'
  OBVIOUS
<1>3. UpToDate(f, h, M)
  BY <1>1, <1>2, UpToDateAlike
<1> QED
  BY <1>1, <1>2, <1>3

\* What an operation does: it answers with an exception and changes nothing,
\* and leaves a file that has what base says and is up to date if it was.
Unharmed == answer' # "ok" => map' = map /\ heap' = heap
Keeping(base) ==
  /\ Mirrored(base)'
  /\ UpToDate(storage, heap, map) => UpToDate(storage, heap, map)'
  /\ Unharmed

\* What changes nothing.
LEMMA UnchangedKeeps ==
  ASSUME NEW base, Mirrored(base), Unchanged
  PROVE  Keeping(base)
BY DEF Keeping, Mirrored, Backs, Unchanged, Unharmed

\* The same with the file left alone.
LEMMA SameKeeps ==
  ASSUME HeapOK, TidyNow, NEW base, Mirrored(base), NEW w, NEW D,
         D \subseteq Object, w \in Worlds(D), Tidy(w.heap, w.map),
         w.map = map, \A o \in map : w.heap[o] = heap[o], Settle(w),
         storage' = storage
  PROVE  Keeping(base)
<1>1. map' = map /\ heap' = [o \in map |-> w.heap[o]]
  BY SettledAs
<1>2. heap \in [map -> Fields(map)]
  BY TidyWorld, WorldFields, WorldIs
<1>3. heap' = heap
  BY <1>1, <1>2
<1> QED
  BY <1>1, <1>3, UnchangedKeeps DEF Unchanged

\* What has been read for the manager requires what base says.
LEMMA ReadingMirrors ==
  ASSUME HeapOK, TidyNow, NEW base, IsFile(base), PlainFile(base),
         Mirrors(heap, map, base), NEW file, IsFile(file), PlainFile(file),
         Within(file, base), NEW n, NEW r \in Reading(file, n)
  PROVE  \E E : /\ TreeRead(map, World, E, r.root, r.world)
                /\ Mirrors(r.world.heap, E, base)
<1>1. /\ CanRead(file, n) /\ HasRoom(World, Closure(file, {n}))
      /\ r = [world |-> ReadPackage(World, file, n), root |-> NewObject(World, n)]
  BY DEF Reading
<1>2. PICK E : TreeRead(map, World, E, r.root, r.world)
  BY ReadingFresh
<1>3. r.world = ReadPackage(World, file, n)
  BY <1>1
<1>4. /\ map \subseteq Object /\ World \in Worlds(map)
      /\ Mirrors(World.heap, map, base)
  BY TidyWorld, WorldIs
<1>5. Mirrors(ReadPackage(World, file, n).heap, E, base)
  <2>1. PICK D, w, root : D = map /\ w = World /\ root = r.root
    OBVIOUS
  <2>2. TreeRead(D, w, E, root, ReadPackage(w, file, n))
    BY <1>2, <1>3, <2>1
  <2>3. /\ D \subseteq Object /\ w \in Worlds(D) /\ Mirrors(w.heap, D, base)
        /\ HasRoom(w, Closure(file, {n}))
    BY <1>1, <1>4, <2>1
  <2>4. Mirrors(ReadPackage(w, file, n).heap, E, base)
    BY <1>1, <2>2, <2>3, ReadMirrors
  <2> QED
    BY <2>1, <2>4
<1> QED
  BY <1>2, <1>3, <1>5

\* The file after add, when its entries are written without an exception.
LEMMA AddStoredIs ==
  ASSUME NEW base, Mirrored(base), NEW E, NEW root, NEW a, a.failed = "no",
         AddedMirrors(E, root, a, base), AddStored(a, root)
  PROVE  /\ Settle(a) /\ answer' = "ok"
         /\ storage' = WithEntries(storage, root, a)
<1>1. PICK written : written = Wrote(a, Reach(a.heap, root))
  OBVIOUS
<1>2. WriteToJson(a, root) = written
  BY <1>1 DEF AddedMirrors
<1>3. written.world = a /\ storage # Truncated
  BY <1>1 DEF Wrote, Mirrored, Backs
<1>4. Settle(a) /\ answer' = "ok" /\ storage' = Over(storage, Entries(written))
  BY <1>2, <1>3 DEF AddStored
<1> QED
  BY <1>1, <1>4 DEF WithEntries

\* The manager takes what was read or refuses it.
LEMMA AddReadingKeeps ==
  ASSUME HeapOK, StorageOK, TidyAndPlain, NEW base, IsFile(base), PlainFile(base),
         Mirrored(base), NEW r, NEW E, TreeRead(map, World, E, r.root, r.world),
         Mirrors(r.world.heap, E, base), AddReading(r)
  PROVE  Keeping(base)
<1>1. PICK x : x = r.world
  OBVIOUS
<1>2. PICK root : root = r.root
  OBVIOUS
<1>3. PICK a : /\ a = ManagerAdd(x, root)
               /\ \/ a.failed # "no" /\ AddRefused(a, root)
                  \/ a.failed = "no" /\ AddStored(a, root)
  BY <1>1, <1>2 DEF AddReading
<1>4. TreeRead(map, World, E, root, x) /\ Mirrors(x.heap, E, base)
  BY <1>1, <1>2
<1>5. /\ E \subseteq Object /\ x \in Worlds(E) /\ root \in E
      /\ x.map = map /\ map \subseteq E
      /\ \A o \in map : x.heap[o] = heap[o]
  BY <1>4, WorldIs DEF TreeRead, Tree
<1>6. Answered(E, x, root, a) /\ Tidy(x.heap, x.map)
  <2>1. /\ map \subseteq Object /\ World \in Worlds(map) /\ map = World.map
        /\ World.failed = "no" /\ Tidy(World.heap, World.map)
    BY TidyWorld DEF TidyAndPlain
  <2>2. Answered(E, x, root, ManagerAdd(x, root)) /\ Tidy(x.heap, x.map)
    BY <1>4, <2>1, ReadingTidies
  <2> QED
    BY <1>3, <2>2
<1>7. CASE AddedTo(E, x.heap, x.map, root, a)
  <2>1. a \in Worlds(E) /\ a.failed = "no" /\ Tidy(a.heap, a.map)
    BY <1>7 DEF AddedTo, Added
  <2>2. PICK h, M : h = x.heap /\ M = x.map
    OBVIOUS
  <2>3. /\ h \in [E -> Fields(E)] /\ M \in SUBSET E
        /\ AddedTo(E, h, M, root, a) /\ Mirrors(h, E, base)
    BY <1>4, <1>5, <1>7, <2>2, WorldFields
  <2>4. AddedMirrors(E, root, a, base)
    BY <1>5, <2>3, AddedWritten
  <2>5. /\ Settle(a) /\ answer' = "ok"
        /\ storage' = WithEntries(storage, root, a)
    BY <1>3, <2>1, <2>4, AddStoredIs
  <2>6. /\ IsFile(storage) /\ PlainFile(storage) /\ Backed(storage, base)
        /\ NamesOf(M) \subseteq DOMAIN storage /\ storage # Truncated
    BY <1>5, <2>2 DEF Mirrored, Backs, StorageOK, TidyAndPlain, StoragePlain
  <2>7. PICK file : file = storage
    OBVIOUS
  <2>8. Backed(WithEntries(file, root, a), base)
    BY <1>5, <2>3, <2>4, <2>6, <2>7, AddedBacked
  <2>9. FillsIn(WithEntries(file, root, a), file, a.heap, Reach(a.heap, root))
    BY <1>5, <2>1, <2>4, WithEntriesIs
  <2>10. NamesOf(a.map) = NamesOf(M) \cup NamesOf(Reach(a.heap, root))
    BY <1>5, <2>3, <2>4, AddedNames
  <2>11. NamesOf(a.map) \subseteq DOMAIN storage'
    BY <2>5, <2>6, <2>7, <2>9, <2>10 DEF FillsIn
  <2>12. storage' # Truncated
    <3>1. Reach(a.heap, root) \in SUBSET E
      BY <1>5, <2>1, <2>4, WorldFields DEF AddedMirrors
    <3>2. Wrote(a, Reach(a.heap, root)) \in Writings(E)
      BY <2>1, <3>1 DEF Wrote, Writings
    <3>3. IsFile(Entries(Wrote(a, Reach(a.heap, root))))
      BY <1>5, <3>2, EntriesIn
    <3>4. IsFile(storage')
      BY <2>5, <2>6, <3>3, OverIn DEF WithEntries
    <3> QED
      BY <3>4, FileHasText
  <2>13. Mirrors(a.heap, a.map, base)
    BY <2>4 DEF AddedMirrors, Mirrors
  <2>14. Backs(base)'
    <3>1. map' = a.map
      BY <2>5 DEF Settle
    <3> QED
      BY <2>5, <2>7, <2>8, <2>11, <2>12, <3>1 DEF Backs
  <2>15. Mirrored(base)'
    BY <1>5, <2>1, <2>5, <2>13, <2>14, SettledMirrors
  <2>16. ASSUME UpToDate(storage, heap, map) PROVE UpToDate(storage, heap, map)'
    <3>1. UpToDate(file, h, M)
      <4>1. PICK g, L : g = heap /\ L = map
        OBVIOUS
      <4>2. UpToDate(file, g, L) /\ \A o \in L : h[o] = g[o]
        BY <1>5, <2>2, <2>7, <2>16, <4>1
      <4>3. UpToDate(file, h, L)
        BY <4>2, UpToDateAlike
      <4> QED
        BY <1>5, <2>2, <4>1, <4>3
    <3>2. UpToDate(WithEntries(file, root, a), a.heap, a.map)
      BY <1>5, <2>3, <2>4, <3>1, AddedUpToDate
    <3> QED
      BY <1>5, <2>1, <2>5, <2>7, <3>2, SettledUpToDate
  <2> QED
    BY <2>5, <2>15, <2>16 DEF Keeping, Unharmed
<1>8. ASSUME NEW e \in Failures \ {"no", "cycle found"}, a = Fail(x, e)
      PROVE  Keeping(base)
  <2>1. a \in Worlds(E) /\ a.failed = e /\ a.map = x.map /\ a.heap = x.heap
    BY <1>5, <1>8 DEF Fail, Worlds
  <2>2. AddRefused(a, root)
    BY <1>3, <1>8, <2>1
  <2>3. Settle(a) /\ storage' = storage
    BY <1>8, <2>1, <2>2 DEF AddRefused
  <2>4. /\ a.map = map /\ \A o \in map : a.heap[o] = heap[o]
        /\ Tidy(a.heap, a.map) /\ TidyNow
    BY <1>5, <1>6, <2>1 DEF TidyAndPlain
  <2> QED
    BY <1>5, <2>1, <2>3, <2>4, SameKeeps
<1>9. "file_name is unique" \in Failures \ {"no", "cycle found"}
  BY DEF Failures
<1>10. "This package is already exist" \in Failures \ {"no", "cycle found"}
  BY DEF Failures
<1> QED
  BY <1>6, <1>7, <1>8, <1>9, <1>10 DEF Answered

\* add_package, with all its exceptions.
LEMMA AddPackageKeeps ==
  ASSUME HeapOK, StorageOK, TidyAndPlain, MainOnly, NoWrappers,
         repos \in UNION Repositories, NEW base, IsBase(base), Mirrored(base),
         NEW n, AddPackage(n)
  PROVE  Keeping(base)
<1>1. CASE AddNoSuch(n)
  BY <1>1, UnchangedKeeps DEF AddNoSuch
<1>2. CASE AddUnreadable(n)
  BY <1>2, UnchangedKeeps DEF AddUnreadable
<1>3. CASE AddRead(n)
  <2>1. PICK r \in PackageReadings(n) : AddReading(r)
    BY <1>3 DEF AddRead
  <2>2. PICK i \in Holders(n) : r \in Reading(repos[i], n)
    BY <2>1 DEF PackageReadings
  <2>3. i \in DOMAIN repos
    BY <2>2 DEF Holders
  <2>4. /\ IsFile(repos[i]) /\ PlainFile(repos[i]) /\ Within(repos[i], base)
        /\ IsFile(base) /\ PlainFile(base)
    BY <2>3, RepositoryIn, PlainRepository, RepositoryWithin DEF IsBase
  <2>5. TidyNow /\ Mirrors(heap, map, base)
    BY DEF TidyAndPlain, Mirrored
  <2>6. PICK E : /\ TreeRead(map, World, E, r.root, r.world)
                 /\ Mirrors(r.world.heap, E, base)
    BY <2>2, <2>4, <2>5, ReadingMirrors
  <2> QED
    BY <2>1, <2>4, <2>6, AddReadingKeeps
<1> QED
  BY <1>1, <1>2, <1>3 DEF AddPackage

\* What is written of a tidy manager is written without an exception.
LEMMA StoreKeeps ==
  ASSUME NEW base, IsFile(base), PlainFile(base), NEW w, NEW D,
         D \subseteq Object, w \in Worlds(D), Tidy(w.heap, w.map),
         w.failed = "no", Mirrors(w.heap, w.map, base), Store(w)
  PROVE  Keeping(base)
<1>1. PICK written : /\ written \in {WriteAll(w, order) : order \in Orders(w.map)}
                     /\ Settle(written.world)
                     /\ storage' = IF written.world.failed = "no"
                                   THEN Entries(written) ELSE Truncated
                     /\ answer' = Outcome(written.world.failed)
  BY DEF Store
<1>2. PICK order \in Orders(w.map) : written = WriteAll(w, order)
  BY <1>1
<1>3. written = Wrote(w, w.map)
  <2>1. WriteAll(w, order) = Wrote(w, w.map)
    BY <1>2, TidyWritten
  <2> QED
    BY <1>2, <2>1
<1>4. written.world = w
  BY <1>3 DEF Wrote
<1>5. /\ Settle(w) /\ answer' = "ok"
      /\ storage' = Entries(Wrote(w, w.map))
  BY <1>1, <1>3, <1>4 DEF Outcome
<1>6. /\ Backed(Entries(Wrote(w, w.map)), base)
      /\ UpToDate(Entries(Wrote(w, w.map)), w.heap, w.map)
  BY EntriesBacked
<1>7. Entries(Wrote(w, w.map)) # Truncated
  <2>1. Wrote(w, w.map) \in Writings(D)
    BY WorldFields DEF Wrote, Writings
  <2>2. IsFile(Entries(Wrote(w, w.map)))
    BY <2>1, EntriesIn
  <2> QED
    BY <2>2, FileHasText
<1>8. Backs(base)'
  <2>1. map' = w.map
    BY <1>5 DEF Settle
  <2> QED
    BY <1>5, <1>6, <1>7, <2>1 DEF Backs, UpToDate
<1>9. Mirrored(base)'
  BY <1>5, <1>8, SettledMirrors
<1>10. UpToDate(storage, heap, map)'
  BY <1>5, <1>6, SettledUpToDate
<1> QED
  BY <1>5, <1>9, <1>10 DEF Keeping, Unharmed

\* What remove leaves, and that it leaves everything when it refuses.
LEMMA RemovedMap ==
  ASSUME HeapOK, TidyNow, NEW n, NEW w \in Removed(n)
  PROVE  /\ w.heap = heap /\ w.map \in SUBSET map
         /\ w.failed # "no" => w.map = map
<1>1. PICK D, v : D = map /\ v = World
  OBVIOUS
<1>2. v \in Worlds(D) /\ v.map = D /\ v.heap = heap /\ v.failed = "no"
  BY <1>1, TidyWorld, WorldIs
<1>3. \/ \E what : w = Fail(v, what)
      \/ \E names : w = Erase(v, names)
  BY <1>1 DEF Removed, ManagerRemove
<1>4. ASSUME NEW what, w = Fail(v, what)
      PROVE  w.heap = heap /\ w.map = D
  BY <1>2, <1>4 DEF Fail, Worlds
<1>5. ASSUME NEW names, w = Erase(v, names)
      PROVE  w.heap = heap /\ w.map \in SUBSET D /\ w.failed = "no"
  BY <1>2, <1>5 DEF Erase, Worlds
<1> QED
  BY <1>1, <1>3, <1>4, <1>5

\* What remove has left requires what base says.
LEMMA RemovedMirrors ==
  ASSUME HeapOK, TidyNow, NEW base, Mirrors(heap, map, base), NEW n,
         NEW w \in Removed(n)
  PROVE  Mirrors(w.heap, w.map, base)
<1>1. PICK g, h, M, L : g = heap /\ h = w.heap /\ M = map /\ L = w.map
  OBVIOUS
<1>2. h = g /\ L \in SUBSET M /\ Mirrors(g, M, base)
  BY <1>1, RemovedMap
<1>3. Mirrors(h, L, base)
  BY <1>2, MirrorsAlike
<1> QED
  BY <1>1, <1>3

\* remove_package, whether it removes the package, refuses or finds none.
LEMMA RemovePackageKeeps ==
  ASSUME HeapOK, TidyAndPlain, NEW base, IsBase(base), Mirrored(base), NEW n,
         RemovePackage(n)
  PROVE  Keeping(base)
<1>1. PICK w \in Removed(n) : StoreUnlessFailed(w)
  BY DEF RemovePackage, StorageUnreadable, Mirrored, Backs
<1>2. /\ map \subseteq Object /\ TidyNow /\ Mirrors(heap, map, base)
      /\ IsFile(base) /\ PlainFile(base)
  BY TidyWorld DEF TidyAndPlain, Mirrored, IsBase
<1>3. w \in Worlds(map) /\ Tidy(w.heap, w.map)
  BY <1>2, RemovedTidy
<1>4. Mirrors(w.heap, w.map, base)
  BY <1>2, RemovedMirrors
<1>5. CASE w.failed = "no"
  <2>1. Store(w)
    BY <1>1, <1>5 DEF StoreUnlessFailed
  <2> QED
    BY <1>2, <1>3, <1>4, <1>5, <2>1, StoreKeeps
<1>6. CASE w.failed # "no"
  <2>1. Settle(w) /\ storage' = storage
    BY <1>1, <1>6 DEF StoreUnlessFailed
  <2>2. w.map = map /\ w.heap = heap
    BY <1>2, <1>6, RemovedMap
  <2> QED
    BY <1>2, <1>3, <2>1, <2>2, SameKeeps
<1> QED
  BY <1>5, <1>6

\* remove_unuse, whatever its threads visited.
LEMMA RemoveUnuseKeeps ==
  ASSUME HeapOK, TidyAndPlain, NEW base, IsBase(base), Mirrored(base), RemoveUnuse
  PROVE  Keeping(base)
<1>1. PICK D, v : D = map /\ v = World
  OBVIOUS
<1>2. PICK V \in Visited(v, Users(v)) : Store(ManagerRemoveUnuse(v, V))
  BY <1>1 DEF RemoveUnuse, StorageUnreadable, Mirrored, Backs
<1>3. /\ D \subseteq Object /\ v \in Worlds(D) /\ D = v.map /\ v.failed = "no"
      /\ Tidy(v.heap, v.map) /\ Mirrors(v.heap, v.map, base)
      /\ IsFile(base) /\ PlainFile(base)
  BY <1>1, TidyWorld, WorldIs DEF TidyAndPlain, Mirrored, IsBase
<1>4. PICK w : w = ManagerRemoveUnuse(v, V)
  OBVIOUS
<1>5. w \in Worlds(D) /\ w.heap = v.heap /\ w.map = v.map
  <2>1. /\ ManagerRemoveUnuse(v, V) \in Worlds(D)
        /\ ManagerRemoveUnuse(v, V).heap = v.heap
        /\ ManagerRemoveUnuse(v, V).map = v.map
    BY <1>3, SweepTidies
  <2> QED
    BY <1>4, <2>1
<1>6. w.failed = "no"
  BY <1>3, <1>4 DEF ManagerRemoveUnuse, Erase, Worlds
<1>7. Tidy(w.heap, w.map) /\ Mirrors(w.heap, w.map, base) /\ Store(w)
  BY <1>2, <1>3, <1>4, <1>5
<1> QED
  BY <1>3, <1>5, <1>6, <1>7, StoreKeeps

\* global_update.
LEMMA GlobalUpdateKeeps ==
  ASSUME HeapOK, TidyAndPlain, NEW base, IsBase(base), Mirrored(base), GlobalUpdate
  PROVE  Keeping(base)
<1>1. PICK D, v : D = map /\ v = World
  OBVIOUS
<1>2. PICK w : w = ManagerGlobalUpdate(v) /\ Store(w)
  BY <1>1 DEF GlobalUpdate, StorageUnreadable, Mirrored, Backs
<1>3. /\ D \subseteq Object /\ v \in Worlds(D) /\ D = v.map /\ v.failed = "no"
      /\ Tidy(v.heap, v.map) /\ Mirrors(v.heap, v.map, base)
      /\ IsFile(base) /\ PlainFile(base)
  BY <1>1, TidyWorld, WorldIs DEF TidyAndPlain, Mirrored, IsBase
<1>4. w \in Worlds(D) /\ w.map = v.map /\ Tidy(w.heap, w.map)
  <2>1. /\ ManagerGlobalUpdate(v) \in Worlds(D)
        /\ ManagerGlobalUpdate(v).map = v.map
        /\ Tidy(ManagerGlobalUpdate(v).heap, v.map)
    BY <1>3, UpdateTidies
  <2> QED
    BY <1>2, <2>1
<1>5. PICK h, g : h = v.heap /\ g = w.heap
  OBVIOUS
<1>6. h \in [D -> Fields(D)] /\ w.failed = "no"
  BY <1>2, <1>3, <1>5, WorldFields DEF ManagerGlobalUpdate, Worlds
<1>7. \A o \in D : g[o] = [h[o] EXCEPT !.current = h[o].last]
  BY <1>2, <1>3, <1>5, <1>6 DEF ManagerGlobalUpdate
<1>8. ASSUME NEW o \in D PROVE NamesOf(g[o].reqs) = NamesOf(h[o].reqs)
  <2>1. h[o] \in Fields(D)
    BY <1>6
  <2>2. g[o].reqs = h[o].reqs
    BY <1>7, <2>1 DEF Fields
  <2> QED
    BY <2>2
<1>9. Mirrors(g, D, base)
  <2>1. D \in SUBSET D /\ Mirrors(h, D, base)
    BY <1>3, <1>5
  <2> QED
    BY <1>8, <2>1, MirrorsAlike
<1> QED
  BY <1>2, <1>3, <1>4, <1>5, <1>6, <1>9, StoreKeeps

\* A file without entries says nothing wrong of nothing.
LEMMA NothingBacked ==
  ASSUME NEW base, NEW h
  PROVE  Backed(NoEntries, base) /\ UpToDate(NoEntries, h, {}) /\ Mirrors(h, {}, base)
<1>1. DOMAIN NoEntries = {}
  BY EmptySeq DEF NoEntries
<1> QED
  BY <1>1 DEF Backed, Within, Closed, StoredUsers, UpToDate, NamesOf, Mirrors

\* A process ends, and leaves the file to the next one.
LEMMA EndKeeps ==
  ASSUME NEW base, Mirrored(base), Settle(EmptyWorld), storage' = storage
  PROVE  Mirrored(base)'
<1>1. map' = {}
  BY DEF Settle, EmptyWorld
<1> QED
  BY <1>1 DEF Mirrored, Backs, Mirrors, NamesOf

\* A process starts with what is in the file, or with nothing and an empty
\* file, and the file can always be read.
LEMMA StartKeeps ==
  ASSUME StorageOK, TidyAndPlain, NEW base, IsBase(base), Mirrored(base), Start
  PROVE  /\ Mirrored(base)' /\ UpToDate(storage, heap, map)'
         /\ answer' = "ok"
<1>1. /\ IsFile(storage) /\ PlainFile(storage) /\ Backed(storage, base)
      /\ storage # Truncated /\ IsFile(base) /\ PlainFile(base)
  BY DEF StorageOK, TidyAndPlain, StoragePlain, Mirrored, Backs, IsBase
<1>2. Readable(storage)
  BY <1>1, BackedLoads DEF Readable
<1>3. CASE LoadStorage
  <2>1. /\ Settle(Loaded(storage, First(Stamp))) /\ answer' = "ok"
        /\ storage' = storage
    BY <1>3 DEF LoadStorage
  <2>2. PICK k \in Stamp : k = First(Stamp)
    BY StampAssumption, FirstIn
  <2>3. PICK D : /\ D \subseteq Object
                 /\ Loaded(storage, k) \in Worlds(D)
                 /\ Tidy(Loaded(storage, k).heap, Loaded(storage, k).map)
    BY <1>1, <1>2, LoadedTidies DEF Readable
  <2>4. PICK w : w = Loaded(storage, k)
    OBVIOUS
  <2>5. Mirrors(w.heap, w.map, base) /\ UpToDate(storage, w.heap, w.map)
    <3>1. /\ Mirrors(Loaded(storage, k).heap, Loaded(storage, k).map, base)
          /\ UpToDate(storage, Loaded(storage, k).heap, Loaded(storage, k).map)
      BY <1>1, LoadedMirrors
    <3> QED
      BY <2>4, <3>1
  <2>6. w \in Worlds(D) /\ Tidy(w.heap, w.map) /\ Settle(w)
    BY <2>1, <2>2, <2>3, <2>4
  <2>7. Backs(base)'
    <3>1. map' = w.map
      BY <2>6 DEF Settle
    <3> QED
      BY <1>1, <2>1, <2>5, <3>1 DEF Backs, UpToDate
  <2>8. Mirrored(base)'
    BY <2>3, <2>5, <2>6, <2>7, SettledMirrors
  <2>9. UpToDate(storage', w.heap, w.map)
    BY <2>1, <2>5
  <2>10. UpToDate(storage, heap, map)'
    BY <2>3, <2>6, <2>9, SettledUpToDate
  <2> QED
    BY <2>1, <2>8, <2>10
<1>4. CASE LoadFails
  BY <1>2, <1>4 DEF LoadFails
<1>5. CASE StartEmpty
  <2>1. map' = {} /\ storage' = NoEntries /\ answer' = "ok"
    BY <1>5 DEF StartEmpty, Settle, EmptyWorld
  <2>2. NoEntries # Truncated
    BY NoEntriesIsFile, FileHasText
  <2>3. /\ Backed(NoEntries, base) /\ UpToDate(NoEntries, heap', {})
        /\ Mirrors(heap', {}, base)
    BY NothingBacked
  <2> QED
    BY <2>1, <2>2, <2>3 DEF Mirrored, Backs, NamesOf
<1> QED
  BY <1>3, <1>4, <1>5 DEF Start

\* The first process has nothing in an empty file.
LEMMA InitKeeps ==
  ASSUME Init
  PROVE  MirrorInv /\ CurrentInv
<1>1. heap = NoEntries /\ map = {} /\ storage = NoEntries
  BY DEF Init
<1>2. ASSUME NEW base
      PROVE  /\ Backed(NoEntries, base) /\ UpToDate(NoEntries, heap, {})
             /\ Mirrors(heap, {}, base)
  BY NothingBacked
<1>3. NoEntries # Truncated
  BY NoEntriesIsFile, FileHasText
<1> QED
  BY <1>1, <1>2, <1>3 DEF MirrorInv, CurrentInv, CurrentNow, Mirrored, Backs, NamesOf

-----------------------------------------------------------------------------
(* The steps *)

\* What every step does.
StepKeeps(base) ==
  /\ Mirrored(base)'
  /\ CurrentNow => CurrentNow'
  /\ running /\ running' => Unharmed

\* A step of a process that goes on or ends.
LEMMA OperationKeeps ==
  ASSUME running, NEW base, Keeping(base)
  PROVE  StepKeeps(base)
BY DEF Keeping, StepKeeps, CurrentNow

\* A process ends.
LEMMA ProcessEnds ==
  ASSUME NEW base, Mirrored(base), Settle(EmptyWorld), storage' = storage,
         running' = FALSE
  PROVE  StepKeeps(base)
BY EndKeeps DEF StepKeeps, CurrentNow

\* A process starts.
LEMMA ProcessStarts ==
  ASSUME StorageOK, TidyAndPlain, NEW base, IsBase(base), Mirrored(base), Start
  PROVE  StepKeeps(base)
<1>1. /\ Mirrored(base)' /\ UpToDate(storage, heap, map)'
      /\ answer' = "ok"
  BY StartKeeps
<1> QED
  BY <1>1 DEF StepKeeps, CurrentNow, Unharmed

\* Nothing happens.
LEMMA NothingHappens ==
  ASSUME NEW base, Mirrored(base), Unchanged, running' = running
  PROVE  StepKeeps(base)
BY UnchangedKeeps DEF StepKeeps, CurrentNow, Keeping, Unharmed

\* A step of the controler.
LEMMA NextKeeps ==
  ASSUME TypeOK, TidyAndPlain, MainOnly, NoWrappers, NEW base, IsBase(base),
         Mirrored(base), [Next]_vars
  PROVE  StepKeeps(base)
<1>1. HeapOK /\ StorageOK /\ repos \in UNION Repositories
  BY TypeOKParts
<1>2. CASE Operation
  <2>1. ASSUME NEW n \in Name, AddPackage(n) PROVE Keeping(base)
    BY <1>1, <2>1, AddPackageKeeps
  <2>2. ASSUME NEW n \in Name, RemovePackage(n) PROVE Keeping(base)
    BY <1>1, <2>2, RemovePackageKeeps
  <2>3. ASSUME NEW t \in Title, AddLast(t) PROVE Keeping(base)
    BY <1>1, <2>3, AddLastNever
  <2>4. ASSUME RemoveUnuse PROVE Keeping(base)
    BY <1>1, <2>4, RemoveUnuseKeeps
  <2>5. ASSUME GlobalUpdate PROVE Keeping(base)
    BY <1>1, <2>5, GlobalUpdateKeeps
  <2>6. running
    BY <1>2 DEF Operation
  <2>7. Keeping(base)
    BY <1>2, <2>1, <2>2, <2>3, <2>4, <2>5 DEF Operation
  <2> QED
    BY <2>6, <2>7, OperationKeeps
<1>3. ASSUME NEW r, Overrun(r) PROVE StepKeeps(base)
  BY <1>3, ProcessEnds DEF Overrun
<1>4. CASE NewRepositories
  BY <1>4, NothingHappens DEF NewRepositories, Unchanged
<1>5. CASE Stop
  BY <1>5, ProcessEnds DEF Stop
<1>6. CASE Start
  BY <1>1, <1>6, ProcessStarts
<1>7. CASE UNCHANGED vars
  BY <1>7, NothingHappens DEF vars, Unchanged
<1> QED
  BY <1>2, <1>3, <1>4, <1>5, <1>6, <1>7 DEF Next

\* Mirrored(base) is all a step of the client keeps: option 2 does not write
\* the file.
LEMMA RemoveOptionKeeps ==
  ASSUME HeapOK, TidyAndPlain, NEW base, Mirrored(base), NEW n, RemoveOption(n)
  PROVE  Mirrored(base)'
<1>1. PICK w \in Removed(n) : Settle(w) /\ storage' = storage
  BY DEF RemoveOption
<1>2. map \subseteq Object /\ TidyNow /\ Mirrors(heap, map, base)
  BY TidyWorld DEF TidyAndPlain, Mirrored
<1>3. w \in Worlds(map) /\ Tidy(w.heap, w.map)
  BY <1>2, RemovedTidy
<1>4. Mirrors(w.heap, w.map, base)
  BY <1>2, RemovedMirrors
<1>5. Backs(base)'
  <2>1. map' = w.map /\ w.map \in SUBSET map
    BY <1>1, <1>2, RemovedMap DEF Settle
  <2> QED
    BY <1>1, <2>1 DEF Mirrored, Backs, NamesOf
<1> QED
  BY <1>1, <1>2, <1>3, <1>4, <1>5, SettledMirrors

\* A step of the client.
LEMMA ClientNextKeeps ==
  ASSUME TypeOK, TidyAndPlain, MainOnly, NoWrappers, NEW base, IsBase(base),
         Mirrored(base), [ClientNext]_vars
  PROVE  Mirrored(base)'
<1>1. HeapOK /\ StorageOK /\ repos \in UNION Repositories
  BY TypeOKParts
<1>2. CASE Option
  <2>1. ASSUME NEW n \in Name, AddOption(n) PROVE Mirrored(base)'
    BY <1>1, <2>1, AddPackageKeeps DEF AddOption, Keeping
  <2>2. ASSUME NEW n \in Name, RemoveOption(n) PROVE Mirrored(base)'
    BY <1>1, <2>2, RemoveOptionKeeps
  <2>3. ASSUME NEW n \in Name, RemoveFreed(n) PROVE Mirrored(base)'
    BY <2>3, EndKeeps DEF RemoveFreed
  <2>4. ASSUME RemoveUnuseOption PROVE Mirrored(base)'
    BY <1>1, <2>4, RemoveUnuseKeeps DEF RemoveUnuseOption, Keeping
  <2> QED
    BY <1>2, <2>1, <2>2, <2>3, <2>4 DEF Option
<1>3. ASSUME NEW r, Overrun(r) PROVE Mirrored(base)'
  BY <1>3, EndKeeps DEF Overrun
<1>4. CASE NewRepositories
  BY <1>4, UnchangedKeeps DEF NewRepositories, Unchanged, Keeping
<1>5. CASE Stop
  BY <1>5, EndKeeps DEF Stop
<1>6. CASE Start
  BY <1>1, <1>6, StartKeeps
<1>7. CASE UNCHANGED vars
  BY <1>7, UnchangedKeeps DEF vars, Unchanged, Keeping
<1> QED
  BY <1>2, <1>3, <1>4, <1>5, <1>6, <1>7 DEF ClientNext

-----------------------------------------------------------------------------
(* Theorems on the storage file *)

\* The family of the repositories does not change.
LEMMA FamilyStep ==
  ASSUME TypeOK, [Next]_vars \/ [ClientNext]_vars
  PROVE  Family' = Family
<1>1. repos \in UNION Repositories
  BY DEF TypeOK
<1>2. repos' = repos \/ repos' \in Family
  BY DEF Next, Operation, ClientNext, Option, Overrun, NewRepositories, Stop,
         Start, vars
<1> QED
  BY <1>1, <1>2, FamilyKept

\* A step of the controler keeps both invariants.
LEMMA NextKeepsInv ==
  ASSUME TypeOK, CoherenceInv, MirrorInv, CurrentInv, [Next]_vars
  PROVE  MirrorInv' /\ CurrentInv'
<1>1. Family' = Family
  BY FamilyStep
<1>2. /\ MainOnly' = MainOnly /\ NoWrappers' = NoWrappers
      /\ Agreeing' = Agreeing /\ \A base : IsBase(base)' = IsBase(base)
  BY <1>1, FamilySays
<1>3. ASSUME MainOnly, NoWrappers, NEW base, IsBase(base)
      PROVE  Mirrored(base)' /\ (CurrentNow => CurrentNow')
  <2>1. TidyAndPlain /\ Mirrored(base)
    BY <1>3 DEF CoherenceInv, MirrorInv
  <2>2. StepKeeps(base)
    BY <1>3, <2>1, NextKeeps
  <2> QED
    BY <2>2 DEF StepKeeps
<1>4. MirrorInv'
  BY <1>2, <1>3 DEF MirrorInv
<1>5. ASSUME MainOnly, NoWrappers, Agreeing PROVE CurrentNow'
  <2>1. PICK base : IsBase(base)
    BY <1>5, HasBase DEF TypeOK
  <2>2. CurrentNow
    BY <1>5 DEF CurrentInv
  <2> QED
    BY <1>3, <1>5, <2>1, <2>2
<1>6. CurrentInv'
  BY <1>2, <1>5 DEF CurrentInv
<1> QED
  BY <1>4, <1>6

\* A step of the client keeps one.
LEMMA ClientNextKeepsInv ==
  ASSUME TypeOK, CoherenceInv, MirrorInv, [ClientNext]_vars
  PROVE  MirrorInv'
<1>1. Family' = Family
  BY FamilyStep
<1>2. /\ MainOnly' = MainOnly /\ NoWrappers' = NoWrappers
      /\ \A base : IsBase(base)' = IsBase(base)
  BY <1>1, FamilySays
<1>3. ASSUME MainOnly, NoWrappers, NEW base, IsBase(base) PROVE Mirrored(base)'
  <2>1. TidyAndPlain /\ Mirrored(base)
    BY <1>3 DEF CoherenceInv, MirrorInv
  <2> QED
    BY <1>3, <2>1, ClientNextKeeps
<1> QED
  BY <1>2, <1>3 DEF MirrorInv

\* The file can be read if the repositories agree.
LEMMA ReadableNow ==
  ASSUME TypeOK, CoherenceInv, MirrorInv, MainOnly, NoWrappers, Agreeing
  PROVE  /\ Readable(storage)
         /\ NamesOf(map) \subseteq StoredNames(storage)
<1>1. PICK base : IsBase(base)
  BY HasBase DEF TypeOK
<1>2. Mirrored(base) /\ StoragePlain
  BY <1>1 DEF MirrorInv, CoherenceInv, TidyAndPlain
<1>3. /\ storage # Truncated /\ IsFile(storage) /\ PlainFile(storage)
      /\ Backed(storage, base) /\ IsFile(base) /\ PlainFile(base)
      /\ NamesOf(map) \subseteq DOMAIN storage
  BY <1>1, <1>2 DEF Mirrored, Backs, StoragePlain, TypeOK, IsBase
<1>4. Loads(storage) /\ StoredNames(storage) = DOMAIN storage
  BY <1>3, BackedLoads
<1> QED
  BY <1>3, <1>4 DEF Readable

\* And it has what is installed, as it is.
LEMMA CurrentStorage ==
  ASSUME TypeOK, CoherenceInv, MirrorInv, CurrentInv, NoWrappers, Agreeing
  PROVE  StorageIsCurrent
<1>1. SUFFICES ASSUME MainOnly, running
               PROVE  /\ storage # Truncated /\ DOMAIN storage = NamesOf(map)
                      /\ \A o \in map : Recorded(o)
  BY DEF StorageIsCurrent
<1>2. Readable(storage)
  BY <1>1, ReadableNow
<1>3. UpToDate(storage, heap, map)
  BY <1>1 DEF CurrentInv, CurrentNow
<1> QED
  BY <1>2, <1>3 DEF Readable, UpToDate, Recorded, RecordedIn

\* An exception changes nothing, if the repositories agree.
LEMMA UnharmedNow ==
  ASSUME TypeOK, CoherenceInv, MirrorInv, NoWrappers, Agreeing, [Next]_vars
  PROVE  MainOnly /\ running /\ running' /\ answer' # "ok" =>
           map' = map /\ heap' = heap
<1>1. SUFFICES ASSUME MainOnly, running, running', answer' # "ok"
               PROVE  map' = map /\ heap' = heap
  OBVIOUS
<1>2. PICK base : IsBase(base)
  BY <1>1, HasBase DEF TypeOK
<1>3. TidyAndPlain /\ Mirrored(base)
  BY <1>1, <1>2 DEF CoherenceInv, MirrorInv
<1>4. StepKeeps(base)
  BY <1>1, <1>2, <1>3, NextKeeps
<1> QED
  BY <1>1, <1>4 DEF StepKeeps, Unharmed

\* Whatever the steps, the file has what every base of the repositories says,
\* for all that is installed, and is up to date if they have one.
LEMMA ControlerMirrorInv == Spec => [](MirrorInv /\ CurrentInv)
<1>1. Init => MirrorInv /\ CurrentInv
  BY InitKeeps
<1>2. TypeOK /\ CoherenceInv /\ (MirrorInv /\ CurrentInv) /\ [Next]_vars =>
        (MirrorInv /\ CurrentInv)'
  BY NextKeepsInv
<1> QED
  BY <1>1, <1>2, ControlerTyping, ControlerCoherenceInv, PTL DEF Spec

\* The storage file always has what is installed, with the fields it has.
THEOREM ControlerStorageIsCurrent ==
  Spec => [](NoWrappers /\ Agreeing => StorageIsCurrent)
<1>1. TypeOK /\ CoherenceInv /\ MirrorInv /\ CurrentInv =>
        (NoWrappers /\ Agreeing => StorageIsCurrent)
  BY CurrentStorage
<1> QED
  BY <1>1, ControlerTyping, ControlerCoherenceInv, ControlerMirrorInv, PTL

\* The next process can always start from it.
THEOREM ControlerStorageReadable ==
  Spec => [](NoWrappers /\ Agreeing => StorageReadable)
<1>1. TypeOK /\ CoherenceInv /\ MirrorInv =>
        (NoWrappers /\ Agreeing => StorageReadable)
  BY ReadableNow DEF StorageReadable
<1> QED
  BY <1>1, ControlerTyping, ControlerCoherenceInv, ControlerMirrorInv, PTL

\* An operation that answers with an exception changes nothing.
THEOREM ControlerRefusedChangesNothing ==
  Spec /\ NoWrappers /\ Agreeing => RefusedChangesNothing
<1>1. TypeOK /\ CoherenceInv /\ MirrorInv /\ (NoWrappers /\ Agreeing)
        /\ [Next]_vars =>
        [MainOnly /\ running /\ running' /\ answer' # "ok" =>
           map' = map /\ heap' = heap]_vars
  BY UnharmedNow
<1>2. TypeOK /\ (NoWrappers /\ Agreeing) /\ [Next]_vars =>
        (NoWrappers /\ Agreeing)'
  BY FamilyStep, FamilySays
<1> QED
  BY <1>1, <1>2, ControlerTyping, ControlerCoherenceInv, ControlerMirrorInv, PTL
     DEF Spec, RefusedChangesNothing

\* The same of the client, whose option 2 does not write the file.
LEMMA ClientMirrorInv == ClientSpec => []MirrorInv
<1>1. Init => MirrorInv
  BY InitKeeps
<1>2. TypeOK /\ CoherenceInv /\ MirrorInv /\ [ClientNext]_vars => MirrorInv'
  BY ClientNextKeepsInv
<1> QED
  BY <1>1, <1>2, ClientTyping, ClientCoherenceInv, PTL DEF ClientSpec

\* Nothing that is installed is lost with the process, although option 2 does
\* not write the file.
THEOREM ClientNothingLost ==
  ClientSpec => [](NoWrappers /\ Agreeing => NothingLost)
<1>1. TypeOK /\ CoherenceInv /\ MirrorInv =>
        (NoWrappers /\ Agreeing => NothingLost)
  BY ReadableNow DEF NothingLost
<1> QED
  BY <1>1, ClientTyping, ClientCoherenceInv, ClientMirrorInv, PTL

\* The next process of the client can always start too, whatever ended the one
\* before.
THEOREM ClientStorageReadable ==
  ClientSpec => [](NoWrappers /\ Agreeing => StorageReadable)
<1>1. TypeOK /\ CoherenceInv /\ MirrorInv =>
        (NoWrappers /\ Agreeing => StorageReadable)
  BY ReadableNow DEF StorageReadable
<1> QED
  BY <1>1, ClientTyping, ClientCoherenceInv, ClientMirrorInv, PTL
=============================================================================
