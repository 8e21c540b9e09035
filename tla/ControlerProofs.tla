-------------------------- MODULE ControlerProofs --------------------------
(***************************************************************************)
(* Theorems about Controler and Client, for every set of file names and of *)
(* repositories: what the objects of the package manager look like after   *)
(* any sequence of operations, refused ones, crashes and restarts among    *)
(* them, and that no operation takes away what a user asked for.           *)
(***************************************************************************)
EXTENDS Client, PackagesTheorems

\* A world an operation can leave.
Sound(w) == \E D : D \subseteq Object /\ w \in Worlds(D) /\ OneEach(w.map)

\* What TypeOK says of the package manager.
HeapOK == /\ DOMAIN heap \subseteq Object
          /\ World \in Worlds(DOMAIN heap)
          /\ OneEach(map)
          /\ DOMAIN heap = Live(World)

StorageOK == storage = Truncated \/ IsFile(storage)

\* The parts of TypeOK.
LEMMA TypeOKParts ==
  TypeOK <=> /\ HeapOK
             /\ repos \in UNION Repositories
             /\ StorageOK
             /\ running \in BOOLEAN
BY DEF TypeOK, HeapOK, StorageOK, OneEach

\* The parts of the world of the variables.
LEMMA WorldIs == World.heap = heap /\ World.map = map /\ World.failed = "no"
BY DEF World

\* What an operation leaves is as it should be, and has the users it left.
LEMMA Settled ==
  ASSUME NEW w, Sound(w), Settle(w)
  PROVE  HeapOK' /\ Users(World') = Users(w)
<1>1. PICK D : D \subseteq Object /\ w \in Worlds(D) /\ OneEach(w.map)
  BY DEF Sound
<1>2. map' = w.map /\ heap' = [o \in Live(w) |-> w.heap[o]]
  BY DEF Settle
<1> DEFINE L == Live(w)
<1>3. /\ L \subseteq D
      /\ w.map \subseteq L
      /\ heap' \in [L -> Fields(L)]
      /\ Closure(heap', w.map) = L
  BY <1>1, <1>2, LiveIn
<1>4. DOMAIN heap' = L
  BY <1>2
<1>5. /\ World' = [heap |-> heap', map |-> map', failed |-> "no"]
      /\ World'.heap = heap' /\ World'.map = map'
  BY DEF World
<1>6. Live(World') = L
  BY <1>2, <1>3, <1>5 DEF Live
<1>7. World' \in Worlds(L)
  BY <1>2, <1>3, <1>5 DEF Worlds, Failures
<1>8. Users(World') = Users(w)
  <2>1. \A o \in w.map : heap'[o] = w.heap[o]
    BY <1>2, <1>3
  <2> QED
    BY <1>2, <1>5, <2>1 DEF Users
<1> HIDE DEF L
<1>9. HeapOK'
  BY <1>1, <1>2, <1>3, <1>4, <1>6, <1>7 DEF HeapOK
<1> QED
  BY <1>8, <1>9

\* An operation can leave nothing at all.
LEMMA EmptySound == Sound(EmptyWorld) /\ Users(EmptyWorld) = {}
<1>1. NoEntries \in [{} -> Fields({})] /\ DOMAIN NoEntries = {}
  BY EmptySeq DEF NoEntries
<1>2. EmptyWorld \in Worlds({})
  BY <1>1 DEF EmptyWorld, Worlds, Failures
<1>3. EmptyWorld.map = {}
  BY DEF EmptyWorld
<1> QED
  BY <1>2, <1>3 DEF Sound, OneEach, Users

\* An empty file is a file.
LEMMA NoEntriesIsFile == IsFile(NoEntries)
<1>1. NoEntries \in [{} -> Fields(Name)] /\ DOMAIN NoEntries = {}
  BY EmptySeq DEF NoEntries
<1> QED
  BY <1>1 DEF IsFile

-----------------------------------------------------------------------------
(* add_package *)

\* What a reader can give the manager.
Read(r) == /\ r.root \in Object
           /\ \E D : /\ D \subseteq Object /\ r.world \in Worlds(D)
                     /\ r.root \in D
           /\ OneEach(r.world.map)
           /\ Users(r.world) = Users(World)

\* What the reader makes of a file.
LEMMA ReadingIn ==
  ASSUME HeapOK, NEW file, IsFile(file), NEW n, NEW r \in Reading(file, n)
  PROVE  Read(r)
<1>1. /\ CanRead(file, n) /\ HasRoom(World, Closure(file, {n}))
      /\ r = [world |-> ReadPackage(World, file, n), root |-> NewObject(World, n)]
  BY DEF Reading
<1>2. DOMAIN heap \subseteq Object /\ World \in Worlds(DOMAIN heap) /\ OneEach(World.map)
  BY WorldIs DEF HeapOK
<1>3. PICK E : /\ E \subseteq Object
               /\ ReadPackage(World, file, n) \in Worlds(E)
               /\ NewObject(World, n) \in E
               /\ ReadPackage(World, file, n).map = World.map
               /\ Users(ReadPackage(World, file, n)) = Users(World)
  BY <1>1, <1>2, ReadPackageIn
<1>4. r.world = ReadPackage(World, file, n) /\ r.root = NewObject(World, n)
  BY <1>1
<1> QED
  BY <1>2, <1>3, <1>4 DEF Read

\* Repositories are files.
LEMMA RepositoryIn ==
  ASSUME repos \in UNION Repositories, NEW i \in DOMAIN repos
  PROVE  IsFile(repos[i]) /\ DOMAIN repos \subseteq Nat
BY RepositoriesAssumption

\* What add_package reads.
LEMMA PackageReadingsIn ==
  ASSUME HeapOK, repos \in UNION Repositories, NEW n, NEW r \in PackageReadings(n)
  PROVE  Read(r)
<1>1. PICK i \in Holders(n) : r \in Reading(repos[i], n)
  BY DEF PackageReadings
<1>2. i \in DOMAIN repos
  BY DEF Holders
<1> QED
  BY <1>1, <1>2, RepositoryIn, ReadingIn

\* What is read for a title with "-last".
LEMMA LastReadingsIn ==
  ASSUME HeapOK, repos \in UNION Repositories, NEW t, NEW r \in LastReadings(t)
  PROVE  Read(r)
<1>0. PICK i \in DOMAIN repos :
        r \in {[s EXCEPT !.world = Wrap(@, s.root)] :
                  s \in Reading(repos[i], FindLast(repos[i], t))}
  BY DEF LastReadings
<1>1. PICK s \in Reading(repos[i], FindLast(repos[i], t)) :
        r = [s EXCEPT !.world = Wrap(@, s.root)]
  BY <1>0
<1>2. Read(s)
  BY RepositoryIn, ReadingIn
<1>3. DOMAIN s = {"world", "root"}
  BY DEF Reading
<1>4. r.root = s.root /\ r.world = Wrap(s.world, s.root)
  BY <1>1, <1>3
<1>5. PICK D : D \subseteq Object /\ s.world \in Worlds(D) /\ s.root \in D
  BY <1>2 DEF Read
<1>6. /\ r.world \in Worlds(D)
      /\ r.world.map = s.world.map
      /\ Users(r.world) = Users(s.world)
  BY <1>4, <1>5, WrapIn
<1> QED
  BY <1>2, <1>4, <1>5, <1>6 DEF Read

\* What add_package keeps: the manager is as it should be, and no user loses
\* a package.
Kept == /\ HeapOK'
        /\ StorageOK'
        /\ Users(World) \subseteq Users(World')

\* Whether the manager takes what was read, refuses it, breaks its circles or
\* cannot write it.
LEMMA AddReadingIn ==
  ASSUME HeapOK, StorageOK, NEW r, Read(r), AddReading(r)
  PROVE  Kept
<1>1. PICK D : D \subseteq Object /\ r.world \in Worlds(D) /\ r.root \in D
  BY DEF Read
<1>2. OneEach(r.world.map) /\ Users(r.world) = Users(World)
  BY DEF Read
<1>3. PICK w : /\ w = ManagerAdd(r.world, r.root)
               /\ \/ w.failed # "no" /\ AddRefused(w, r.root)
                  \/ w.failed = "no" /\ AddStored(w, r.root)
  BY DEF AddReading
<1>4. w \in Additions(D, r.world)
  BY <1>1, <1>2, <1>3, ManagerAddIn
<1>5. /\ w \in Worlds(D) /\ OneEach(w.map)
      /\ Users(World) \subseteq Users(w)
  BY <1>2, <1>4 DEF Additions
<1>6. ASSUME NEW x \in Kin(D, w)
      PROVE  Sound(x) /\ Users(x) = Users(w)
  BY <1>1, <1>5, KinOf DEF Sound
<1>7. CASE AddRefused(w, r.root)
  <2>1. PICK x : /\ x = IF w.failed = "cycle found" THEN CycleDestroy(w, r.root) ELSE w
                 /\ Settle(x)
    BY <1>7 DEF AddRefused
  <2>2. x \in Kin(D, w)
    BY <1>1, <1>5, <2>1, CycleDestroyIn, KinOf
  <2>3. HeapOK' /\ Users(World') = Users(w)
    <3>1. Sound(x) /\ Settle(x) /\ Users(x) = Users(w)
      BY <1>6, <2>1, <2>2
    <3> QED
      BY <3>1, Settled
  <2>4. storage' = storage
    BY <1>7 DEF AddRefused
  <2> QED
    BY <1>5, <2>3, <2>4 DEF Kept, StorageOK
<1>8. CASE AddStored(w, r.root)
  <2>1. PICK written : /\ written = WriteToJson(w, r.root)
                       /\ Settle(written.world)
                       /\ \/ storage' = Truncated
                          \/ storage' = storage
                          \/ /\ storage # Truncated
                             /\ storage' = Over(storage, Entries(written))
    BY <1>8 DEF AddStored
  <2>2. written \in KinWritings(D, w)
    BY <1>1, <1>5, <2>1, WriteToJsonIn
  <2>3. written.world \in Kin(D, w) /\ written \in Writings(D)
    BY <2>2 DEF KinWritings
  <2>4. HeapOK' /\ Users(World') = Users(w)
    BY <1>6, <2>1, <2>3, Settled
  <2>5. IsFile(Entries(written))
    BY <1>1, <2>3, EntriesIn
  <2>6. StorageOK'
    BY <2>1, <2>5, OverIn DEF StorageOK
  <2> QED
    BY <1>5, <2>4, <2>6 DEF Kept
<1> QED
  BY <1>3, <1>7, <1>8

\* What changes nothing keeps everything.
LEMMA UnchangedKept ==
  ASSUME HeapOK, StorageOK, Unchanged
  PROVE  Kept
<1>1. heap' = heap /\ map' = map /\ storage' = storage
  BY DEF Unchanged
<1>2. World' = World
  BY <1>1 DEF World
<1> QED
  BY <1>1, <1>2 DEF HeapOK, StorageOK, Kept

\* add_package, with all its exceptions.
LEMMA AddPackageIn ==
  ASSUME HeapOK, StorageOK, repos \in UNION Repositories, NEW n, AddPackage(n)
  PROVE  Kept
<1>1. CASE AddNoSuch(n)
  BY <1>1, UnchangedKept DEF AddNoSuch
<1>2. CASE AddUnreadable(n)
  BY <1>2, UnchangedKept DEF AddUnreadable
<1>3. CASE AddRead(n)
  BY <1>3, PackageReadingsIn, AddReadingIn DEF AddRead
<1> QED
  BY <1>1, <1>2, <1>3 DEF AddPackage

\* The same for the last version of a title.
LEMMA AddLastIn ==
  ASSUME HeapOK, StorageOK, repos \in UNION Repositories, NEW t, AddLast(t)
  PROVE  Kept
BY LastReadingsIn, AddReadingIn DEF AddLast

-----------------------------------------------------------------------------
(* remove_package, remove_unuse and global_update *)

\* What is written of the manager leaves it alone.
LEMMA StoreIn ==
  ASSUME NEW w, Sound(w), Store(w)
  PROVE  HeapOK' /\ StorageOK' /\ Users(World') = Users(w)
<1>1. PICK D : D \subseteq Object /\ w \in Worlds(D) /\ OneEach(w.map)
  BY DEF Sound
<1>2. PICK written : /\ written \in {WriteAll(w, order) : order \in Orders(w.map)}
                     /\ Settle(written.world)
                     /\ storage' = Truncated \/ storage' = Entries(written)
  BY DEF Store
<1>3. PICK order \in Orders(w.map) : written = WriteAll(w, order)
  BY <1>2
<1>4. order \in Seq(D)
  <2>1. w.map \in SUBSET D /\ IsFiniteSet(w.map)
    BY <1>1, WorldFields, ObjectsFinite, FS_Subset
  <2>2. order \in Seq(w.map)
    BY <2>1, OrdersIn
  <2> QED
    BY <2>1, <2>2, SeqMonotonic
<1>5. written \in Writings(D) /\ written.world \in Kin(D, w)
  BY <1>1, <1>3, <1>4, WriteAllIn DEF KinWritings
<1>6. /\ written.world \in Worlds(D) /\ written.world.map = w.map
      /\ Users(written.world) = Users(w)
  BY <1>1, <1>5, KinOf
<1>7. Sound(written.world)
  BY <1>1, <1>6 DEF Sound
<1>8. HeapOK' /\ Users(World') = Users(written.world)
  BY <1>2, <1>7, Settled
<1>9. StorageOK'
  BY <1>1, <1>2, <1>5, EntriesIn DEF StorageOK
<1> QED
  BY <1>6, <1>8, <1>9

\* The world of the variables is one an operation can leave.
LEMMA WorldSound ==
  ASSUME HeapOK
  PROVE  /\ Sound(World) /\ World \in Worlds(DOMAIN heap)
         /\ DOMAIN heap \subseteq Object /\ OneEach(World.map)
BY WorldIs DEF HeapOK, Sound

\* remove takes away no package of a user but the one it is called for.
LEMMA RemovedIn ==
  ASSUME HeapOK, NEW n, NEW w \in Removed(n)
  PROVE  /\ Sound(w)
         /\ \A u \in Users(World) : NameOf(u) = n \/ u \in Users(w)
<1> DEFINE D == DOMAIN heap
<1>0. /\ World \in Worlds(D) /\ D \subseteq Object /\ OneEach(World.map)
  BY WorldSound
<1>1. CASE ~Has(World, n)
  <2> DEFINE e == "This package did not exist"
  <2>1. w = Fail(World, e) /\ e \in Failures
    BY <1>1 DEF Removed, Failures
  <2> HIDE DEF e, D
  <2>2. w \in Kin(D, World)
    BY <1>0, <2>1, KinOf, KinFail
  <2>3. w \in Worlds(D) /\ w.map = World.map /\ Users(w) = Users(World)
    BY <1>0, <2>2, KinOf
  <2> QED
    BY <1>0, <2>3 DEF Sound
<1>2. CASE Has(World, n)
  <2>1. PICK o : o = At(World, n)
    OBVIOUS
  <2>2. o \in World.map /\ NameOf(o) = n
    BY <1>2, <2>1, AtIn
  <2>3. PICK V \in Visited(World, Users(World) \ {o}) : w = ManagerRemove(World, o, V)
    BY <1>2, <2>1 DEF Removed
  <2>4. Users(World) \ {o} \subseteq V
    BY <2>3 DEF Visited
  <2> HIDE DEF D
  <2>5. /\ w \in Worlds(D) /\ OneEach(w.map)
        /\ \A u \in Users(World) : u = o \/ u \in Users(w)
    BY <1>0, <2>2, <2>3, <2>4, ManagerRemoveIn
  <2> QED
    BY <1>0, <2>2, <2>5 DEF Sound
<1> QED
  BY <1>1, <1>2

\* No user loses a package, or all who do lose the one called n.
LostOnly(n) ==
  /\ HeapOK'
  /\ StorageOK'
  /\ \A u \in Users(World) : NameOf(u) = n \/ u \in Users(World')

\* Who keeps everything loses nothing.
LEMMA KeptLosesNone ==
  ASSUME Kept, NEW n
  PROVE  LostOnly(n)
BY DEF Kept, LostOnly

\* remove_package takes nothing from users but the package it is called for.
LEMMA RemovePackageIn ==
  ASSUME HeapOK, StorageOK, NEW n, RemovePackage(n)
  PROVE  LostOnly(n)
<1>1. CASE StorageUnreadable
  BY <1>1, UnchangedKept, KeptLosesNone DEF StorageUnreadable
<1>2. CASE ~StorageUnreadable
  <2>1. PICK w \in Removed(n) : StoreUnlessFailed(w)
    BY <1>2 DEF RemovePackage
  <2>2. /\ Sound(w)
        /\ \A u \in Users(World) : NameOf(u) = n \/ u \in Users(w)
    BY RemovedIn
  <2>3. CASE w.failed = "no"
    <3>1. HeapOK' /\ StorageOK' /\ Users(World') = Users(w)
      BY <2>1, <2>2, <2>3, StoreIn DEF StoreUnlessFailed
    <3> QED
      BY <2>2, <3>1 DEF LostOnly
  <2>4. CASE w.failed # "no"
    <3>1. Settle(w) /\ storage' = storage
      BY <2>1, <2>4 DEF StoreUnlessFailed
    <3>2. HeapOK' /\ Users(World') = Users(w)
      BY <2>2, <3>1, Settled
    <3> QED
      BY <2>2, <3>1, <3>2 DEF LostOnly, StorageOK
  <2> QED
    BY <2>3, <2>4
<1> QED
  BY <1>1, <1>2

\* remove_unuse keeps what users asked for, whatever its threads visited.
LEMMA RemoveUnuseIn ==
  ASSUME HeapOK, StorageOK, RemoveUnuse
  PROVE  Kept
<1>1. CASE StorageUnreadable
  BY <1>1, UnchangedKept DEF StorageUnreadable
<1>2. CASE ~StorageUnreadable
  <2>1. PICK V \in Visited(World, Users(World)) : Store(ManagerRemoveUnuse(World, V))
    BY <1>2 DEF RemoveUnuse
  <2>2. PICK w : w = ManagerRemoveUnuse(World, V)
    OBVIOUS
  <2>3. Users(World) \subseteq V
    BY <2>1 DEF Visited
  <2>4. Sound(w) /\ Users(w) = Users(World)
    BY <2>2, <2>3, WorldSound, ManagerRemoveUnuseIn DEF Sound
  <2>5. HeapOK' /\ StorageOK' /\ Users(World') = Users(w)
    BY <2>1, <2>2, <2>4, StoreIn
  <2> QED
    BY <2>4, <2>5 DEF Kept
<1> QED
  BY <1>1, <1>2

\* global_update keeps what users asked for.
LEMMA GlobalUpdateIn ==
  ASSUME HeapOK, StorageOK, GlobalUpdate
  PROVE  Kept
<1>1. CASE StorageUnreadable
  BY <1>1, UnchangedKept DEF StorageUnreadable
<1>2. CASE ~StorageUnreadable
  <2>1. PICK w : w = ManagerGlobalUpdate(World) /\ Store(w)
    BY <1>2 DEF GlobalUpdate
  <2>2. Sound(w) /\ Users(w) = Users(World)
    BY <2>1, WorldSound, ManagerGlobalUpdateIn DEF Sound
  <2>3. HeapOK' /\ StorageOK' /\ Users(World') = Users(w)
    BY <2>1, <2>2, StoreIn
  <2> QED
    BY <2>2, <2>3 DEF Kept
<1> QED
  BY <1>1, <1>2

-----------------------------------------------------------------------------
(* Starting and stopping *)

\* A process that ends leaves no objects.
LEMMA EmptySettled ==
  ASSUME Settle(EmptyWorld)
  PROVE  HeapOK'
BY EmptySound, Settled

\* A process that starts has what is in the storage file, or nothing.
LEMMA StartIn ==
  ASSUME StorageOK, Start
  PROVE  HeapOK' /\ StorageOK' /\ repos' = repos
<1>1. CASE LoadStorage
  <2>1. /\ storage # Truncated /\ Loads(storage)
        /\ Settle(Loaded(storage, First(Stamp)))
        /\ storage' = storage
    BY <1>1 DEF LoadStorage, Readable
  <2>2. IsFile(storage) /\ First(Stamp) \in Stamp
    BY <2>1, StampAssumption, FirstIn DEF StorageOK
  <2>3. Sound(Loaded(storage, First(Stamp)))
    BY <2>1, <2>2, LoadedIn DEF Sound
  <2>4. HeapOK'
    BY <2>1, <2>3, Settled
  <2> QED
    BY <2>1, <2>4 DEF StorageOK, Start
<1>2. CASE LoadFails
  BY <1>2, EmptySettled DEF LoadFails, StorageOK, Start
<1>3. CASE StartEmpty
  BY <1>3, EmptySettled, NoEntriesIsFile DEF StartEmpty, StorageOK, Start
<1> QED
  BY <1>1, <1>2, <1>3 DEF Start

-----------------------------------------------------------------------------
(* Controler *)

\* A step leaves the manager as it should be, and no user loses a package.
Stays == running /\ running' => Users(World) \subseteq Users(World')
StepOK == TypeOK' /\ Stays

\* The parts of TypeOK, after a step.
LEMMA TypeOKAfter ==
  ASSUME HeapOK', StorageOK', repos' \in UNION Repositories, running' \in BOOLEAN
  PROVE  TypeOK'
BY DEF TypeOK, HeapOK, StorageOK, OneEach

\* What is kept is kept in every step.
LEMMA KeptStays ==
  ASSUME Kept
  PROVE  Stays
BY DEF Kept, Stays

\* An operation of the controler.
LEMMA OperationIn ==
  ASSUME TypeOK, Operation
  PROVE  TypeOK' /\ (Stays \/ \E n : RemovePackage(n) /\ LostOnly(n))
<1>0. /\ HeapOK /\ StorageOK /\ repos \in UNION Repositories
      /\ running \in BOOLEAN /\ repos' = repos /\ running' = running
  BY TypeOKParts DEF Operation
<1>1. Kept \/ \E n : RemovePackage(n) /\ LostOnly(n)
  <2>1. ASSUME NEW n \in Name, AddPackage(n) PROVE Kept
    BY <1>0, <2>1, AddPackageIn
  <2>2. ASSUME NEW n \in Name, RemovePackage(n) PROVE LostOnly(n)
    BY <1>0, <2>2, RemovePackageIn
  <2>3. ASSUME NEW t \in Title, AddLast(t) PROVE Kept
    BY <1>0, <2>3, AddLastIn
  <2>4. ASSUME RemoveUnuse PROVE Kept
    BY <1>0, <2>4, RemoveUnuseIn
  <2>5. ASSUME GlobalUpdate PROVE Kept
    BY <1>0, <2>5, GlobalUpdateIn
  <2> QED
    BY <2>1, <2>2, <2>3, <2>4, <2>5 DEF Operation
<1>2. HeapOK' /\ StorageOK'
  BY <1>1 DEF LostOnly, Kept
<1>3. TypeOK'
  BY <1>0, <1>2, TypeOKAfter
<1> QED
  BY <1>1, <1>3, KeptStays

\* The process ends, as it should or not.
LEMMA EndIn ==
  ASSUME TypeOK, Settle(EmptyWorld), running' = FALSE,
         UNCHANGED <<repos, storage>>
  PROVE  StepOK
<1>1. HeapOK'
  BY EmptySettled
<1>2. TypeOK'
  BY <1>1, TypeOKParts, TypeOKAfter DEF StorageOK
<1> QED
  BY <1>2 DEF StepOK, Stays

\* The repository files are replaced.
LEMMA NewRepositoriesIn ==
  ASSUME TypeOK, NewRepositories
  PROVE  StepOK
<1>1. heap' = heap /\ map' = map /\ storage' = storage /\ running' = running
  BY DEF NewRepositories
<1>2. repos' \in UNION Repositories
  BY DEF NewRepositories, Family
<1>3. HeapOK /\ StorageOK /\ running \in BOOLEAN
  BY TypeOKParts
<1>4. Kept
  BY <1>1, <1>3, UnchangedKept DEF Unchanged
<1>5. Stays
  BY <1>4, KeptStays
<1>6. TypeOK'
  BY <1>1, <1>2, <1>3, <1>4, TypeOKAfter DEF Kept
<1> QED
  BY <1>5, <1>6 DEF StepOK, Stays

\* A process starts.
LEMMA StartStep ==
  ASSUME TypeOK, Start
  PROVE  StepOK
<1>1. HeapOK' /\ StorageOK' /\ repos' = repos
  BY TypeOKParts, StartIn
<1>2. running' \in BOOLEAN
  BY TypeOKParts DEF Start, LoadStorage, LoadFails, StartEmpty
<1>3. TypeOK'
  BY <1>1, <1>2, TypeOKParts, TypeOKAfter
<1> QED
  BY <1>3 DEF StepOK, Stays, Start

\* A process ends between two operations.
LEMMA StopIn ==
  ASSUME TypeOK, Stop
  PROVE  StepOK
BY EndIn DEF Stop

\* A process ends in operator== of wrappers.
LEMMA OverrunIn ==
  ASSUME TypeOK, NEW r, Overrun(r)
  PROVE  StepOK
BY EndIn DEF Overrun

\* Nothing happens.
LEMMA StutterIn ==
  ASSUME TypeOK, UNCHANGED vars
  PROVE  StepOK
<1>1. /\ heap' = heap /\ map' = map /\ storage' = storage
      /\ running' = running /\ repos' = repos
  BY DEF vars
<1>2. HeapOK /\ StorageOK /\ running \in BOOLEAN /\ repos \in UNION Repositories
  BY TypeOKParts
<1>3. Kept
  BY <1>1, <1>2, UnchangedKept DEF Unchanged
<1>4. Stays
  BY <1>3, KeptStays
<1>5. TypeOK'
  BY <1>1, <1>2, <1>3, TypeOKAfter DEF Kept
<1> QED
  BY <1>4, <1>5 DEF StepOK, Stays

\* A step of the controler.
LEMMA NextIn ==
  ASSUME TypeOK, [Next]_vars
  PROVE  TypeOK' /\ (Stays \/ \E n : RemovePackage(n) /\ LostOnly(n))
<1>1. CASE Operation
  BY <1>1, OperationIn
<1>2. ASSUME NEW r, Overrun(r) PROVE StepOK
  BY <1>2, OverrunIn
<1>3. CASE NewRepositories
  BY <1>3, NewRepositoriesIn DEF StepOK
<1>4. CASE Stop
  BY <1>4, StopIn DEF StepOK
<1>5. CASE Start
  BY <1>5, StartStep DEF StepOK
<1>6. CASE UNCHANGED vars
  BY <1>6, StutterIn DEF StepOK
<1> QED
  BY <1>1, <1>2, <1>3, <1>4, <1>5, <1>6 DEF Next, StepOK

\* The first process starts with an empty manager.
LEMMA InitIn ==
  ASSUME Init
  PROVE  TypeOK
<1>1. /\ heap = NoEntries /\ map = {} /\ storage = NoEntries /\ running = TRUE
      /\ repos \in UNION Repositories
  BY DEF Init
<1>2. World = EmptyWorld
  BY <1>1 DEF World, EmptyWorld
<1>3. NoEntries \in [{} -> Fields({})] /\ DOMAIN NoEntries = {}
  BY EmptySeq DEF NoEntries
<1>4. EmptyWorld \in Worlds({}) /\ EmptyWorld.map = {} /\ OneEach({})
  BY <1>3 DEF EmptyWorld, Worlds, Failures, OneEach
<1>5. Live(EmptyWorld) = {}
  BY <1>4, LiveIn
<1>6. HeapOK
  BY <1>1, <1>2, <1>3, <1>4, <1>5 DEF HeapOK
<1>7. StorageOK
  BY <1>1, NoEntriesIsFile DEF StorageOK
<1> QED
  BY <1>1, <1>6, <1>7, TypeOKParts

\* The names of what users lose.
Lost == NamesOf(Users(World)) \ NamesOf(Users(World))'

\* Where no user loses a package, no name is lost.
LEMMA StaysLost ==
  ASSUME Stays, running, running'
  PROVE  Lost = {}
<1>1. Users(World) \subseteq Users(World')
  BY DEF Stays
<1> QED
  BY <1>1 DEF Lost, NamesOf

\* Where all who lose one lose the one called n, n is the only name lost.
LEMMA OnlyLost ==
  ASSUME NEW n, LostOnly(n), NEW m \in Lost
  PROVE  m = n
<1>1. PICK u \in Users(World) : m = NameOf(u)
  BY DEF Lost, NamesOf
<1>2. u \notin Users(World')
  BY <1>1 DEF Lost, NamesOf
<1> QED
  BY <1>1, <1>2 DEF LostOnly

-----------------------------------------------------------------------------
(* Theorems of the controler *)

\* Whatever is added, refused, removed, swept, updated, crashed and loaded, and
\* whatever the repositories hold: every pointer of an object points to an
\* object that is there, the map has one package of a file name, filed under its
\* own name, nothing is left behind that the map does not reach, and the
\* storage file has whole entries or is the empty file of a write that threw.
THEOREM ControlerTyping == Spec => []TypeOK
<1>1. Init => TypeOK
  BY InitIn
<1>2. TypeOK /\ [Next]_vars => TypeOK'
  BY NextIn
<1> QED
  BY <1>1, <1>2, PTL DEF Spec

\* No operation of the controler takes away a package a user asked for, but
\* remove_package the one it is called for; a refused addition and its
\* cycle_destroy take none.
THEOREM ControlerUsersStay == Spec => UsersStay
<1>1. TypeOK /\ [Next]_vars => (running /\ running' => \A n \in Lost : RemovePackage(n))
  <2> SUFFICES ASSUME TypeOK, [Next]_vars, running, running', NEW n \in Lost
               PROVE  RemovePackage(n)
    OBVIOUS
  <2>1. Stays \/ \E m : RemovePackage(m) /\ LostOnly(m)
    BY NextIn
  <2>2. PICK m : RemovePackage(m) /\ LostOnly(m)
    BY <2>1, StaysLost
  <2> QED
    BY <2>2, OnlyLost
<1> QED
  BY <1>1, ControlerTyping, PTL DEF Spec, UsersStay, Lost

-----------------------------------------------------------------------------
(* Client *)

\* The loop goes on after an exception, or it does not.
LEMMA CaughtIn == ASSUME Caught PROVE running' \in BOOLEAN
BY DEF Caught

\* Options 1 and 4.
LEMMA AddOptionIn ==
  ASSUME TypeOK, NEW n, AddOption(n), UNCHANGED repos
  PROVE  StepOK
<1>1. Kept
  BY TypeOKParts, AddPackageIn DEF AddOption
<1>2. running' \in BOOLEAN
  BY CaughtIn DEF AddOption
<1>3. TypeOK'
  BY <1>1, <1>2, TypeOKParts, TypeOKAfter DEF Kept
<1>4. Stays
  BY <1>1, KeptStays
<1> QED
  BY <1>3, <1>4 DEF StepOK, Stays

\* The sweep of the client.
LEMMA RemoveUnuseOptionIn ==
  ASSUME TypeOK, RemoveUnuseOption, UNCHANGED repos
  PROVE  StepOK
<1>1. Kept
  BY TypeOKParts, RemoveUnuseIn DEF RemoveUnuseOption
<1>2. running' \in BOOLEAN
  BY CaughtIn DEF RemoveUnuseOption
<1>3. TypeOK'
  BY <1>1, <1>2, TypeOKParts, TypeOKAfter DEF Kept
<1>4. Stays
  BY <1>1, KeptStays
<1> QED
  BY <1>3, <1>4 DEF StepOK, Stays

\* Option 2.
LEMMA RemoveOptionIn ==
  ASSUME TypeOK, NEW n, RemoveOption(n), UNCHANGED repos
  PROVE  TypeOK' /\ LostOnly(n)
<1>1. HeapOK /\ StorageOK /\ repos \in UNION Repositories /\ running \in BOOLEAN
  BY TypeOKParts
<1>2. PICK w \in Removed(n) : Settle(w) /\ UNCHANGED <<storage, running>>
  BY DEF RemoveOption
<1>3. /\ Sound(w)
      /\ \A u \in Users(World) : NameOf(u) = n \/ u \in Users(w)
  BY <1>1, RemovedIn
<1>4. HeapOK' /\ Users(World') = Users(w)
  BY <1>2, <1>3, Settled
<1>5. StorageOK'
  BY <1>1, <1>2 DEF StorageOK
<1>6. LostOnly(n)
  BY <1>3, <1>4, <1>5 DEF LostOnly
<1>7. TypeOK'
  BY <1>1, <1>2, <1>4, <1>5, TypeOKAfter
<1> QED
  BY <1>6, <1>7

\* Option 2, when the process ends in it.
LEMMA RemoveFreedIn ==
  ASSUME TypeOK, NEW n, RemoveFreed(n), UNCHANGED repos
  PROVE  StepOK
BY EndIn DEF RemoveFreed

\* A step of the client.
LEMMA ClientNextIn ==
  ASSUME TypeOK, [ClientNext]_vars
  PROVE  TypeOK' /\ (Stays \/ \E n : RemoveOption(n) /\ LostOnly(n))
<1>1. ASSUME Option
      PROVE  \/ StepOK
             \/ TypeOK' /\ \E n : RemoveOption(n) /\ LostOnly(n)
  <2>1. ASSUME NEW n \in Name, AddOption(n) PROVE StepOK
    BY <1>1, <2>1, AddOptionIn DEF Option
  <2>2. ASSUME NEW n \in Name, RemoveOption(n) PROVE TypeOK' /\ LostOnly(n)
    BY <1>1, <2>2, RemoveOptionIn DEF Option
  <2>3. ASSUME NEW n \in Name, RemoveFreed(n) PROVE StepOK
    BY <1>1, <2>3, RemoveFreedIn DEF Option
  <2>4. ASSUME RemoveUnuseOption PROVE StepOK
    BY <1>1, <2>4, RemoveUnuseOptionIn DEF Option
  <2>5. CASE \E n \in Name : AddOption(n) \/ RemoveOption(n) \/ RemoveFreed(n)
    <3>1. PICK n \in Name : AddOption(n) \/ RemoveOption(n) \/ RemoveFreed(n)
      BY <2>5
    <3>2. CASE RemoveOption(n)
      <4>1. TypeOK' /\ LostOnly(n)
        BY <2>2, <3>2
      <4> QED
        BY <3>2, <4>1
    <3> QED
      BY <2>1, <2>3, <3>1, <3>2
  <2> QED
    BY <1>1, <2>4, <2>5 DEF Option
<1>2. ASSUME NEW r, Overrun(r) PROVE StepOK
  BY <1>2, OverrunIn
<1>3. CASE NewRepositories
  BY <1>3, NewRepositoriesIn DEF StepOK
<1>4. CASE Stop
  BY <1>4, StopIn DEF StepOK
<1>5. CASE Start
  BY <1>5, StartStep DEF StepOK
<1>6. CASE UNCHANGED vars
  BY <1>6, StutterIn DEF StepOK
<1> QED
  BY <1>1, <1>2, <1>3, <1>4, <1>5, <1>6 DEF ClientNext, StepOK

\* The same of the client, which removes behind the back of its controler and
\* goes on after the exceptions it survives.
THEOREM ClientTyping == ClientSpec => []TypeOK
<1>1. Init => TypeOK
  BY InitIn
<1>2. TypeOK /\ [ClientNext]_vars => TypeOK'
  BY ClientNextIn
<1> QED
  BY <1>1, <1>2, PTL DEF ClientSpec

\* No option of the client takes away a package a user asked for, but option 2
\* the one it is called for.
THEOREM ClientKeepsUsers == ClientSpec => OptionsKeepUsers
<1>1. TypeOK /\ [ClientNext]_vars => (running /\ running' => \A n \in Lost : RemoveOption(n))
  <2> SUFFICES ASSUME TypeOK, [ClientNext]_vars, running, running', NEW n \in Lost
               PROVE  RemoveOption(n)
    OBVIOUS
  <2>1. Stays \/ \E m : RemoveOption(m) /\ LostOnly(m)
    BY ClientNextIn
  <2>2. PICK m : RemoveOption(m) /\ LostOnly(m)
    BY <2>1, StaysLost
  <2> QED
    BY <2>2, OnlyLost
<1> QED
  BY <1>1, ClientTyping, PTL DEF ClientSpec, OptionsKeepUsers, Lost
=============================================================================
