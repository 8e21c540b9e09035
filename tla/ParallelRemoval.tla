-------------------------- MODULE ParallelRemoval --------------------------
(***************************************************************************)
(* Package_manager::remove and Package_manager::remove_unuse               *)
(* (package_manager.cpp) with the marking threads they start.              *)
(*                                                                         *)
(* The main thread goes over the map, stores black for every package the   *)
(* user asked for, and starts threads that run Thread_visit on packages    *)
(* they require.  Thread_visit walks the graph depth first, with one       *)
(* shared table of relaxed atomic colours and no lock: the load of a       *)
(* dependency's colour and the grey store of the visit it starts are two   *)
(* steps, so several threads may visit one package at the same time, and   *)
(* one of them may store black while another still has dependencies of the *)
(* package to look at.  After the joins the main thread erases, alone.     *)
(*                                                                         *)
(* A step of this module is one atomic access.  The accesses are relaxed,  *)
(* so a load need not return the newest colour.  All locations start white *)
(* and never return to white, so what a load may return is decided by what *)
(* its thread already knows: a thread that has stored into a location, or  *)
(* has loaded a colour other than white from it, or was started by a       *)
(* thread that had, never reads white there again (coherence); any other   *)
(* thread may still read white, although the location is grey or black by  *)
(* then.  known and mainKnown are those sets.  A join makes everything the *)
(* thread stored known.                                                    *)
(*                                                                         *)
(* The table is an unordered_map, and a load through operator[] of a name  *)
(* that it lacks inserts the name.  Every name of the map is in the table, *)
(* but a user may need a package that is not in the map.  An insertion     *)
(* while another thread looks something up in the table is a data race,    *)
(* whose outcome the language leaves open: either the insertion takes      *)
(* place as if it were one step, or nothing more is said about the process *)
(* (op = "undefined").                                                     *)
(*                                                                         *)
(* Package objects are identified with their file names: every pointer     *)
(* that a using package can reach leads to the object stored in the map    *)
(* under its name, or to an object whose name is not in the map.           *)
(***************************************************************************)
EXTENDS RemovalSpec, Sequences, FiniteSets

CONSTANT HardwareThreads  \* std::thread::hardware_concurrency(), 0: unknown

ASSUME HardwareThreadsAssumption == HardwareThreads \in Nat

VARIABLES colour,       \* the table of atomic colours
          table,        \* the names that have an entry in it
          todo,         \* packages the loop over the map has still to reach
          root,         \* the using package whose dependencies are looked at
          edges,        \* dependencies of root not yet looked at
          tasks,        \* using packages that wait for a thread
          batch,        \* threads started in the current batch
          stack,        \* for each thread, the visits it is in, outermost first
          known,        \* for each thread, the packages it can't read as white
          mainKnown     \* the packages the main thread can't read as white

mainVars == <<todo, root, edges, tasks, batch, mainKnown>>
threadVars == <<stack, known>>
vars == <<specVars, colour, table, mainVars, threadVars>>

-----------------------------------------------------------------------------
Colour == {"white", "grey", "black"}

\* remove starts a thread for a dependency of a using package, remove_unuse
\* one for a using package: a thread is named by the two.
Thread == Package \X Package

\* One activation of Thread_visit: entered is FALSE until its grey store.
Frame == [node: Package, entered: BOOLEAN, todo: SUBSET Package]

Visit(p) == [node |-> p, entered |-> FALSE, todo |-> deps[p]]

AllWhite == [p \in Package |-> "white"]
White == {p \in Package : colour[p] = "white"}
Marked == Package \ White

\* Fault: no fallback for an unknown number of hardware threads.
OptimalThreadsReported == HardwareThreads

\* The size of a batch of remove_unuse.
OptimalThreads == IF HardwareThreads = 0 THEN 4 ELSE HardwareThreads

Top(t) == stack[t][Len(stack[t])]
Below(t) == SubSeq(stack[t], 1, Len(stack[t]) - 1)
Running(t) == stack[t] # <<>>
Replaced(t, frame) == Append(Below(t), frame)

Init == /\ SpecInit
        /\ colour = AllWhite
        /\ table = {}
        /\ todo = {}
        /\ root = NoPackage
        /\ edges = {}
        /\ tasks = {}
        /\ batch = 0
        /\ mainKnown = {}
        /\ stack = [t \in Thread |-> <<>>]
        /\ known = [t \in Thread |-> {}]

\* All the threads that were started have ended.
Joined == \A t \in Thread : ~Running(t)

\* The main thread starts thread t on package p: what it knows happens before
\* everything the thread does.
Start(t, p) == /\ stack' = [stack EXCEPT ![t] = <<Visit(p)>>]
               /\ known' = [known EXCEPT ![t] = mainKnown]

\* An operation returns: the table of colours goes with its locals.
Leave(result) == /\ Return(result)
                 /\ colour' = AllWhite
                 /\ table' = {}
                 /\ root' = NoPackage
                 /\ batch' = 0
                 /\ mainKnown' = {}
                 /\ UNCHANGED <<todo, edges, tasks, threadVars>>

-----------------------------------------------------------------------------
(* remove *)

\* remove finds no package of that name and throws.
RemoveUnknown(p) == /\ AskUnknown(p)
                    /\ UNCHANGED <<colour, table, mainVars, threadVars>>

\* Fault: only the packages that the user asked for get an entry.
TabulateUsers(p) == /\ AskRemove(p)
                    /\ table' = Users
                    /\ todo' = installed
                    /\ UNCHANGED <<colour, root, edges, tasks, batch,
                                   mainKnown, threadVars>>

\* remove finds the package and colours every name of the map white.
BeginRemove(p) == /\ AskRemove(p)
                  /\ table' = installed
                  /\ todo' = installed
                  /\ UNCHANGED <<colour, root, edges, tasks, batch, mainKnown,
                                 threadVars>>

\* The loop over the map passes a package that nobody asked for, or the
\* package that is to be removed.
PassPackage(p) == /\ op = "remove"
                  /\ edges = {}
                  /\ p \in todo
                  /\ ~(p \in using /\ p # target)
                  /\ todo' = todo \ {p}
                  /\ UNCHANGED <<specVars, colour, table, root, edges, tasks,
                                 batch, mainKnown, threadVars>>

\* Fault: the package that is to be removed counts as a user like the others.
ColourEveryUser(p) ==
  /\ op = "remove"
  /\ edges = {}
  /\ p \in todo
  /\ p \in using
  /\ todo' = todo \ {p}
  /\ colour' = [colour EXCEPT ![p] = "black"]
  /\ root' = p
  /\ edges' = deps[p]
  /\ mainKnown' = mainKnown \cup {p}
  /\ UNCHANGED <<specVars, table, tasks, batch, threadVars>>

\* The loop reaches a package the user asked for and stores black for it.
ColourUser(p) == /\ op = "remove"
                 /\ edges = {}
                 /\ p \in todo
                 /\ p \in using /\ p # target
                 /\ todo' = todo \ {p}
                 /\ colour' = [colour EXCEPT ![p] = "black"]
                 /\ root' = p
                 /\ edges' = deps[p]
                 /\ mainKnown' = mainKnown \cup {p}
                 /\ UNCHANGED <<specVars, table, tasks, batch, threadVars>>

\* The main thread loads the colour of a dependency of root, reads white, and
\* starts a thread for it.  A name that is not in the table comes in, white.
StartVisit(d) == /\ op = "remove"
                 /\ d \in edges \ mainKnown
                 /\ edges' = edges \ {d}
                 /\ table' = table \cup {d}
                 /\ Start(<<root, d>>, d)
                 /\ UNCHANGED <<specVars, colour, todo, root, tasks, batch,
                                mainKnown>>

\* Fault: a dependency is passed over although it is still white.
SkipWhite(d) == /\ op = "remove"
                /\ d \in edges
                /\ edges' = edges \ {d}
                /\ UNCHANGED <<specVars, colour, table, todo, root, tasks,
                               batch, mainKnown, threadVars>>

\* It reads another colour.
SkipVisit(d) == /\ op = "remove"
                /\ d \in edges
                /\ colour[d] # "white"
                /\ edges' = edges \ {d}
                /\ mainKnown' = mainKnown \cup {d}
                /\ UNCHANGED <<specVars, colour, table, todo, root, tasks,
                               batch, threadVars>>

\* The loop is over and every thread has been joined.
RemoveMarked == op = "remove" /\ todo = {} /\ edges = {} /\ Joined

\* Fault: only the target is erased, and it leaves what only it needed.
EraseShallow(p) == {p}

\* Fault: the erasing walk does not look at the colours.
EraseUncoloured(p) == Reach(Within(deps, (Package \ using) \cup {p}), {p})

\* What map_erase_visit erases: the target and, going through white packages
\* that are not used, everything it requires.
EraseVisit(p) == Reach(Within(deps, (White \ using) \cup {p}), {p})

EraseTarget == /\ RemoveMarked
               /\ colour[target] = "white"
               /\ installed' = installed \ EraseVisit(target)
               /\ Leave("removed")

RefuseTarget == /\ RemoveMarked
                /\ colour[target] # "white"
                /\ UNCHANGED installed
                /\ Leave("this package is using by other")

-----------------------------------------------------------------------------
(* remove_unuse *)

\* remove_unuse stores black for every package the user asked for and queues
\* it; no thread runs yet.
BeginRemoveUnuse == /\ AskRemoveUnuse
                    /\ table' = installed
                    /\ colour' = [p \in Package |->
                                    IF p \in Users THEN "black" ELSE "white"]
                    /\ tasks' = Users
                    /\ mainKnown' = Users
                    /\ UNCHANGED <<todo, root, edges, batch, threadVars>>

\* A thread of the current batch is started.
StartTask(p) == /\ op = "remove_unuse"
                /\ p \in tasks
                /\ batch < OptimalThreads
                /\ tasks' = tasks \ {p}
                /\ batch' = batch + 1
                /\ Start(<<p, p>>, p)
                /\ UNCHANGED <<specVars, colour, table, todo, root, edges,
                               mainKnown>>

\* A full batch has been joined and packages are left for another one.
JoinBatch == /\ op = "remove_unuse"
             /\ batch = OptimalThreads
             /\ tasks # {}
             /\ Joined
             /\ batch' = 0
             /\ mainKnown' = Marked
             /\ UNCHANGED <<specVars, colour, table, todo, root, edges, tasks,
                            threadVars>>

\* Fault: the loop over the batches ends with the first one.
FirstBatchMarked == op = "remove_unuse" /\ Joined

\* The last batch has been joined.
UnuseMarked == op = "remove_unuse" /\ tasks = {} /\ Joined

\* Every name whose colour is still white is erased from the map.
Sweep == /\ UnuseMarked
         /\ installed' = installed \ White
         /\ Leave("swept")

-----------------------------------------------------------------------------
(* Thread_visit *)

Learn(t, p) == known' = [known EXCEPT ![t] = @ \cup {p}]

\* The innermost visit after its grey store, and with dependency d looked at.
Entered(t) ==
  [node |-> Top(t).node, entered |-> TRUE, todo |-> Top(t).todo]
Looked(t, d) ==
  [node |-> Top(t).node, entered |-> TRUE, todo |-> Top(t).todo \ {d}]

\* The visit begins with the grey store.
Enter(t) == /\ Running(t)
            /\ ~Top(t).entered
            /\ colour' = [colour EXCEPT ![Top(t).node] = "grey"]
            /\ stack' = [stack EXCEPT ![t] = Replaced(t, Entered(t))]
            /\ Learn(t, Top(t).node)
            /\ UNCHANGED <<specVars, table, mainVars>>

\* The thread loads the colour of a dependency.  If it reads white it visits
\* the dependency before it goes on.  A name that is not in the table comes
\* in, white.
Descend(t, d) == /\ Running(t)
                 /\ Top(t).entered
                 /\ d \in Top(t).todo \ known[t]
                 /\ stack' = [stack EXCEPT
                                ![t] = Append(Replaced(t, Looked(t, d)),
                                              Visit(d))]
                 /\ table' = table \cup {d}
                 /\ UNCHANGED <<specVars, colour, mainVars, known>>

\* If it reads another colour it goes on.
Skip(t, d) == /\ Running(t)
              /\ Top(t).entered
              /\ d \in Top(t).todo
              /\ colour[d] # "white"
              /\ stack' = [stack EXCEPT ![t] = Replaced(t, Looked(t, d))]
              /\ Learn(t, d)
              /\ UNCHANGED <<specVars, colour, table, mainVars>>

\* Fault: the visit returns without storing black.
FinishGrey(t) == /\ Running(t)
                 /\ Top(t).entered
                 /\ Top(t).todo = {}
                 /\ stack' = [stack EXCEPT ![t] = Below(t)]
                 /\ known' = IF Below(t) = <<>> THEN [known EXCEPT ![t] = {}]
                                                ELSE known
                 /\ UNCHANGED <<specVars, colour, table, mainVars>>

\* All dependencies have been looked at: the visit stores black and returns,
\* and the thread ends with its outermost visit.
Finish(t) == /\ Running(t)
             /\ Top(t).entered
             /\ Top(t).todo = {}
             /\ colour' = [colour EXCEPT ![Top(t).node] = "black"]
             /\ stack' = [stack EXCEPT ![t] = Below(t)]
             /\ known' = IF Below(t) = <<>> THEN [known EXCEPT ![t] = {}]
                                            ELSE known
             /\ UNCHANGED <<specVars, table, mainVars>>

ThreadStep(t) == \/ Enter(t)
                 \/ \E d \in Package : Descend(t, d) \/ Skip(t, d)
                 \/ Finish(t)

-----------------------------------------------------------------------------
(* The data race on the table *)

\* The load thread t comes to may insert a name.
Inserts(t) == Running(t) /\ Top(t).entered /\ ~(Top(t).todo \subseteq table)

\* The main thread is about to look a name up in the table.
MainIndexes == edges # {} \/ todo \cap Users # {}

\* An insertion into the table meets an access of another thread.
InsertMeetsAccess ==
  \/ \E t \in Thread : /\ Inserts(t)
                       /\ \/ MainIndexes
                          \/ \E u \in Thread \ {t} : Running(u)
  \/ ~(edges \subseteq table) /\ ~Joined

\* Nothing more is said about the process; what the operation kept in its
\* local variables is gone.
Race == /\ InsertMeetsAccess
        /\ op' = "undefined"
        /\ colour' = AllWhite
        /\ table' = {}
        /\ todo' = {}
        /\ root' = NoPackage
        /\ edges' = {}
        /\ tasks' = {}
        /\ batch' = 0
        /\ mainKnown' = {}
        /\ stack' = [t \in Thread |-> <<>>]
        /\ known' = [t \in Thread |-> {}]
        /\ UNCHANGED <<deps, installed, using, target, answer>>

\* There is no step of an operation after that.
Lost == op = "undefined" /\ UNCHANGED vars

\* A step of the main thread inside an operation.
MainStep == \/ \E p \in Package : \/ PassPackage(p)
                                  \/ ColourUser(p)
                                  \/ StartVisit(p)
                                  \/ SkipVisit(p)
                                  \/ StartTask(p)
            \/ EraseTarget
            \/ RefuseTarget
            \/ JoinBatch
            \/ Sweep

Next == \/ \E p \in Package : RemoveUnknown(p) \/ BeginRemove(p)
        \/ BeginRemoveUnuse
        \/ MainStep
        \/ \E t \in Thread : ThreadStep(t)
        \/ Race
        \/ Lost

Spec == Init /\ [][Next]_vars

\* The operating system schedules the main thread and every thread it starts.
Fairness == WF_vars(MainStep) /\ \A t \in Thread : WF_vars(ThreadStep(t))

LiveSpec == Spec /\ Fairness

-----------------------------------------------------------------------------
(* Properties *)

\* The variables have their types.
TypeOK ==
  /\ deps \in Graph
  /\ installed \in SUBSET Package
  /\ using \in SUBSET Package
  /\ op \in {"none", "remove", "remove_unuse", "undefined"}
  /\ target \in Package \cup {NoPackage}
  /\ colour \in [Package -> Colour]
  /\ table \in SUBSET Package
  /\ todo \in SUBSET installed
  /\ root \in Package \cup {NoPackage}
  /\ edges \in SUBSET Package
  /\ tasks \in SUBSET Package
  /\ batch \in Nat
  /\ stack \in [Thread -> Seq(Frame)]
  /\ known \in [Thread -> SUBSET Package]
  /\ mainKnown \in SUBSET Package
  /\ op = "remove" => target \in Package
  /\ op \in {"none", "remove_unuse"} => target = NoPackage
  /\ edges # {} => root \in Package
  /\ op # "remove" => todo = {} /\ edges = {}
  /\ op # "remove_unuse" => tasks = {}
  /\ op \in {"none", "undefined"} => Joined

\* What the colours are for: when the threads have been joined, exactly the
\* packages that another user needs have left white, whatever the order in
\* which the threads loaded and stored colours.  Erasing on less would take
\* away a package in use, erasing on more would keep garbage.
MarkedExactly == RemoveMarked \/ UnuseMarked => Marked = Reach(deps, Users)

\* No operation takes away a package that is needed, directly or not, by a
\* package that the user asked for and that stays: what the map has of the
\* needs of its users it keeps.
UsersKeepDependencies ==
  [][ installed \cap Reach(deps, installed' \cap using)
        \subseteq installed' ]_vars

\* The visits in progress, in all threads.
Visits == UNION {{stack[t][i] : i \in 1..Len(stack[t])} : t \in Thread}

\* When the map is complete for its users, the main thread and the marking
\* threads index the table of colours with names that are in it: no operator[]
\* inserts into the unordered_map that other threads are reading, and no
\* operation ends in the data race.
NoConcurrentInsert ==
  UsersComplete => /\ op # "undefined"
                   /\ edges \subseteq table
                   /\ \A f \in Visits : f.todo \subseteq table

\* A grey package has a visit in progress: once the threads are joined no
\* colour is left grey, although two threads may store into it in turn.
GreyIsVisited ==
  \A p \in Package :
    colour[p] = "grey" => \E f \in Visits : f.node = p /\ f.entered

-----------------------------------------------------------------------------
(* The inductive invariants behind the properties above *)

\* Somebody has still to look at dependency q of p, or is about to store grey
\* for q.
Pending(p, q) == \/ \E f \in Visits : \/ f.node = p /\ q \in f.todo
                                      \/ f.node = q /\ ~f.entered
                 \/ root = p /\ q \in edges
                 \/ p \in tasks

\* Between operations there are no colours.
NoColoursIdle == op \in {"none", "undefined"} => colour = AllWhite

\* A thread that is yet to be started is not running: no start overwrites the
\* stack of another thread.
StartsFresh ==
  /\ edges # {} => root \notin todo
  /\ \A r, d \in Package : Running(<<r, d>>) =>
       /\ op = "remove" => r \notin todo /\ ~(r = root /\ d \in edges)
       /\ op = "remove_unuse" => r = d /\ r \notin tasks

\* A visit looks at all the dependencies of its package, after it marked it.
VisitsComplete ==
  \A f \in Visits : /\ f.todo \subseteq deps[f.node]
                    /\ f.entered => f.node \in Marked
                    /\ ~f.entered => f.todo = deps[f.node]

\* Colours and visits stay inside what the users need.
OnlyNeeded ==
  op \in {"remove", "remove_unuse"} =>
    /\ Marked \subseteq Reach(deps, Users)
    /\ \A f \in Visits : f.node \in Reach(deps, Users)
    /\ edges # {} => root \in Users /\ edges \subseteq deps[root]
    /\ tasks \subseteq Users

\* No dependency of a marked package is forgotten: it is marked itself, or a
\* visit or the main thread will come to it.
NoneForgotten ==
  \A p \in Marked : \A q \in deps[p] : q \in Marked \/ Pending(p, q)

\* The users the loop has passed are marked.
UsersMarked == /\ op = "remove" => Users \subseteq Marked \cup todo
               /\ op = "remove_unuse" => Users \subseteq Marked

\* Every package of the map has its entry in the table.
TableFilled == op \in {"remove", "remove_unuse"} => installed \subseteq table

\* A race has met a map that is not complete.
RacesNeedGaps == op = "undefined" => ~UsersComplete

MarkInv == /\ TypeOK
           /\ NoColoursIdle
           /\ StartsFresh
           /\ VisitsComplete
           /\ OnlyNeeded
           /\ NoneForgotten
           /\ UsersMarked
           /\ TableFilled
           /\ RacesNeedGaps

-----------------------------------------------------------------------------
\* The removal operations, seen from their caller, are the atomic ones of
\* RemovalSpec: the variables of that module keep their meaning here, and the
\* steps of the threads change none of them.
AtomicRemoval == SafeSpec

\* An operation that has begun returns, however its threads interleave, unless
\* it ends in the data race.
OperationsReturn ==
  op \in {"remove", "remove_unuse"} ~> op \in {"none", "undefined"}
=============================================================================
