----------------------- MODULE ParallelRemovalProofs -----------------------
(***************************************************************************)
(* Proofs about ParallelRemoval: for every set of packages, every set of   *)
(* dependency graphs, every number of hardware threads and every           *)
(* interleaving of the marking threads, the colours mark exactly what the  *)
(* users need, no operation takes away what a user needs, and both         *)
(* operations implement the atomic ones of RemovalSpec.                    *)
(***************************************************************************)
EXTENDS ParallelRemoval, TLAPS

-----------------------------------------------------------------------------
(* What a walk of the graph reaches: the least set of packages that has the *)
(* starting points and the dependencies of its members                      *)

\* A walk of the graph reaches the packages it starts from.
LEMMA ReachContains ==
  ASSUME NEW E, NEW S \in SUBSET Package
  PROVE  S \subseteq Reach(E, S) /\ Reach(E, S) \subseteq Package
BY DEF Reach

\* A walk that reaches a package reaches all its dependencies.
LEMMA ReachClosed ==
  ASSUME NEW E \in Graph, NEW S \in SUBSET Package
  PROVE  Closed(E, Reach(E, S))
<1> SUFFICES ASSUME NEW p \in Reach(E, S), NEW q \in E[p]
             PROVE  q \in Reach(E, S)
  BY DEF Closed
<1>1. p \in Package /\ q \in Package
  BY DEF Graph, Reach
<1>2. ASSUME NEW C \in SUBSET Package, S \subseteq C, Closed(E, C)
      PROVE  q \in C
  <2>1. p \in C
    BY <1>2 DEF Reach
  <2> QED
    BY <2>1, <1>2 DEF Closed
<1> QED
  BY <1>1, <1>2 DEF Reach

\* A walk stays inside every closed set that contains its starting points.
LEMMA ReachLeast ==
  ASSUME NEW E, NEW S, NEW C \in SUBSET Package, S \subseteq C, Closed(E, C)
  PROVE  Reach(E, S) \subseteq C
BY DEF Reach

\* A walk from fewer packages reaches no more.
LEMMA ReachMonotone ==
  ASSUME NEW E, NEW S, NEW T, S \subseteq T
  PROVE  Reach(E, S) \subseteq Reach(E, T)
BY DEF Reach

\* A set that is closed is what a walk from it reaches.
LEMMA ReachOfClosed ==
  ASSUME NEW E, NEW C \in SUBSET Package, Closed(E, C)
  PROVE  Reach(E, C) = C
BY ReachContains, ReachLeast

\* A walk that never meets a closed set from outside stays outside it: when
\* the edges are cut down to those within S, only members of S are reached.
LEMMA ReachWithin ==
  ASSUME NEW E, NEW S \in SUBSET Package, NEW T \in SUBSET S
  PROVE  Reach(Within(E, S), T) \subseteq S
<1>1. Closed(Within(E, S), S)
  BY DEF Closed, Within
<1> QED
  BY <1>1, ReachLeast

-----------------------------------------------------------------------------
(* Types *)

USE GraphsAssumption, NoPackageAssumption, HardwareThreadsAssumption

\* The stack of a running thread has a top, and what is below it is a stack.
LEMMA RunningStack ==
  ASSUME TypeOK, NEW t \in Thread, Running(t)
  PROVE  /\ Len(stack[t]) \in Nat \ {0}
         /\ Top(t) \in Frame
         /\ Below(t) \in Seq(Frame)
         /\ Len(Below(t)) = Len(stack[t]) - 1
         /\ \A i \in 1..(Len(stack[t]) - 1) : Below(t)[i] = stack[t][i]
<1>1. stack[t] \in Seq(Frame) /\ stack[t] # <<>>
  BY DEF TypeOK, Running
<1>2. Len(stack[t]) \in Nat \ {0}
  BY <1>1
<1> QED
  BY <1>1, <1>2 DEF Top, Below

\* A visit of a package of the graph is a frame.
LEMMA VisitType ==
  ASSUME TypeOK, NEW p \in Package
  PROVE  Visit(p) \in Frame
BY DEF TypeOK, Graph, Visit, Frame

LEMMA BatchSize == OptimalThreads \in Nat \ {0}
BY DEF OptimalThreads

\* Every step of the operations keeps the types of the variables.
LEMMA TypeInitial == Init => TypeOK
<1> SUFFICES ASSUME Init PROVE TypeOK
  OBVIOUS
<1> QED
  BY DEF Init, SpecInit, TypeOK, Thread, AllWhite, Colour, Joined, Running

LEMMA TypeStep == TypeOK /\ [Next]_vars => TypeOK'
<1> SUFFICES ASSUME TypeOK, [Next]_vars PROVE TypeOK'
  OBVIOUS
<1> USE DEF TypeOK
<1>1. ASSUME NEW p \in Package, RemoveUnknown(p) PROVE TypeOK'
  BY <1>1 DEF RemoveUnknown, AskUnknown, mainVars, threadVars, Joined, Running
<1>2. ASSUME NEW p \in Package, BeginRemove(p) PROVE TypeOK'
  BY <1>2 DEF BeginRemove, AskRemove, threadVars, Joined, Running
<1>3. CASE BeginRemoveUnuse
  BY <1>3 DEF BeginRemoveUnuse, AskRemoveUnuse, threadVars, Joined, Running,
              Colour, Users
<1>4. ASSUME NEW p \in Package, PassPackage(p) PROVE TypeOK'
  BY <1>4 DEF PassPackage, specVars, threadVars
<1>5. ASSUME NEW p \in Package, ColourUser(p) PROVE TypeOK'
  BY <1>5 DEF ColourUser, specVars, threadVars, Colour, Graph
<1>6. ASSUME NEW p \in Package, StartVisit(p) PROVE TypeOK'
  BY <1>6, VisitType DEF StartVisit, Start, specVars, Thread
<1>7. ASSUME NEW p \in Package, SkipVisit(p) PROVE TypeOK'
  BY <1>7 DEF SkipVisit, specVars, threadVars
<1>8. ASSUME NEW p \in Package, StartTask(p) PROVE TypeOK'
  BY <1>8, VisitType DEF StartTask, Start, specVars, Thread
<1>9. CASE EraseTarget
  BY <1>9 DEF EraseTarget, RemoveMarked, Leave, Return, threadVars, AllWhite,
              Colour, Joined, Running
<1>10. CASE RefuseTarget
  BY <1>10 DEF RefuseTarget, RemoveMarked, Leave, Return, threadVars, AllWhite,
               Colour, Joined, Running
<1>11. CASE JoinBatch
  BY <1>11 DEF JoinBatch, specVars, threadVars, Marked
<1>12. CASE Sweep
  BY <1>12 DEF Sweep, UnuseMarked, Leave, Return, threadVars, AllWhite, White,
               Colour, Joined, Running
<1>13. ASSUME NEW t \in Thread, ThreadStep(t) PROVE TypeOK'
  <2>0. op \notin {"none", "undefined"} /\ Running(t)
    BY <1>13 DEF ThreadStep, Enter, Descend, Skip, Finish, Joined
  <2> USE <2>0, RunningStack
  <2>1. CASE Enter(t)
    <3>1. Entered(t) \in Frame
      BY DEF Entered, Frame
    <3>2. Replaced(t, Entered(t)) \in Seq(Frame)
      BY <3>1 DEF Replaced
    <3> QED
      BY <2>1, <3>2 DEF Enter, Learn, Frame, Colour, specVars, mainVars
  <2>2. ASSUME NEW d \in Package, Descend(t, d) PROVE TypeOK'
    <3>1. Looked(t, d) \in Frame /\ Visit(d) \in Frame
      BY VisitType DEF Looked, Frame
    <3>2. Append(Replaced(t, Looked(t, d)), Visit(d)) \in Seq(Frame)
      BY <3>1 DEF Replaced
    <3> QED
      BY <2>2, <3>2 DEF Descend, specVars, mainVars
  <2>3. ASSUME NEW d \in Package, Skip(t, d) PROVE TypeOK'
    <3>1. Looked(t, d) \in Frame
      BY DEF Looked, Frame
    <3>2. Replaced(t, Looked(t, d)) \in Seq(Frame)
      BY <3>1 DEF Replaced
    <3> QED
      BY <2>3, <3>2 DEF Skip, Learn, specVars, mainVars
  <2>4. CASE Finish(t)
    BY <2>4 DEF Finish, Frame, Colour, specVars, mainVars
  <2> QED
    BY <1>13, <2>1, <2>2, <2>3, <2>4 DEF ThreadStep
<1>14. CASE UNCHANGED vars
  BY <1>14 DEF vars, specVars, mainVars, threadVars, Joined, Running
<1>15. CASE Race
  BY <1>15 DEF Race, AllWhite, Colour, Joined, Running
<1> QED
  BY <1>1, <1>2, <1>3, <1>4, <1>5, <1>6, <1>7, <1>8, <1>9, <1>10, <1>11,
     <1>12, <1>13, <1>14, <1>15 DEF Next, MainStep, Lost
-----------------------------------------------------------------------------
(* The visits in progress: what the steps of a thread do to them *)

LEMMA VisitsMember ==
  /\ \A f : f \in Visits <=>
       \E t \in Thread : \E i \in 1..Len(stack[t]) : f = stack[t][i]
  /\ \A f : f \in Visits' <=>
       \E t \in Thread : \E i \in 1..Len(stack'[t]) : f = stack'[t][i]
BY DEF Visits

\* When one running thread replaces its innermost visit by others, only that
\* visit can leave the visits in progress and only the others can come in.
LEMMA VisitsReplaced ==
  ASSUME TypeOK, NEW t \in Thread, Running(t), NEW s \in Seq(Frame),
         Len(s) >= Len(stack[t]) - 1,
         \A i \in 1..(Len(stack[t]) - 1) : s[i] = stack[t][i],
         stack' = [stack EXCEPT ![t] = s]
  PROVE  /\ \A f \in Visits : f \in Visits' \/ f = Top(t)
         /\ \A f \in Visits' :
              f \in Visits \/ \E i \in Len(stack[t])..Len(s) : f = s[i]
         /\ \A i \in Len(stack[t])..Len(s) : s[i] \in Visits'
         /\ Top(t) \in Visits
<1> DEFINE n == Len(stack[t])
<1>1. n \in Nat \ {0} /\ Len(s) \in Nat /\ stack \in [Thread -> Seq(Frame)]
  BY RunningStack DEF TypeOK
<1>2. stack'[t] = s /\ \A u \in Thread \ {t} : stack'[u] = stack[u]
  BY <1>1
<1>3. ASSUME NEW f \in Visits PROVE f \in Visits' \/ f = Top(t)
  <2>0. PICK u \in Thread : \E i \in 1..Len(stack[u]) : f = stack[u][i]
    BY VisitsMember
  <2>1. PICK i \in 1..Len(stack[u]) : f = stack[u][i]
    BY <2>0
  <2>2. CASE u # t
    BY <2>1, <2>2, <1>2, VisitsMember
  <2>3. CASE u = t /\ i = n
    BY <2>1, <2>3 DEF Top
  <2>4. CASE u = t /\ i # n
    <3>1. i \in 1..(n - 1) /\ i \in 1..Len(s)
      BY <2>4, <1>1
    <3> QED
      BY <2>1, <2>4, <3>1, <1>2, VisitsMember
  <2> QED
    BY <2>2, <2>3, <2>4
<1>4. ASSUME NEW f \in Visits'
      PROVE  f \in Visits \/ \E i \in n..Len(s) : f = s[i]
  <2>0. PICK u \in Thread : \E i \in 1..Len(stack'[u]) : f = stack'[u][i]
    BY VisitsMember
  <2>1. PICK i \in 1..Len(stack'[u]) : f = stack'[u][i]
    BY <2>0
  <2>2. CASE u # t
    BY <2>1, <2>2, <1>2, VisitsMember
  <2>3. CASE u = t /\ i \in n..Len(s)
    BY <2>1, <2>3, <1>2
  <2>4. CASE u = t /\ i \notin n..Len(s)
    <3>1. i \in 1..(n - 1) /\ i \in 1..n
      BY <2>1, <2>4, <1>1, <1>2
    <3> QED
      BY <2>1, <2>4, <3>1, <1>2, VisitsMember
  <2> QED
    BY <2>2, <2>3, <2>4
<1>5. ASSUME NEW i \in n..Len(s) PROVE s[i] \in Visits'
  <2>1. i \in 1..Len(stack'[t])
    BY <1>1, <1>2
  <2> QED
    BY <2>1, <1>2, VisitsMember
<1>6. Top(t) \in Visits
  <2>1. n \in 1..n
    BY <1>1
  <2> QED
    BY <2>1, VisitsMember DEF Top
<1> QED
  BY <1>3, <1>4, <1>5, <1>6

\* The grey store: the innermost visit goes on as an entered one.
LEMMA VisitsEnter ==
  ASSUME TypeOK, NEW t \in Thread, Enter(t)
  PROVE  /\ \A f \in Visits : f \in Visits' \/ f = Top(t)
         /\ \A f \in Visits' : f \in Visits \/ f = Entered(t)
         /\ Entered(t) \in Visits' /\ Top(t) \in Visits
<1> DEFINE s == Replaced(t, Entered(t))
<1>1. Running(t) /\ Entered(t) \in Frame
  BY RunningStack DEF Enter, Entered, Frame
<1>2. /\ s \in Seq(Frame) /\ Len(s) = Len(stack[t]) /\ s[Len(s)] = Entered(t)
      /\ \A i \in 1..(Len(stack[t]) - 1) : s[i] = stack[t][i]
      /\ Len(stack[t]) \in Nat \ {0}
  BY <1>1, RunningStack DEF Replaced
<1>3. stack' = [stack EXCEPT ![t] = s]
  BY DEF Enter
<1> HIDE DEF s
<1>4. \A i \in Len(stack[t])..Len(s) : i = Len(s)
  BY <1>2
<1>5. Len(s) \in Len(stack[t])..Len(s) /\ Len(s) >= Len(stack[t]) - 1
  BY <1>2
<1>6. /\ \A f \in Visits : f \in Visits' \/ f = Top(t)
      /\ \A f \in Visits' :
           f \in Visits \/ \E i \in Len(stack[t])..Len(s) : f = s[i]
      /\ \A i \in Len(stack[t])..Len(s) : s[i] \in Visits'
      /\ Top(t) \in Visits
  BY <1>1, <1>2, <1>3, <1>5, VisitsReplaced
<1> QED
  BY <1>2, <1>4, <1>5, <1>6

\* A load that starts a visit: the innermost visit goes on with one dependency
\* less, and the visit of that dependency comes in.
LEMMA VisitsDescend ==
  ASSUME TypeOK, NEW t \in Thread, NEW d \in Package, Descend(t, d)
  PROVE  /\ \A f \in Visits : f \in Visits' \/ f = Top(t)
         /\ \A f \in Visits' : f \in Visits \/ f \in {Looked(t, d), Visit(d)}
         /\ {Looked(t, d), Visit(d)} \subseteq Visits' /\ Top(t) \in Visits
<1> DEFINE s == Append(Replaced(t, Looked(t, d)), Visit(d))
           n == Len(stack[t])
<1>1. Running(t) /\ Looked(t, d) \in Frame /\ Visit(d) \in Frame
  BY RunningStack, VisitType DEF Descend, Looked, Frame
<1>2. /\ s \in Seq(Frame) /\ Len(s) = n + 1
      /\ s[n] = Looked(t, d) /\ s[n + 1] = Visit(d)
      /\ \A i \in 1..(n - 1) : s[i] = stack[t][i]
      /\ n \in Nat \ {0}
  BY <1>1, RunningStack DEF Replaced
<1>3. stack' = [stack EXCEPT ![t] = s]
  BY DEF Descend
<1> HIDE DEF s
<1>4. \A i \in n..Len(s) : s[i] \in {Looked(t, d), Visit(d)}
  BY <1>2
<1>5. n \in n..Len(s) /\ n + 1 \in n..Len(s) /\ Len(s) >= n - 1
  BY <1>2
<1>6. /\ \A f \in Visits : f \in Visits' \/ f = Top(t)
      /\ \A f \in Visits' :
           f \in Visits \/ \E i \in Len(stack[t])..Len(s) : f = s[i]
      /\ \A i \in Len(stack[t])..Len(s) : s[i] \in Visits'
      /\ Top(t) \in Visits
  BY <1>1, <1>2, <1>3, <1>5, VisitsReplaced
<1> QED
  BY <1>2, <1>4, <1>5, <1>6

\* A load that starts no visit: the innermost visit goes on with one
\* dependency less.
LEMMA VisitsSkip ==
  ASSUME TypeOK, NEW t \in Thread, NEW d \in Package, Skip(t, d)
  PROVE  /\ \A f \in Visits : f \in Visits' \/ f = Top(t)
         /\ \A f \in Visits' : f \in Visits \/ f = Looked(t, d)
         /\ Looked(t, d) \in Visits' /\ Top(t) \in Visits
<1> DEFINE s == Replaced(t, Looked(t, d))
<1>1. Running(t) /\ Looked(t, d) \in Frame
  BY RunningStack DEF Skip, Looked, Frame
<1>2. /\ s \in Seq(Frame) /\ Len(s) = Len(stack[t])
      /\ s[Len(s)] = Looked(t, d)
      /\ \A i \in 1..(Len(stack[t]) - 1) : s[i] = stack[t][i]
      /\ Len(stack[t]) \in Nat \ {0}
  BY <1>1, RunningStack DEF Replaced
<1>3. stack' = [stack EXCEPT ![t] = s]
  BY DEF Skip
<1> HIDE DEF s
<1>4. \A i \in Len(stack[t])..Len(s) : i = Len(s)
  BY <1>2
<1>5. Len(s) \in Len(stack[t])..Len(s) /\ Len(s) >= Len(stack[t]) - 1
  BY <1>2
<1>6. /\ \A f \in Visits : f \in Visits' \/ f = Top(t)
      /\ \A f \in Visits' :
           f \in Visits \/ \E i \in Len(stack[t])..Len(s) : f = s[i]
      /\ \A i \in Len(stack[t])..Len(s) : s[i] \in Visits'
      /\ Top(t) \in Visits
  BY <1>1, <1>2, <1>3, <1>5, VisitsReplaced
<1> QED
  BY <1>2, <1>4, <1>5, <1>6

\* A visit returns: it leaves the visits in progress.
LEMMA VisitsFinish ==
  ASSUME TypeOK, NEW t \in Thread, Finish(t)
  PROVE  /\ \A f \in Visits : f \in Visits' \/ f = Top(t)
         /\ \A f \in Visits' : f \in Visits
         /\ Top(t) \in Visits
<1>1. Running(t) /\ stack' = [stack EXCEPT ![t] = Below(t)]
  BY DEF Finish
<1>2. /\ Below(t) \in Seq(Frame) /\ Len(Below(t)) = Len(stack[t]) - 1
      /\ \A i \in 1..(Len(stack[t]) - 1) : Below(t)[i] = stack[t][i]
      /\ Len(stack[t]) \in Nat \ {0}
  BY <1>1, RunningStack
<1>3. \A i \in Len(stack[t])..Len(Below(t)) : FALSE
  BY <1>2
<1>4. Len(Below(t)) >= Len(stack[t]) - 1
  BY <1>2
<1> QED
  BY <1>1, <1>2, <1>3, <1>4, VisitsReplaced

\* A thread that was not running is started: its first visit comes in.
LEMMA VisitsStart ==
  ASSUME TypeOK, NEW t \in Thread, ~Running(t), NEW p \in Package, Start(t, p)
  PROVE  Visits' = Visits \cup {Visit(p)}
<1>1. stack[t] = <<>> /\ stack' = [stack EXCEPT ![t] = <<Visit(p)>>]
  BY DEF Running, Start
<1>2. /\ stack'[t] = <<Visit(p)>> /\ \A u \in Thread \ {t} : stack'[u] = stack[u]
  BY <1>1 DEF TypeOK
<1>3. Len(stack[t]) = 0 /\ Len(<<Visit(p)>>) = 1 /\ <<Visit(p)>>[1] = Visit(p)
  BY <1>1
<1>4. Visit(p) \in Visits'
  <2>1. 1 \in 1..Len(stack'[t]) /\ stack'[t][1] = Visit(p)
    BY <1>2, <1>3
  <2> QED
    BY <2>1, VisitsMember
<1>5. ASSUME NEW f \in Visits PROVE f \in Visits'
  <2>0. PICK u \in Thread : \E i \in 1..Len(stack[u]) : f = stack[u][i]
    BY VisitsMember
  <2>1. PICK i \in 1..Len(stack[u]) : f = stack[u][i]
    BY <2>0
  <2>2. u # t
    BY <2>1, <1>3
  <2> QED
    BY <2>1, <2>2, <1>2, VisitsMember
<1>6. ASSUME NEW f \in Visits' PROVE f \in Visits \cup {Visit(p)}
  <2>0. PICK u \in Thread : \E i \in 1..Len(stack'[u]) : f = stack'[u][i]
    BY VisitsMember
  <2>1. PICK i \in 1..Len(stack'[u]) : f = stack'[u][i]
    BY <2>0
  <2>2. CASE u # t
    BY <2>1, <2>2, <1>2, VisitsMember
  <2>3. CASE u = t
    BY <2>1, <2>3, <1>2, <1>3
  <2> QED
    BY <2>2, <2>3
<1> QED
  BY <1>4, <1>5, <1>6
-----------------------------------------------------------------------------
(* Marking *)

\* No visit is in progress exactly when all threads are joined.
LEMMA JoinedNoVisits ==
  ASSUME TypeOK, Joined
  PROVE  Visits = {}
<1> SUFFICES ASSUME NEW f \in Visits PROVE FALSE
  OBVIOUS
<1>1. PICK t \in Thread : \E i \in 1..Len(stack[t]) : f = stack[t][i]
  BY VisitsMember
<1>2. stack[t] = <<>>
  BY DEF Joined, Running
<1> QED
  BY <1>1, <1>2

\* Every visit in progress is one of a package.
LEMMA VisitsType ==
  ASSUME TypeOK
  PROVE  Visits \subseteq Frame
<1> SUFFICES ASSUME NEW f \in Visits PROVE f \in Frame
  OBVIOUS
<1>1. PICK t \in Thread : \E i \in 1..Len(stack[t]) : f = stack[t][i]
  BY VisitsMember
<1>2. stack[t] \in Seq(Frame)
  BY DEF TypeOK
<1> QED
  BY <1>1, <1>2

\* At the join, the marked packages are those the users need: nothing that is
\* marked has a dependency left to look at, so they form a closed set.
LEMMA MarkedAtJoin == MarkInv => MarkedExactly
<1> SUFFICES ASSUME MarkInv, RemoveMarked \/ UnuseMarked
             PROVE  Marked = Reach(deps, Users)
  BY DEF MarkedExactly
<1>1. /\ TypeOK /\ Visits = {} /\ edges = {} /\ tasks = {} /\ todo = {}
      /\ op \in {"remove", "remove_unuse"}
  BY JoinedNoVisits DEF RemoveMarked, UnuseMarked, MarkInv, TypeOK
<1>2. Closed(deps, Marked)
  <2> SUFFICES ASSUME NEW p \in Marked, NEW q \in deps[p] PROVE q \in Marked
    BY DEF Closed
  <2> QED
    BY <1>1 DEF MarkInv, NoneForgotten, Pending
<1>3. Users \subseteq Marked
  BY <1>1 DEF MarkInv, UsersMarked, RemoveMarked, UnuseMarked
<1>4. Reach(deps, Users) \subseteq Marked
  BY <1>2, <1>3, ReachLeast DEF Marked
<1> QED
  BY <1>1, <1>4 DEF MarkInv, OnlyNeeded

LEMMA MarkInitial == Init => MarkInv
<1> SUFFICES ASSUME Init PROVE MarkInv
  OBVIOUS
<1>1. TypeOK
  BY TypeInitial
<1>2. op = "none" /\ colour = AllWhite /\ Joined /\ edges = {}
  BY DEF Init, SpecInit, Joined, Running
<1>3. Visits = {} /\ Marked = {}
  BY <1>1, <1>2, JoinedNoVisits DEF Marked, White, AllWhite
<1> QED
  BY <1>1, <1>2, <1>3 DEF MarkInv, NoColoursIdle, StartsFresh,
     VisitsComplete, OnlyNeeded, NoneForgotten, UsersMarked, TableFilled,
     RacesNeedGaps

\* A step of a marking thread.
LEMMA MarkThreadStep ==
  ASSUME MarkInv, NEW t \in Thread, ThreadStep(t)
  PROVE  MarkInv'
<1> USE DEF MarkInv
<1>1. TypeOK'
  BY TypeStep DEF Next
<1>2. /\ Running(t) /\ op \in {"remove", "remove_unuse"}
      /\ specVars' = specVars /\ table \subseteq table'
      /\ mainVars' = mainVars
      /\ \A u \in Thread : u # t => stack'[u] = stack[u]
  BY DEF ThreadStep, Enter, Descend, Skip, Finish, Joined, TypeOK
<1>3. Users' = Users /\ deps' = deps /\ op' = op
  BY <1>2 DEF Users, specVars
<1>4. Top(t) \in Frame /\ deps \in Graph /\ Top(t) \in Visits
  BY <1>2, RunningStack, VisitsEnter, VisitsDescend, VisitsSkip, VisitsFinish
     DEF TypeOK, ThreadStep
<1>5. NoColoursIdle'
  BY <1>2, <1>3 DEF NoColoursIdle
<1>6. StartsFresh'
  <2>1. \A r, d \in Package : Running(<<r, d>>)' => Running(<<r, d>>)
    BY <1>2 DEF Running, Thread
  <2> QED
    BY <2>1, <1>2, <1>3 DEF StartsFresh, mainVars
<1>7. TableFilled' /\ RacesNeedGaps'
  BY <1>2 DEF TableFilled, RacesNeedGaps, specVars
<1>8. Marked \subseteq Marked' /\ Marked' \subseteq Marked \cup {Top(t).node}
  BY <1>4 DEF Marked, White, ThreadStep, Enter, Descend, Skip, Finish, TypeOK,
              Frame
<1>9. UsersMarked'
  BY <1>2, <1>3, <1>8 DEF UsersMarked, mainVars
<1>10. Top(t).node \in Reach(deps, Users)
  BY <1>2, <1>4 DEF OnlyNeeded
<1>11. Closed(deps, Reach(deps, Users))
  BY <1>4, ReachClosed DEF TypeOK, Users
<1>12. edges' = edges /\ root' = root /\ tasks' = tasks
  BY <1>2 DEF mainVars
<1>13. CASE Enter(t)
  <2> DEFINE p == Top(t).node
  <2>1. /\ \A f \in Visits : f \in Visits' \/ f = Top(t)
        /\ \A f \in Visits' : f \in Visits \/ f = Entered(t)
        /\ Entered(t) \in Visits'
    BY <1>13, VisitsEnter
  <2>2. /\ ~Top(t).entered /\ Top(t).todo = deps[p] /\ p \in Package
        /\ Entered(t).node = p /\ Entered(t).entered
        /\ Entered(t).todo = deps[p]
    BY <1>4, <1>13 DEF VisitsComplete, Enter, Entered, Frame
  <2>3. p \in Marked'
    BY <1>13, <2>2 DEF Enter, Marked, White, TypeOK
  <2>4. VisitsComplete'
    BY <1>3, <1>8, <2>1, <2>2, <2>3 DEF VisitsComplete
  <2>5. OnlyNeeded'
    BY <1>3, <1>8, <1>10, <1>12, <2>1, <2>2 DEF OnlyNeeded
  <2>6. NoneForgotten'
    <3> SUFFICES ASSUME NEW x \in Marked', NEW y \in deps[x]
                 PROVE  y \in Marked' \/ Pending(x, y)'
      BY <1>3 DEF NoneForgotten
    <3>1. CASE x = p
      BY <2>1, <2>2, <3>1 DEF Pending
    <3>2. CASE x # p
      <4>1. x \in Marked
        BY <1>8, <3>2
      <4> QED
        BY <4>1, <1>8, <1>12, <2>1, <2>2, <2>3, <3>2 DEF NoneForgotten, Pending
    <3> QED
      BY <3>1, <3>2
  <2> QED
    BY <1>1, <1>5, <1>6, <1>7, <1>9, <2>4, <2>5, <2>6
<1>14. ASSUME NEW d \in Package, Descend(t, d) PROVE MarkInv'
  <2> DEFINE p == Top(t).node
  <2>1. /\ \A f \in Visits : f \in Visits' \/ f = Top(t)
        /\ \A f \in Visits' : f \in Visits \/ f \in {Looked(t, d), Visit(d)}
        /\ {Looked(t, d), Visit(d)} \subseteq Visits'
    BY <1>14, VisitsDescend
  <2>2. /\ Top(t).entered /\ d \in deps[p] /\ p \in Marked
        /\ Top(t).todo \subseteq deps[p]
        /\ Looked(t, d).node = p /\ Looked(t, d).entered
        /\ Looked(t, d).todo = Top(t).todo \ {d}
        /\ Visit(d).node = d /\ ~Visit(d).entered /\ Visit(d).todo = deps[d]
    BY <1>4, <1>14 DEF VisitsComplete, Descend, Looked, Visit
  <2>3. d \in Reach(deps, Users)
    BY <1>10, <1>11, <2>2 DEF Closed
  <2>4. VisitsComplete'
    BY <1>3, <1>8, <2>1, <2>2 DEF VisitsComplete
  <2>5. OnlyNeeded'
    <3>1. Marked' = Marked
      BY <1>14 DEF Descend, Marked, White
    <3> QED
      BY <1>3, <1>10, <1>12, <2>1, <2>2, <2>3, <3>1 DEF OnlyNeeded
  <2>6. NoneForgotten'
    <3> SUFFICES ASSUME NEW x \in Marked', NEW y \in deps[x]
                 PROVE  y \in Marked' \/ Pending(x, y)'
      BY <1>3 DEF NoneForgotten
    <3>1. x \in Marked
      BY <1>8, <2>2
    <3>2. CASE y \in Marked
      BY <1>8, <3>2
    <3>3. CASE Pending(x, y)
      BY <1>12, <2>1, <2>2, <3>3 DEF Pending
    <3> QED
      BY <3>1, <3>2, <3>3 DEF NoneForgotten
  <2> QED
    BY <1>1, <1>5, <1>6, <1>7, <1>9, <2>4, <2>5, <2>6
<1>15. ASSUME NEW d \in Package, Skip(t, d) PROVE MarkInv'
  <2> DEFINE p == Top(t).node
  <2>1. /\ \A f \in Visits : f \in Visits' \/ f = Top(t)
        /\ \A f \in Visits' : f \in Visits \/ f = Looked(t, d)
        /\ Looked(t, d) \in Visits'
    BY <1>15, VisitsSkip
  <2>2. /\ Top(t).entered /\ p \in Marked /\ d \in Marked
        /\ Top(t).todo \subseteq deps[p]
        /\ Looked(t, d).node = p /\ Looked(t, d).entered
        /\ Looked(t, d).todo = Top(t).todo \ {d}
    BY <1>4, <1>15 DEF VisitsComplete, Skip, Looked, Marked, White
  <2>3. Marked' = Marked
    BY <1>15 DEF Skip, Marked, White
  <2>4. VisitsComplete'
    BY <1>3, <2>1, <2>2, <2>3 DEF VisitsComplete
  <2>5. OnlyNeeded'
    BY <1>3, <1>10, <1>12, <2>1, <2>2, <2>3 DEF OnlyNeeded
  <2>6. NoneForgotten'
    BY <1>3, <1>12, <2>1, <2>2, <2>3 DEF NoneForgotten, Pending
  <2> QED
    BY <1>1, <1>5, <1>6, <1>7, <1>9, <2>4, <2>5, <2>6
<1>16. CASE Finish(t)
  <2> DEFINE p == Top(t).node
  <2>1. /\ \A f \in Visits : f \in Visits' \/ f = Top(t)
        /\ \A f \in Visits' : f \in Visits
    BY <1>16, VisitsFinish
  <2>2. Top(t).entered /\ p \in Marked /\ Top(t).todo = {}
    BY <1>4, <1>16 DEF VisitsComplete, Finish
  <2>3. Marked' = Marked
    BY <1>8, <2>2
  <2>4. VisitsComplete'
    BY <1>3, <2>1, <2>3 DEF VisitsComplete
  <2>5. OnlyNeeded'
    BY <1>3, <1>12, <2>1, <2>3 DEF OnlyNeeded
  <2>6. NoneForgotten'
    BY <1>3, <1>12, <2>1, <2>2, <2>3 DEF NoneForgotten, Pending
  <2> QED
    BY <1>1, <1>5, <1>6, <1>7, <1>9, <2>4, <2>5, <2>6
<1> QED
  BY <1>13, <1>14, <1>15, <1>16 DEF ThreadStep

\* What remove erases lies outside what the other users need.
LEMMA ErasedIsUnneeded ==
  ASSUME MarkInv, RemoveMarked, colour[target] = "white"
  PROVE  /\ EraseVisit(target) \cap Reach(deps, Users) = {}
         /\ target \in EraseVisit(target)
         /\ target \in Package
<1>1. target \in Package /\ Marked = Reach(deps, Users)
  BY MarkedAtJoin DEF MarkInv, TypeOK, RemoveMarked, MarkedExactly
<1> DEFINE S == (White \ using) \cup {target}
<1>2. S \in SUBSET Package /\ {target} \in SUBSET S /\ S \cap Marked = {}
  BY <1>1 DEF White, Marked
<1>3. EraseVisit(target) \subseteq S
  BY <1>2, ReachWithin DEF EraseVisit
<1>4. target \in EraseVisit(target)
  BY <1>1, ReachContains DEF EraseVisit
<1> QED
  BY <1>1, <1>2, <1>3, <1>4

\* When an operation returns there is nothing marked and nothing in progress.
LEMMA MarkReturn ==
  ASSUME MarkInv, TypeOK', NEW result, Leave(result), Joined,
         todo = {}, edges = {}
  PROVE  MarkInv'
<1>1. /\ op' = "none" /\ colour' = AllWhite /\ Joined' /\ edges' = {}
  BY DEF Leave, Return, threadVars, Joined, Running
<1>2. Visits' = {}
  <2>1. Visits = {} /\ stack' = stack
    BY JoinedNoVisits DEF MarkInv, Leave, threadVars
  <2>2. Visits' = Visits
    BY <2>1 DEF Visits
  <2> QED
    BY <2>1, <2>2
<1>3. Marked' = {}
  BY <1>1 DEF Marked, White, AllWhite
<1> QED
  BY <1>1, <1>2, <1>3 DEF MarkInv, NoColoursIdle, StartsFresh, VisitsComplete,
     OnlyNeeded, NoneForgotten, UsersMarked, TableFilled, RacesNeedGaps,
     Joined, Running, Thread

\* A step of the main thread.
LEMMA MarkMainStep ==
  ASSUME MarkInv, MainStep
  PROVE  MarkInv'
<1> USE DEF MarkInv
<1>1. TypeOK'
  BY TypeStep DEF Next
<1>2. ASSUME NEW p \in Package, PassPackage(p) PROVE MarkInv'
  <2>1. /\ deps' = deps /\ installed' = installed /\ using' = using /\ op' = op
        /\ table \subseteq table' /\ op # "undefined"
        /\ target' = target /\ colour' = colour /\ stack' = stack
        /\ root' = root /\ edges' = edges /\ tasks' = tasks
        /\ todo' = todo \ {p} /\ p \notin Users
    BY <1>2 DEF PassPackage, specVars, threadVars, Users
  <2>2. Users' = Users /\ Marked' = Marked /\ Visits' = Visits
    BY <2>1 DEF Users, Marked, White, Visits
  <2> QED
    BY <1>1, <2>1, <2>2 DEF NoColoursIdle, StartsFresh, VisitsComplete,
       OnlyNeeded, NoneForgotten, Pending, UsersMarked, TableFilled,
       RacesNeedGaps, Running
<1>3. ASSUME NEW p \in Package, ColourUser(p) PROVE MarkInv'
  <2>1. /\ deps' = deps /\ installed' = installed /\ using' = using /\ op' = op
        /\ table \subseteq table' /\ op # "undefined"
        /\ target' = target /\ stack' = stack /\ tasks' = tasks
        /\ op = "remove" /\ edges = {} /\ p \in todo
        /\ root' = p /\ edges' = deps[p] /\ todo' = todo \ {p} /\ p \in Users
    BY <1>3 DEF ColourUser, specVars, threadVars, Users, TypeOK
  <2>2. Users' = Users /\ Visits' = Visits /\ Marked' = Marked \cup {p}
    BY <1>3, <2>1 DEF ColourUser, Users, Marked, White, Visits,
                      TypeOK
  <2>3. p \in Reach(deps, Users)
    BY <2>1, ReachContains DEF TypeOK, Users
  <2>4. StartsFresh'
    BY <2>1 DEF StartsFresh, Running
  <2>5. VisitsComplete'
    BY <2>1, <2>2 DEF VisitsComplete
  <2>6. OnlyNeeded'
    BY <2>1, <2>2, <2>3 DEF OnlyNeeded
  <2>7. NoneForgotten'
    BY <2>1, <2>2 DEF NoneForgotten, Pending
  <2> QED
    BY <1>1, <2>1, <2>2, <2>4, <2>5, <2>6, <2>7 DEF NoColoursIdle, UsersMarked,
       TableFilled, RacesNeedGaps
<1>4. ASSUME NEW d \in Package, StartVisit(d) PROVE MarkInv'
  <2>1. /\ deps' = deps /\ installed' = installed /\ using' = using /\ op' = op
        /\ table \subseteq table' /\ op # "undefined"
        /\ target' = target /\ colour' = colour /\ todo' = todo /\ root' = root
        /\ tasks' = tasks /\ op = "remove" /\ d \in edges
        /\ edges' = edges \ {d} /\ root \in Users /\ d \in deps[root]
        /\ <<root, d>> \in Thread /\ ~Running(<<root, d>>)
        /\ root \in Package /\ Start(<<root, d>>, d)
    BY <1>4 DEF StartVisit, specVars, OnlyNeeded, TypeOK, StartsFresh, Thread
  <2>2. Users' = Users /\ Marked' = Marked
    BY <2>1 DEF Users, Marked, White
  <2>3. Visits' = Visits \cup {Visit(d)}
    BY <2>1, VisitsStart
  <2>4. /\ Visit(d).node = d /\ ~Visit(d).entered /\ Visit(d).todo = deps[d]
    BY DEF Visit
  <2>5. d \in Reach(deps, Users)
    <3>1. root \in Reach(deps, Users) /\ Closed(deps, Reach(deps, Users))
      BY <2>1, ReachContains, ReachClosed DEF TypeOK, Users
    <3> QED
      BY <2>1, <3>1 DEF Closed
  <2>6. StartsFresh'
    <3>1. \A u \in Thread : u # <<root, d>> => stack'[u] = stack[u]
      BY <2>1 DEF Start, TypeOK
    <3>2. ASSUME NEW r \in Package, NEW e \in Package, Running(<<r, e>>)'
          PROVE  r \notin todo' /\ ~(r = root' /\ e \in edges')
      <4>1. CASE r = root /\ e = d
        BY <2>1, <4>1 DEF StartsFresh
      <4>2. CASE ~(r = root /\ e = d)
        <5>1. Running(<<r, e>>)
          BY <3>1, <3>2, <4>2 DEF Running, Thread
        <5> QED
          BY <2>1, <5>1 DEF StartsFresh
      <4> QED
        BY <4>1, <4>2
    <3> QED
      BY <2>1, <3>2 DEF StartsFresh
  <2>7. VisitsComplete'
    BY <2>1, <2>2, <2>3, <2>4 DEF VisitsComplete
  <2>8. OnlyNeeded'
    BY <2>1, <2>2, <2>3, <2>4, <2>5 DEF OnlyNeeded
  <2>9. NoneForgotten'
    BY <2>1, <2>2, <2>3, <2>4 DEF NoneForgotten, Pending
  <2> QED
    BY <1>1, <2>1, <2>2, <2>6, <2>7, <2>8, <2>9 DEF NoColoursIdle, UsersMarked,
       TableFilled, RacesNeedGaps
<1>5. ASSUME NEW d \in Package, SkipVisit(d) PROVE MarkInv'
  <2>1. /\ deps' = deps /\ installed' = installed /\ using' = using /\ op' = op
        /\ table \subseteq table' /\ op # "undefined"
        /\ target' = target /\ colour' = colour /\ stack' = stack
        /\ root' = root /\ edges' = edges \ {d} /\ tasks' = tasks
        /\ todo' = todo /\ d \in Marked
    BY <1>5 DEF SkipVisit, specVars, threadVars, Marked, White
  <2>2. Users' = Users /\ Marked' = Marked /\ Visits' = Visits
    BY <2>1 DEF Users, Marked, White, Visits
  <2> QED
    BY <1>1, <2>1, <2>2 DEF NoColoursIdle, StartsFresh, VisitsComplete,
       OnlyNeeded, NoneForgotten, Pending, UsersMarked, TableFilled,
       RacesNeedGaps, Running
<1>6. ASSUME NEW p \in Package, StartTask(p) PROVE MarkInv'
  <2>1. /\ deps' = deps /\ installed' = installed /\ using' = using /\ op' = op
        /\ table \subseteq table' /\ op # "undefined"
        /\ target' = target /\ colour' = colour /\ todo' = todo /\ root' = root
        /\ edges' = edges /\ op = "remove_unuse" /\ p \in tasks
        /\ tasks' = tasks \ {p} /\ p \in Users /\ edges = {}
        /\ <<p, p>> \in Thread /\ ~Running(<<p, p>>) /\ Start(<<p, p>>, p)
    BY <1>6 DEF StartTask, specVars, OnlyNeeded, TypeOK, StartsFresh, Thread
  <2>2. Users' = Users /\ Marked' = Marked
    BY <2>1 DEF Users, Marked, White
  <2>3. Visits' = Visits \cup {Visit(p)}
    BY <2>1, VisitsStart
  <2>4. /\ Visit(p).node = p /\ ~Visit(p).entered /\ Visit(p).todo = deps[p]
    BY DEF Visit
  <2>5. p \in Reach(deps, Users)
    BY <2>1, ReachContains DEF TypeOK, Users
  <2>6. StartsFresh'
    <3>1. \A u \in Thread : u # <<p, p>> => stack'[u] = stack[u]
      BY <2>1 DEF Start, TypeOK
    <3>2. ASSUME NEW r \in Package, NEW e \in Package, Running(<<r, e>>)'
          PROVE  r = e /\ r \notin tasks'
      <4>1. CASE r = p /\ e = p
        BY <2>1, <4>1
      <4>2. CASE ~(r = p /\ e = p)
        <5>1. Running(<<r, e>>)
          BY <3>1, <3>2, <4>2 DEF Running, Thread
        <5> QED
          BY <2>1, <5>1 DEF StartsFresh
      <4> QED
        BY <4>1, <4>2
    <3> QED
      BY <2>1, <3>2 DEF StartsFresh
  <2>7. VisitsComplete'
    BY <2>1, <2>2, <2>3, <2>4 DEF VisitsComplete
  <2>8. OnlyNeeded'
    BY <2>1, <2>2, <2>3, <2>4, <2>5 DEF OnlyNeeded
  <2>9. NoneForgotten'
    BY <2>1, <2>2, <2>3, <2>4 DEF NoneForgotten, Pending
  <2> QED
    BY <1>1, <2>1, <2>2, <2>6, <2>7, <2>8, <2>9 DEF NoColoursIdle, UsersMarked,
       TableFilled, RacesNeedGaps
<1>7. CASE EraseTarget
  BY <1>1, <1>7, MarkReturn DEF EraseTarget, RemoveMarked
<1>8. CASE RefuseTarget
  BY <1>1, <1>8, MarkReturn DEF RefuseTarget, RemoveMarked
<1>9. CASE JoinBatch
  <2>1. /\ deps' = deps /\ installed' = installed /\ using' = using /\ op' = op
        /\ table' = table /\ op # "undefined"
        /\ target' = target /\ colour' = colour /\ stack' = stack
        /\ root' = root /\ edges' = edges /\ tasks' = tasks /\ todo' = todo
    BY <1>9 DEF JoinBatch, specVars, threadVars
  <2>2. Users' = Users /\ Marked' = Marked /\ Visits' = Visits
    BY <2>1 DEF Users, Marked, White, Visits
  <2> QED
    BY <1>1, <2>1, <2>2 DEF NoColoursIdle, StartsFresh, VisitsComplete,
       OnlyNeeded, NoneForgotten, Pending, UsersMarked, TableFilled,
       RacesNeedGaps, Running
<1>10. CASE Sweep
  <2>1. UnuseMarked /\ Leave("swept") /\ todo = {} /\ edges = {}
    BY <1>10 DEF Sweep, UnuseMarked, TypeOK
  <2> QED
    BY <1>1, <2>1, MarkReturn DEF UnuseMarked
<1> QED
  BY <1>2, <1>3, <1>4, <1>5, <1>6, <1>7, <1>8, <1>9, <1>10 DEF MainStep

\* When the map is complete for its users, no look-up in the table inserts.
LEMMA LookupsFind ==
  ASSUME MarkInv, UsersComplete
  PROVE  /\ edges \subseteq table
         /\ \A f \in Visits : f.todo \subseteq table
<1> DEFINE R == Reach(deps, Users)
<1>1. Closed(deps, R) /\ Users \subseteq R
  BY ReachClosed, ReachContains DEF MarkInv, TypeOK, Users
<1>2. CASE op \in {"none", "undefined"}
  <2>1. edges = {} /\ Visits = {}
    BY <1>2, JoinedNoVisits DEF MarkInv, TypeOK
  <2> QED
    BY <2>1
<1>3. CASE op \in {"remove", "remove_unuse"}
  <2>1. R \subseteq table
    BY <1>3 DEF UsersComplete, MarkInv, TableFilled
  <2>2. edges # {} => root \in R /\ edges \subseteq deps[root]
    BY <1>1, <1>3 DEF MarkInv, OnlyNeeded
  <2>3. \A f \in Visits : f.node \in R /\ f.todo \subseteq deps[f.node]
    BY <1>3 DEF MarkInv, OnlyNeeded, VisitsComplete
  <2> QED
    BY <1>1, <2>1, <2>2, <2>3 DEF Closed
<1> QED
  BY <1>2, <1>3 DEF MarkInv, TypeOK

\* So an insertion that meets another access needs a map with a gap.
LEMMA NoInsertion == MarkInv /\ InsertMeetsAccess => ~UsersComplete
<1> SUFFICES ASSUME MarkInv, UsersComplete, InsertMeetsAccess PROVE FALSE
  OBVIOUS
<1>1. PICK t \in Thread : Inserts(t)
  BY LookupsFind DEF InsertMeetsAccess
<1>2. /\ Len(stack[t]) \in 1..Len(stack[t])
      /\ Top(t) = stack[t][Len(stack[t])]
  BY <1>1, RunningStack DEF Inserts, MarkInv, Top
<1>3. Top(t) \in Visits
  BY <1>2, VisitsMember
<1> QED
  BY <1>1, <1>3, LookupsFind DEF Inserts

\* Every step keeps the marking invariant.
LEMMA MarkStep == MarkInv /\ [Next]_vars => MarkInv'
<1> SUFFICES ASSUME MarkInv, [Next]_vars PROVE MarkInv'
  OBVIOUS
<1>1. TypeOK /\ TypeOK'
  BY TypeStep DEF MarkInv
<1>2. ASSUME NEW p \in Package, RemoveUnknown(p) PROVE MarkInv'
  <2>1. /\ deps' = deps /\ installed' = installed /\ using' = using /\ op' = op
        /\ target' = target /\ colour' = colour /\ stack' = stack
        /\ root' = root /\ edges' = edges /\ tasks' = tasks /\ todo' = todo
        /\ table' = table
    BY <1>2 DEF RemoveUnknown, AskUnknown, mainVars, threadVars
  <2>2. Users' = Users /\ Marked' = Marked /\ Visits' = Visits
    BY <2>1 DEF Users, Marked, White, Visits
  <2> QED
    BY <1>1, <2>1, <2>2 DEF MarkInv, NoColoursIdle, StartsFresh,
       VisitsComplete, OnlyNeeded, NoneForgotten, Pending, UsersMarked,
       TableFilled, RacesNeedGaps, UsersComplete, Running
<1>3. ASSUME NEW p \in Package, BeginRemove(p) PROVE MarkInv'
  <2>1. /\ deps' = deps /\ installed' = installed /\ using' = using
        /\ op = "none" /\ op' = "remove" /\ target' = p /\ colour' = colour
        /\ stack' = stack /\ todo' = installed /\ edges' = {} /\ tasks' = {}
        /\ table' = installed /\ Joined
    BY <1>1, <1>3 DEF BeginRemove, AskRemove, threadVars, TypeOK
  <2>2. Visits = {} /\ Visits' = Visits
    <3>1. Visits = {}
      BY <1>1, <2>1, JoinedNoVisits
    <3>2. Visits' = Visits
      BY <2>1 DEF Visits
    <3> QED
      BY <3>1, <3>2
  <2>3. Marked' = {} /\ Users' = (installed \cap using) \ {p}
    BY <2>1 DEF MarkInv, NoColoursIdle, Marked, White, AllWhite, Users
  <2> QED
    BY <1>1, <2>1, <2>2, <2>3 DEF MarkInv, NoColoursIdle, StartsFresh,
       VisitsComplete, OnlyNeeded, NoneForgotten, UsersMarked, TableFilled,
       RacesNeedGaps, Joined, Running, Thread
<1>4. CASE BeginRemoveUnuse
  <2>1. /\ deps' = deps /\ installed' = installed /\ using' = using
        /\ op = "none" /\ op' = "remove_unuse" /\ target' = target
        /\ stack' = stack /\ edges' = {} /\ tasks' = Users /\ Joined
        /\ colour' = [p \in Package |->
                        IF p \in Users THEN "black" ELSE "white"]
        /\ table' = installed
    BY <1>1, <1>4 DEF BeginRemoveUnuse, AskRemoveUnuse, threadVars, TypeOK
  <2>2. Visits = {} /\ Visits' = Visits
    <3>1. Visits = {}
      BY <1>1, <2>1, JoinedNoVisits
    <3>2. Visits' = Visits
      BY <2>1 DEF Visits
    <3> QED
      BY <3>1, <3>2
  <2>3. Users' = Users /\ Users \subseteq Package
    BY <1>1, <2>1 DEF Users, TypeOK
  <2>4. Marked' = Users
    BY <2>1, <2>3 DEF Marked, White
  <2>5. Users \subseteq Reach(deps, Users)
    BY <2>3, ReachContains
  <2> QED
    BY <1>1, <2>1, <2>2, <2>3, <2>4, <2>5 DEF MarkInv, NoColoursIdle,
       StartsFresh, VisitsComplete, OnlyNeeded, NoneForgotten, Pending,
       UsersMarked, TableFilled, RacesNeedGaps, Joined, Running, Thread
<1>5. CASE UNCHANGED vars
  <2>1. /\ deps' = deps /\ installed' = installed /\ using' = using /\ op' = op
        /\ target' = target /\ colour' = colour /\ stack' = stack
        /\ root' = root /\ edges' = edges /\ tasks' = tasks /\ todo' = todo
        /\ table' = table
    BY <1>5 DEF vars, specVars, mainVars, threadVars
  <2>2. Users' = Users /\ Marked' = Marked /\ Visits' = Visits
    BY <2>1 DEF Users, Marked, White, Visits
  <2> QED
    BY <1>1, <2>1, <2>2 DEF MarkInv, NoColoursIdle, StartsFresh,
       VisitsComplete, OnlyNeeded, NoneForgotten, Pending, UsersMarked,
       TableFilled, RacesNeedGaps, UsersComplete, Running
<1>6. CASE Race
  <2>1. /\ op' = "undefined" /\ colour' = AllWhite /\ edges' = {}
        /\ UsersComplete' = UsersComplete
    BY <1>6 DEF Race, UsersComplete, Users
  <2>2. Joined' /\ Visits' = {}
    BY <1>6 DEF Race, Joined, Running, Visits
  <2>3. Marked' = {}
    BY <2>1 DEF Marked, White, AllWhite
  <2>4. ~UsersComplete
    BY <1>6, NoInsertion DEF Race
  <2> QED
    BY <1>1, <2>1, <2>2, <2>3, <2>4 DEF MarkInv, NoColoursIdle, StartsFresh,
       VisitsComplete, OnlyNeeded, NoneForgotten, UsersMarked, TableFilled,
       RacesNeedGaps, Joined, Running, Thread
<1> QED
  BY <1>2, <1>3, <1>4, <1>5, <1>6, MarkMainStep, MarkThreadStep DEF Next, Lost

-----------------------------------------------------------------------------
(* Theorems *)

\* The variables keep their types, in every state remove and remove_unuse
\* and their threads go through.
THEOREM TypeCorrect == Spec => []TypeOK
<1> QED
  BY TypeInitial, TypeStep, PTL DEF Spec

\* The marking invariant holds in every state.
THEOREM MarkInvariant == Spec => []MarkInv
<1> QED
  BY MarkInitial, MarkStep, PTL DEF Spec

\* When remove or remove_unuse has joined its threads, the colours other than
\* white are those of the packages that the users need, whatever the graph and
\* however the loads and stores of the threads interleave.
THEOREM MarkingIsExact == Spec => []MarkedExactly
<1> QED
  BY MarkInvariant, MarkedAtJoin, PTL

\* remove and remove_unuse never take away what an installed package that the
\* user asked for, and that stays, needs: whether or not the map was complete
\* when they began.
THEOREM UsersAreKept == Spec => UsersKeepDependencies
<1> DEFINE Kept == installed \cap Reach(deps, installed' \cap using)
                     \subseteq installed'
<1>1. MarkInv /\ [Next]_vars => [Kept]_vars
  <2> SUFFICES ASSUME MarkInv, [Next]_vars PROVE Kept \/ UNCHANGED vars
    OBVIOUS
  <2>1. CASE installed' = installed
    BY <2>1
  <2>2. CASE EraseTarget
    <3>1. /\ EraseVisit(target) \cap Reach(deps, Users) = {}
          /\ target \in EraseVisit(target)
      BY <2>2, ErasedIsUnneeded DEF EraseTarget
    <3>2. /\ installed' = installed \ EraseVisit(target)
          /\ installed' \cap using \subseteq Users
      BY <2>2, <3>1 DEF EraseTarget, Users
    <3>3. Reach(deps, installed' \cap using) \subseteq Reach(deps, Users)
      BY <3>2, ReachMonotone
    <3> QED
      BY <3>1, <3>2, <3>3
  <2>3. CASE Sweep
    <3>1. Marked = Reach(deps, Users) /\ target = NoPackage
      BY <2>3, MarkedAtJoin DEF Sweep, UnuseMarked, MarkedExactly, MarkInv,
                                TypeOK
    <3>2. /\ installed' = installed \ White
          /\ installed' \cap using \subseteq Users
      BY <2>3, <3>1 DEF Sweep, Users, MarkInv, TypeOK
    <3>3. Reach(deps, installed' \cap using) \subseteq Marked
      BY <3>1, <3>2, ReachMonotone
    <3> QED
      BY <3>2, <3>3 DEF Marked
  <2>4. installed' = installed \/ EraseTarget \/ Sweep
    <3>1. ASSUME NEW t \in Thread, ThreadStep(t) PROVE installed' = installed
      BY <3>1 DEF ThreadStep, Enter, Descend, Skip, Finish, specVars
    <3>2. CASE MainStep
      BY <3>2 DEF MainStep, PassPackage, ColourUser, StartVisit, SkipVisit,
                  StartTask, RefuseTarget, JoinBatch, specVars
    <3>3. ASSUME NEW p \in Package, RemoveUnknown(p) \/ BeginRemove(p)
          PROVE  installed' = installed
      BY <3>3 DEF RemoveUnknown, BeginRemove, AskUnknown, AskRemove
    <3>4. CASE BeginRemoveUnuse \/ Race \/ Lost \/ UNCHANGED vars
      BY <3>4 DEF BeginRemoveUnuse, AskRemoveUnuse, Race, Lost, vars, specVars
    <3> QED
      BY <3>1, <3>2, <3>3, <3>4 DEF Next
  <2> QED
    BY <2>1, <2>2, <2>3, <2>4
<1> QED
  BY <1>1, MarkInvariant, PTL DEF Spec, UsersKeepDependencies

\* When the map is complete for its users, the main thread and the marking
\* threads index the table of colours with names that are in it, and the data
\* race that an insertion would be does not take place.
THEOREM TableIsComplete == Spec => []NoConcurrentInsert
<1>1. MarkInv => NoConcurrentInsert
  BY LookupsFind DEF NoConcurrentInsert, MarkInv, RacesNeedGaps
<1> QED
  BY MarkInvariant, <1>1, PTL

\* remove and remove_unuse with all their threads implement the atomic
\* operations of RemovalSpec: what a caller sees does not depend on how the
\* threads interleave.
THEOREM ImplementsAtomicRemoval == Spec => AtomicRemoval
<1>1. Init => SpecInit
  BY DEF Init
<1>2. MarkInv /\ [Next]_vars => [SpecNext]_specVars
  <2> SUFFICES ASSUME MarkInv, [Next]_vars PROVE [SpecNext]_specVars
    OBVIOUS
  <2>1. CASE EraseTarget
    <3>1. Marked = Reach(deps, Users) /\ target \in Package
      BY <2>1, MarkedAtJoin DEF EraseTarget, MarkedExactly, Users, RemoveMarked,
                                MarkInv, TypeOK
    <3>2. target \notin Reach(deps, Users)
      BY <2>1, <3>1 DEF EraseTarget, Marked, White
    <3>3. (White \ using) \cup {target} = Unneeded(target)
      BY <3>1 DEF Unneeded, Marked, White
    <3>4. EraseVisit(target) = Erased(target)
      BY <3>3 DEF EraseVisit, Erased
    <3> QED
      BY <2>1, <3>2, <3>4 DEF EraseTarget, RemoveMarked, Leave, Removed,
                              SpecNext
  <2>2. CASE RefuseTarget
    <3>1. Marked = Reach(deps, Users) /\ target \in Package
      BY <2>2, MarkedAtJoin DEF RefuseTarget, MarkedExactly, Users,
                                RemoveMarked, MarkInv, TypeOK
    <3>2. target \in Reach(deps, Users)
      BY <2>2, <3>1 DEF RefuseTarget, Marked, White
    <3> QED
      BY <2>2, <3>2 DEF RefuseTarget, RemoveMarked, Leave, Refused, SpecNext
  <2>3. CASE Sweep
    <3>1. Marked = Reach(deps, Users) /\ installed \subseteq Package
      BY <2>3, MarkedAtJoin DEF Sweep, MarkedExactly, UnuseMarked, MarkInv,
                                TypeOK
    <3>2. installed \ White = installed \cap Reach(deps, Users)
      BY <3>1 DEF Marked
    <3> QED
      BY <2>3, <3>2 DEF Sweep, UnuseMarked, Leave, Swept, SpecNext
  <2>4. ASSUME NEW p \in Package, RemoveUnknown(p) \/ BeginRemove(p)
        PROVE  SpecNext
    BY <2>4 DEF RemoveUnknown, BeginRemove, SpecNext
  <2>5. CASE BeginRemoveUnuse
    BY <2>5 DEF BeginRemoveUnuse, SpecNext
  <2>6. ASSUME NEW p \in Package,
               \/ PassPackage(p) \/ ColourUser(p) \/ StartVisit(p)
               \/ SkipVisit(p) \/ StartTask(p)
        PROVE  UNCHANGED specVars
    BY <2>6 DEF PassPackage, ColourUser, StartVisit, SkipVisit, StartTask
  <2>7. ASSUME NEW t \in Thread, ThreadStep(t) PROVE UNCHANGED specVars
    BY <2>7 DEF ThreadStep, Enter, Descend, Skip, Finish
  <2>8. CASE UNCHANGED vars
    BY <2>8 DEF vars
  <2>9. CASE JoinBatch
    BY <2>9 DEF JoinBatch
  <2>10. CASE Race
    <3>1. op \in {"remove", "remove_unuse"}
      BY <2>10 DEF Race, InsertMeetsAccess, Inserts, MarkInv, TypeOK, Joined
    <3> QED
      BY <2>10, <3>1, NoInsertion DEF Race, Undefined, SpecNext
  <2> QED
    BY <2>1, <2>2, <2>3, <2>4, <2>5, <2>6, <2>7, <2>8, <2>9, <2>10 DEF Next,
       MainStep, Lost
<1> QED
  BY <1>1, <1>2, MarkInvariant, PTL DEF Spec, AtomicRemoval, SafeSpec

-----------------------------------------------------------------------------
(* Grey *)

LEMMA GreyStep == MarkInv /\ GreyIsVisited /\ [Next]_vars => GreyIsVisited'
<1> SUFFICES ASSUME MarkInv, GreyIsVisited, [Next]_vars,
                    NEW p \in Package, colour'[p] = "grey"
             PROVE  \E f \in Visits' : f.node = p /\ f.entered
  BY DEF GreyIsVisited
<1>1. TypeOK /\ colour \in [Package -> Colour]
  BY DEF MarkInv, TypeOK
<1>2. ASSUME colour' = colour, stack' = stack
      PROVE  \E f \in Visits' : f.node = p /\ f.entered
  <2>1. Visits' = Visits
    BY <1>2 DEF Visits
  <2> QED
    BY <1>2, <2>1 DEF GreyIsVisited
<1>3. ASSUME NEW q \in Package, RemoveUnknown(q) \/ BeginRemove(q)
      PROVE  colour' = colour /\ stack' = stack
  BY <1>3 DEF RemoveUnknown, BeginRemove, threadVars
<1>4. ASSUME NEW q \in Package, PassPackage(q) \/ SkipVisit(q)
      PROVE  colour' = colour /\ stack' = stack
  BY <1>4 DEF PassPackage, SkipVisit, threadVars
<1>5. ASSUME NEW q \in Package, ColourUser(q)
      PROVE  \E f \in Visits' : f.node = p /\ f.entered
  <2>1. colour[p] = "grey" /\ stack' = stack
    BY <1>1, <1>5 DEF ColourUser, threadVars
  <2>2. Visits' = Visits
    BY <2>1 DEF Visits
  <2> QED
    BY <2>1, <2>2 DEF GreyIsVisited
<1>6. ASSUME NEW q \in Package, NEW t \in Thread, ~Running(t), Start(t, q),
             colour' = colour
      PROVE  \E f \in Visits' : f.node = p /\ f.entered
  BY <1>1, <1>6, VisitsStart DEF GreyIsVisited
<1>7. ASSUME NEW q \in Package, StartVisit(q)
      PROVE  \E f \in Visits' : f.node = p /\ f.entered
  <2>1. root \in Package /\ ~Running(<<root, q>>)
    BY <1>1, <1>7 DEF StartVisit, TypeOK, MarkInv, StartsFresh
  <2> QED
    BY <1>6, <1>7, <2>1 DEF StartVisit, Thread
<1>8. ASSUME NEW q \in Package, StartTask(q)
      PROVE  \E f \in Visits' : f.node = p /\ f.entered
  <2>1. ~Running(<<q, q>>)
    BY <1>8 DEF StartTask, MarkInv, StartsFresh
  <2> QED
    BY <1>6, <1>8, <2>1 DEF StartTask, Thread
<1>9. ~(EraseTarget \/ RefuseTarget \/ Sweep \/ BeginRemoveUnuse \/ Race)
  BY DEF EraseTarget, RefuseTarget, Sweep, Leave, AllWhite, BeginRemoveUnuse,
         Race
<1>10. ASSUME JoinBatch \/ Lost \/ UNCHANGED vars
       PROVE  colour' = colour /\ stack' = stack
  BY <1>10 DEF JoinBatch, Lost, vars, threadVars
<1>11. ASSUME NEW t \in Thread, ThreadStep(t)
       PROVE  \E f \in Visits' : f.node = p /\ f.entered
  <2>1. CASE Enter(t)
    BY <1>1, <2>1, VisitsEnter DEF Enter, Entered, GreyIsVisited
  <2>2. ASSUME NEW d \in Package, Descend(t, d)
        PROVE  \E f \in Visits' : f.node = p /\ f.entered
    <3>1. PICK f \in Visits : f.node = p /\ f.entered
      BY <2>2 DEF Descend, GreyIsVisited
    <3>2. CASE f = Top(t)
      <4>1. Looked(t, d) \in Visits'
        BY <2>2, <1>1, VisitsDescend
      <4>2. Looked(t, d).node = p /\ Looked(t, d).entered
        BY <3>1, <3>2 DEF Looked
      <4> QED
        BY <4>1, <4>2
    <3>3. CASE f # Top(t)
      BY <2>2, <1>1, <3>1, <3>3, VisitsDescend
    <3> QED
      BY <3>2, <3>3
  <2>3. ASSUME NEW d \in Package, Skip(t, d)
        PROVE  \E f \in Visits' : f.node = p /\ f.entered
    <3>1. PICK f \in Visits : f.node = p /\ f.entered
      BY <2>3 DEF Skip, GreyIsVisited
    <3>2. CASE f = Top(t)
      BY <2>3, <1>1, <3>1, <3>2, VisitsSkip DEF Looked
    <3>3. CASE f # Top(t)
      BY <2>3, <1>1, <3>1, <3>3, VisitsSkip
    <3> QED
      BY <3>2, <3>3
  <2>4. CASE Finish(t)
    BY <1>1, <2>4, VisitsFinish DEF Finish, GreyIsVisited
  <2> QED
    BY <1>11, <2>1, <2>2, <2>3, <2>4 DEF ThreadStep
<1> QED
  BY <1>2, <1>3, <1>4, <1>5, <1>7, <1>8, <1>9, <1>10, <1>11 DEF Next, MainStep

\* A grey package has a visit in progress, so no colour is grey at the join.
THEOREM GreyEnds == Spec => []GreyIsVisited
<1>1. Init => GreyIsVisited
  BY DEF Init, GreyIsVisited, AllWhite
<1> QED
  BY <1>1, GreyStep, MarkInvariant, PTL DEF Spec
=============================================================================
