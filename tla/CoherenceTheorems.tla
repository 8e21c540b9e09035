------------------------- MODULE CoherenceTheorems -------------------------
(***************************************************************************)
(* What the operators of Packages leave of a manager that is tidy, and     *)
(* what they write of one whose objects require what a file says, for      *)
(* every set of file names.                                                *)
(***************************************************************************)
EXTENDS PackagesTheorems

-----------------------------------------------------------------------------
(* Loops whose turns build on each other *)

\* f has what the turns of a loop over q make of s.
TurnsOf(f, body, s, q) ==
  /\ f[0] = s
  /\ \A i \in 1 .. Len(q) : f[i] = body[f[i - 1]][q[i]]
  /\ Loop(body, s, q) = f[Len(q)]

\* A loop is its turns, one after the other.
LEMMA LoopGoes ==
  ASSUME NEW I, NEW E, NEW body, NEW s \in I, NEW q \in Seq(E),
         StaysIn(body, I, E)
  PROVE  \E f : TurnsOf(f, body, s, q)
<1>1. PICK n \in Nat : n = Len(q) /\ q \in [1 .. n -> E]
  BY LenProperties
<1> DEFINE Goes(f) ==
      f = [i \in 0 .. Len(q) |-> IF i = 0 THEN s ELSE body[f[i - 1]][q[i]]]
<1>2. \E f : Goes(f)
  <2>1. PICK f :
          f = [i \in 0 .. n |-> IF i = 0 THEN s ELSE body[f[i - 1]][q[i]]]
    BY <1>1, Turns
  <2>2. Goes(f)
    BY <1>1, <2>1
  <2> HIDE DEF Goes
  <2> QED
    BY <2>2
<1>3. PICK f : f = CHOOSE g : Goes(g)
  OBVIOUS
<1>4. Goes(f)
  <2> HIDE DEF Goes
  <2> QED
    BY <1>2, <1>3
<1>5. Loop(body, s, q) = f[n]
  BY <1>1, <1>3 DEF Loop
<1>6. f = [i \in 0 .. n |-> IF i = 0 THEN s ELSE body[f[i - 1]][q[i]]]
  BY <1>1, <1>4
<1>7. f[0] = s
  BY <1>6
<1>8. \A i \in 1 .. n : f[i] = body[f[i - 1]][q[i]]
  <2> SUFFICES ASSUME NEW i \in 1 .. n PROVE f[i] = body[f[i - 1]][q[i]]
    OBVIOUS
  <2>1. i \in 0 .. n /\ i # 0
    OBVIOUS
  <2> QED
    BY <1>6, <2>1
<1>9. TurnsOf(f, body, s, q)
  BY <1>1, <1>5, <1>7, <1>8 DEF TurnsOf
<1> QED
  BY <1>9

\* Each turn over q leads from one stage of P to the next.
Stages(P, body, q) ==
  \A i \in 1 .. Len(q) : \A x \in P[i - 1] : body[x][q[i]] \in P[i]

\* A loop that each turn takes from one stage to the next ends in the last one.
LEMMA LoopStages ==
  ASSUME NEW V, NEW E, NEW body, NEW s \in V, NEW q \in Seq(E),
         StaysIn(body, V, E), NEW P, s \in P[0], Stages(P, body, q)
  PROVE  Loop(body, s, q) \in P[Len(q)]
<1>1. PICK n \in Nat : n = Len(q)
  BY LenProperties
<1>2. PICK f : TurnsOf(f, body, s, q)
  BY LoopGoes
<1> DEFINE S == {m \in Nat : m <= n => f[m] \in P[m]}
<1>3. 0 \in S
  BY <1>2 DEF TurnsOf
<1>4. ASSUME NEW m \in Nat, m \in S PROVE m + 1 \in S
  <2> SUFFICES ASSUME m + 1 <= n PROVE f[m + 1] \in P[m + 1]
    OBVIOUS
  <2>1. m + 1 \in 1 .. Len(q) /\ m + 1 - 1 = m /\ f[m] \in P[m]
    BY <1>1, <1>4
  <2>2. f[m + 1] = body[f[m]][q[m + 1]]
    BY <1>2, <2>1 DEF TurnsOf
  <2> QED
    BY <2>1, <2>2 DEF Stages
<1> HIDE DEF S
<1>5. n \in S
  BY <1>3, <1>4, Induction
<1> QED
  BY <1>1, <1>2, <1>5 DEF S, TurnsOf

\* What holds of no depth, and of a depth if it does of the one before, holds
\* of every depth.
LEMMA EveryDepth ==
  ASSUME NEW n \in Nat, NEW S, 0 \in S,
         \A d \in 1 .. n : d - 1 \in S => d \in S
  PROVE  \A d \in 0 .. n : d \in S
<1> DEFINE T == {m \in Nat : m <= n => m \in S}
<1>1. 0 \in T
  OBVIOUS
<1>2. ASSUME NEW m \in Nat, m \in T PROVE m + 1 \in T
  <2> SUFFICES ASSUME m + 1 <= n PROVE m + 1 \in S
    OBVIOUS
  <2>1. m + 1 \in 1 .. n /\ m + 1 - 1 = m /\ m \in S
    BY <1>2
  <2> QED
    BY <2>1
<1> HIDE DEF T
<1>3. \A m \in Nat : m \in T
  BY <1>1, <1>2, Induction
<1> QED
  BY <1>3 DEF T

-----------------------------------------------------------------------------
(* What an object requires, however far *)

Below(heap, o) == Closure(heap, heap[o].reqs)

\* No object of S leads back to its own name.
NoWayBack(heap, S) == \A o \in S : NameOf(o) \notin NamesOf(Below(heap, o))

\* T has what its members require.
KeepsReqs(heap, T) == \A x \in T : heap[x].reqs \subseteq T

\* What an object requires, however far, is the least set that has what it
\* requires itself and what its members require.
LEMMA BelowIs ==
  ASSUME NEW D, D \subseteq Object, NEW h \in [D -> Fields(D)], NEW o \in D
  PROVE  /\ h[o].reqs \subseteq Below(h, o)
         /\ Below(h, o) \in SUBSET D
         /\ KeepsReqs(h, Below(h, o))
         /\ \A T \in SUBSET D : h[o].reqs \subseteq T /\ KeepsReqs(h, T) =>
              Below(h, o) \subseteq T
<1>1. PICK R : R = h[o].reqs
  OBVIOUS
<1>2. R \in SUBSET D
  BY <1>1 DEF Fields
<1>3. IsFiniteSet(Nodes(h, R)) /\ Closed(h, D)
  BY <1>2, WorldNodes
<1>4. PICK B : B = Closure(h, R)
  OBVIOUS
<1>5. /\ R \subseteq B /\ Closed(h, B)
      /\ \A T : R \subseteq T /\ Closed(h, T) => B \subseteq T
  BY <1>3, <1>4, ClosureIs
<1>6. B \subseteq D
  BY <1>2, <1>3, <1>5
<1>7. KeepsReqs(h, B)
  BY <1>5, <1>6 DEF Closed, KeepsReqs
<1>8. ASSUME NEW T \in SUBSET D, R \subseteq T, KeepsReqs(h, T) PROVE B \subseteq T
  <2>1. Closed(h, T)
    BY <1>8 DEF Closed, KeepsReqs
  <2> QED
    BY <1>5, <1>8, <2>1
<1>9. B = Below(h, o)
  BY <1>1, <1>4 DEF Below
<1> QED
  BY <1>1, <1>5, <1>6, <1>7, <1>8, <1>9

\* What is required requires no more.
LEMMA BelowShrinks ==
  ASSUME NEW D, D \subseteq Object, NEW h \in [D -> Fields(D)], NEW o \in D
  PROVE  /\ \A r \in h[o].reqs : r \in Below(h, o)
         /\ \A r \in Below(h, o) : r \in D /\ Below(h, r) \subseteq Below(h, o)
<1>1. /\ h[o].reqs \subseteq Below(h, o)
      /\ Below(h, o) \in SUBSET D
      /\ KeepsReqs(h, Below(h, o))
  BY BelowIs
<1>2. ASSUME NEW r \in Below(h, o) PROVE r \in D /\ Below(h, r) \subseteq Below(h, o)
  <2>1. r \in D /\ h[r].reqs \subseteq Below(h, o)
    BY <1>1 DEF KeepsReqs
  <2> QED
    BY <1>1, <2>1, BelowIs
<1> QED
  BY <1>1, <1>2

\* What can be reached from S is the least set that has S and what its members
\* require.
LEMMA ReachedIs ==
  ASSUME NEW D, D \subseteq Object, NEW h \in [D -> Fields(D)], NEW S \in SUBSET D
  PROVE  /\ S \subseteq Closure(h, S)
         /\ Closure(h, S) \in SUBSET D
         /\ KeepsReqs(h, Closure(h, S))
         /\ \A T \in SUBSET D : S \subseteq T /\ KeepsReqs(h, T) =>
              Closure(h, S) \subseteq T
<1>1. IsFiniteSet(Nodes(h, S)) /\ Closed(h, D)
  BY WorldNodes
<1>2. PICK B : B = Closure(h, S)
  OBVIOUS
<1>3. /\ S \subseteq B /\ Closed(h, B)
      /\ \A T : S \subseteq T /\ Closed(h, T) => B \subseteq T
  BY <1>1, <1>2, ClosureIs
<1>4. B \subseteq D
  BY <1>1, <1>3
<1>5. KeepsReqs(h, B)
  BY <1>3, <1>4 DEF Closed, KeepsReqs
<1>6. ASSUME NEW T \in SUBSET D, S \subseteq T, KeepsReqs(h, T) PROVE B \subseteq T
  <2>1. Closed(h, T)
    BY <1>6 DEF Closed, KeepsReqs
  <2> QED
    BY <1>3, <1>6, <2>1
<1> QED
  BY <1>2, <1>3, <1>4, <1>5, <1>6

-----------------------------------------------------------------------------
(* cycle_check finds nothing where nothing leads back *)

\* The visit of o comes back to no name that is grey.
Free(h, o, x) ==
  /\ x.closing = {}
  /\ NameOf(o) \notin x.grey
  /\ \A p \in Below(h, o) : NameOf(p) \notin x.grey
  /\ NoWayBack(h, {o} \cup Below(h, o))

\* Such a visit ends with no closing edge and as many names grey.
QuietVisits(D, h) ==
  {f \in [Colours(D) -> [D -> Colours(D)]] :
     \A x \in Colours(D), o \in D :
       Free(h, o, x) => f[x][o].closing = {} /\ f[x][o].grey = x.grey}

\* What is required can be visited from there.
LEMMA FreeBelow ==
  ASSUME NEW D, D \subseteq Object, NEW h \in [D -> Fields(D)], NEW o \in D,
         NEW x, Free(h, o, x), NEW acc, acc.closing = {},
         acc.grey = x.grey \cup {NameOf(o)},
         NEW r \in h[o].reqs
  PROVE  r \in D /\ Free(h, r, acc)
<1>1. r \in Below(h, o) /\ r \in D /\ Below(h, r) \subseteq Below(h, o)
  BY BelowShrinks
<1>2. \A p \in Below(h, o) : NameOf(p) # NameOf(o) /\ NameOf(p) \notin x.grey
  BY DEF Free, NoWayBack, NamesOf
<1>3. NoWayBack(h, {r} \cup Below(h, r))
  BY <1>1 DEF Free, NoWayBack
<1> QED
  BY <1>1, <1>2, <1>3 DEF Free

\* A visit is quiet if those it makes are.
LEMMA VisitOnceQuiet ==
  ASSUME NEW D, D \subseteq Object, NEW h \in [D -> Fields(D)],
         NEW visit \in QuietVisits(D, h), NEW x \in Colours(D), NEW o \in D,
         Free(h, o, x)
  PROVE  /\ VisitOnce(h, visit, x, o).closing = {}
         /\ VisitOnce(h, visit, x, o).grey = x.grey
<1>0. DOMAIN h = D
  OBVIOUS
<1> DEFINE Look == [acc \in Colours(D) |-> [v \in D |->
        IF acc.closing # {} \/ NameOf(v) \in acc.black THEN acc
        ELSE IF NameOf(v) \in acc.grey THEN [acc EXCEPT !.closing = {<<o, v>>}]
        ELSE visit[acc][v]]]
<1> DEFINE begin == [x EXCEPT !.grey = @ \cup {NameOf(o)}]
<1> DEFINE end == Loop(Look, begin, Required(h, o))
<1> DEFINE I == {acc \in Colours(D) : /\ acc.closing = {}
                                      /\ acc.grey = x.grey \cup {NameOf(o)}}
<1>1. StaysIn(Look, I, h[o].reqs)
  <2> SUFFICES ASSUME NEW acc \in I, NEW v \in h[o].reqs
               PROVE  Look[acc][v] \in I
    BY DEF StaysIn
  <2>1. acc \in Colours(D) /\ acc.closing = {} /\ acc.grey = x.grey \cup {NameOf(o)}
    OBVIOUS
  <2>2. v \in D /\ Free(h, v, acc)
    BY <2>1, FreeBelow
  <2>3. visit[acc][v].closing = {} /\ visit[acc][v].grey = acc.grey
    BY <2>1, <2>2 DEF QuietVisits
  <2>4. visit[acc][v] \in Colours(D)
    BY <2>1, <2>2 DEF QuietVisits
  <2>5. NameOf(v) \notin acc.grey
    BY <2>2 DEF Free
  <2>6. Look[acc][v] = IF NameOf(v) \in acc.black THEN acc ELSE visit[acc][v]
    BY <2>1, <2>2, <2>5
  <2> QED
    BY <2>1, <2>3, <2>4, <2>6
<1>2. NameOf(o) \in Name
  BY ObjectNames
<1>3. begin \in I
  BY <1>2 DEF Colours, Free
<1>4. Required(h, o) \in Seq(h[o].reqs)
  <2>1. h[o].reqs \subseteq Object
    BY DEF Fields
  <2> QED
    BY <2>1, RequiredIn
<1>5. VisitOnce(h, visit, x, o) =
        IF end.closing # {} THEN end
        ELSE [end EXCEPT !.grey = @ \ {NameOf(o)}, !.black = @ \cup {NameOf(o)}]
  BY <1>0 DEF VisitOnce
<1>6. end \in I
  <2> HIDE DEF Look, begin, I
  <2> QED
    BY <1>1, <1>3, <1>4, LoopIn
<1> HIDE DEF end
<1>7. end.closing = {} /\ end.grey = x.grey \cup {NameOf(o)} /\ end \in Colours(D)
  BY <1>6
<1>8. VisitOnce(h, visit, x, o) =
        [end EXCEPT !.grey = @ \ {NameOf(o)}, !.black = @ \cup {NameOf(o)}]
  BY <1>5, <1>7
<1>9. NameOf(o) \notin x.grey
  BY DEF Free
<1> QED
  BY <1>7, <1>8, <1>9 DEF Colours

\* DFS_visit is, however deep it nests.
LEMMA DFSVisitQuiet ==
  ASSUME NEW D, D \subseteq Object, NEW h \in [D -> Fields(D)],
         NEW s \in Colours(D), NEW u \in D, Free(h, u, s)
  PROVE  DFSVisit(h, s, u).closing = {} /\ DFSVisit(h, s, u).grey = s.grey
<1>1. PICK g : DFSCalls(D, h, g)
  BY DFSLevels
<1> DEFINE S == {d \in Nat : g[d] \in QuietVisits(D, h)}
<1>2. 0 \in S
  <2>1. g[0] = [x \in Colours(D) |-> [o \in D |-> x]]
    BY <1>1 DEF DFSCalls
  <2>2. \A x \in Colours(D), o \in D : Free(h, o, x) => x.closing = {}
    BY DEF Free
  <2> QED
    BY <2>1, <2>2 DEF QuietVisits
<1>3. ASSUME NEW d \in 1 .. Depth, d - 1 \in S PROVE d \in S
  <2>1. g[d - 1] \in QuietVisits(D, h)
    BY <1>3
  <2>2. d \in Nat /\ d \in 0 .. Depth
    BY DepthIsNumber
  <2>3. g[d] \in [Colours(D) -> [D -> Colours(D)]]
    BY <1>1, <2>2 DEF DFSCalls
  <2>4. ASSUME NEW x \in Colours(D), NEW o \in D, Free(h, o, x)
        PROVE  g[d][x][o].closing = {} /\ g[d][x][o].grey = x.grey
    <3>1. g[d] = [y \in Colours(D) |-> [p \in D |-> VisitOnce(h, g[d - 1], y, p)]]
      BY <1>1 DEF DFSCalls
    <3>2. g[d][x][o] = VisitOnce(h, g[d - 1], x, o)
      BY <3>1
    <3> QED
      BY <2>1, <2>4, <3>2, VisitOnceQuiet
  <2> QED
    BY <2>2, <2>3, <2>4 DEF QuietVisits
<1> HIDE DEF S
<1>4. Depth \in S
  BY <1>2, <1>3, DepthIsNumber, EveryDepth
<1>5. DFSVisit(h, s, u) = g[Depth][s][u]
  BY <1>1 DEF DFSCalls
<1> QED
  BY <1>4, <1>5 DEF S, QuietVisits

\* Nor does cycle_check cut anything.
LEMMA CycleCheckQuiet ==
  ASSUME NEW D, D \subseteq Object, NEW w \in Worlds(D), NEW o \in D,
         NoWayBack(w.heap, Below(w.heap, o))
  PROVE  CycleCheck(w, o) = w
<1> DEFINE h == w.heap
<1>1. h \in [D -> Fields(D)] /\ DOMAIN h = D
  BY WorldFields
<1> HIDE DEF h
<1> DEFINE Look == [acc \in Colours(D) |-> [v \in D |->
                      IF acc.closing # {} \/ NameOf(v) \in acc.black THEN acc
                      ELSE DFSVisit(h, acc, v)]]
<1> DEFINE I == {acc \in Colours(D) : acc.closing = {} /\ acc.grey = {}}
<1>2. StaysIn(Look, I, h[o].reqs)
  <2> SUFFICES ASSUME NEW acc \in I, NEW v \in h[o].reqs
               PROVE  Look[acc][v] \in I
    BY DEF StaysIn
  <2>1. v \in Below(h, o) /\ v \in D /\ Below(h, v) \subseteq Below(h, o)
    BY <1>1, BelowShrinks
  <2>2. acc \in Colours(D) /\ acc.closing = {} /\ acc.grey = {}
    OBVIOUS
  <2>3. Free(h, v, acc)
    BY <2>1, <2>2 DEF Free, NoWayBack, h
  <2>4. DFSVisit(h, acc, v) \in Colours(D)
    BY <1>1, <2>1, <2>2, DFSVisitIn
  <2>5. DFSVisit(h, acc, v).closing = {} /\ DFSVisit(h, acc, v).grey = {}
    BY <1>1, <2>1, <2>2, <2>3, DFSVisitQuiet
  <2>6. Look[acc][v] = IF NameOf(v) \in acc.black THEN acc ELSE DFSVisit(h, acc, v)
    BY <2>1, <2>2
  <2> QED
    BY <2>2, <2>4, <2>5, <2>6
<1>3. White \in I
  BY DEF White, Colours
<1>4. Required(h, o) \in Seq(h[o].reqs)
  <2>1. h[o].reqs \subseteq Object
    BY <1>1 DEF Fields
  <2> QED
    BY <2>1, RequiredIn
<1>5. VisitRequired(h, White, o) = Loop(Look, White, Required(h, o))
  BY <1>1 DEF VisitRequired
<1> HIDE DEF Look
<1>6. VisitRequired(h, White, o) \in I
  <2> HIDE DEF I
  <2> QED
    BY <1>2, <1>3, <1>4, <1>5, LoopIn
<1>7. ClosingEdge(w.heap, o) = {}
  BY <1>6 DEF ClosingEdge, h
<1> QED
  BY <1>7 DEF CycleCheck

-----------------------------------------------------------------------------
(* Nor does what writes the entries of what was checked *)

\* S has what its members require, and none of them leads back to its name.
Orderly(h, S) == KeepsReqs(h, S) /\ NoWayBack(h, S)

\* What requires members of S only can be checked.
LEMMA OrderlyBelow ==
  ASSUME NEW D, D \subseteq Object, NEW h \in [D -> Fields(D)],
         NEW S \in SUBSET D, Orderly(h, S), NEW o \in D, h[o].reqs \subseteq S
  PROVE  Below(h, o) \subseteq S /\ NoWayBack(h, Below(h, o))
<1>1. Below(h, o) \subseteq S
  BY BelowIs DEF Orderly
<1> QED
  BY <1>1 DEF Orderly, NoWayBack

\* The check of an object that requires members of S.
LEMMA OrderlyCheck ==
  ASSUME NEW D, D \subseteq Object, NEW w \in Worlds(D), NEW S \in SUBSET D,
         Orderly(w.heap, S), NEW o \in D, w.heap[o].reqs \subseteq S
  PROVE  CycleCheck(w, o) = w
<1>1. w.heap \in [D -> Fields(D)]
  BY WorldFields
<1>2. NoWayBack(w.heap, Below(w.heap, o))
  BY <1>1, OrderlyBelow
<1> QED
  BY <1>2, CycleCheckQuiet

\* What has been written of a manager with the objects h and the map m.
WritingsOf(D, h, m) ==
  {y \in Writings(D) : y.world.heap = h /\ y.world.map = m}

\* What writes an object that requires members of S, and leaves them alone.
QuietWriting(D, h, m, S) ==
  {f \in Writing(D) :
     \A x \in WritingsOf(D, h, m), p \in D :
       h[p].reqs \subseteq S => f[x][p] \in WritingsOf(D, h, m)}

\* Writing one object changes nothing if writing what it requires does not.
LEMMA WriteNestedQuiet ==
  ASSUME NEW D, D \subseteq Object, NEW h \in [D -> Fields(D)], NEW m,
         NEW S \in SUBSET D, Orderly(h, S), NEW write \in QuietWriting(D, h, m, S),
         NEW x \in WritingsOf(D, h, m), NEW p \in D, h[p].reqs \subseteq S
  PROVE  WriteNested(write, x, p) \in WritingsOf(D, h, m)
<1> DEFINE I == WritingsOf(D, h, m)
<1> DEFINE Write == [acc \in Writings(D) |-> [r \in D |->
        IF acc.world.failed # "no" THEN acc ELSE write[acc][r]]]
<1> DEFINE begin == [x EXCEPT !.written = @ \cup {p}]
<1>1. /\ x \in Writings(D) /\ x.world \in Worlds(D) /\ x.written \in SUBSET D
      /\ x.world.heap = h /\ x.world.map = m /\ DOMAIN x.world.heap = D
  BY KinWritingsOf, WorldFields DEF WritingsOf
<1>2. CycleCheck(x.world, p) = x.world
  BY <1>1, OrderlyCheck
<1>3. StaysIn(Write, I, h[p].reqs)
  <2> SUFFICES ASSUME NEW acc \in I, NEW r \in h[p].reqs
               PROVE  Write[acc][r] \in I
    BY DEF StaysIn
  <2>1. r \in D /\ h[r].reqs \subseteq S
    BY DEF Orderly, KeepsReqs
  <2>2. acc \in Writings(D)
    BY DEF WritingsOf
  <2>3. write[acc][r] \in I
    BY <2>1 DEF QuietWriting
  <2> QED
    BY <2>1, <2>2, <2>3
<1>4. begin \in I
  BY <1>1 DEF WritingsOf, Writings
<1>5. Required(h, p) \in Seq(h[p].reqs)
  <2>1. h[p].reqs \subseteq Object
    OBVIOUS
  <2> QED
    BY <2>1, RequiredIn
<1>6. [x EXCEPT !.world = Fail(x.world, "unreal package")] \in I
  <2>1. "unreal package" \in Failures
    BY DEF Failures
  <2>2. Fail(x.world, "unreal package") \in Worlds(D)
    BY <1>1, <2>1 DEF Fail, Worlds
  <2>3. /\ Fail(x.world, "unreal package").heap = h
        /\ Fail(x.world, "unreal package").map = m
    BY <1>1, WorldFields DEF Fail
  <2> QED
    BY <1>1, <2>2, <2>3 DEF WritingsOf, Writings
<1>7. WriteNested(write, x, p) =
         IF x.world.failed # "no" THEN [x EXCEPT !.world = x.world]
         ELSE IF NameOf(p) \in NamesOf(x.written)
         THEN [x EXCEPT !.world = Fail(x.world, "unreal package")]
         ELSE Loop(Write, begin, Required(h, p))
  BY <1>1, <1>2, Zenon DEF WriteNested
<1>8. [x EXCEPT !.world = x.world] \in I
  BY <1>1 DEF WritingsOf, Writings
<1> HIDE DEF Write, begin, I
<1>9. Loop(Write, begin, Required(h, p)) \in I
  BY <1>3, <1>4, <1>5, LoopIn
<1>10. WriteNested(write, x, p) \in I
  BY <1>6, <1>7, <1>8, <1>9
<1> QED
  BY <1>10 DEF I

\* write_package_to_json changes nothing.
LEMMA WriteToJsonQuiet ==
  ASSUME NEW D, D \subseteq Object, NEW w \in Worlds(D), NEW S \in SUBSET D,
         Orderly(w.heap, S), NEW o \in D, w.heap[o].reqs \subseteq S
  PROVE  WriteToJson(w, o) \in WritingsOf(D, w.heap, w.map)
<1> DEFINE h == w.heap
<1> DEFINE m == w.map
<1> DEFINE Q == QuietWriting(D, h, m, S)
<1>1. PICK g : WriteCalls(D, g)
  BY WriteLevels
<1>2. h \in [D -> Fields(D)] /\ Orderly(h, S) /\ h[o].reqs \subseteq S
  BY WorldFields
<1> HIDE DEF h, m
<1> DEFINE T == {d \in Nat : g[d] \in Q}
<1>3. 0 \in T
  <2>1. g[0] = [x \in Writings(D) |-> [p \in D |-> x]] /\ g[0] \in Writing(D)
    BY <1>1, DepthIsNumber DEF WriteCalls
  <2> QED
    BY <2>1 DEF QuietWriting, WritingsOf
<1>4. ASSUME NEW d \in 1 .. Depth, d - 1 \in T PROVE d \in T
  <2>1. g[d - 1] \in Q
    BY <1>4
  <2>2. d \in Nat /\ d \in 0 .. Depth
    BY DepthIsNumber
  <2>3. g[d] \in Writing(D)
    BY <1>1, <2>2 DEF WriteCalls
  <2>4. ASSUME NEW x \in WritingsOf(D, h, m), NEW p \in D, h[p].reqs \subseteq S
        PROVE  g[d][x][p] \in WritingsOf(D, h, m)
    <3>1. g[d] = [y \in Writings(D) |-> [q \in D |-> WriteNested(g[d - 1], y, q)]]
      BY <1>1 DEF WriteCalls
    <3>2. g[d][x][p] = WriteNested(g[d - 1], x, p)
      BY <3>1 DEF WritingsOf
    <3> QED
      BY <1>2, <2>1, <2>4, <3>2, WriteNestedQuiet
  <2> QED
    BY <2>2, <2>3, <2>4 DEF QuietWriting
<1> HIDE DEF T
<1>5. Depth \in T
  BY <1>3, <1>4, DepthIsNumber, EveryDepth
<1>6. WriteToJson(w, o) = g[Depth][[world |-> w, written |-> {}]][o]
  BY <1>1 DEF WriteCalls
<1>7. [world |-> w, written |-> {}] \in WritingsOf(D, h, m)
  BY DEF WritingsOf, Writings, h, m
<1>8. WriteToJson(w, o) \in WritingsOf(D, h, m)
  BY <1>2, <1>5, <1>6, <1>7 DEF T, QuietWriting
<1> QED
  BY <1>8 DEF h, m

\* write_package_manager_to_file changes nothing.
LEMMA WriteAllQuiet ==
  ASSUME NEW D, D \subseteq Object, NEW w \in Worlds(D), NEW S \in SUBSET D,
         Orderly(w.heap, S), NEW order \in Seq(S)
  PROVE  WriteAll(w, order) \in WritingsOf(D, w.heap, w.map)
<1>1. DOMAIN w.heap = D
  BY WorldFields
<1> DEFINE I == WritingsOf(D, w.heap, w.map)
<1> DEFINE Joined(first, one) ==
        [one EXCEPT !.written =
           first \cup {o \in @ : NameOf(o) \notin NamesOf(first)}]
<1> DEFINE Write == [acc \in Writings(D) |-> [o \in D |->
        IF acc.world.failed # "no" THEN acc
        ELSE Joined(acc.written, WriteToJson(acc.world, o))]]
<1> DEFINE begin == [world |-> w, written |-> {}]
<1>2. begin \in I
  BY DEF WritingsOf, Writings
<1>3. StaysIn(Write, I, S)
  <2> SUFFICES ASSUME NEW acc \in I, NEW o \in S
               PROVE  Write[acc][o] \in I
    BY DEF StaysIn
  <2>1. /\ acc \in Writings(D) /\ acc.world \in Worlds(D)
        /\ acc.written \in SUBSET D
        /\ acc.world.heap = w.heap /\ acc.world.map = w.map
    BY KinWritingsOf DEF WritingsOf
  <2>2. PICK one : one = WriteToJson(acc.world, o)
    OBVIOUS
  <2>3. o \in D /\ acc.world.heap[o].reqs \subseteq S
    BY <2>1 DEF Orderly, KeepsReqs
  <2>4. one \in I
    BY <2>1, <2>2, <2>3, WriteToJsonQuiet
  <2>5. one \in Writings(D) /\ one.written \in SUBSET D
    BY <2>4, KinWritingsOf DEF WritingsOf
  <2>6. acc.written \cup {p \in one.written : NameOf(p) \notin NamesOf(acc.written)}
          \in SUBSET D
    BY <2>1, <2>5
  <2>7. Joined(acc.written, one) \in I
    BY <2>4, <2>5, <2>6 DEF WritingsOf, Writings
  <2>8. Write[acc][o] = IF acc.world.failed # "no" THEN acc
                        ELSE Joined(acc.written, one)
    BY <2>1, <2>2, <2>3
  <2> HIDE DEF Write, Joined, I
  <2> QED
    BY <2>7, <2>8
<1>4. WriteAll(w, order) = Loop(Write, begin, order)
  BY <1>1, Zenon DEF WriteAll
<1> HIDE DEF Write, begin, I
<1>5. WriteAll(w, order) \in I
  BY <1>2, <1>3, <1>4, LoopIn
<1> QED
  BY <1>5 DEF I

-----------------------------------------------------------------------------
(* What can be reached depends on what is reached only *)

\* Two heaps have the same pointers in S.
SameReqs(h, g, S) == \A o \in S : g[o].reqs = h[o].reqs

\* As long as one of two heaps stays in K, the other reaches no more.
LEMMA ReachedNoMore ==
  ASSUME NEW D, D \subseteq Object, NEW h \in [D -> Fields(D)],
         NEW E, E \subseteq Object, NEW g \in [E -> Fields(E)],
         NEW K, K \subseteq D, K \subseteq E, KeepsReqs(h, K), SameReqs(h, g, K),
         NEW S, S \subseteq K
  PROVE  Closure(g, S) \subseteq Closure(h, S) /\ Closure(h, S) \subseteq K
<1>1. S \in SUBSET D /\ K \in SUBSET D /\ S \in SUBSET E
  OBVIOUS
<1>2. PICK B : B = Closure(h, S)
  OBVIOUS
<1>3. S \subseteq B /\ KeepsReqs(h, B) /\ B \subseteq K
  BY <1>1, <1>2, ReachedIs
<1>4. KeepsReqs(g, B) /\ B \in SUBSET E
  BY <1>3 DEF KeepsReqs, SameReqs
<1>5. Closure(g, S) \subseteq B
  BY <1>1, <1>3, <1>4, ReachedIs
<1> QED
  BY <1>2, <1>3, <1>5

\* What is reached is the same where the pointers are.
LEMMA ReachedSame ==
  ASSUME NEW D, D \subseteq Object, NEW h \in [D -> Fields(D)],
         NEW E, E \subseteq Object, NEW g \in [E -> Fields(E)],
         NEW K, K \subseteq D, K \subseteq E, KeepsReqs(h, K), SameReqs(h, g, K),
         NEW S, S \subseteq K
  PROVE  Closure(g, S) = Closure(h, S)
<1>1. KeepsReqs(g, K) /\ SameReqs(g, h, K)
  BY DEF KeepsReqs, SameReqs
<1>2. Closure(g, S) \subseteq Closure(h, S)
  BY ReachedNoMore
<1>3. Closure(h, S) \subseteq Closure(g, S)
  BY <1>1, ReachedNoMore
<1> QED
  BY <1>2, <1>3

\* So is what an object requires, however far.
LEMMA BelowSame ==
  ASSUME NEW D, D \subseteq Object, NEW h \in [D -> Fields(D)],
         NEW E, E \subseteq Object, NEW g \in [E -> Fields(E)],
         NEW K, K \subseteq D, K \subseteq E, KeepsReqs(h, K), SameReqs(h, g, K),
         NEW o \in K
  PROVE  Below(g, o) = Below(h, o)
<1>1. PICK R : R = h[o].reqs
  OBVIOUS
<1>2. R \subseteq K /\ g[o].reqs = R
  BY <1>1 DEF KeepsReqs, SameReqs
<1>3. Closure(g, R) = Closure(h, R)
  BY <1>2, ReachedSame
<1> QED
  BY <1>1, <1>2, <1>3 DEF Below

-----------------------------------------------------------------------------
(* A manager that is tidy *)

Askers(h, M) == {o \in M : h[o].using}

\* The map M has one object of a name, it has what its members require, none
\* of them leads back to its name, and there is nothing but what is asked for
\* and what that needs.
Tidy(h, M) ==
  /\ OneEach(M)
  /\ Orderly(h, M)
  /\ M \subseteq Closure(h, Askers(h, M))
  /\ \A o \in M : h[o].kind = "main" /\ ~h[o].wrapped

\* Two heaps have the same pointers and flags in M.
Alike(h, g, M) ==
  \A o \in M : /\ g[o].reqs = h[o].reqs
               /\ g[o].using = h[o].using
               /\ g[o].kind = h[o].kind
               /\ g[o].wrapped = h[o].wrapped

\* Orderly is what depends on the pointers of the members.
LEMMA OrderlyAlike ==
  ASSUME NEW D, D \subseteq Object, NEW h \in [D -> Fields(D)],
         NEW E, E \subseteq Object, NEW g \in [E -> Fields(E)],
         NEW M, M \subseteq D, M \subseteq E, Orderly(h, M), SameReqs(h, g, M)
  PROVE  Orderly(g, M)
<1>1. KeepsReqs(h, M) /\ KeepsReqs(g, M)
  BY DEF Orderly, KeepsReqs, SameReqs
<1>2. ASSUME NEW o \in M PROVE NameOf(o) \notin NamesOf(Below(g, o))
  <2>1. Below(g, o) = Below(h, o)
    BY <1>1, BelowSame
  <2> QED
    BY <2>1 DEF Orderly, NoWayBack
<1> QED
  BY <1>1, <1>2 DEF Orderly, NoWayBack

\* Tidy is what depends on the pointers and flags of the map.
LEMMA TidyAlike ==
  ASSUME NEW D, D \subseteq Object, NEW h \in [D -> Fields(D)],
         NEW E, E \subseteq Object, NEW g \in [E -> Fields(E)],
         NEW M, M \subseteq D, M \subseteq E, Tidy(h, M), Alike(h, g, M)
  PROVE  Tidy(g, M)
<1>1. SameReqs(h, g, M)
  BY DEF Alike, SameReqs
<1>2. Orderly(h, M) /\ Orderly(g, M)
  BY <1>1, OrderlyAlike DEF Tidy
<1>3. PICK S : S = Askers(h, M)
  OBVIOUS
<1>4. Askers(g, M) = S /\ S \subseteq M
  BY <1>3 DEF Askers, Alike
<1>5. Closure(g, S) = Closure(h, S)
  BY <1>1, <1>2, <1>4, ReachedSame DEF Orderly
<1>6. M \subseteq Closure(g, Askers(g, M))
  BY <1>3, <1>4, <1>5 DEF Tidy
<1>7. \A o \in M : g[o].kind = "main" /\ ~g[o].wrapped
  BY DEF Tidy, Alike
<1> QED
  BY <1>2, <1>6, <1>7 DEF Tidy

\* What a tidy manager has is exactly what is asked for and what that needs.
LEMMA TidyNeeds ==
  ASSUME NEW D, D \subseteq Object, NEW h \in [D -> Fields(D)],
         NEW M \in SUBSET D, Tidy(h, M)
  PROVE  Closure(h, Askers(h, M)) = M /\ Closure(h, M) = M
<1>1. Askers(h, M) \in SUBSET D /\ Askers(h, M) \subseteq M
  BY DEF Askers
<1>2. KeepsReqs(h, M)
  BY DEF Tidy, Orderly
<1>3. Closure(h, Askers(h, M)) \subseteq M
  BY <1>1, <1>2, ReachedIs
<1>4. M \subseteq Closure(h, M) /\ Closure(h, M) \subseteq M
  BY <1>2, ReachedIs
<1> QED
  BY <1>3, <1>4 DEF Tidy

-----------------------------------------------------------------------------
(* How deep the calls for an object nest *)

\* The names of the calls around a call for what o requires.
Size(h, o) == Cardinality(NamesOf({o} \cup Below(h, o)))

\* There are as many as names at most.
LEMMA SizeIs ==
  ASSUME NEW D, D \subseteq Object, NEW h \in [D -> Fields(D)], NEW o \in D
  PROVE  /\ Size(h, o) \in Nat /\ 1 <= Size(h, o) /\ Size(h, o) <= Depth
         /\ IsFiniteSet(NamesOf({o} \cup Below(h, o)))
<1> DEFINE N == NamesOf({o} \cup Below(h, o))
<1>1. \A x \in D : NameOf(x) \in Name
  BY ObjectNames
<1>2. N \subseteq Name /\ NameOf(o) \in N
  BY <1>1, BelowIs DEF NamesOf
<1> HIDE DEF N
<1>3. /\ IsFiniteSet(N) /\ Cardinality(N) \in Nat /\ Cardinality(Name) \in Nat
      /\ Cardinality(N) <= Cardinality(Name)
  BY <1>2, NameAssumption, FS_Subset, FS_CardinalityType
<1>4. Cardinality(N) # 0
  BY <1>2, <1>3, FS_EmptySet
<1> QED
  BY <1>3, <1>4 DEF Size, Depth, N

\* Fewer for what it requires, if nothing leads back to its name.
LEMMA SizeShrinks ==
  ASSUME NEW D, D \subseteq Object, NEW h \in [D -> Fields(D)], NEW o \in D,
         NameOf(o) \notin NamesOf(Below(h, o)), NEW r \in h[o].reqs
  PROVE  r \in D /\ Size(h, r) + 1 <= Size(h, o)
<1> DEFINE N == NamesOf({o} \cup Below(h, o))
<1> DEFINE R == NamesOf({r} \cup Below(h, r))
<1>1. r \in D /\ r \in Below(h, o) /\ Below(h, r) \subseteq Below(h, o)
  BY BelowShrinks
<1>2. R \subseteq N /\ NameOf(o) \in N /\ NameOf(o) \notin R
  BY <1>1 DEF NamesOf
<1>3. IsFiniteSet(N) /\ Size(h, o) \in Nat /\ Size(h, r) \in Nat
  BY <1>1, SizeIs
<1>4. Size(h, o) = Cardinality(N) /\ Size(h, r) = Cardinality(R)
  BY DEF Size
<1> HIDE DEF N, R
<1>5. Cardinality(R) <= Cardinality(N) /\ (Cardinality(N) = Cardinality(R) => N = R)
  BY <1>2, <1>3, FS_Subset
<1> QED
  BY <1>1, <1>2, <1>3, <1>4, <1>5

-----------------------------------------------------------------------------
(* connect_equal_pointers, for what has just been read *)

\* The objects of the map are M, the others have been read for root. U are
\* those that the map has no object for, as far as root leads to them without
\* one it has, and root itself.
Fresh(D, h, M, U, root) ==
  /\ M \subseteq D /\ OneEach(M) /\ KeepsReqs(h, M)
  /\ OneEach(D \ M) /\ KeepsReqs(h, (D \ M) \ U)
  /\ NoWayBack(h, D)
  /\ root \in U /\ U \subseteq D \ M
  /\ \A o \in D : root \notin h[o].reqs
  /\ \A o \in U : \A r \in h[o].reqs : NameOf(r) \notin NamesOf(M) => r \in U
  /\ \A o \in U : o # root => NameOf(o) \notin NamesOf(M)

\* A pointer may have been redirected to an object of the map.
Rewires(D, h, M, U, g) ==
  /\ \A o \in D : g[o] = [h[o] EXCEPT !.reqs = g[o].reqs]
  /\ \A o \in D \ U : g[o].reqs = h[o].reqs
  /\ \A o \in U : /\ g[o].reqs \subseteq h[o].reqs \cup M
                  /\ NamesOf(g[o].reqs) = NamesOf(h[o].reqs)

\* The worlds on the way.
Between(D, h, M, U) ==
  {x \in Worlds(D) : /\ x.map = M
                     /\ x.failed = "no"
                     /\ Rewires(D, h, M, U, x.heap)}

\* On the way a pointer can only be redirected to the map.
Onward(D, M, g, k) == \A o \in D : k[o].reqs \subseteq g[o].reqs \cup M

\* All of K have what they require in the map or in K.
JoinedSet(g, M, K) == \A o \in K : g[o].reqs \subseteq M \cup K

\* p is connected, and all it leads to that the map has no object for.
Connected(g, M, U, p) == \E K \in SUBSET U : p \in K /\ JoinedSet(g, M, K)

\* What is connected stays so.
LEMMA ConnectedOnward ==
  ASSUME NEW D, NEW M, NEW U \in SUBSET D, NEW g, NEW k, Onward(D, M, g, k),
         NEW p, Connected(g, M, U, p)
  PROVE  Connected(k, M, U, p)
<1>1. PICK K \in SUBSET U : p \in K /\ JoinedSet(g, M, K)
  BY DEF Connected
<1>2. JoinedSet(k, M, K)
  BY <1>1 DEF JoinedSet, Onward
<1> QED
  BY <1>1, <1>2 DEF Connected

\* Being on the way adds up.
LEMMA OnwardOn ==
  ASSUME NEW D, NEW M, NEW g, NEW k, NEW l, Onward(D, M, g, k), Onward(D, M, k, l)
  PROVE  Onward(D, M, g, l)
BY DEF Onward

\* Nothing leads back on the way either.
LEMMA BetweenApart ==
  ASSUME NEW D, D \subseteq Object, NEW h \in [D -> Fields(D)], NEW M, NEW U,
         NEW root, Fresh(D, h, M, U, root),
         NEW x \in Between(D, h, M, U), NEW o \in D,
         o \in U => NameOf(o) \notin NamesOf(M)
  PROVE  NameOf(o) \notin NamesOf(Below(x.heap, o))
<1> DEFINE g == x.heap
<1>1. x \in Worlds(D) /\ g \in [D -> Fields(D)] /\ Rewires(D, h, M, U, g)
  BY WorldFields DEF Between
<1>2. M \in SUBSET D /\ U \in SUBSET D
  BY DEF Fresh
<1>3. SameReqs(h, g, D \ U)
  BY <1>1 DEF SameReqs, Rewires
<1> SUFFICES NameOf(o) \notin NamesOf(Below(g, o))
  OBVIOUS
<1> HIDE DEF g
<1>4. NameOf(o) \notin NamesOf(Below(h, o))
  BY DEF Fresh, NoWayBack
<1>5. CASE o \in M
  <2>1. KeepsReqs(h, M) /\ SameReqs(h, g, M)
    BY <1>3 DEF Fresh, SameReqs
  <2>2. Below(g, o) = Below(h, o)
    BY <1>1, <1>2, <1>5, <2>1, BelowSame
  <2> QED
    BY <1>4, <2>2
<1>6. CASE o \in (D \ M) \ U
  <2> DEFINE K == (D \ M) \ U
  <2>1. KeepsReqs(h, K) /\ SameReqs(h, g, K) /\ K \subseteq D
    BY <1>3 DEF Fresh, SameReqs
  <2> HIDE DEF K
  <2>2. Below(g, o) = Below(h, o)
    BY <1>1, <1>6, <2>1, BelowSame DEF K
  <2> QED
    BY <1>4, <2>2
<1>7. CASE o \in U
  <2> DEFINE B == Below(h, o) \cup M
  <2>1. Below(h, o) \in SUBSET D /\ KeepsReqs(h, Below(h, o)) /\ h[o].reqs \subseteq B
    BY BelowIs
  <2>2. B \in SUBSET D /\ KeepsReqs(h, B)
    BY <1>2, <2>1 DEF KeepsReqs, Fresh
  <2>3. ASSUME NEW y \in D, h[y].reqs \subseteq B PROVE g[y].reqs \subseteq B
    BY <1>1, <2>3 DEF Rewires
  <2>4. KeepsReqs(g, B) /\ g[o].reqs \subseteq B
    BY <2>1, <2>2, <2>3 DEF KeepsReqs
  <2>5. Below(g, o) \subseteq B
    BY <1>1, <2>2, <2>4, BelowIs
  <2>6. NameOf(o) \notin NamesOf(M)
    BY <1>7 DEF Fresh
  <2> QED
    BY <1>4, <2>5, <2>6 DEF NamesOf
<1> QED
  BY <1>5, <1>6, <1>7

\* So cycle_check finds nothing.
LEMMA BetweenCheck ==
  ASSUME NEW D, D \subseteq Object, NEW h \in [D -> Fields(D)], NEW M, NEW U,
         NEW root, Fresh(D, h, M, U, root),
         NEW x \in Between(D, h, M, U), NEW p \in U
  PROVE  CycleCheck(x, p) = x
<1> DEFINE g == x.heap
<1> DEFINE S == D \ {root}
<1>1. x \in Worlds(D) /\ g \in [D -> Fields(D)] /\ Rewires(D, h, M, U, g)
  BY WorldFields DEF Between
<1>2. M \in SUBSET D /\ U \in SUBSET D /\ S \in SUBSET D /\ p \in D /\ root \notin M
  BY DEF Fresh
<1> HIDE DEF g
<1>3. \A o \in D : g[o].reqs \subseteq S
  <2> SUFFICES ASSUME NEW o \in D, NEW r \in g[o].reqs PROVE r \in S
    OBVIOUS
  <2>1. r \in D
    BY <1>1 DEF Fields
  <2>2. r \in h[o].reqs \/ r \in M
    BY <1>1 DEF Rewires
  <2> QED
    BY <1>2, <2>1, <2>2 DEF Fresh
<1>4. KeepsReqs(g, S)
  BY <1>3 DEF KeepsReqs
<1>5. ASSUME NEW o \in S PROVE NameOf(o) \notin NamesOf(Below(g, o))
  <2>1. o \in U => NameOf(o) \notin NamesOf(M)
    BY DEF Fresh
  <2>2. o \in D
    OBVIOUS
  <2> QED
    BY <2>1, <2>2, BetweenApart DEF g
<1>6. Orderly(g, S)
  BY <1>4, <1>5 DEF Orderly, NoWayBack
<1>7. g[p].reqs \subseteq S
  BY <1>2, <1>3
<1> QED
  BY <1>1, <1>2, <1>6, <1>7, OrderlyCheck DEF g

\* From x to y a pointer of p is redirected to the map, and not to r.
RedirectStep(D, h, M, U, x, p, r, y) ==
  /\ y \in Between(D, h, M, U)
  /\ Onward(D, M, x.heap, y.heap)
  /\ y.heap[p].reqs \subseteq (x.heap[p].reqs \ {r}) \cup M

\* A pointer that is redirected to the map.
LEMMA RedirectBetween ==
  ASSUME NEW D, D \subseteq Object, NEW h \in [D -> Fields(D)], NEW M \in SUBSET D,
         NEW U \in SUBSET D, NEW x \in Between(D, h, M, U), NEW p \in U, NEW r,
         Has(x, NameOf(r)), NameOf(r) \in NamesOf(h[p].reqs)
  PROVE  RedirectStep(D, h, M, U, x, p, r, Redirect(x, p, r))
<1>1. /\ x \in Worlds(D) /\ x.heap \in [D -> Fields(D)] /\ x.map = M
      /\ x.failed = "no" /\ Rewires(D, h, M, U, x.heap) /\ DOMAIN x.heap = D
  BY WorldFields DEF Between
<1>2. PICK m : m = At(x, NameOf(r))
  OBVIOUS
<1>3. m \in M /\ NameOf(m) = NameOf(r)
  BY <1>1, <1>2, AtIn
<1> DEFINE R == (x.heap[p].reqs \ {r}) \cup {m}
<1>4. PICK k : k = [x.heap EXCEPT ![p].reqs = R]
  OBVIOUS
<1>5. Redirect(x, p, r) = [x EXCEPT !.heap = k]
  BY <1>2, <1>4, Zenon DEF Redirect
<1>6. PICK y : y = Redirect(x, p, r)
  OBVIOUS
<1>7. y \in Worlds(D)
  BY <1>1, <1>6, RedirectIn, KinOf
<1>8. y.heap = k /\ y.map = M /\ y.failed = "no"
  BY <1>1, <1>5, <1>6, WorldFields DEF Worlds
<1>9. /\ k[p] = [x.heap[p] EXCEPT !.reqs = R]
      /\ \A o \in D : o # p => k[o] = x.heap[o]
  BY <1>1, <1>4
<1>10. R \subseteq x.heap[p].reqs \cup M
  BY <1>3
<1>11. NamesOf(R) = NamesOf(h[p].reqs)
  <2>1. NamesOf(x.heap[p].reqs) = NamesOf(h[p].reqs)
    BY <1>1 DEF Rewires
  <2>2. NamesOf(R) = NamesOf(x.heap[p].reqs)
    BY <1>3, <2>1 DEF NamesOf
  <2> QED
    BY <2>1, <2>2
<1> HIDE DEF R
<1>12. x.heap[p] \in Fields(D) /\ h[p] \in Fields(D)
  BY <1>1
<1>13. k[p].reqs = R
  BY <1>9, <1>12 DEF Fields
<1>14. k[p] = [h[p] EXCEPT !.reqs = R]
  <2>1. x.heap[p] = [h[p] EXCEPT !.reqs = x.heap[p].reqs]
    BY <1>1 DEF Rewires
  <2> QED
    BY <1>9, <1>12, <2>1 DEF Fields
<1>15. Onward(D, M, x.heap, k)
  BY <1>9, <1>10, <1>13 DEF Onward
<1>16. Rewires(D, h, M, U, k)
  <2>1. \A o \in D : k[o] = [h[o] EXCEPT !.reqs = k[o].reqs]
    BY <1>1, <1>9, <1>13, <1>14 DEF Rewires
  <2>2. \A o \in D \ U : k[o].reqs = h[o].reqs
    BY <1>1, <1>9 DEF Rewires
  <2>3. \A o \in U : /\ k[o].reqs \subseteq h[o].reqs \cup M
                     /\ NamesOf(k[o].reqs) = NamesOf(h[o].reqs)
    BY <1>1, <1>9, <1>10, <1>11, <1>13 DEF Rewires
  <2> QED
    BY <2>1, <2>2, <2>3 DEF Rewires
<1>17. k[p].reqs \subseteq (x.heap[p].reqs \ {r}) \cup M
  BY <1>3, <1>13 DEF R
<1> QED
  BY <1>6, <1>7, <1>8, <1>15, <1>16, <1>17 DEF Between, RedirectStep

\* Calls that connect what they are for, if it needs no more than d calls.
GoodConnecting(D, h, M, U, d) ==
  {f \in Connecting(D) :
     \A x \in Between(D, h, M, U), p \in U :
       Size(h, p) <= d => /\ f[x][p] \in Between(D, h, M, U)
                          /\ Onward(D, M, x.heap, f[x][p].heap)
                          /\ Connected(f[x][p].heap, M, U, p)}

\* After some turns of connect_equal_pointers for p, from g: the other
\* pointers of p are as they were.
ConnectStage(D, h, M, U, g, p, left) ==
  {acc \in Between(D, h, M, U) :
     /\ Onward(D, M, g, acc.heap)
     /\ \A r \in acc.heap[p].reqs :
          \/ r \in M
          \/ r \in U /\ Connected(acc.heap, M, U, r)
          \/ r \in left}

\* One turn connects one of them.
LEMMA ConnectTurn ==
  ASSUME NEW D, D \subseteq Object, NEW h \in [D -> Fields(D)], NEW M, NEW U,
         NEW root, Fresh(D, h, M, U, root), NEW d \in Nat,
         NEW connect \in GoodConnecting(D, h, M, U, d), NEW p \in U,
         Size(h, p) <= d + 1, NEW x \in Between(D, h, M, U),
         NEW r \in x.heap[p].reqs, NEW left, NEW rest, left \subseteq rest \cup {r},
         NEW acc \in ConnectStage(D, h, M, U, x.heap, p, left)
  PROVE  (IF acc.failed # "no" THEN acc
          ELSE IF Has(acc, NameOf(r)) THEN Redirect(acc, p, r)
          ELSE connect[acc][r]) \in ConnectStage(D, h, M, U, x.heap, p, rest)
<1>1. /\ acc \in Between(D, h, M, U) /\ acc.failed = "no" /\ acc.map = M
      /\ Onward(D, M, x.heap, acc.heap)
      /\ Rewires(D, h, M, U, x.heap) /\ Rewires(D, h, M, U, acc.heap)
  BY DEF ConnectStage, Between
<1>2. /\ M \in SUBSET D /\ U \in SUBSET D /\ p \in D
  BY DEF Fresh
<1>3. NameOf(r) \in NamesOf(h[p].reqs)
  <2>1. NameOf(r) \in NamesOf(x.heap[p].reqs)
    BY DEF NamesOf
  <2>2. NamesOf(x.heap[p].reqs) = NamesOf(h[p].reqs)
    BY <1>1 DEF Rewires
  <2> QED
    BY <2>1, <2>2
<1>4. CASE Has(acc, NameOf(r))
  <2>1. PICK y : y = Redirect(acc, p, r)
    OBVIOUS
  <2>2. /\ y \in Between(D, h, M, U)
        /\ Onward(D, M, acc.heap, y.heap)
        /\ y.heap[p].reqs \subseteq (acc.heap[p].reqs \ {r}) \cup M
    <3>1. M \in SUBSET D /\ U \in SUBSET D /\ p \in U /\ acc \in Between(D, h, M, U)
      BY <1>1, <1>2
    <3>2. Has(acc, NameOf(r)) /\ NameOf(r) \in NamesOf(h[p].reqs)
      BY <1>3, <1>4
    <3>3. RedirectStep(D, h, M, U, acc, p, r, Redirect(acc, p, r))
      BY <3>1, <3>2, RedirectBetween
    <3> QED
      BY <2>1, <3>3 DEF RedirectStep
  <2>3. Onward(D, M, x.heap, y.heap)
    BY <1>1, <2>2, OnwardOn
  <2>4. ASSUME NEW q \in y.heap[p].reqs
        PROVE  \/ q \in M
               \/ q \in U /\ Connected(y.heap, M, U, q)
               \/ q \in rest
    <3>1. q \in M \/ (q \in acc.heap[p].reqs /\ q # r)
      BY <2>2
    <3>2. \/ q \in M
          \/ q \in U /\ Connected(acc.heap, M, U, q)
          \/ q \in left /\ q # r
      BY <3>1 DEF ConnectStage
    <3>3. Connected(acc.heap, M, U, q) => Connected(y.heap, M, U, q)
      BY <1>2, <2>2, ConnectedOnward
    <3> QED
      BY <3>2, <3>3
  <2>5. y \in ConnectStage(D, h, M, U, x.heap, p, rest)
    BY <2>2, <2>3, <2>4 DEF ConnectStage
  <2> QED
    BY <1>1, <1>4, <2>1, <2>5
<1>5. CASE ~Has(acc, NameOf(r))
  <2>1. NameOf(r) \notin NamesOf(M)
    BY <1>1, <1>5 DEF Has
  <2>2. r \notin M
    BY <2>1 DEF NamesOf
  <2>3. r \in h[p].reqs
    BY <1>1, <2>2 DEF Rewires
  <2>4. r \in U
    BY <2>1, <2>3 DEF Fresh
  <2>5. NameOf(p) \notin NamesOf(Below(h, p))
    BY <1>2 DEF Fresh, NoWayBack
  <2>6. Size(h, r) + 1 <= Size(h, p) /\ Size(h, r) \in Nat /\ Size(h, p) \in Nat
    BY <1>2, <2>3, <2>4, <2>5, SizeShrinks, SizeIs
  <2>7. Size(h, r) <= d
    BY <2>6
  <2>8. PICK y : y = connect[acc][r]
    OBVIOUS
  <2>9. /\ y \in Between(D, h, M, U)
        /\ Onward(D, M, acc.heap, y.heap)
        /\ Connected(y.heap, M, U, r)
    BY <1>1, <2>4, <2>7, <2>8 DEF GoodConnecting
  <2>10. Onward(D, M, x.heap, y.heap)
    BY <1>1, <2>9, OnwardOn
  <2>11. ASSUME NEW q \in y.heap[p].reqs
         PROVE  \/ q \in M
                \/ q \in U /\ Connected(y.heap, M, U, q)
                \/ q \in rest
    <3>1. q \in M \/ q \in acc.heap[p].reqs
      BY <1>2, <2>9 DEF Onward
    <3>2. \/ q \in M
          \/ q \in U /\ Connected(acc.heap, M, U, q)
          \/ q \in left
      BY <3>1 DEF ConnectStage
    <3>3. Connected(acc.heap, M, U, q) => Connected(y.heap, M, U, q)
      BY <1>2, <2>9, ConnectedOnward
    <3> QED
      BY <2>4, <2>9, <3>2, <3>3
  <2>12. y \in ConnectStage(D, h, M, U, x.heap, p, rest)
    BY <2>9, <2>10, <2>11 DEF ConnectStage
  <2> QED
    BY <1>1, <1>5, <2>8, <2>12
<1> QED
  BY <1>4, <1>5

\* All turns connect p.
LEMMA ConnectOnceJoins ==
  ASSUME NEW D, D \subseteq Object, NEW h \in [D -> Fields(D)], NEW M, NEW U,
         NEW root, Fresh(D, h, M, U, root), NEW d \in Nat,
         NEW connect \in GoodConnecting(D, h, M, U, d), NEW p \in U,
         Size(h, p) <= d + 1, NEW x \in Between(D, h, M, U)
  PROVE  /\ ConnectOnce(connect, x, p) \in Between(D, h, M, U)
         /\ Onward(D, M, x.heap, ConnectOnce(connect, x, p).heap)
         /\ Connected(ConnectOnce(connect, x, p).heap, M, U, p)
<1>1. /\ x \in Worlds(D) /\ DOMAIN x.heap = D /\ x.heap \in [D -> Fields(D)]
  BY WorldFields DEF Between
<1>2. p \in D /\ M \in SUBSET D /\ U \in SUBSET D
  BY DEF Fresh
<1>3. CycleCheck(x, p) = x
  BY BetweenCheck
<1> DEFINE Connect == [acc \in Worlds(D) |-> [r \in D |->
        IF acc.failed # "no" THEN acc
        ELSE IF Has(acc, NameOf(r)) THEN Redirect(acc, p, r)
        ELSE connect[acc][r]]]
<1>4. PICK q : q = Required(x.heap, p)
  OBVIOUS
<1>5. x.heap[p].reqs \subseteq Object /\ x.heap[p].reqs \subseteq D
  BY <1>1, <1>2 DEF Fields
<1>6. /\ q \in Seq(x.heap[p].reqs)
      /\ \A r \in x.heap[p].reqs : \E i \in 1 .. Len(q) : q[i] = r
  BY <1>4, <1>5, RequiredIn
<1>7. q \in Seq(D) /\ Len(q) \in Nat /\ \A i \in 1 .. Len(q) : q[i] \in x.heap[p].reqs
  BY <1>5, <1>6, SeqMonotonic, LenProperties
<1> DEFINE Left(i) == {q[j] : j \in i + 1 .. Len(q)}
<1> DEFINE P == [i \in 0 .. Len(q) |-> ConnectStage(D, h, M, U, x.heap, p, Left(i))]
<1>8. ConnectOnce(connect, x, p) = Loop(Connect, x, q)
  BY <1>1, <1>3, <1>4 DEF ConnectOnce
<1>9. StaysIn(Connect, Worlds(D), D)
  <2> SUFFICES ASSUME NEW acc \in Worlds(D), NEW r \in D
               PROVE  Connect[acc][r] \in Worlds(D)
    BY DEF StaysIn
  <2>1. connect[acc][r] \in Worlds(D)
    BY DEF GoodConnecting, Connecting
  <2>2. Has(acc, NameOf(r)) => Redirect(acc, p, r) \in Worlds(D)
    BY <1>2, RedirectIn, KinOf
  <2> QED
    BY <2>1, <2>2
<1>10. x \in P[0]
  <2>1. Onward(D, M, x.heap, x.heap)
    BY DEF Onward
  <2>2. \A r \in x.heap[p].reqs : r \in Left(0)
    BY <1>6
  <2>3. P[0] = ConnectStage(D, h, M, U, x.heap, p, Left(0))
    BY <1>7
  <2> QED
    BY <2>1, <2>2, <2>3 DEF ConnectStage
<1>11. Stages(P, Connect, q)
  <2> SUFFICES ASSUME NEW i \in 1 .. Len(q), NEW acc \in P[i - 1]
               PROVE  Connect[acc][q[i]] \in P[i]
    BY DEF Stages
  <2>1. i - 1 \in 0 .. Len(q) /\ i \in 0 .. Len(q)
    BY <1>7
  <2>2. /\ P[i - 1] = ConnectStage(D, h, M, U, x.heap, p, Left(i - 1))
        /\ P[i] = ConnectStage(D, h, M, U, x.heap, p, Left(i))
    BY <2>1
  <2>3. Left(i - 1) \subseteq Left(i) \cup {q[i]}
    <3>1. ASSUME NEW j \in (i - 1) + 1 .. Len(q) PROVE j = i \/ j \in i + 1 .. Len(q)
      BY <1>7
    <3> QED
      BY <3>1
  <2>4. q[i] \in x.heap[p].reqs /\ q[i] \in D
    BY <1>7, <1>5
  <2>5. acc \in ConnectStage(D, h, M, U, x.heap, p, Left(i - 1)) /\ acc \in Worlds(D)
    BY <2>2 DEF ConnectStage, Between
  <2>6. PICK left, rest : left = Left(i - 1) /\ rest = Left(i)
    OBVIOUS
  <2>7. PICK r : r = q[i]
    OBVIOUS
  <2>8. Connect[acc][q[i]] = IF acc.failed # "no" THEN acc
                             ELSE IF Has(acc, NameOf(r)) THEN Redirect(acc, p, r)
                             ELSE connect[acc][r]
    BY <2>4, <2>5, <2>7
  <2> HIDE DEF Left, Connect, P
  <2>9. left \subseteq rest \cup {r} /\ r \in x.heap[p].reqs
    BY <2>3, <2>4, <2>6, <2>7
  <2>10. acc \in ConnectStage(D, h, M, U, x.heap, p, left)
    BY <2>5, <2>6
  <2>11. (IF acc.failed # "no" THEN acc
          ELSE IF Has(acc, NameOf(r)) THEN Redirect(acc, p, r)
          ELSE connect[acc][r]) \in ConnectStage(D, h, M, U, x.heap, p, rest)
    BY <2>9, <2>10, ConnectTurn
  <2> QED
    BY <2>2, <2>6, <2>8, <2>11
<1>12. P[Len(q)] = ConnectStage(D, h, M, U, x.heap, p, {})
  <2>1. Left(Len(q)) = {}
    BY <1>7
  <2>2. Len(q) \in 0 .. Len(q)
    BY <1>7
  <2> QED
    BY <2>1, <2>2
<1> HIDE DEF P, Connect, Left
<1>13. Loop(Connect, x, q) \in P[Len(q)]
  BY <1>1, <1>7, <1>9, <1>10, <1>11, LoopStages
<1>14. PICK y : y = ConnectOnce(connect, x, p)
  OBVIOUS
<1>15. y \in ConnectStage(D, h, M, U, x.heap, p, {})
  BY <1>8, <1>12, <1>13, <1>14
<1>16. /\ y \in Between(D, h, M, U) /\ Onward(D, M, x.heap, y.heap)
       /\ \A r \in y.heap[p].reqs : r \in M \/ (r \in U /\ Connected(y.heap, M, U, r))
  BY <1>15 DEF ConnectStage
<1> DEFINE S == {K \in SUBSET U : JoinedSet(y.heap, M, K)}
<1> DEFINE all == {p} \cup UNION S
<1>17. all \in SUBSET U
  OBVIOUS
<1>18. JoinedSet(y.heap, M, all)
  <2> SUFFICES ASSUME NEW o \in all PROVE y.heap[o].reqs \subseteq M \cup all
    BY DEF JoinedSet
  <2>1. CASE o = p
    BY <1>16, <2>1 DEF Connected
  <2>2. CASE o # p
    <3>1. PICK K \in S : o \in K
      BY <2>2
    <3>2. y.heap[o].reqs \subseteq M \cup K
      BY <3>1 DEF JoinedSet
    <3> QED
      BY <3>1, <3>2
  <2> QED
    BY <2>1, <2>2
<1>19. Connected(y.heap, M, U, p)
  BY <1>17, <1>18 DEF Connected
<1> QED
  BY <1>14, <1>16, <1>19

\* connect_equal_pointers connects what has been read.
LEMMA ConnectJoins ==
  ASSUME NEW D, D \subseteq Object, NEW w \in Worlds(D), NEW U, NEW root,
         Fresh(D, w.heap, w.map, U, root), w.failed = "no"
  PROVE  /\ ConnectEqualPointers(w, root) \in Between(D, w.heap, w.map, U)
         /\ Connected(ConnectEqualPointers(w, root).heap, w.map, U, root)
<1>1. PICK h, M : h = w.heap /\ M = w.map
  OBVIOUS
<1>2. h \in [D -> Fields(D)] /\ Fresh(D, h, M, U, root) /\ root \in U /\ root \in D
  BY <1>1, WorldFields DEF Fresh
<1>3. PICK g : ConnectCalls(D, g)
  BY ConnectLevels
<1> DEFINE S == {d \in Nat : g[d] \in GoodConnecting(D, h, M, U, d)}
<1>4. 0 \in S
  <2>1. g[0] \in Connecting(D)
    BY <1>3, DepthIsNumber DEF ConnectCalls
  <2>2. ASSUME NEW p \in U PROVE ~(Size(h, p) <= 0)
    <3>1. p \in D
      BY <1>2 DEF Fresh
    <3>2. Size(h, p) \in Nat /\ 1 <= Size(h, p)
      BY <1>2, <3>1, SizeIs
    <3> QED
      BY <3>2
  <2> QED
    BY <2>1, <2>2 DEF GoodConnecting
<1>5. ASSUME NEW d \in 1 .. Depth, d - 1 \in S PROVE d \in S
  <2>1. g[d - 1] \in GoodConnecting(D, h, M, U, d - 1) /\ d - 1 \in Nat
    BY <1>5
  <2>2. d \in Nat /\ d \in 0 .. Depth /\ (d - 1) + 1 = d
    BY DepthIsNumber
  <2>3. g[d] \in Connecting(D)
    BY <1>3, <2>2 DEF ConnectCalls
  <2>4. ASSUME NEW x \in Between(D, h, M, U), NEW p \in U, Size(h, p) <= d
        PROVE  /\ g[d][x][p] \in Between(D, h, M, U)
               /\ Onward(D, M, x.heap, g[d][x][p].heap)
               /\ Connected(g[d][x][p].heap, M, U, p)
    <3>1. g[d] = [y \in Worlds(D) |-> [o \in D |-> ConnectOnce(g[d - 1], y, o)]]
      BY <1>3 DEF ConnectCalls
    <3>2. x \in Worlds(D) /\ p \in D
      BY <1>2 DEF Between, Fresh
    <3>3. g[d][x][p] = ConnectOnce(g[d - 1], x, p)
      BY <3>1, <3>2
    <3>4. Size(h, p) <= (d - 1) + 1
      BY <2>2, <2>4
    <3> QED
      BY <1>2, <2>1, <3>3, <3>4, ConnectOnceJoins
  <2> QED
    BY <2>2, <2>3, <2>4 DEF GoodConnecting
<1> HIDE DEF S
<1>6. Depth \in S
  BY <1>4, <1>5, DepthIsNumber, EveryDepth
<1>7. ConnectEqualPointers(w, root) = g[Depth][w][root]
  BY <1>3 DEF ConnectCalls
<1>8. w \in Between(D, h, M, U)
  <2>1. \A o \in D : h[o] \in Fields(D)
    BY <1>2
  <2>2. \A o \in D : h[o] = [h[o] EXCEPT !.reqs = h[o].reqs]
    BY <2>1 DEF Fields
  <2>3. Rewires(D, h, M, U, h)
    BY <2>2 DEF Rewires
  <2> QED
    BY <1>1, <2>3 DEF Between
<1>9. Size(h, root) <= Depth
  BY <1>2, SizeIs
<1>10. /\ g[Depth][w][root] \in Between(D, h, M, U)
       /\ Connected(g[Depth][w][root].heap, M, U, root)
  BY <1>2, <1>6, <1>8, <1>9 DEF S, GoodConnecting
<1> QED
  BY <1>1, <1>7, <1>10

-----------------------------------------------------------------------------
(* operator== *)

\* The values of SamePackage at the depths it nests to.
SameCalls(D, heap, g) ==
  /\ \A x, y : SamePackage(heap, x, y) = g[Depth][x][y]
  /\ g[0] = [x \in D |-> [y \in D |-> TRUE]]
  /\ \A d \in 1 .. Depth :
       g[d] = [x \in D |-> [y \in D |-> SameBut(heap, g[d - 1], x, y)]]

\* There are such values.
LEMMA SameLevels ==
  ASSUME NEW D, NEW heap, DOMAIN heap = D
  PROVE  \E g : SameCalls(D, heap, g)
<1> DEFINE V == [D -> [D -> BOOLEAN]]
<1> DEFINE Once(v) == [x \in D |-> [y \in D |-> SameBut(heap, v, x, y)]]
<1> DEFINE b == [x \in D |-> [y \in D |-> TRUE]]
<1> DEFINE Goes(f) == f = [d \in 0 .. Depth |-> IF d = 0 THEN b ELSE Once(f[d - 1])]
<1>1. b \in V
  OBVIOUS
<1>2. \A v \in V : Once(v) \in V
  <2> SUFFICES ASSUME NEW v \in V PROVE Once(v) \in V
    OBVIOUS
  <2>1. \A x \in D, y \in D : SameBut(heap, v, x, y) \in BOOLEAN
    BY DEF SameBut
  <2> QED
    BY <2>1
<1>3. \E f : Goes(f)
  <2> HIDE DEF V, Once, b
  <2>1. PICK step : step = [v \in V |-> Once(v)]
    OBVIOUS
  <2>2. step \in [V -> V]
    BY <1>2, <2>1
  <2>3. PICK f : Iterates(f, V, b, Depth, step)
    BY <1>1, <2>2, DepthIsNumber, Nested
  <2>4. ASSUME NEW i \in 0 .. Depth
        PROVE  f[i] = IF i = 0 THEN b ELSE Once(f[i - 1])
    <3>1. CASE i = 0
      BY <2>3, <3>1 DEF Iterates
    <3>2. CASE i # 0
      <4>1. i \in 1 .. Depth /\ i - 1 \in 0 .. Depth
        BY <3>2, DepthIsNumber
      <4>2. f[i - 1] \in V
        BY <2>3, <4>1 DEF Iterates
      <4>3. f[i] = step[f[i - 1]]
        BY <2>3, <4>1 DEF Iterates
      <4> QED
        BY <2>1, <3>2, <4>2, <4>3
    <3> QED
      BY <3>1, <3>2
  <2>5. DOMAIN f = 0 .. Depth /\ f = [i \in DOMAIN f |-> f[i]]
    BY <2>3 DEF Iterates
  <2>6. f = [i \in 0 .. Depth |-> IF i = 0 THEN b ELSE Once(f[i - 1])]
    BY <2>4, <2>5
  <2> QED
    BY <2>6
<1>4. PICK g : g = CHOOSE f : Goes(f)
  OBVIOUS
<1>5. Goes(g)
  <2> HIDE DEF Goes
  <2> QED
    BY <1>3, <1>4
<1>6. \A x, y : SamePackage(heap, x, y) = g[Depth][x][y]
  BY <1>4 DEF SamePackage
<1>7. /\ g[0] = b
      /\ \A d \in 1 .. Depth : g[d] = Once(g[d - 1])
  <2> HIDE DEF Once, b
  <2> QED
    BY <1>5, DepthIsNumber
<1>8. SameCalls(D, heap, g)
  BY <1>6, <1>7 DEF SameCalls
<1> QED
  BY <1>8

\* Every package is the same as itself.
LEMMA SameSelf ==
  ASSUME NEW D, D \subseteq Object, NEW heap \in [D -> Fields(D)], NEW o \in D
  PROVE  SamePackage(heap, o, o)
<1>1. DOMAIN heap = D
  OBVIOUS
<1>2. PICK g : SameCalls(D, heap, g)
  BY <1>1, SameLevels
<1> DEFINE S == {d \in Nat : \A x \in D : g[d][x][x] = TRUE}
<1>3. 0 \in S
  BY <1>2 DEF SameCalls
<1>4. ASSUME NEW d \in 1 .. Depth, d - 1 \in S PROVE d \in S
  <2>1. d \in Nat
    BY DepthIsNumber
  <2>2. ASSUME NEW x \in D PROVE g[d][x][x] = TRUE
    <3>1. g[d] = [p \in D |-> [y \in D |-> SameBut(heap, g[d - 1], p, y)]]
      BY <1>2 DEF SameCalls
    <3>2. PICK v : v = g[d - 1]
      OBVIOUS
    <3>3. g[d][x][x] = SameBut(heap, v, x, x)
      BY <3>1, <3>2
    <3>4. PICK n \in Nat : Required(heap, x) \in [1 .. n -> D]
      BY RequiredSeq, LenProperties
    <3>5. \A p \in D : v[p][p]
      BY <1>4, <3>2
    <3>6. SameBut(heap, v, x, x)
      BY <3>4, <3>5 DEF SameBut
    <3> QED
      BY <3>3, <3>6
  <2> QED
    BY <2>1, <2>2
<1> HIDE DEF S
<1>5. Depth \in S
  BY <1>3, <1>4, DepthIsNumber, EveryDepth
<1>6. g[Depth][o][o] = TRUE
  BY <1>5 DEF S
<1>7. SamePackage(heap, o, o) = g[Depth][o][o]
  BY <1>2 DEF SameCalls
<1> QED
  BY <1>6, <1>7

\* A main package that is the same as another one requires the same names.
LEMMA SameNames ==
  ASSUME NEW D, D \subseteq Object, NEW heap \in [D -> Fields(D)],
         NEW x \in D, NEW y \in D, SamePackage(heap, x, y),
         heap[y].kind = "main", ~heap[y].wrapped,
         NameOf(y) \notin NamesOf(heap[y].reqs)
  PROVE  NamesOf(heap[y].reqs) \subseteq NamesOf(heap[x].reqs)
<1>1. DOMAIN heap = D /\ heap[x].reqs \subseteq D /\ heap[y].reqs \subseteq D
  BY DEF Fields
<1>2. PICK g : SameCalls(D, heap, g)
  BY <1>1, SameLevels
<1> SUFFICES ASSUME NEW r \in heap[y].reqs
             PROVE  NameOf(r) \in NamesOf(heap[x].reqs)
  BY DEF NamesOf
<1>3. /\ NameOf(r) \in Name /\ NameOf(y) \in Name /\ NameOf(r) # NameOf(y)
  BY <1>1, ObjectNames DEF NamesOf
<1>4. Depth \in Nat /\ Depth # 0 /\ Depth # 1
  <2>1. {NameOf(r), NameOf(y)} \subseteq Name
    BY <1>3
  <2>2. Cardinality({NameOf(r), NameOf(y)}) = 2
    <3>1. /\ IsFiniteSet({NameOf(y)}) /\ Cardinality({NameOf(y)}) = 1
      BY FS_Singleton
    <3>2. Cardinality({NameOf(y)} \cup {NameOf(r)}) = 1 + 1
      BY <1>3, <3>1, FS_AddElement
    <3>3. {NameOf(y)} \cup {NameOf(r)} = {NameOf(r), NameOf(y)}
      OBVIOUS
    <3> QED
      BY <3>2, <3>3
  <2>3. 2 <= Cardinality(Name)
    BY <2>1, <2>2, NameAssumption, FS_Subset
  <2> QED
    BY <2>3, DepthIsNumber DEF Depth
<1>5. Depth \in 1 .. Depth /\ Depth - 1 \in 1 .. Depth
  BY <1>4
<1>6. PICK v, u : v = g[Depth - 1] /\ u = g[(Depth - 1) - 1]
  OBVIOUS
<1>7. /\ g[Depth] = [p \in D |-> [q \in D |-> SameBut(heap, v, p, q)]]
      /\ v = [p \in D |-> [q \in D |-> SameBut(heap, u, p, q)]]
  BY <1>2, <1>5, <1>6 DEF SameCalls
<1>8. SamePackage(heap, x, y) = g[Depth][x][y]
  BY <1>2 DEF SameCalls
<1>9. g[Depth][x][y] = SameBut(heap, v, x, y)
  BY <1>7
<1>10. SameBut(heap, v, x, y)
  BY <1>8, <1>9
<1>11. PICK rx, ry : rx = Required(heap, x) /\ ry = Required(heap, y)
  OBVIOUS
<1>12. /\ heap[x].wrapped = heap[y].wrapped
       /\ ~heap[x].wrapped =>
            /\ heap[x].kind = heap[y].kind
            /\ heap[x].kind = "main" =>
                 /\ Len(rx) = Len(ry)
                 /\ \A i \in DOMAIN rx : i \in DOMAIN ry /\ v[rx[i]][ry[i]]
  BY <1>10, <1>11 DEF SameBut
<1>13. /\ Len(rx) = Len(ry)
       /\ \A i \in DOMAIN rx : v[rx[i]][ry[i]]
  BY <1>12
<1>14. /\ rx \in Seq(heap[x].reqs) /\ ry \in Seq(heap[y].reqs)
       /\ \E i \in 1 .. Len(ry) : ry[i] = r
  BY <1>1, <1>11, RequiredIn
<1>15. PICK i \in 1 .. Len(ry) : ry[i] = r
  BY <1>14
<1>16. i \in DOMAIN rx /\ rx[i] \in heap[x].reqs /\ rx[i] \in D /\ r \in D
  BY <1>1, <1>13, <1>14, <1>15, LenProperties
<1>17. v[rx[i]][r] = SameBut(heap, u, rx[i], r)
  BY <1>7, <1>16
<1>18. NameOf(rx[i]) = NameOf(r)
  BY <1>13, <1>15, <1>16, <1>17 DEF SameBut
<1> QED
  BY <1>16, <1>18 DEF NamesOf

-----------------------------------------------------------------------------
(* add, for what is connected *)

\* W are the packages of the map and those to come into it; what is required
\* in h is as it will be.
Ready(D, h, W) ==
  /\ W \subseteq D /\ OneEach(W) /\ Orderly(h, W)
  /\ \A o \in W : h[o].kind = "main"

\* Only flags may have been set.
Flagged(D, h, g) == \A o \in D : g[o] = [h[o] EXCEPT !.using = g[o].using]

\* The worlds on the way.
Filling(D, h, W) ==
  {x \in Worlds(D) : /\ x.map \subseteq W
                     /\ x.failed = "no"
                     /\ Flagged(D, h, x.heap)}

\* The pointers are those of h on the way.
LEMMA FillingIs ==
  ASSUME NEW D, D \subseteq Object, NEW h \in [D -> Fields(D)], NEW W,
         Ready(D, h, W), NEW x \in Filling(D, h, W)
  PROVE  /\ x \in Worlds(D) /\ x.heap \in [D -> Fields(D)] /\ DOMAIN x.heap = D
         /\ \A o \in D : /\ x.heap[o].reqs = h[o].reqs
                         /\ x.heap[o].kind = h[o].kind
                         /\ x.heap[o].wrapped = h[o].wrapped
         /\ Orderly(x.heap, W)
<1>1. /\ x \in Worlds(D) /\ x.heap \in [D -> Fields(D)] /\ DOMAIN x.heap = D
      /\ Flagged(D, h, x.heap)
  BY WorldFields DEF Filling
<1>2. ASSUME NEW o \in D
      PROVE  /\ x.heap[o].reqs = h[o].reqs
             /\ x.heap[o].kind = h[o].kind
             /\ x.heap[o].wrapped = h[o].wrapped
  <2>1. h[o] \in Fields(D) /\ x.heap[o] = [h[o] EXCEPT !.using = x.heap[o].using]
    BY <1>1 DEF Flagged
  <2>2. PICK b : b = x.heap[o].using
    OBVIOUS
  <2>3. x.heap[o] = [h[o] EXCEPT !.using = b]
    BY <2>1, <2>2
  <2> QED
    BY <2>1, <2>3 DEF Fields
<1>3. SameReqs(h, x.heap, W) /\ W \subseteq D /\ Orderly(h, W)
  BY <1>2 DEF SameReqs, Ready
<1>4. Orderly(x.heap, W)
  BY <1>1, <1>3, OrderlyAlike
<1> QED
  BY <1>1, <1>2, <1>4

\* Calls that leave pointers to W alone.
StillConnecting(D, h, W) ==
  {f \in Connecting(D) :
     \A x \in Filling(D, h, W), p \in D : h[p].reqs \subseteq W => f[x][p] = x}

\* A pointer to W is redirected to where it points.
LEMMA RedirectStill ==
  ASSUME NEW D, NEW x \in Worlds(D), NEW W, OneEach(W), x.map \subseteq W,
         NEW p \in D, NEW r \in x.heap[p].reqs, r \in W, Has(x, NameOf(r))
  PROVE  Redirect(x, p, r) = x
<1>1. x.heap \in [D -> Fields(D)]
  BY WorldFields
<1>2. At(x, NameOf(r)) = r
  BY AtIn DEF OneEach
<1> DEFINE R == (x.heap[p].reqs \ {r}) \cup {At(x, NameOf(r))}
<1>3. R = x.heap[p].reqs
  BY <1>2
<1>4. Redirect(x, p, r) = [x EXCEPT !.heap = [x.heap EXCEPT ![p].reqs = R]]
  BY Zenon DEF Redirect
<1> HIDE DEF R
<1>5. x.heap[p] \in Fields(D)
  BY <1>1
<1>6. [x.heap[p] EXCEPT !.reqs = R] = x.heap[p]
  BY <1>3, <1>5 DEF Fields
<1>7. [x.heap EXCEPT ![p].reqs = R] = x.heap
  BY <1>1, <1>6
<1>8. [x EXCEPT !.heap = x.heap] = x
  BY DEF Worlds
<1> QED
  BY <1>4, <1>7, <1>8

\* What requires members of W is connected.
LEMMA ConnectOnceStill ==
  ASSUME NEW D, D \subseteq Object, NEW h \in [D -> Fields(D)], NEW W,
         Ready(D, h, W), NEW connect \in StillConnecting(D, h, W),
         NEW x \in Filling(D, h, W), NEW p \in D, h[p].reqs \subseteq W
  PROVE  ConnectOnce(connect, x, p) = x
<1>1. /\ x \in Worlds(D) /\ x.heap \in [D -> Fields(D)] /\ DOMAIN x.heap = D
      /\ x.heap[p].reqs = h[p].reqs /\ Orderly(x.heap, W)
  BY FillingIs
<1>2. W \in SUBSET D /\ OneEach(W) /\ Orderly(h, W)
  BY DEF Ready
<1>3. x.map \subseteq W /\ x.failed = "no"
  BY DEF Filling
<1>4. CycleCheck(x, p) = x
  <2>1. x.heap[p].reqs \subseteq W
    BY <1>1
  <2>2. x \in Worlds(D) /\ W \in SUBSET D /\ Orderly(x.heap, W) /\ p \in D
    BY <1>1, <1>2
  <2> QED
    BY <2>1, <2>2, OrderlyCheck
<1> DEFINE Connect == [acc \in Worlds(D) |-> [r \in D |->
        IF acc.failed # "no" THEN acc
        ELSE IF Has(acc, NameOf(r)) THEN Redirect(acc, p, r)
        ELSE connect[acc][r]]]
<1>5. StaysIn(Connect, {x}, h[p].reqs)
  <2> SUFFICES ASSUME NEW r \in h[p].reqs PROVE Connect[x][r] = x
    BY DEF StaysIn
  <2>1. r \in W /\ r \in D /\ h[r].reqs \subseteq W
    BY <1>2 DEF Orderly, KeepsReqs
  <2>2. connect[x][r] = x
    BY <2>1 DEF StillConnecting
  <2>3. Has(x, NameOf(r)) => Redirect(x, p, r) = x
    BY <1>1, <1>2, <1>3, <2>1, RedirectStill
  <2> QED
    BY <1>1, <1>3, <2>1, <2>2, <2>3
<1>6. ConnectOnce(connect, x, p) = Loop(Connect, x, Required(x.heap, p))
  BY <1>1, <1>4 DEF ConnectOnce
<1>7. Required(x.heap, p) \in Seq(h[p].reqs)
  <2>1. x.heap[p].reqs \subseteq Object
    BY <1>1, <1>2
  <2> QED
    BY <1>1, <2>1, RequiredIn
<1> HIDE DEF Connect
<1>8. Loop(Connect, x, Required(x.heap, p)) \in {x}
  BY <1>5, <1>7, LoopIn
<1> QED
  BY <1>6, <1>8

\* connect_equal_pointers leaves what is connected as it is.
LEMMA ConnectStill ==
  ASSUME NEW D, D \subseteq Object, NEW h \in [D -> Fields(D)], NEW W,
         Ready(D, h, W), NEW x \in Filling(D, h, W), NEW p \in D,
         h[p].reqs \subseteq W
  PROVE  ConnectEqualPointers(x, p) = x
<1>1. PICK g : ConnectCalls(D, g)
  BY ConnectLevels
<1> DEFINE S == {d \in Nat : g[d] \in StillConnecting(D, h, W)}
<1>2. 0 \in S
  <2>1. g[0] = [y \in Worlds(D) |-> [o \in D |-> y]] /\ g[0] \in Connecting(D)
    BY <1>1, DepthIsNumber DEF ConnectCalls
  <2> QED
    BY <2>1 DEF StillConnecting, Filling
<1>3. ASSUME NEW d \in 1 .. Depth, d - 1 \in S PROVE d \in S
  <2>1. g[d - 1] \in StillConnecting(D, h, W)
    BY <1>3
  <2>2. d \in Nat /\ d \in 0 .. Depth
    BY DepthIsNumber
  <2>3. g[d] \in Connecting(D)
    BY <1>1, <2>2 DEF ConnectCalls
  <2>4. ASSUME NEW y \in Filling(D, h, W), NEW o \in D, h[o].reqs \subseteq W
        PROVE  g[d][y][o] = y
    <3>1. g[d] = [z \in Worlds(D) |-> [q \in D |-> ConnectOnce(g[d - 1], z, q)]]
      BY <1>1 DEF ConnectCalls
    <3>2. g[d][y][o] = ConnectOnce(g[d - 1], y, o)
      BY <3>1 DEF Filling
    <3> QED
      BY <2>1, <2>4, <3>2, ConnectOnceStill
  <2> QED
    BY <2>2, <2>3, <2>4 DEF StillConnecting
<1> HIDE DEF S
<1>4. Depth \in S
  BY <1>2, <1>3, DepthIsNumber, EveryDepth
<1>5. x \in Worlds(D)
  BY DEF Filling
<1>6. ConnectEqualPointers(x, p) = g[Depth][x][p]
  BY <1>1, <1>5 DEF ConnectCalls
<1> QED
  BY <1>4, <1>6 DEF S, StillConnecting

\* From x to y packages of B have come into the map, not asked for, with what
\* they require; those that were there have not changed.
Grows(D, h, W, B, x, y) ==
  /\ y \in Filling(D, h, W)
  /\ x.map \subseteq y.map
  /\ \A o \in x.map : y.heap[o] = x.heap[o]
  /\ \A o \in y.map \ x.map :
       o \in B /\ ~y.heap[o].using /\ h[o].reqs \subseteq y.map

\* Growing adds up.
LEMMA GrowsOn ==
  ASSUME NEW D, NEW h, NEW W, NEW A, NEW B, A \subseteq B, NEW x, NEW y, NEW z,
         Grows(D, h, W, B, x, y), Grows(D, h, W, A, y, z)
  PROVE  Grows(D, h, W, B, x, z)
<1>1. z \in Filling(D, h, W) /\ x.map \subseteq z.map
  BY DEF Grows
<1>2. \A o \in x.map : z.heap[o] = x.heap[o]
  BY DEF Grows
<1>3. ASSUME NEW o \in z.map \ x.map
      PROVE  o \in B /\ ~z.heap[o].using /\ h[o].reqs \subseteq z.map
  <2>1. CASE o \in y.map
    <3>1. o \in B /\ ~y.heap[o].using /\ h[o].reqs \subseteq y.map
      BY <1>3, <2>1 DEF Grows
    <3>2. z.heap[o] = y.heap[o] /\ y.map \subseteq z.map
      BY <2>1 DEF Grows
    <3> QED
      BY <3>1, <3>2
  <2>2. CASE o \notin y.map
    BY <1>3, <2>2 DEF Grows
  <2> QED
    BY <2>1, <2>2
<1> QED
  BY <1>1, <1>2, <1>3 DEF Grows

\* Calls of add that bring a package of W into the map, if it needs no more
\* than d calls.
GoodAdding(D, h, W, d) ==
  {f \in Adding(D) :
     \A x \in Filling(D, h, W), p \in W :
       Size(h, p) <= d /\ ~Has(x, NameOf(p)) =>
         /\ Grows(D, h, W, {p} \cup Below(h, p), x, f[x][p][FALSE])
         /\ p \in f[x][p][FALSE].map}

\* The turns of add.
AddBody(D, add) ==
  [acc \in Worlds(D) |-> [r \in D |->
     IF acc.failed # "no" THEN acc
     ELSE IF ~Has(acc, NameOf(r)) THEN add[acc][r][FALSE]
     ELSE IF SamePackage(acc.heap, At(acc, NameOf(r)), r) THEN acc
     ELSE Fail(acc, "file_name is unique")]]

\* From acc to y, on the way from x, r has come into the map.
AddStep(D, h, W, B, x, acc, r, y) ==
  Grows(D, h, W, B, x, y) /\ acc.map \subseteq y.map /\ r \in y.map

\* One turn of add for p brings one required package into the map.
LEMMA AddTurn ==
  ASSUME NEW D, D \subseteq Object, NEW h \in [D -> Fields(D)], NEW W,
         Ready(D, h, W), NEW d, NEW add \in GoodAdding(D, h, W, d),
         NEW p \in D, h[p].reqs \subseteq W, NEW x, NEW r \in h[p].reqs,
         r \in x.map \/ Size(h, r) <= d, NEW acc, Grows(D, h, W, Below(h, p), x, acc)
  PROVE  AddStep(D, h, W, Below(h, p), x, acc, r, AddBody(D, add)[acc][r])
<1>0. PICK y : y = AddBody(D, add)[acc][r]
  OBVIOUS
<1>1. acc \in Filling(D, h, W) /\ acc.failed = "no" /\ acc.map \subseteq W
  BY DEF Grows, Filling
<1>2. r \in W /\ r \in D /\ W \subseteq D /\ OneEach(W)
  BY DEF Ready
<1>3. acc.heap \in [D -> Fields(D)] /\ acc \in Worlds(D)
  BY <1>1, FillingIs
<1> SUFFICES AddStep(D, h, W, Below(h, p), x, acc, r, y)
  BY <1>0
<1>4. y = (IF ~Has(acc, NameOf(r)) THEN add[acc][r][FALSE]
           ELSE IF SamePackage(acc.heap, At(acc, NameOf(r)), r) THEN acc
           ELSE Fail(acc, "file_name is unique"))
  BY <1>0, <1>1, <1>2, <1>3 DEF AddBody
<1>5. CASE Has(acc, NameOf(r))
  <2>1. At(acc, NameOf(r)) \in acc.map /\ NameOf(At(acc, NameOf(r))) = NameOf(r)
    BY <1>5, AtIn
  <2>2. At(acc, NameOf(r)) = r
    BY <1>1, <1>2, <2>1 DEF OneEach
  <2>3. SamePackage(acc.heap, r, r)
    BY <1>2, <1>3, SameSelf
  <2>4. y = acc
    BY <1>5, <1>4, <2>2, <2>3
  <2> QED
    BY <2>1, <2>2, <2>4 DEF AddStep
<1>6. CASE ~Has(acc, NameOf(r))
  <2>1. r \notin acc.map /\ x.map \subseteq acc.map
    BY <1>6 DEF Has, NamesOf, Grows
  <2>2. Size(h, r) <= d
    BY <2>1
  <2>3. y = add[acc][r][FALSE]
    BY <1>6, <1>4
  <2>4. Grows(D, h, W, {r} \cup Below(h, r), acc, y) /\ r \in y.map
    <3>1. /\ Grows(D, h, W, {r} \cup Below(h, r), acc, add[acc][r][FALSE])
          /\ r \in add[acc][r][FALSE].map
      BY <1>1, <1>2, <1>6, <2>2 DEF GoodAdding
    <3> QED
      BY <2>3, <3>1, Zenon
  <2>5. {r} \cup Below(h, r) \subseteq Below(h, p)
    BY BelowShrinks
  <2>6. Grows(D, h, W, Below(h, p), x, y)
    <3>1. PICK A, B : A = {r} \cup Below(h, r) /\ B = Below(h, p)
      OBVIOUS
    <3>2. A \subseteq B /\ Grows(D, h, W, A, acc, y) /\ Grows(D, h, W, B, x, acc)
      BY <2>4, <2>5, <3>1
    <3>3. Grows(D, h, W, B, x, y)
      BY ONLY <3>2, GrowsOn
    <3> QED
      BY <3>1, <3>3
  <2>7. acc.map \subseteq y.map
    BY <2>4 DEF Grows
  <2> QED
    BY <2>4, <2>6, <2>7 DEF AddStep
<1> QED
  BY <1>5, <1>6

\* What the turns of add for p have brought into the map, from x.
AddStage(D, h, W, p, x, done) ==
  {acc \in Worlds(D) : Grows(D, h, W, Below(h, p), x, acc) /\ done \subseteq acc.map}

\* All turns bring what p requires into the map.
LEMMA AddTurns ==
  ASSUME NEW D, D \subseteq Object, NEW h \in [D -> Fields(D)], NEW W,
         Ready(D, h, W), NEW d, NEW add \in GoodAdding(D, h, W, d),
         NEW p \in D, h[p].reqs \subseteq W, NEW x \in Filling(D, h, W),
         \A r \in h[p].reqs : r \in x.map \/ Size(h, r) <= d
  PROVE  /\ Grows(D, h, W, Below(h, p), x, Loop(AddBody(D, add), x, Required(h, p)))
         /\ h[p].reqs \subseteq Loop(AddBody(D, add), x, Required(h, p)).map
<1>0. PICK q, body : q = Required(h, p) /\ body = AddBody(D, add)
  OBVIOUS
<1>1. h[p].reqs \subseteq Object /\ h[p].reqs \subseteq D
  BY DEF Fields
<1>2. /\ q \in Seq(h[p].reqs)
      /\ \A r \in h[p].reqs : \E i \in 1 .. Len(q) : q[i] = r
  BY <1>0, <1>1, RequiredIn
<1>3. q \in Seq(D) /\ Len(q) \in Nat /\ \A i \in 1 .. Len(q) : q[i] \in h[p].reqs
  BY <1>1, <1>2, SeqMonotonic, LenProperties
<1> DEFINE Done(i) == {q[j] : j \in 1 .. i}
<1> DEFINE P == [i \in 0 .. Len(q) |-> AddStage(D, h, W, p, x, Done(i))]
<1>4. StaysIn(body, Worlds(D), D)
  <2> SUFFICES ASSUME NEW acc \in Worlds(D), NEW r \in D
               PROVE  body[acc][r] \in Worlds(D)
    BY DEF StaysIn
  <2>1. add[acc][r][FALSE] \in Worlds(D)
    <3>1. add[acc][r] \in [BOOLEAN -> Worlds(D)]
      BY DEF GoodAdding, Adding
    <3> QED
      BY <3>1, Zenon
  <2>2. Fail(acc, "file_name is unique") \in Worlds(D)
    <3>1. "file_name is unique" \in Failures
      BY DEF Failures
    <3> QED
      BY <3>1, KinOf, KinFail
  <2>3. body[acc][r] =
          (IF acc.failed # "no" THEN acc
           ELSE IF ~Has(acc, NameOf(r)) THEN add[acc][r][FALSE]
           ELSE IF SamePackage(acc.heap, At(acc, NameOf(r)), r) THEN acc
           ELSE Fail(acc, "file_name is unique"))
    BY <1>0 DEF AddBody
  <2> QED
    BY <2>1, <2>2, <2>3
<1>5. x \in P[0]
  <2>1. Grows(D, h, W, Below(h, p), x, x)
    BY DEF Grows
  <2>2. x \in Worlds(D)
    BY DEF Filling
  <2>3. P[0] = AddStage(D, h, W, p, x, Done(0)) /\ Done(0) = {}
    BY <1>3
  <2> HIDE DEF Done
  <2> QED
    BY <2>1, <2>2, <2>3 DEF AddStage
<1>6. Stages(P, body, q)
  <2> SUFFICES ASSUME NEW i \in 1 .. Len(q), NEW acc \in P[i - 1]
               PROVE  body[acc][q[i]] \in P[i]
    BY DEF Stages
  <2>1. i - 1 \in 0 .. Len(q) /\ i \in 0 .. Len(q)
    BY <1>3
  <2>2. /\ P[i - 1] = AddStage(D, h, W, p, x, Done(i - 1))
        /\ P[i] = AddStage(D, h, W, p, x, Done(i))
    BY <2>1
  <2>3. Done(i) \subseteq Done(i - 1) \cup {q[i]}
    <3>1. ASSUME NEW j \in 1 .. i PROVE j = i \/ j \in 1 .. i - 1
      BY <1>3
    <3> QED
      BY <3>1
  <2>4. PICK r : r = q[i]
    OBVIOUS
  <2>5. r \in h[p].reqs /\ r \in D
    BY <1>1, <1>3, <2>4
  <2> HIDE DEF Done, P
  <2>6. acc \in Worlds(D) /\ Grows(D, h, W, Below(h, p), x, acc) /\ Done(i - 1) \subseteq acc.map
    BY <2>2 DEF AddStage
  <2>7. PICK y : y = AddBody(D, add)[acc][r]
    OBVIOUS
  <2>8. body[acc][q[i]] = y
    BY <1>0, <2>4, <2>7
  <2>9. y \in Worlds(D)
    BY <1>4, <2>4, <2>5, <2>6, <2>8 DEF StaysIn
  <2>10. r \in x.map \/ Size(h, r) <= d
    BY <2>5
  <2>11. Grows(D, h, W, Below(h, p), x, y) /\ acc.map \subseteq y.map /\ r \in y.map
    <3>1. Grows(D, h, W, Below(h, p), x, acc)
      BY <2>6
    <3>2. AddStep(D, h, W, Below(h, p), x, acc, r, AddBody(D, add)[acc][r])
      BY <2>5, <2>10, <3>1, AddTurn
    <3> QED
      BY <2>7, <3>2 DEF AddStep
  <2>12. Done(i) \subseteq y.map
    BY <2>3, <2>4, <2>6, <2>11
  <2>13. y \in AddStage(D, h, W, p, x, Done(i))
    BY <2>9, <2>11, <2>12 DEF AddStage
  <2> QED
    BY <2>2, <2>8, <2>13
<1>7. P[Len(q)] = AddStage(D, h, W, p, x, Done(Len(q)))
  BY <1>3
<1>8. h[p].reqs \subseteq Done(Len(q))
  BY <1>2
<1> HIDE DEF P, Done
<1>9. x \in Worlds(D)
  BY DEF Filling
<1>10. Loop(body, x, q) \in P[Len(q)]
  BY <1>3, <1>4, <1>5, <1>6, <1>9, LoopStages
<1> QED
  BY <1>0, <1>7, <1>8, <1>10 DEF AddStage

\* add, of what is connected.
LEMMA AddOnceIs ==
  ASSUME NEW D, NEW x \in Worlds(D), NEW p, NEW add, NEW flag,
         ConnectEqualPointers(x, p).failed = "no"
  PROVE  AddOnce(add, x, p, flag) =
           Loop(AddBody(D, add),
                Emplace(SetUsing(ConnectEqualPointers(x, p), p, flag), p),
                Required(ConnectEqualPointers(x, p).heap, p))
<1>1. DOMAIN x.heap = D
  BY WorldFields
<1> QED
  BY <1>1 DEF AddOnce, AddBody

\* From x to s the flag of p has been set, and nothing else.
FlagStep(D, h, W, x, p, flag, s) ==
  /\ s \in Filling(D, h, W) /\ s.map = x.map
  /\ s.heap[p].using = flag
  /\ \A o \in D : o # p => s.heap[o] = x.heap[o]

\* Setting a flag leaves everything else as it was.
LEMMA FlagIsSet ==
  ASSUME NEW D, D \subseteq Object, NEW h \in [D -> Fields(D)], NEW W,
         Ready(D, h, W), NEW x \in Filling(D, h, W), NEW p \in D,
         h[p].kind = "main", NEW flag \in BOOLEAN
  PROVE  FlagStep(D, h, W, x, p, flag, SetUsing(x, p, flag))
<1>0. PICK s : s = SetUsing(x, p, flag)
  OBVIOUS
<1>1. /\ x \in Worlds(D) /\ x.heap \in [D -> Fields(D)]
      /\ x.heap[p].kind = "main" /\ Flagged(D, h, x.heap)
  BY FillingIs DEF Filling
<1> DEFINE f == [x.heap[p] EXCEPT !.using = flag]
<1>2. PICK k : k = [x.heap EXCEPT ![p] = f]
  OBVIOUS
<1>3. s = [x EXCEPT !.heap = k]
  BY <1>0, <1>1, <1>2, Zenon DEF SetUsing
<1>4. f \in Fields(D) /\ f.using = flag
  BY <1>1 DEF Fields
<1>5. f = [h[p] EXCEPT !.using = flag]
  <2>1. PICK b : b = x.heap[p].using
    OBVIOUS
  <2>2. x.heap[p] = [h[p] EXCEPT !.using = b] /\ h[p] \in Fields(D)
    BY <1>1, <2>1 DEF Flagged
  <2> QED
    BY <2>2 DEF Fields
<1> HIDE DEF f
<1>6. k[p] = f /\ \A o \in D : o # p => k[o] = x.heap[o]
  BY <1>1, <1>2
<1>7. Flagged(D, h, k)
  BY <1>1, <1>4, <1>5, <1>6 DEF Flagged
<1>8. k \in [D -> Fields(D)]
  BY <1>1, <1>2, <1>4
<1>9. s \in Worlds(D) /\ s.heap = k /\ s.map = x.map /\ s.failed = x.failed
  BY <1>1, <1>3, <1>8, WorldFields DEF Worlds
<1>10. s \in Filling(D, h, W)
  BY <1>7, <1>9 DEF Filling
<1> QED
  BY <1>0, <1>4, <1>6, <1>9, <1>10 DEF FlagStep

\* A package that is not in the map comes into it.
LEMMA Emplaced ==
  ASSUME NEW D, NEW h, NEW W, NEW x \in Filling(D, h, W), NEW p \in W, W \subseteq D,
         ~Has(x, NameOf(p))
  PROVE  /\ Emplace(x, p) \in Filling(D, h, W)
         /\ Emplace(x, p).heap = x.heap
         /\ Emplace(x, p).map = x.map \cup {p}
<1>0. PICK s : s = Emplace(x, p)
  OBVIOUS
<1>1. x \in Worlds(D) /\ x.map \subseteq W /\ x.failed = "no" /\ Flagged(D, h, x.heap)
  BY DEF Filling
<1>2. s = [x EXCEPT !.map = x.map \cup {p}]
  BY <1>0 DEF Emplace
<1>3. s \in Worlds(D) /\ s.heap = x.heap /\ s.map = x.map \cup {p} /\ s.failed = "no"
  BY <1>1, <1>2, WorldFields DEF Worlds
<1> QED
  BY <1>0, <1>1, <1>3 DEF Filling

\* add of a required package brings it into the map, with what it requires.
LEMMA AddOnceGrows ==
  ASSUME NEW D, D \subseteq Object, NEW h \in [D -> Fields(D)], NEW W,
         Ready(D, h, W), NEW d \in Nat, NEW add \in GoodAdding(D, h, W, d),
         NEW x \in Filling(D, h, W), NEW p \in W, Size(h, p) <= d + 1,
         ~Has(x, NameOf(p))
  PROVE  /\ Grows(D, h, W, {p} \cup Below(h, p), x, AddOnce(add, x, p, FALSE))
         /\ p \in AddOnce(add, x, p, FALSE).map
<1>0. PICK y : y = AddOnce(add, x, p, FALSE)
  OBVIOUS
<1>1. /\ p \in D /\ W \subseteq D /\ h[p].reqs \subseteq W /\ h[p].kind = "main"
      /\ NameOf(p) \notin NamesOf(Below(h, p))
  BY DEF Ready, Orderly, KeepsReqs, NoWayBack
<1>2. ConnectEqualPointers(x, p) = x
  BY <1>1, ConnectStill
<1>3. x \in Worlds(D) /\ x.failed = "no" /\ x.heap[p].reqs = h[p].reqs
  BY <1>1, FillingIs DEF Filling
<1>4. PICK s : s = SetUsing(x, p, FALSE)
  OBVIOUS
<1>5. PICK b : b = Emplace(s, p)
  OBVIOUS
<1>6. y = Loop(AddBody(D, add), b, Required(x.heap, p))
  <2>1. AddOnce(add, x, p, FALSE) =
           Loop(AddBody(D, add), Emplace(SetUsing(x, p, FALSE), p),
                Required(x.heap, p))
    <3>1. ConnectEqualPointers(x, p).failed = "no"
      BY <1>2, <1>3
    <3>2. AddOnce(add, x, p, FALSE) =
            Loop(AddBody(D, add),
                 Emplace(SetUsing(ConnectEqualPointers(x, p), p, FALSE), p),
                 Required(ConnectEqualPointers(x, p).heap, p))
      BY ONLY <1>3, <3>1, AddOnceIs
    <3> QED
      BY <1>2, <3>2
  <2> QED
    BY <1>0, <1>4, <1>5, <2>1
<1>7. Required(x.heap, p) = Required(h, p)
  BY <1>3 DEF Required
<1>8. /\ s \in Filling(D, h, W) /\ s.map = x.map
      /\ s.heap[p].using = FALSE
      /\ \A o \in D : o # p => s.heap[o] = x.heap[o]
  <2>1. FALSE \in BOOLEAN
    OBVIOUS
  <2> QED
    <3>1. FlagStep(D, h, W, x, p, FALSE, SetUsing(x, p, FALSE))
      BY <1>1, <2>1, FlagIsSet
    <3> QED
      BY <1>4, <3>1 DEF FlagStep
<1>9. ~Has(s, NameOf(p)) /\ p \notin x.map
  BY <1>8 DEF Has, NamesOf
<1>10. b \in Filling(D, h, W) /\ b.heap = s.heap /\ b.map = x.map \cup {p}
  <2>1. /\ Emplace(s, p) \in Filling(D, h, W)
        /\ Emplace(s, p).heap = s.heap
        /\ Emplace(s, p).map = s.map \cup {p}
    BY <1>1, <1>8, <1>9, Emplaced
  <2> QED
    BY <1>5, <1>8, <2>1
<1>11. \A r \in h[p].reqs : r \in b.map \/ Size(h, r) <= d
  <2> SUFFICES ASSUME NEW r \in h[p].reqs PROVE Size(h, r) <= d
    OBVIOUS
  <2>1. r \in D /\ Size(h, r) + 1 <= Size(h, p)
    BY <1>1, SizeShrinks
  <2>2. Size(h, r) \in Nat /\ Size(h, p) \in Nat
    BY <1>1, <2>1, SizeIs
  <2> QED
    BY <2>1, <2>2
<1>12. /\ Grows(D, h, W, Below(h, p), b, y)
       /\ h[p].reqs \subseteq y.map
  <2>1. /\ Grows(D, h, W, Below(h, p), b,
                 Loop(AddBody(D, add), b, Required(h, p)))
        /\ h[p].reqs \subseteq Loop(AddBody(D, add), b, Required(h, p)).map
    BY <1>1, <1>10, <1>11, AddTurns
  <2> QED
    BY <1>6, <1>7, <2>1
<1>13. y \in Filling(D, h, W) /\ b.map \subseteq y.map
  BY <1>12 DEF Grows
<1>14. y.map \subseteq D /\ x.map \subseteq D
  BY <1>1, <1>13 DEF Filling
<1>15. \A o \in x.map : y.heap[o] = x.heap[o]
  BY <1>8, <1>9, <1>10, <1>12, <1>14 DEF Grows
<1>16. ASSUME NEW o \in y.map \ x.map
       PROVE  o \in {p} \cup Below(h, p) /\ ~y.heap[o].using /\ h[o].reqs \subseteq y.map
  <2>1. CASE o = p
    <3>1. y.heap[p] = b.heap[p]
      BY <1>10, <1>12 DEF Grows
    <3> QED
      BY <1>8, <1>10, <1>12, <2>1, <3>1
  <2>2. CASE o # p
    BY <1>10, <1>12, <1>16, <2>2 DEF Grows
  <2> QED
    BY <2>1, <2>2
<1> QED
  BY <1>0, <1>10, <1>13, <1>15, <1>16 DEF Grows

\* However deep it nests.
LEMMA AddsGood ==
  ASSUME NEW D, D \subseteq Object, NEW h \in [D -> Fields(D)], NEW W,
         Ready(D, h, W), NEW g, AddCalls(D, g)
  PROVE  \A d \in 0 .. Depth : g[d] \in GoodAdding(D, h, W, d)
<1> DEFINE S == {d \in Nat : g[d] \in GoodAdding(D, h, W, d)}
<1>1. W \subseteq D
  BY DEF Ready
<1>2. 0 \in S
  <2>1. g[0] \in Adding(D)
    BY DepthIsNumber DEF AddCalls
  <2>2. ASSUME NEW p \in W PROVE ~(Size(h, p) <= 0)
    <3>1. Size(h, p) \in Nat /\ 1 <= Size(h, p)
      BY <1>1, SizeIs
    <3> QED
      BY <3>1
  <2> QED
    BY <2>1, <2>2 DEF GoodAdding
<1>3. ASSUME NEW d \in 1 .. Depth, d - 1 \in S PROVE d \in S
  <2>1. g[d - 1] \in GoodAdding(D, h, W, d - 1) /\ d - 1 \in Nat
    BY <1>3
  <2>2. d \in Nat /\ d \in 0 .. Depth /\ (d - 1) + 1 = d
    BY DepthIsNumber
  <2>3. g[d] \in Adding(D)
    BY <2>2 DEF AddCalls
  <2>4. ASSUME NEW x \in Filling(D, h, W), NEW p \in W,
               Size(h, p) <= d, ~Has(x, NameOf(p))
        PROVE  /\ Grows(D, h, W, {p} \cup Below(h, p), x, g[d][x][p][FALSE])
               /\ p \in g[d][x][p][FALSE].map
    <3>1. g[d] = [z \in Worlds(D) |-> [q \in D |-> [flag \in BOOLEAN |->
                    AddOnce(g[d - 1], z, q, flag)]]]
      BY DEF AddCalls
    <3>2. x \in Worlds(D) /\ p \in D
      BY <1>1 DEF Filling
    <3>3. g[d][x][p] = [flag \in BOOLEAN |-> AddOnce(g[d - 1], x, p, flag)]
      BY <3>1, <3>2
    <3>4. g[d][x][p][FALSE] = AddOnce(g[d - 1], x, p, FALSE)
      BY <3>3, Zenon
    <3>5. Size(h, p) <= (d - 1) + 1
      BY <2>2, <2>4
    <3>6. PICK y : y = AddOnce(g[d - 1], x, p, FALSE)
      OBVIOUS
    <3>7. Grows(D, h, W, {p} \cup Below(h, p), x, y) /\ p \in y.map
      <4>1. /\ Grows(D, h, W, {p} \cup Below(h, p), x,
                     AddOnce(g[d - 1], x, p, FALSE))
            /\ p \in AddOnce(g[d - 1], x, p, FALSE).map
        BY <2>1, <2>4, <3>5, AddOnceGrows
      <4> QED
        BY <3>6, <4>1
    <3> QED
      BY <3>4, <3>6, <3>7
  <2> QED
    BY <2>2, <2>3, <2>4 DEF GoodAdding
<1> HIDE DEF S
<1>4. \A d \in 0 .. Depth : d \in S
  BY <1>2, <1>3, DepthIsNumber, EveryDepth
<1> QED
  BY <1>4 DEF S

-----------------------------------------------------------------------------
(* Package_manager::add *)

\* add is its outermost call.
LEMMA AddNewIs ==
  ASSUME NEW D, D \subseteq Object, NEW w \in Worlds(D), NEW o \in D,
         NEW g, AddCalls(D, g)
  PROVE  /\ Depth - 1 \in Nat
         /\ AddNew(w, o, TRUE) = AddOnce(g[Depth - 1], w, o, TRUE)
<1>1. NameOf(o) \in Name
  BY ObjectNames
<1>2. IsFiniteSet(Name)
  BY NameAssumption
<1>3. Depth \in Nat /\ Depth # 0
  BY <1>1, <1>2, FS_CardinalityType, FS_EmptySet DEF Depth
<1>4. Depth \in 1 .. Depth
  BY <1>3
<1>5. g[Depth] = [x \in Worlds(D) |-> [p \in D |-> [flag \in BOOLEAN |->
                    AddOnce(g[Depth - 1], x, p, flag)]]]
  BY <1>4 DEF AddCalls
<1>6. PICK main : main = TRUE
  OBVIOUS
<1>7. AddNew(w, o, main) = g[Depth][w][o][main]
  BY DEF AddCalls
<1>8. g[Depth][w][o] = [flag \in BOOLEAN |-> AddOnce(g[Depth - 1], w, o, flag)]
  BY <1>5
<1>9. g[Depth][w][o][main] = AddOnce(g[Depth - 1], w, o, main)
  BY <1>6, <1>8, Zenon
<1>10. AddNew(w, o, main) = AddOnce(g[Depth - 1], w, o, main)
  BY <1>7, <1>9
<1>11. AddNew(w, o, TRUE) = AddOnce(g[Depth - 1], w, o, TRUE)
  BY <1>6, <1>10, Zenon
<1>12. Depth - 1 \in Nat
  BY <1>3
<1> QED BY <1>11, <1>12, Zenon

\* All objects are main packages, none of them wrapped.
AllPlain(D, h) == \A o \in D : h[o].kind = "main" /\ ~h[o].wrapped

\* A tidy manager, after root has been added.
Added(D, root, a) ==
  /\ a \in Worlds(D) /\ a.failed = "no"
  /\ Tidy(a.heap, a.map)
  /\ a.heap[root].reqs \subseteq a.map
  /\ AllPlain(D, a.heap)

\* And what add has left of the objects h and the map M: pointers lead to the
\* names they led to, packages of the map have got no more than a flag, and
\* nothing has come into the map but root and what it leads to.
AddedTo(D, h, M, root, a) ==
  /\ Added(D, root, a)
  /\ \A o \in D : NamesOf(a.heap[o].reqs) = NamesOf(h[o].reqs)
  /\ \A o \in M : a.heap[o] = [h[o] EXCEPT !.using = a.heap[o].using]
  /\ M \subseteq a.map
  /\ a.map \subseteq M \cup {root} \cup Below(a.heap, root)
  /\ \/ root \in a.map /\ a.heap[root].using
     \/ NameOf(root) \in NamesOf(M) /\ a.map = M

\* Who asks for more needs no less.
LEMMA TidyAsked ==
  ASSUME NEW D, D \subseteq Object, NEW h \in [D -> Fields(D)],
         NEW E, E \subseteq Object, NEW g \in [E -> Fields(E)],
         NEW M, M \subseteq D, NEW N, N \subseteq E, M \subseteq N,
         Tidy(h, M), SameReqs(h, g, M), Askers(h, M) \subseteq Askers(g, N)
  PROVE  M \subseteq Closure(g, Askers(g, N))
<1>1. PICK T : T = Closure(g, Askers(g, N))
  OBVIOUS
<1>2. Askers(g, N) \in SUBSET E
  BY DEF Askers
<1>3. Askers(g, N) \subseteq T /\ T \in SUBSET E /\ KeepsReqs(g, T)
  BY <1>1, <1>2, ReachedIs
<1>4. PICK A : A = Askers(h, M)
  OBVIOUS
<1>5. A \in SUBSET D /\ A \subseteq M
  BY <1>4 DEF Askers
<1>6. KeepsReqs(h, M)
  BY DEF Tidy, Orderly
<1>7. KeepsReqs(h, T \cap M)
  BY <1>3, <1>6 DEF KeepsReqs, SameReqs
<1>8. T \cap M \in SUBSET D /\ A \subseteq T \cap M
  BY <1>3, <1>4, <1>5
<1>9. Closure(h, A) \subseteq T \cap M
  BY <1>5, <1>7, <1>8, ReachedIs
<1>10. M \subseteq Closure(h, A)
  BY <1>4 DEF Tidy
<1> QED BY <1>1, <1>9, <1>10

\* What a fresh object leads to comes into the map with it: W is the map and
\* what has been read and connected.
LEMMA JoinedReady ==
  ASSUME NEW D, D \subseteq Object, NEW h \in [D -> Fields(D)], NEW M, NEW U,
         NEW root, Fresh(D, h, M, U, root), AllPlain(D, h),
         NameOf(root) \notin NamesOf(M),
         NEW c \in Between(D, h, M, U), NEW K \in SUBSET U,
         JoinedSet(c.heap, M, K)
  PROVE  Ready(D, c.heap, M \cup K)
<1>1. /\ M \subseteq D /\ OneEach(M) /\ KeepsReqs(h, M) /\ OneEach(D \ M)
      /\ U \subseteq D \ M
      /\ \A o \in U : o # root => NameOf(o) \notin NamesOf(M)
  BY DEF Fresh
<1>2. Rewires(D, h, M, U, c.heap)
  BY DEF Between
<1>3. M \cup K \subseteq D
  BY <1>1
<1>4. \A o \in U : NameOf(o) \notin NamesOf(M)
  BY <1>1
<1>5. OneEach(M \cup K)
  BY <1>1, <1>4 DEF OneEach, NamesOf
<1>6. KeepsReqs(c.heap, M \cup K)
  <2>1. ASSUME NEW o \in M PROVE c.heap[o].reqs \subseteq M
    BY <1>1, <1>2 DEF KeepsReqs, Rewires
  <2>2. ASSUME NEW o \in K PROVE c.heap[o].reqs \subseteq M \cup K
    BY DEF JoinedSet
  <2> QED
    BY <2>1, <2>2 DEF KeepsReqs
<1>7. ASSUME NEW o \in M \cup K
      PROVE  NameOf(o) \notin NamesOf(Below(c.heap, o))
  <2>1. o \in D /\ (o \in U => NameOf(o) \notin NamesOf(M))
    BY <1>1, <1>4
  <2> QED
    BY <2>1, BetweenApart
<1>8. NoWayBack(c.heap, M \cup K)
  BY <1>7 DEF NoWayBack
<1>9. \A o \in D : c.heap[o].kind = "main"
  <2>1. ASSUME NEW o \in D PROVE c.heap[o].kind = h[o].kind
    <3>1. c.heap[o] = [h[o] EXCEPT !.reqs = c.heap[o].reqs]
      BY <1>2 DEF Rewires
    <3>2. h[o] \in Fields(D)
      OBVIOUS
    <3> QED
      BY <3>1, <3>2 DEF Fields
  <2> QED
    BY <2>1 DEF AllPlain
<1> QED
  BY <1>3, <1>5, <1>6, <1>8, <1>9 DEF Ready, Orderly

\* From c to b, root has been made a user's and come into the map.
Enters(D, h, W, c, root, b) ==
  /\ b \in Filling(D, h, W)
  /\ b.map = c.map \cup {root}
  /\ b.heap[root].using
  /\ \A o \in D : o # root => b.heap[o] = c.heap[o]

\* A user's package that is not in the map comes into it.
LEMMA RootEnters ==
  ASSUME NEW D, D \subseteq Object, NEW h \in [D -> Fields(D)], NEW W,
         Ready(D, h, W), NEW c \in Filling(D, h, W), NEW root \in W,
         ~Has(c, NameOf(root))
  PROVE  Enters(D, h, W, c, root, Emplace(SetUsing(c, root, TRUE), root))
<1>1. W \subseteq D /\ root \in D /\ h[root].kind = "main"
  BY DEF Ready
<1>2. PICK s : s = SetUsing(c, root, TRUE)
  OBVIOUS
<1>3. FlagStep(D, h, W, c, root, TRUE, SetUsing(c, root, TRUE))
  BY <1>1, FlagIsSet
<1>4. FlagStep(D, h, W, c, root, TRUE, s)
  BY <1>2, <1>3
<1>5. s \in Filling(D, h, W) /\ s.map = c.map
  BY <1>4 DEF FlagStep
<1>6. s.heap[root].using
  BY <1>4 DEF FlagStep
<1>7. \A o \in D : o # root => s.heap[o] = c.heap[o]
  BY <1>4 DEF FlagStep
<1>8. ~Has(s, NameOf(root))
  BY <1>5 DEF Has
<1>9. /\ Emplace(s, root) \in Filling(D, h, W)
      /\ Emplace(s, root).heap = s.heap
      /\ Emplace(s, root).map = s.map \cup {root}
  BY <1>1, <1>5, <1>8, Emplaced
<1>10. PICK b : b = Emplace(s, root)
  OBVIOUS
<1>11. Enters(D, h, W, c, root, b)
  BY <1>5, <1>6, <1>7, <1>9, <1>10 DEF Enters
<1> QED
  BY <1>2, <1>10, <1>11

\* A pointer that is redirected changes nothing else of an object.
LEMMA RewiredFields ==
  ASSUME NEW D, NEW h \in [D -> Fields(D)], NEW M, NEW U,
         NEW g, Rewires(D, h, M, U, g), NEW o \in D
  PROVE  /\ g[o].kind = h[o].kind /\ g[o].wrapped = h[o].wrapped
         /\ g[o].using = h[o].using
         /\ NamesOf(g[o].reqs) = NamesOf(h[o].reqs)
         /\ o \notin U => g[o] = h[o]
<1>1. g[o] = [h[o] EXCEPT !.reqs = g[o].reqs]
  BY DEF Rewires
<1>2. h[o] \in Fields(D)
  OBVIOUS
<1>3. o \notin U => g[o].reqs = h[o].reqs
  BY DEF Rewires
<1>4. NamesOf(g[o].reqs) = NamesOf(h[o].reqs)
  <2>1. CASE o \in U
    BY <2>1 DEF Rewires
  <2>2. CASE o \notin U
    BY <1>3, <2>2
  <2> QED
    BY <2>1, <2>2
<1>5. ASSUME o \notin U PROVE g[o] = h[o]
  <2>1. g[o] = [h[o] EXCEPT !.reqs = h[o].reqs]
    BY <1>1, <1>3, <1>5
  <2> QED
    BY <1>2, <2>1 DEF Fields
<1> QED
  BY <1>1, <1>2, <1>4, <1>5 DEF Fields

\* Once the turns of add have brought in what root requires, the manager is
\* tidy again.
LEMMA RootAdded ==
  ASSUME NEW D, D \subseteq Object, NEW h \in [D -> Fields(D)], NEW M, NEW U,
         NEW root, Fresh(D, h, M, U, root), AllPlain(D, h), Tidy(h, M),
         NEW c \in Between(D, h, M, U), NEW W, Ready(D, c.heap, W),
         M \subseteq W, NEW b, Enters(D, c.heap, W, c, root, b),
         NEW a, Grows(D, c.heap, W, Below(c.heap, root), b, a),
         c.heap[root].reqs \subseteq a.map
  PROVE  AddedTo(D, h, M, root, a)
<1>1. /\ M \subseteq D /\ root \in U /\ U \subseteq D \ M
  BY DEF Fresh
<1>2. c.map = M /\ c \in Worlds(D) /\ Rewires(D, h, M, U, c.heap)
  BY DEF Between
<1>3. c.heap \in [D -> Fields(D)]
  BY <1>2, WorldFields
<1>4. /\ a \in Filling(D, c.heap, W) /\ b.map \subseteq a.map
      /\ \A o \in b.map : a.heap[o] = b.heap[o]
      /\ \A o \in a.map \ b.map :
           o \in Below(c.heap, root) /\ c.heap[o].reqs \subseteq a.map
  BY DEF Grows
<1>5. /\ b \in Filling(D, c.heap, W) /\ b.map = M \cup {root}
      /\ b.heap[root].using
      /\ \A o \in D : o # root => b.heap[o] = c.heap[o]
  BY <1>2 DEF Enters
<1>6. /\ a \in Worlds(D) /\ a.heap \in [D -> Fields(D)] /\ DOMAIN a.heap = D
      /\ \A o \in D : /\ a.heap[o].reqs = c.heap[o].reqs
                      /\ a.heap[o].kind = c.heap[o].kind
                      /\ a.heap[o].wrapped = c.heap[o].wrapped
      /\ Orderly(a.heap, W)
  BY <1>3, <1>4, FillingIs
<1>7. W \subseteq D /\ OneEach(W)
  BY DEF Ready
<1>8. a.map \subseteq W /\ a.failed = "no"
  BY <1>4 DEF Filling
<1>9. root \in D /\ root \notin M /\ root \in a.map
  BY <1>1, <1>4, <1>5
<1>10. \A o \in M : c.heap[o].reqs = h[o].reqs /\ a.heap[o] = c.heap[o]
  <2>1. ASSUME NEW o \in M PROVE c.heap[o].reqs = h[o].reqs
    BY <1>1, <1>2 DEF Rewires
  <2>2. ASSUME NEW o \in M PROVE a.heap[o] = c.heap[o]
    BY <1>1, <1>4, <1>5, <1>9
  <2> QED
    BY <2>1, <2>2
<1>11. AllPlain(D, a.heap)
  <2>1. \A o \in D : c.heap[o].kind = h[o].kind /\ c.heap[o].wrapped = h[o].wrapped
    BY <1>2, RewiredFields
  <2> QED
    BY <1>6, <2>1 DEF AllPlain
<1>12. OneEach(a.map)
  BY <1>7, <1>8 DEF OneEach
<1>13. KeepsReqs(a.heap, a.map)
  <2>1. KeepsReqs(h, M)
    BY DEF Tidy, Orderly
  <2>2. ASSUME NEW o \in a.map PROVE a.heap[o].reqs \subseteq a.map
    <3>1. CASE o \in M
      BY <1>4, <1>5, <1>10, <2>1, <3>1 DEF KeepsReqs
    <3>2. CASE o = root
      BY <1>6, <1>9, <3>2
    <3>3. CASE o \notin M /\ o # root
      <4>1. o \in a.map \ b.map
        BY <1>5, <3>3
      <4> QED
        BY <1>4, <1>6, <1>7, <1>8, <4>1
    <3> QED
      BY <3>1, <3>2, <3>3
  <2> QED
    BY <2>2 DEF KeepsReqs
<1>14. NoWayBack(a.heap, a.map)
  BY <1>6, <1>8 DEF Orderly, NoWayBack
<1>15. a.map \subseteq Closure(a.heap, Askers(a.heap, a.map))
  <2>1. PICK T : T = Closure(a.heap, Askers(a.heap, a.map))
    OBVIOUS
  <2>2. Askers(a.heap, a.map) \in SUBSET D
    BY <1>7, <1>8 DEF Askers
  <2>3. Askers(a.heap, a.map) \subseteq T /\ T \in SUBSET D /\ KeepsReqs(a.heap, T)
    BY <1>6, <2>1, <2>2, ReachedIs
  <2>4. M \subseteq T
    <3>1. SameReqs(h, a.heap, M)
      BY <1>10 DEF SameReqs
    <3>2. Askers(h, M) \subseteq Askers(a.heap, a.map)
      <4>1. ASSUME NEW o \in M PROVE a.heap[o].using = h[o].using
        <5>1. c.heap[o].using = h[o].using
          BY <1>1, <1>2, RewiredFields
        <5> QED
          BY <1>10, <5>1
      <4> QED
        BY <1>4, <1>5, <4>1 DEF Askers
    <3>3. a.map \subseteq D /\ M \subseteq a.map
      BY <1>4, <1>5, <1>7, <1>8
    <3>4. M \subseteq Closure(a.heap, Askers(a.heap, a.map))
      BY <1>1, <1>6, <3>1, <3>2, <3>3, TidyAsked
    <3> QED
      BY <2>1, <3>4
  <2>5. root \in T
    <3>1. a.heap[root].using
      BY <1>4, <1>5
    <3> QED
      BY <1>9, <2>3, <3>1 DEF Askers
  <2>6. Below(c.heap, root) \subseteq T
    <3>1. c.heap[root].reqs \subseteq T
      BY <1>6, <1>9, <2>3, <2>5 DEF KeepsReqs
    <3>2. KeepsReqs(c.heap, T)
      BY <1>6, <2>3 DEF KeepsReqs
    <3> QED
      BY <1>3, <1>9, <2>3, <3>1, <3>2, BelowIs
  <2>7. a.map \subseteq T
    BY <1>4, <1>5, <2>4, <2>5, <2>6
  <2> QED
    BY <2>1, <2>7
<1>16. \A o \in a.map : a.heap[o].kind = "main" /\ ~a.heap[o].wrapped
  BY <1>7, <1>8, <1>11 DEF AllPlain
<1>17. Tidy(a.heap, a.map)
  BY <1>12, <1>13, <1>14, <1>15, <1>16 DEF Tidy, Orderly
<1>18. a.heap[root].reqs \subseteq a.map
  BY <1>6, <1>9
<1>19. Added(D, root, a)
  BY <1>6, <1>8, <1>11, <1>17, <1>18 DEF Added
<1>20. ASSUME NEW o \in D PROVE NamesOf(a.heap[o].reqs) = NamesOf(h[o].reqs)
  <2>1. NamesOf(c.heap[o].reqs) = NamesOf(h[o].reqs)
    BY <1>2, RewiredFields
  <2> QED
    BY <1>6, <2>1
<1>21. ASSUME NEW o \in M PROVE a.heap[o] = [h[o] EXCEPT !.using = a.heap[o].using]
  <2>1. o \in D /\ o \notin U
    BY <1>1
  <2>2. a.heap[o] = h[o]
    <3>1. c.heap[o] = h[o]
      BY <1>2, <2>1, RewiredFields
    <3> QED
      BY <1>10, <3>1
  <2>3. h[o] \in Fields(D)
    BY <2>1
  <2> QED
    BY <2>2, <2>3 DEF Fields
<1>22. Below(a.heap, root) = Below(c.heap, root)
  <2>1. KeepsReqs(c.heap, D) /\ SameReqs(c.heap, a.heap, D)
    BY <1>3, <1>6 DEF KeepsReqs, SameReqs, Fields
  <2> QED
    BY <1>3, <1>6, <1>9, <2>1, BelowSame
<1>23. M \subseteq a.map /\ a.map \subseteq M \cup {root} \cup Below(a.heap, root)
  BY <1>4, <1>5, <1>22
<1>24. a.heap[root].using
  BY <1>4, <1>5
<1> QED
  BY <1>9, <1>19, <1>20, <1>21, <1>23, <1>24 DEF AddedTo

\* add of a package whose name is not in the map.
LEMMA AddNewTidies ==
  ASSUME NEW D, D \subseteq Object, NEW w \in Worlds(D), NEW U, NEW root,
         Fresh(D, w.heap, w.map, U, root), AllPlain(D, w.heap),
         Tidy(w.heap, w.map), w.failed = "no", ~Has(w, NameOf(root))
  PROVE  AddedTo(D, w.heap, w.map, root, AddNew(w, root, TRUE))
<1>1. PICK h : h = w.heap
  OBVIOUS
<1>2. PICK M : M = w.map
  OBVIOUS
<1>3. PICK c : c = ConnectEqualPointers(w, root)
  OBVIOUS
<1>4. h \in [D -> Fields(D)] /\ Fresh(D, h, M, U, root) /\ AllPlain(D, h)
      /\ Tidy(h, M) /\ NameOf(root) \notin NamesOf(M)
  BY <1>1, <1>2, WorldFields DEF Has
<1>5. c \in Between(D, h, M, U) /\ Connected(c.heap, M, U, root)
  <2>1. /\ ConnectEqualPointers(w, root) \in Between(D, w.heap, w.map, U)
        /\ Connected(ConnectEqualPointers(w, root).heap, w.map, U, root)
    BY ConnectJoins
  <2> QED
    BY <1>1, <1>2, <1>3, <2>1
<1>6. PICK K \in SUBSET U : root \in K /\ JoinedSet(c.heap, M, K)
  BY <1>5 DEF Connected
<1>7. PICK W : W = M \cup K
  OBVIOUS
<1>8. Ready(D, c.heap, W) /\ M \subseteq W /\ root \in W
  <2>1. Ready(D, c.heap, M \cup K)
    BY <1>4, <1>5, <1>6, JoinedReady
  <2> QED
    BY <1>6, <1>7, <2>1
<1>9. c.map = M /\ c \in Worlds(D) /\ c.failed = "no"
  BY <1>5 DEF Between
<1>10. c.heap \in [D -> Fields(D)]
  BY <1>9, WorldFields
<1>11. root \in D /\ W \subseteq D
  BY <1>8 DEF Ready
<1>12. c \in Filling(D, c.heap, W)
  <2>1. ASSUME NEW o \in D
        PROVE  c.heap[o] = [c.heap[o] EXCEPT !.using = c.heap[o].using]
    <3>1. c.heap[o] \in Fields(D)
      BY <1>10
    <3> QED
      BY <3>1 DEF Fields
  <2> QED
    BY <1>8, <1>9, <2>1 DEF Filling, Flagged
<1>13. ~Has(c, NameOf(root))
  BY <1>4, <1>9 DEF Has
<1>14. PICK b : b = Emplace(SetUsing(c, root, TRUE), root)
  OBVIOUS
<1>15. Enters(D, c.heap, W, c, root, b)
  <2>1. Enters(D, c.heap, W, c, root, Emplace(SetUsing(c, root, TRUE), root))
    BY <1>8, <1>10, <1>12, <1>13, RootEnters
  <2> QED
    BY <1>14, <2>1
<1>16. PICK g : AddCalls(D, g)
  BY AddLevels
<1>17. /\ Depth - 1 \in Nat
       /\ AddNew(w, root, TRUE) = AddOnce(g[Depth - 1], w, root, TRUE)
  BY <1>11, <1>16, AddNewIs
<1>18. PICK add : add = g[Depth - 1]
  OBVIOUS
<1>19. add \in GoodAdding(D, c.heap, W, Depth - 1)
  <2>1. \A d \in 0 .. Depth : g[d] \in GoodAdding(D, c.heap, W, d)
    BY <1>8, <1>10, <1>16, AddsGood
  <2>2. Depth - 1 \in 0 .. Depth
    BY <1>17, DepthIsNumber
  <2> QED
    BY <1>18, <2>1, <2>2
<1>20. PICK a : a = Loop(AddBody(D, add), b, Required(c.heap, root))
  OBVIOUS
<1>21. AddNew(w, root, TRUE) = a
  <2>1. PICK flag : flag = TRUE
    OBVIOUS
  <2>2. ConnectEqualPointers(w, root).failed = "no"
    BY <1>3, <1>9
  <2>3. AddOnce(add, w, root, flag) =
          Loop(AddBody(D, add),
               Emplace(SetUsing(ConnectEqualPointers(w, root), root, flag), root),
               Required(ConnectEqualPointers(w, root).heap, root))
    BY <2>2, AddOnceIs
  <2>4. AddOnce(add, w, root, TRUE) =
          Loop(AddBody(D, add), Emplace(SetUsing(c, root, TRUE), root),
               Required(c.heap, root))
    BY <1>3, <2>1, <2>3, Zenon
  <2>5. AddOnce(add, w, root, TRUE) = a
    BY <1>14, <1>20, <2>4, Zenon
  <2>6. AddNew(w, root, TRUE) = AddOnce(add, w, root, TRUE)
    BY <1>17, <1>18, Zenon
  <2> QED
    BY <2>5, <2>6, Zenon
<1>22. /\ Grows(D, c.heap, W, Below(c.heap, root), b, a)
       /\ c.heap[root].reqs \subseteq a.map
  <2>1. c.heap[root].reqs \subseteq W
    BY <1>8 DEF Ready, Orderly, KeepsReqs
  <2>2. b \in Filling(D, c.heap, W)
    BY <1>15 DEF Enters
  <2>3. NameOf(root) \notin NamesOf(Below(c.heap, root))
    BY <1>8 DEF Ready, Orderly, NoWayBack
  <2>4. ASSUME NEW r \in c.heap[root].reqs
        PROVE  r \in b.map \/ Size(c.heap, r) <= Depth - 1
    <3>1. r \in D /\ Size(c.heap, r) + 1 <= Size(c.heap, root)
      BY <1>10, <1>11, <2>3, SizeShrinks
    <3>2. Size(c.heap, root) \in Nat /\ Size(c.heap, root) <= Depth
      BY <1>10, <1>11, SizeIs
    <3>3. Size(c.heap, r) \in Nat
      BY <1>10, <3>1, SizeIs
    <3> QED
      BY <3>1, <3>2, <3>3, DepthIsNumber
  <2>5. /\ Grows(D, c.heap, W, Below(c.heap, root), b,
                 Loop(AddBody(D, add), b, Required(c.heap, root)))
        /\ c.heap[root].reqs
             \subseteq Loop(AddBody(D, add), b, Required(c.heap, root)).map
    BY <1>8, <1>10, <1>11, <1>19, <2>1, <2>2, <2>4, AddTurns
  <2> QED
    BY <1>20, <2>5
<1>23. AddedTo(D, h, M, root, a)
  BY <1>4, <1>5, <1>8, <1>15, <1>22, RootAdded
<1> QED
  BY <1>1, <1>2, <1>21, <1>23

\* What is fresh depends on pointers only.
LEMMA FreshAlike ==
  ASSUME NEW D, D \subseteq Object, NEW h \in [D -> Fields(D)],
         NEW g \in [D -> Fields(D)], SameReqs(h, g, D), NEW M, NEW U, NEW root,
         Fresh(D, h, M, U, root)
  PROVE  Fresh(D, g, M, U, root)
<1>1. NoWayBack(g, D)
  <2>1. KeepsReqs(h, D)
    BY DEF KeepsReqs, Fields
  <2>2. Orderly(h, D)
    BY <2>1 DEF Orderly, Fresh
  <2>3. Orderly(g, D)
    BY <2>2, OrderlyAlike
  <2> QED
    BY <2>3 DEF Orderly
<1> QED
  BY <1>1 DEF Fresh, SameReqs, KeepsReqs

\* A world is on the way from itself.
LEMMA FillingStarts ==
  ASSUME NEW D, NEW x \in Worlds(D), x.failed = "no", NEW W, x.map \subseteq W
  PROVE  x \in Filling(D, x.heap, W)
<1>1. ASSUME NEW o \in D
      PROVE  x.heap[o] = [x.heap[o] EXCEPT !.using = x.heap[o].using]
  <2>1. x.heap[o] \in Fields(D)
    BY WorldFields
  <2> QED
    BY <2>1 DEF Fields
<1> QED
  BY <1>1 DEF Filling, Flagged

\* x is as tidy as w, with the same map and pointers.
StaysTidy(D, w, x) ==
  /\ x \in Worlds(D) /\ x.failed = "no" /\ x.map = w.map
  /\ SameReqs(w.heap, x.heap, D) /\ Flagged(D, w.heap, x.heap)
  /\ AllPlain(D, x.heap) /\ Tidy(x.heap, x.map)

\* A package of a tidy manager that becomes a user's.
LEMMA TidyFlagged ==
  ASSUME NEW D, D \subseteq Object, NEW w \in Worlds(D), w.failed = "no",
         Tidy(w.heap, w.map), AllPlain(D, w.heap), NEW old \in w.map
  PROVE  StaysTidy(D, w, SetUsing(w, old, TRUE))
<1>0. PICK x : x = SetUsing(w, old, TRUE)
  OBVIOUS
<1>1. PICK h : h = w.heap
  OBVIOUS
<1>2. PICK M : M = w.map
  OBVIOUS
<1>3. h \in [D -> Fields(D)] /\ M \subseteq D /\ old \in D
  BY <1>1, <1>2, WorldFields
<1>4. Ready(D, h, M)
  BY <1>1, <1>2, <1>3 DEF Ready, Tidy, AllPlain
<1>5. w \in Filling(D, h, M)
  BY <1>1, <1>2, FillingStarts
<1>6. FlagStep(D, h, M, w, old, TRUE, x)
  <2>1. h[old].kind = "main"
    BY <1>1, <1>3 DEF AllPlain
  <2>2. FlagStep(D, h, M, w, old, TRUE, SetUsing(w, old, TRUE))
    BY <1>3, <1>4, <1>5, <2>1, FlagIsSet
  <2> QED
    BY <1>0, <2>2
<1>7. x \in Filling(D, h, M) /\ x.map = M /\ x.failed = "no"
  BY <1>2, <1>6 DEF FlagStep, Filling
<1>8. x.heap[old].using
  BY <1>6 DEF FlagStep
<1>9. \A o \in D : o # old => x.heap[o] = h[o]
  BY <1>1, <1>6 DEF FlagStep
<1>10. /\ x \in Worlds(D) /\ x.heap \in [D -> Fields(D)]
       /\ \A o \in D : /\ x.heap[o].reqs = h[o].reqs
                       /\ x.heap[o].kind = h[o].kind
                       /\ x.heap[o].wrapped = h[o].wrapped
       /\ Orderly(x.heap, M)
  BY <1>3, <1>4, <1>7, FillingIs
<1>11. SameReqs(h, x.heap, D) /\ SameReqs(h, x.heap, M) /\ AllPlain(D, x.heap)
  BY <1>1, <1>3, <1>10 DEF SameReqs, AllPlain
<1>12. Tidy(h, M)
  BY <1>1, <1>2
<1>13. Askers(h, M) \subseteq Askers(x.heap, M)
  BY <1>3, <1>8, <1>9 DEF Askers
<1>14. M \subseteq Closure(x.heap, Askers(x.heap, M))
  BY <1>3, <1>10, <1>11, <1>12, <1>13, TidyAsked
<1>15. \A o \in M : x.heap[o].kind = "main" /\ ~x.heap[o].wrapped
  BY <1>3, <1>11 DEF AllPlain
<1>16. Tidy(x.heap, M)
  BY <1>10, <1>12, <1>14, <1>15 DEF Tidy
<1>17. Flagged(D, h, x.heap)
  BY <1>7 DEF Filling
<1>18. StaysTidy(D, w, x)
  BY <1>1, <1>2, <1>7, <1>10, <1>11, <1>16, <1>17 DEF StaysTidy
<1> QED
  BY <1>0, <1>18

\* What is the same as a package of the map requires packages of the map, once
\* it is connected.
LEMMA SameJoined ==
  ASSUME NEW D, D \subseteq Object, NEW h \in [D -> Fields(D)], NEW M, NEW U,
         NEW root, Fresh(D, h, M, U, root), NEW g, Rewires(D, h, M, U, g),
         Connected(g, M, U, root), NEW old \in M,
         NamesOf(h[root].reqs) \subseteq NamesOf(h[old].reqs)
  PROVE  g[root].reqs \subseteq M
<1>1. /\ M \subseteq D /\ KeepsReqs(h, M) /\ root \in U /\ U \subseteq D \ M
      /\ \A o \in D : root \notin h[o].reqs
      /\ \A o \in U : o # root => NameOf(o) \notin NamesOf(M)
  BY DEF Fresh
<1>2. PICK K \in SUBSET U : root \in K /\ JoinedSet(g, M, K)
  BY DEF Connected
<1>3. g[root].reqs \subseteq M \cup K
  BY <1>2 DEF JoinedSet
<1>4. /\ g[root].reqs \subseteq h[root].reqs \cup M
      /\ NamesOf(g[root].reqs) = NamesOf(h[root].reqs)
  BY <1>1 DEF Rewires
<1>5. NamesOf(h[old].reqs) \subseteq NamesOf(M)
  BY <1>1 DEF KeepsReqs, NamesOf
<1>6. ASSUME NEW r \in g[root].reqs, r \notin M PROVE FALSE
  <2>1. r \in U /\ r \in h[root].reqs
    BY <1>3, <1>4, <1>6
  <2>2. r # root
    BY <1>1, <2>1
  <2>3. NameOf(r) \in NamesOf(M)
    BY <1>4, <1>5, <2>1 DEF NamesOf
  <2> QED
    BY <1>1, <2>1, <2>2, <2>3
<1> QED
  BY <1>6

\* From c to s only the flag of root has been set; then the turns of add leave
\* the map as it was, if root requires nothing else.
LEMMA SameStays ==
  ASSUME NEW D, D \subseteq Object, NEW h \in [D -> Fields(D)], NEW M, NEW U,
         NEW root, Fresh(D, h, M, U, root), AllPlain(D, h), Tidy(h, M),
         NEW c \in Between(D, h, M, U), Ready(D, c.heap, M),
         c.heap[root].reqs \subseteq M, NEW s,
         FlagStep(D, c.heap, M, c, root, TRUE, s),
         NEW a, Grows(D, c.heap, M, Below(c.heap, root), s, a),
         NameOf(root) \in NamesOf(M)
  PROVE  AddedTo(D, h, M, root, a)
<1>1. M \subseteq D /\ root \in U /\ U \subseteq D \ M
  BY DEF Fresh
<1>2. c.map = M /\ c \in Worlds(D) /\ Rewires(D, h, M, U, c.heap)
  BY DEF Between
<1>3. c.heap \in [D -> Fields(D)]
  BY <1>2, WorldFields
<1>4. /\ a \in Filling(D, c.heap, M) /\ s.map \subseteq a.map
      /\ \A o \in s.map : a.heap[o] = s.heap[o]
  BY DEF Grows
<1>5. s.map = M /\ \A o \in D : o # root => s.heap[o] = c.heap[o]
  BY <1>2 DEF FlagStep
<1>6. a.map = M /\ a.failed = "no"
  BY <1>4, <1>5 DEF Filling
<1>7. /\ a \in Worlds(D) /\ a.heap \in [D -> Fields(D)] /\ DOMAIN a.heap = D
      /\ \A o \in D : /\ a.heap[o].reqs = c.heap[o].reqs
                      /\ a.heap[o].kind = c.heap[o].kind
                      /\ a.heap[o].wrapped = c.heap[o].wrapped
      /\ Orderly(a.heap, M)
  BY <1>3, <1>4, FillingIs
<1>8. AllPlain(D, a.heap)
  <2>1. \A o \in D : c.heap[o].kind = h[o].kind /\ c.heap[o].wrapped = h[o].wrapped
    BY <1>2, RewiredFields
  <2> QED
    BY <1>7, <2>1 DEF AllPlain
<1>9. Alike(h, a.heap, M)
  <2>1. ASSUME NEW o \in M
        PROVE  /\ a.heap[o].reqs = h[o].reqs /\ a.heap[o].using = h[o].using
               /\ a.heap[o].kind = h[o].kind /\ a.heap[o].wrapped = h[o].wrapped
    <3>1. o \in D \ U /\ o # root
      BY <1>1
    <3>2. a.heap[o] = c.heap[o]
      BY <1>4, <1>5, <3>1
    <3>3. c.heap[o].reqs = h[o].reqs
      BY <1>2, <3>1 DEF Rewires
    <3>4. /\ c.heap[o].kind = h[o].kind /\ c.heap[o].wrapped = h[o].wrapped
          /\ c.heap[o].using = h[o].using
      BY <1>2, <3>1, RewiredFields
    <3> QED
      BY <3>2, <3>3, <3>4
  <2> QED
    BY <2>1 DEF Alike
<1>10. Tidy(a.heap, M)
  BY <1>1, <1>7, <1>9, TidyAlike
<1>11. a.heap[root].reqs \subseteq M
  BY <1>1, <1>7
<1>12. Added(D, root, a)
  BY <1>6, <1>7, <1>8, <1>10, <1>11 DEF Added
<1>13. ASSUME NEW o \in D PROVE NamesOf(a.heap[o].reqs) = NamesOf(h[o].reqs)
  <2>1. NamesOf(c.heap[o].reqs) = NamesOf(h[o].reqs)
    BY <1>2, RewiredFields
  <2> QED
    BY <1>7, <2>1
<1>14. ASSUME NEW o \in M PROVE a.heap[o] = [h[o] EXCEPT !.using = a.heap[o].using]
  <2>1. o \in D /\ o \notin U /\ o # root
    BY <1>1
  <2>2. a.heap[o] = h[o]
    <3>1. c.heap[o] = h[o]
      BY <1>2, <2>1, RewiredFields
    <3> QED
      BY <1>4, <1>5, <2>1, <3>1
  <2>3. h[o] \in Fields(D)
    BY <2>1
  <2> QED
    BY <2>2, <2>3 DEF Fields
<1> QED
  BY <1>6, <1>12, <1>13, <1>14 DEF AddedTo

\* add of a package that is in the map and becomes a user's.
LEMMA AddSameTidies ==
  ASSUME NEW D, D \subseteq Object, NEW w \in Worlds(D), NEW U, NEW root,
         Fresh(D, w.heap, w.map, U, root), AllPlain(D, w.heap),
         Tidy(w.heap, w.map), w.failed = "no", NEW old \in w.map,
         NameOf(old) = NameOf(root), SamePackage(w.heap, old, root)
  PROVE  AddedTo(D, w.heap, w.map, root,
                 AddNew(SetUsing(w, old, TRUE), root, TRUE))
<1>1. PICK x : x = SetUsing(w, old, TRUE)
  OBVIOUS
<1>2. StaysTidy(D, w, x)
  <2>1. StaysTidy(D, w, SetUsing(w, old, TRUE))
    BY TidyFlagged
  <2> QED
    BY <1>1, <2>1
<1>3. /\ x \in Worlds(D) /\ x.failed = "no" /\ x.map = w.map
      /\ SameReqs(w.heap, x.heap, D) /\ AllPlain(D, x.heap)
      /\ Tidy(x.heap, x.map) /\ Flagged(D, w.heap, x.heap)
  BY <1>2 DEF StaysTidy
<1>4. PICK h : h = x.heap
  OBVIOUS
<1>5. PICK M : M = w.map
  OBVIOUS
<1>6. w.heap \in [D -> Fields(D)] /\ h \in [D -> Fields(D)]
  BY <1>3, <1>4, WorldFields
<1>7. Fresh(D, h, M, U, root) /\ AllPlain(D, h) /\ Tidy(h, M)
  <2>1. Fresh(D, w.heap, M, U, root) /\ SameReqs(w.heap, h, D)
    BY <1>3, <1>4, <1>5
  <2>2. Fresh(D, h, M, U, root)
    BY <1>6, <2>1, FreshAlike
  <2> QED
    BY <1>3, <1>4, <1>5, <2>2
<1>8. /\ M \subseteq D /\ root \in U /\ U \subseteq D \ M /\ root \in D
      /\ OneEach(M) /\ old \in D
  BY <1>5, <1>7 DEF Fresh
<1>9. PICK c : c = ConnectEqualPointers(x, root)
  OBVIOUS
<1>10. c \in Between(D, h, M, U) /\ Connected(c.heap, M, U, root)
  <2>1. Fresh(D, x.heap, x.map, U, root)
    BY <1>3, <1>4, <1>5, <1>7
  <2>2. /\ ConnectEqualPointers(x, root) \in Between(D, x.heap, x.map, U)
        /\ Connected(ConnectEqualPointers(x, root).heap, x.map, U, root)
    BY <1>3, <2>1, ConnectJoins
  <2> QED
    BY <1>3, <1>4, <1>5, <1>9, <2>2
<1>11. c.map = M /\ c \in Worlds(D) /\ c.failed = "no" /\ Rewires(D, h, M, U, c.heap)
  BY <1>10 DEF Between
<1>12. c.heap \in [D -> Fields(D)]
  BY <1>11, WorldFields
<1>13. c.heap[root].reqs \subseteq M
  <2>1. NameOf(root) \notin NamesOf(w.heap[root].reqs)
    <3>1. NameOf(root) \notin NamesOf(Below(w.heap, root))
      BY <1>8 DEF Fresh, NoWayBack
    <3>2. w.heap[root].reqs \subseteq Below(w.heap, root)
      BY <1>6, <1>8, BelowIs
    <3> QED
      BY <3>1, <3>2 DEF NamesOf
  <2>2. w.heap[root].kind = "main" /\ ~w.heap[root].wrapped
    BY <1>8 DEF AllPlain
  <2>3. NamesOf(w.heap[root].reqs) \subseteq NamesOf(w.heap[old].reqs)
    BY <1>6, <1>8, <2>1, <2>2, SameNames
  <2>4. h[root].reqs = w.heap[root].reqs /\ h[old].reqs = w.heap[old].reqs
    BY <1>3, <1>4, <1>8 DEF SameReqs
  <2>5. NamesOf(h[root].reqs) \subseteq NamesOf(h[old].reqs) /\ old \in M
    BY <1>5, <2>3, <2>4
  <2> QED
    BY <1>6, <1>7, <1>10, <1>11, <2>5, SameJoined
<1>14. Ready(D, c.heap, M)
  <2>1. SameReqs(h, c.heap, M)
    BY <1>8, <1>11 DEF SameReqs, Rewires
  <2>2. Orderly(h, M)
    BY <1>7 DEF Tidy
  <2>3. Orderly(c.heap, M)
    BY <1>6, <1>8, <1>12, <2>1, <2>2, OrderlyAlike
  <2>4. \A o \in D : c.heap[o].kind = h[o].kind
    BY <1>6, <1>11, RewiredFields
  <2> QED
    BY <1>7, <1>8, <2>3, <2>4 DEF Ready, AllPlain
<1>15. c \in Filling(D, c.heap, M)
  BY <1>11, FillingStarts
<1>16. PICK s : s = SetUsing(c, root, TRUE)
  OBVIOUS
<1>17. FlagStep(D, c.heap, M, c, root, TRUE, s)
  <2>1. c.heap[root].kind = "main"
    <3>1. c.heap[root].kind = h[root].kind
      BY <1>6, <1>8, <1>11, RewiredFields
    <3> QED
      BY <1>7, <1>8, <3>1 DEF AllPlain
  <2>2. FlagStep(D, c.heap, M, c, root, TRUE, SetUsing(c, root, TRUE))
    BY <1>8, <1>12, <1>14, <1>15, <2>1, FlagIsSet
  <2> QED
    BY <1>16, <2>2
<1>18. s \in Filling(D, c.heap, M) /\ s.map = M
  BY <1>11, <1>17 DEF FlagStep
<1>19. Emplace(s, root) = s
  <2>1. Has(s, NameOf(root))
    BY <1>5, <1>18 DEF Has, NamesOf
  <2> QED
    BY <2>1 DEF Emplace
<1>20. PICK g : AddCalls(D, g)
  BY AddLevels
<1>21. /\ Depth - 1 \in Nat
       /\ AddNew(x, root, TRUE) = AddOnce(g[Depth - 1], x, root, TRUE)
  BY <1>3, <1>8, <1>20, AddNewIs
<1>22. PICK add : add = g[Depth - 1]
  OBVIOUS
<1>23. add \in GoodAdding(D, c.heap, M, Depth - 1)
  <2>1. \A d \in 0 .. Depth : g[d] \in GoodAdding(D, c.heap, M, d)
    BY <1>12, <1>14, <1>20, AddsGood
  <2>2. Depth - 1 \in 0 .. Depth
    BY <1>21, DepthIsNumber
  <2> QED
    BY <1>22, <2>1, <2>2
<1>24. PICK a : a = Loop(AddBody(D, add), s, Required(c.heap, root))
  OBVIOUS
<1>25. AddNew(x, root, TRUE) = a
  <2>1. PICK flag : flag = TRUE
    OBVIOUS
  <2>2. ConnectEqualPointers(x, root).failed = "no"
    BY <1>9, <1>11
  <2>3. AddOnce(add, x, root, flag) =
          Loop(AddBody(D, add),
               Emplace(SetUsing(ConnectEqualPointers(x, root), root, flag), root),
               Required(ConnectEqualPointers(x, root).heap, root))
    BY <1>3, <2>2, AddOnceIs
  <2>4. AddOnce(add, x, root, TRUE) =
          Loop(AddBody(D, add), Emplace(SetUsing(c, root, TRUE), root),
               Required(c.heap, root))
    BY <1>9, <2>1, <2>3, Zenon
  <2>5. AddOnce(add, x, root, TRUE) = a
    BY <1>16, <1>19, <1>24, <2>4, Zenon
  <2>6. AddNew(x, root, TRUE) = AddOnce(add, x, root, TRUE)
    BY <1>21, <1>22, Zenon
  <2> QED
    BY <2>5, <2>6, Zenon
<1>26. Grows(D, c.heap, M, Below(c.heap, root), s, a)
  <2>1. \A r \in c.heap[root].reqs :
          r \in s.map \/ Size(c.heap, r) <= Depth - 1
    BY <1>13, <1>18
  <2>2. Grows(D, c.heap, M, Below(c.heap, root), s,
              Loop(AddBody(D, add), s, Required(c.heap, root)))
    BY <1>8, <1>12, <1>13, <1>14, <1>18, <1>23, <2>1, AddTurns
  <2> QED
    BY <1>24, <2>2
<1>27. AddedTo(D, h, M, root, a)
  <2>1. NameOf(root) \in NamesOf(M)
    BY <1>5 DEF NamesOf
  <2> QED
    BY <1>6, <1>7, <1>10, <1>13, <1>14, <1>17, <1>26, <2>1, SameStays
<1>28. AddedTo(D, w.heap, M, root, a)
  <2>1. ASSUME NEW o \in D PROVE NamesOf(a.heap[o].reqs) = NamesOf(w.heap[o].reqs)
    <3>1. NamesOf(a.heap[o].reqs) = NamesOf(h[o].reqs)
      BY <1>27 DEF AddedTo
    <3>2. h[o].reqs = w.heap[o].reqs
      BY <1>3, <1>4 DEF SameReqs
    <3> QED
      BY <3>1, <3>2
  <2>2. ASSUME NEW o \in M
        PROVE  a.heap[o] = [w.heap[o] EXCEPT !.using = a.heap[o].using]
    <3>1. o \in D
      BY <1>8
    <3>2. a.heap[o] = [h[o] EXCEPT !.using = a.heap[o].using]
      BY <1>27 DEF AddedTo
    <3>3. h[o] = [w.heap[o] EXCEPT !.using = h[o].using]
      BY <1>3, <1>4, <3>1 DEF Flagged
    <3>4. w.heap[o] \in Fields(D)
      BY <1>6, <3>1
    <3> QED
      BY <3>2, <3>3, <3>4 DEF Fields
  <2> QED
    BY <1>27, <2>1, <2>2 DEF AddedTo
<1> QED
  BY <1>1, <1>5, <1>25, <1>28

\* What has been read is added, or refused as it came.
Answered(D, w, root, a) ==
  \/ AddedTo(D, w.heap, w.map, root, a)
  \/ a = Fail(w, "file_name is unique")
  \/ a = Fail(w, "This package is already exist")

\* Package_manager::add of what has been read, from a tidy manager: it is
\* refused and changes nothing, or leaves a tidy manager.
LEMMA ManagerAddTidies ==
  ASSUME NEW D, D \subseteq Object, NEW w \in Worlds(D), NEW U, NEW root,
         Fresh(D, w.heap, w.map, U, root), AllPlain(D, w.heap),
         Tidy(w.heap, w.map), w.failed = "no"
  PROVE  Answered(D, w, root, ManagerAdd(w, root))
<1>1. CASE ~Has(w, NameOf(root))
  <2>1. AddedTo(D, w.heap, w.map, root, AddNew(w, root, TRUE))
    BY <1>1, AddNewTidies
  <2>2. ManagerAdd(w, root) = AddNew(w, root, TRUE)
    BY <1>1 DEF ManagerAdd
  <2> QED
    BY <2>1, <2>2 DEF Answered
<1>2. CASE Has(w, NameOf(root))
  <2>1. PICK old : old = At(w, NameOf(root))
    OBVIOUS
  <2>2. old \in w.map /\ NameOf(old) = NameOf(root)
    BY <1>2, <2>1, AtIn
  <2>3. CASE ~SamePackage(w.heap, old, root)
    BY <1>2, <2>1, <2>3 DEF ManagerAdd, Answered
  <2>4. CASE SamePackage(w.heap, old, root) /\ w.heap[old].using
    BY <1>2, <2>1, <2>4 DEF ManagerAdd, Answered
  <2>5. CASE SamePackage(w.heap, old, root) /\ ~w.heap[old].using
    <3>1. AddedTo(D, w.heap, w.map, root,
                  AddNew(SetUsing(w, old, TRUE), root, TRUE))
      BY <2>2, <2>5, AddSameTidies
    <3>2. ManagerAdd(w, root) = AddNew(SetUsing(w, old, TRUE), root, TRUE)
      BY <1>2, <2>1, <2>5 DEF ManagerAdd
    <3> QED
      BY <3>1, <3>2 DEF Answered
  <2> QED
    BY <2>3, <2>4, <2>5
<1> QED
  BY <1>1, <1>2

-----------------------------------------------------------------------------
(* What has been read *)

\* T is a tree: nothing requires root, each other object is required by one,
\* and all of them can be reached from root.
Tree(h, T, root) ==
  /\ root \in T /\ KeepsReqs(h, T)
  /\ \A o \in T : root \notin h[o].reqs
  /\ \A x, y \in T : \A r \in h[x].reqs : r \in h[y].reqs => x = y
  /\ \A S \in SUBSET T : root \in S /\ KeepsReqs(h, S) => T \subseteq S

\* Nothing in a tree leads back.
LEMMA TreeNoWayBack ==
  ASSUME NEW D, D \subseteq Object, NEW h \in [D -> Fields(D)], NEW T \in SUBSET D,
         OneEach(T), NEW root, Tree(h, T, root)
  PROVE  NoWayBack(h, T)
<1>1. SUFFICES ASSUME NEW o \in T, NameOf(o) \in NamesOf(Below(h, o)) PROVE FALSE
  BY DEF NoWayBack
<1>2. PICK C : C = Below(h, o)
  OBVIOUS
<1>3. /\ h[o].reqs \subseteq C /\ C \in SUBSET D /\ KeepsReqs(h, C)
      /\ \A S \in SUBSET D : h[o].reqs \subseteq S /\ KeepsReqs(h, S) => C \subseteq S
  BY <1>2, BelowIs
<1>4. C \subseteq T
  BY <1>3 DEF Tree, KeepsReqs
<1>5. o \in C
  BY <1>1, <1>2, <1>4 DEF OneEach, NamesOf
<1>6. \A x \in C : \E p \in C : x \in h[p].reqs
  <2> DEFINE S == {x \in C : \E p \in C : x \in h[p].reqs}
  <2>1. h[o].reqs \subseteq S
    BY <1>3, <1>5
  <2>2. KeepsReqs(h, S)
    BY <1>3 DEF KeepsReqs
  <2>3. S \in SUBSET D
    BY <1>3
  <2> HIDE DEF S
  <2>4. C \subseteq S
    BY <1>3, <2>1, <2>2, <2>3
  <2> QED
    BY <2>4 DEF S
<1>7. root \notin C
  BY <1>4, <1>6 DEF Tree
<1>8. KeepsReqs(h, T \ C)
  <2>1. ASSUME NEW x \in T \ C, NEW r \in h[x].reqs PROVE r \in T \ C
    <3>1. r \in T
      BY DEF Tree, KeepsReqs
    <3>2. CASE r \in C
      <4>1. PICK p \in C : r \in h[p].reqs
        BY <1>6, <3>2
      <4>2. x = p
        BY <1>4, <4>1 DEF Tree
      <4> QED
        BY <4>1, <4>2
    <3> QED
      BY <3>1, <3>2
  <2> QED
    BY <2>1 DEF KeepsReqs
<1>9. T \subseteq T \ C
  BY <1>7, <1>8 DEF Tree
<1> QED
  BY <1>4, <1>5, <1>9

\* A tree has what Fresh asks for.
LEMMA TreeFresh ==
  ASSUME NEW D, D \subseteq Object, NEW h \in [D -> Fields(D)], NEW M \in SUBSET D,
         OneEach(M), Orderly(h, M), OneEach(D \ M), NEW root,
         Tree(h, D \ M, root)
  PROVE  \E U : Fresh(D, h, M, U, root)
<1>1. PICK T : T = D \ M
  OBVIOUS
<1>2. /\ root \in T /\ KeepsReqs(h, T)
      /\ \A o \in T : root \notin h[o].reqs
      /\ \A x, y \in T : \A r \in h[x].reqs : r \in h[y].reqs => x = y
  BY <1>1 DEF Tree
<1> DEFINE Leads(S) ==
      /\ root \in S
      /\ \A x \in S : \A r \in h[x].reqs : NameOf(r) \notin NamesOf(M) => r \in S
<1> DEFINE U == {o \in T : \A S \in SUBSET T : Leads(S) => o \in S}
<1>3. U \subseteq T /\ Leads(U)
  BY <1>2 DEF KeepsReqs
<1>4. \A S \in SUBSET T : Leads(S) => U \subseteq S
  OBVIOUS
<1> HIDE DEF U
<1>5. \A o \in U : o # root => NameOf(o) \notin NamesOf(M)
  <2> DEFINE S == {root} \cup {o \in U : NameOf(o) \notin NamesOf(M)}
  <2>1. S \subseteq U /\ S \in SUBSET T
    BY <1>2, <1>3
  <2>2. Leads(S)
    BY <1>3, <2>1
  <2>3. U \subseteq S
    BY <1>4, <2>1, <2>2
  <2> QED
    BY <2>3
<1>6. \A o \in U : o # root => \E p \in U : o \in h[p].reqs
  <2> DEFINE S == {root} \cup {o \in U : \E p \in U : o \in h[p].reqs}
  <2>1. S \subseteq U /\ S \in SUBSET T
    BY <1>2, <1>3
  <2>2. Leads(S)
    BY <1>3, <2>1
  <2>3. U \subseteq S
    BY <1>4, <2>1, <2>2
  <2> QED
    BY <2>3
<1>7. KeepsReqs(h, T \ U)
  <2>1. ASSUME NEW x \in T \ U, NEW r \in h[x].reqs PROVE r \in T \ U
    <3>1. r \in T
      BY <1>2 DEF KeepsReqs
    <3>2. CASE r \in U
      <4>1. r # root
        BY <1>2
      <4>2. PICK p \in U : r \in h[p].reqs
        BY <1>6, <3>2, <4>1
      <4>3. p \in T
        BY <1>3
      <4>4. x = p
        BY <1>2, <4>2, <4>3
      <4> QED
        BY <4>2, <4>4
    <3> QED
      BY <3>1, <3>2
  <2> QED
    BY <2>1 DEF KeepsReqs
<1>8. NoWayBack(h, D)
  <2>1. NoWayBack(h, T)
    <3>1. T \in SUBSET D /\ OneEach(T) /\ Tree(h, T, root)
      BY <1>1
    <3> QED
      BY <3>1, TreeNoWayBack
  <2>2. NoWayBack(h, M)
    BY DEF Orderly
  <2> QED
    BY <1>1, <2>1, <2>2 DEF NoWayBack
<1>9. \A o \in D : root \notin h[o].reqs
  BY <1>1, <1>2 DEF Orderly, KeepsReqs
<1>10. KeepsReqs(h, M)
  BY DEF Orderly
<1>11. root \in U /\ U \subseteq D \ M
  BY <1>1, <1>3
<1>12. \A o \in U : \A r \in h[o].reqs : NameOf(r) \notin NamesOf(M) => r \in U
  BY <1>3
<1>13. Fresh(D, h, M, U, root)
  BY <1>1, <1>5, <1>7, <1>8, <1>9, <1>10, <1>11, <1>12 DEF Fresh
<1> QED
  BY <1>13

\* A file of main packages, none of them wrapped.
PlainFile(file) == \A n \in DOMAIN file : file[n].kind = "main" /\ ~file[n].wrapped

\* Each name of what can be read is required once, but the first one.
LEMMA ReadOnce ==
  ASSUME NEW file, IsFile(file), NEW n, CanRead(file, n)
  PROVE  /\ \A k \in Closure(file, {n}) : n \notin file[k].reqs
         /\ \A k, l \in Closure(file, {n}) : \A m \in file[k].reqs :
              m \in file[l].reqs => k = l
<1>1. PICK R : R = Closure(file, {n})
  OBVIOUS
<1>2. /\ n \in R /\ R \subseteq Name
      /\ \A m \in R : file[m].reqs \subseteq R
  BY <1>1, Readings
<1>3. \A m \in R : Cardinality({k \in R : m \in file[k].reqs})
                     = IF m = n THEN 0 ELSE 1
  BY <1>1 DEF CanRead
<1>4. \A m \in R : IsFiniteSet({k \in R : m \in file[k].reqs})
  BY <1>2, NameAssumption, FS_Subset
<1>5. {k \in R : n \in file[k].reqs} = {}
  <2>1. Cardinality({k \in R : n \in file[k].reqs}) = 0
    BY <1>2, <1>3
  <2> QED
    BY <1>2, <1>4, <2>1, FS_EmptySet
<1>6. ASSUME NEW k \in R, NEW l \in R, NEW m \in file[k].reqs, m \in file[l].reqs
      PROVE  k = l
  <2>1. m \in R /\ m # n
    BY <1>2, <1>5, <1>6
  <2>2. Cardinality({j \in R : m \in file[j].reqs}) = 1
    BY <1>3, <2>1
  <2>3. PICK z : {j \in R : m \in file[j].reqs} = {z}
    BY <1>4, <2>1, <2>2, FS_Singleton
  <2> QED
    BY <1>6, <2>3
<1> QED
  BY <1>1, <1>5, <1>6

\* c is an object for each name of R, which require in h what the names do.
Image(file, h, R, c) ==
  /\ c \in [R -> Object]
  /\ \A m \in R : /\ NameOf(c[m]) = m
                  /\ h[c[m]].reqs = {c[q] : q \in file[m].reqs}

\* The objects of an image.
Images(R, c) == {c[m] : m \in R}

\* The image of what can be read is a tree.
LEMMA TreeImage ==
  ASSUME NEW file, IsFile(file), NEW n, CanRead(file, n), NEW h, NEW c,
         Image(file, h, Closure(file, {n}), c)
  PROVE  /\ Tree(h, Images(Closure(file, {n}), c), c[n])
         /\ OneEach(Images(Closure(file, {n}), c))
<1> DEFINE R == Closure(file, {n})
<1> DEFINE T == Images(R, c)
<1>1. /\ n \in R /\ R \subseteq DOMAIN file /\ R \subseteq Name
      /\ \A m \in R : file[m].reqs \subseteq R
  BY Readings
<1>2. /\ \A k \in R : n \notin file[k].reqs
      /\ \A k, l \in R : \A m \in file[k].reqs : m \in file[l].reqs => k = l
  BY ReadOnce
<1>3. \A Q : n \in Q /\ Closed(file, Q) => R \subseteq Q
  <2>1. IsFiniteSet({n})
    BY FS_Singleton
  <2>2. IsFiniteSet(Nodes(file, {n}))
    BY <2>1, FileNodes
  <2>3. \A Q : {n} \subseteq Q /\ Closed(file, Q) => Closure(file, {n}) \subseteq Q
    BY <2>2, ClosureIs
  <2> QED
    BY <2>3
<1>4. \A m \in R : NameOf(c[m]) = m /\ h[c[m]].reqs = {c[q] : q \in file[m].reqs}
  BY DEF Image
<1> HIDE DEF R
<1>5. \A m \in R : c[m] \in T
  BY DEF Images
<1>6. \A o \in T : NameOf(o) \in R /\ o = c[NameOf(o)]
  BY <1>4 DEF Images
<1> HIDE DEF T
<1>7. OneEach(T)
  BY <1>6, Zenon DEF OneEach
<1>8. \A o \in T : \A r \in h[o].reqs :
        r \in T /\ NameOf(r) \in file[NameOf(o)].reqs
  <2>1. ASSUME NEW o \in T, NEW r \in h[o].reqs
        PROVE  r \in T /\ NameOf(r) \in file[NameOf(o)].reqs
    <3>1. h[o].reqs = {c[q] : q \in file[NameOf(o)].reqs} /\ NameOf(o) \in R
      BY <1>4, <1>6
    <3>2. PICK q \in file[NameOf(o)].reqs : r = c[q]
      BY <3>1
    <3>3. q \in R
      BY <1>1, <3>1
    <3> QED
      BY <1>4, <1>5, <3>2, <3>3
  <2> QED
    BY <2>1
<1>9. c[n] \in T /\ NameOf(c[n]) = n
  BY <1>1, <1>4, <1>5
<1>10. KeepsReqs(h, T)
  BY <1>8 DEF KeepsReqs
<1>11. \A o \in T : c[n] \notin h[o].reqs
  BY <1>2, <1>6, <1>8, <1>9
<1>12. \A y, z \in T : \A r \in h[y].reqs : r \in h[z].reqs => y = z
  <2>1. ASSUME NEW y \in T, NEW z \in T, NEW r \in h[y].reqs, r \in h[z].reqs
        PROVE  y = z
    <3>1. NameOf(r) \in file[NameOf(y)].reqs /\ NameOf(r) \in file[NameOf(z)].reqs
      BY <1>8, <2>1
    <3>2. NameOf(y) = NameOf(z)
      BY <1>2, <1>6, <3>1
    <3> QED
      BY <1>7, <3>2 DEF OneEach
  <2> QED
    BY <2>1
<1>13. ASSUME NEW S \in SUBSET T, c[n] \in S, KeepsReqs(h, S)
       PROVE  T \subseteq S
  <2> DEFINE Q == {m \in R : c[m] \in S}
  <2>1. n \in Q
    BY <1>1, <1>13
  <2>2. Closed(file, Q)
    <3>1. ASSUME NEW m \in Q, NEW q \in file[m].reqs PROVE q \in Q
      <4>1. q \in R
        BY <1>1
      <4>2. c[q] \in h[c[m]].reqs
        BY <1>4
      <4>3. c[q] \in S
        BY <1>13, <4>2 DEF KeepsReqs
      <4> QED
        BY <4>1, <4>3
    <3> QED
      BY <3>1 DEF Closed
  <2> HIDE DEF Q
  <2>3. R \subseteq Q
    BY <1>3, <2>1, <2>2
  <2> QED
    BY <1>6, <2>3 DEF Q
<1>14. Tree(h, T, c[n])
  BY <1>9, <1>10, <1>11, <1>12, <1>13 DEF Tree
<1> QED
  BY <1>7, <1>14 DEF T, R

\* x is w and what has been read for root.
TreeRead(D, w, E, root, x) ==
  /\ D \subseteq E /\ E \subseteq Object
  /\ x \in Worlds(E) /\ x.map = w.map /\ x.failed = w.failed
  /\ \A o \in D : x.heap[o] = w.heap[o]
  /\ AllPlain(E \ D, x.heap)
  /\ OneEach(E \ D)
  /\ Tree(x.heap, E \ D, root)

\* What is read is a tree of new objects.
LEMMA ReadPackageTree ==
  ASSUME NEW D, D \subseteq Object, NEW w \in Worlds(D), NEW file, IsFile(file),
         PlainFile(file), NEW n, CanRead(file, n), HasRoom(w, Closure(file, {n}))
  PROVE  \E E : TreeRead(D, w, E, NewObject(w, n), ReadPackage(w, file, n))
<1> DEFINE R == Closure(file, {n})
<1> DEFINE new == {NewObject(w, m) : m \in R}
<1> DEFINE E == D \cup new
<1> DEFINE f(o) == [file[NameOf(o)] EXCEPT !.reqs = {NewObject(w, q) : q \in @}]
<1> DEFINE g == [o \in new |-> f(o)]
<1> DEFINE h == Over(w.heap, g)
<1>1. w.heap \in [D -> Fields(D)] /\ DOMAIN w.heap = D /\ w.map \subseteq D
  BY WorldFields
<1>2. /\ n \in R /\ R \subseteq DOMAIN file /\ R \subseteq Name
      /\ \A m \in R : file[m].reqs \subseteq R
  BY Readings
<1>3. \A m \in R : /\ NewObject(w, m) \in Object
                   /\ NewObject(w, m) \notin D
                   /\ NameOf(NewObject(w, m)) = m
  BY <1>1, <1>2, NewObjectIn
<1> HIDE DEF R
<1>4. /\ new \subseteq Object /\ new \cap D = {}
      /\ \A o \in new : NameOf(o) \in R /\ o = NewObject(w, NameOf(o))
  BY <1>3
<1>5. \A o \in new : file[NameOf(o)] \in Fields(Name)
  BY <1>2, <1>4 DEF IsFile
<1>6. ASSUME NEW o \in new
      PROVE  /\ f(o) \in Fields(E)
             /\ f(o).reqs = {NewObject(w, q) : q \in file[NameOf(o)].reqs}
             /\ f(o).kind = "main" /\ ~f(o).wrapped
  <2>1. {NewObject(w, q) : q \in file[NameOf(o)].reqs} \subseteq new
    BY <1>2, <1>4
  <2>2. file[NameOf(o)].kind = "main" /\ ~file[NameOf(o)].wrapped
    BY <1>2, <1>4 DEF PlainFile
  <2> QED
    BY <1>5, <2>1, <2>2 DEF Fields
<1>7. \A o \in D : w.heap[o] \in Fields(E)
  BY <1>1 DEF Fields
<1> HIDE DEF f, new
<1>8. /\ h \in [E -> Fields(E)] /\ \A o \in D : h[o] = w.heap[o]
      /\ \A o \in new : h[o] = f(o)
  BY <1>1, <1>4, <1>6, <1>7 DEF Over
<1>9. ReadPackage(w, file, n) = [w EXCEPT !.heap = h]
  BY Zenon DEF ReadPackage, f, new, R
<1> HIDE DEF h
<1>10. PICK x : x = [w EXCEPT !.heap = h]
  OBVIOUS
<1>11. x \in Worlds(E) /\ x.map = w.map /\ x.heap = h /\ x.failed = w.failed
  BY <1>1, <1>8, <1>10, WorldFields DEF Worlds
<1>12. \A o \in new : h[o].reqs = {NewObject(w, q) : q \in file[NameOf(o)].reqs}
  BY <1>6, <1>8
<1>13. AllPlain(new, h)
  BY <1>6, <1>8 DEF AllPlain
<1>14. PICK c : c = [m \in R |-> NewObject(w, m)]
  OBVIOUS
<1>15. Image(file, h, R, c)
  <2>1. c \in [R -> Object]
    BY <1>3, <1>14
  <2>2. ASSUME NEW m \in R
        PROVE  /\ NameOf(c[m]) = m
               /\ h[c[m]].reqs = {c[q] : q \in file[m].reqs}
    <3>1. c[m] = NewObject(w, m) /\ NameOf(c[m]) = m
      BY <1>3, <1>14
    <3>2. c[m] \in new
      BY <3>1 DEF new
    <3>3. h[c[m]].reqs = {NewObject(w, q) : q \in file[m].reqs}
      BY <1>12, <3>1, <3>2
    <3>4. \A q \in file[m].reqs : c[q] = NewObject(w, q)
      BY <1>2, <1>14
    <3> QED
      BY <3>1, <3>3, <3>4
  <2> QED
    BY <2>1, <2>2 DEF Image
<1>16. Images(R, c) = new
  BY <1>14 DEF Images, new
<1>17. PICK root : root = NewObject(w, n)
  OBVIOUS
<1>18. c[n] = root
  BY <1>2, <1>14, <1>17
<1>19. Tree(h, new, root) /\ OneEach(new)
  <2>1. /\ Tree(h, Images(Closure(file, {n}), c), c[n])
        /\ OneEach(Images(Closure(file, {n}), c))
    BY <1>15, TreeImage DEF R
  <2> QED
    BY <1>16, <1>18, <2>1 DEF R
<1>20. E \ D = new
  BY <1>4
<1>21. D \subseteq E /\ E \subseteq Object
  BY <1>4
<1> HIDE DEF E
<1>22. TreeRead(D, w, E, root, x)
  BY <1>8, <1>11, <1>13, <1>19, <1>20, <1>21 DEF TreeRead
<1> QED
  BY <1>9, <1>10, <1>17, <1>22

\* What has been read for a tidy manager is added or refused.
LEMMA ReadingTidies ==
  ASSUME NEW w, NEW D, D \subseteq Object, w \in Worlds(D), D = w.map,
         w.failed = "no", Tidy(w.heap, w.map), NEW E, NEW root, NEW x,
         TreeRead(D, w, E, root, x)
  PROVE  /\ Answered(E, x, root, ManagerAdd(x, root))
         /\ AllPlain(E, x.heap) /\ Tidy(x.heap, x.map)
<1>1. PICK M : M = w.map
  OBVIOUS
<1>2. /\ D \subseteq E /\ E \subseteq Object
      /\ x \in Worlds(E) /\ x.map = M /\ x.failed = "no"
      /\ \A o \in D : x.heap[o] = w.heap[o]
      /\ AllPlain(E \ D, x.heap) /\ OneEach(E \ D) /\ Tree(x.heap, E \ D, root)
  BY <1>1 DEF TreeRead
<1>3. w.heap \in [D -> Fields(D)] /\ x.heap \in [E -> Fields(E)]
  BY <1>2, WorldFields
<1>4. D = M /\ M \subseteq D /\ M \subseteq E /\ M \in SUBSET E
  BY <1>1, <1>2
<1>5. Tidy(x.heap, M)
  <2>1. Alike(w.heap, x.heap, M)
    BY <1>2, <1>4 DEF Alike
  <2>2. Tidy(w.heap, M)
    BY <1>1
  <2> QED
    BY <1>2, <1>3, <1>4, <2>1, <2>2, TidyAlike
<1>6. AllPlain(E, x.heap)
  BY <1>2, <1>4, <1>5 DEF AllPlain, Tidy
<1>7. PICK U : Fresh(E, x.heap, M, U, root)
  <2>1. OneEach(M) /\ Orderly(x.heap, M)
    BY <1>5 DEF Tidy
  <2>2. OneEach(E \ M) /\ Tree(x.heap, E \ M, root)
    BY <1>2, <1>4
  <2> QED
    BY <1>2, <1>3, <1>4, <2>1, <2>2, TreeFresh
<1>8. Fresh(E, x.heap, x.map, U, root) /\ Tidy(x.heap, x.map)
  BY <1>2, <1>5, <1>7
<1>9. Answered(E, x, root, ManagerAdd(x, root))
  BY <1>2, <1>6, <1>8, ManagerAddTidies
<1> QED
  BY <1>6, <1>8, <1>9

-----------------------------------------------------------------------------
(* What operations leave *)

\* A tidy manager has all its objects in the map, and stays tidy when the
\* others are freed.
LEMMA TidyLives ==
  ASSUME NEW D, D \subseteq Object, NEW w \in Worlds(D), Tidy(w.heap, w.map),
         NEW h, h = [o \in Live(w) |-> w.heap[o]]
  PROVE  Live(w) = w.map /\ DOMAIN h = w.map /\ Tidy(h, w.map)
<1>1. PICK M : M = w.map
  OBVIOUS
<1>2. PICK g : g = w.heap
  OBVIOUS
<1>3. g \in [D -> Fields(D)] /\ M \subseteq D /\ Tidy(g, M)
  BY <1>1, <1>2, WorldFields
<1>4. \A o \in M : g[o].reqs \subseteq M
  BY <1>3 DEF Tidy, Orderly, KeepsReqs
<1>5. Live(w) = M
  BY <1>1, <1>2, <1>4, ClosedLives
<1>6. h = [o \in M |-> g[o]]
  BY <1>2, <1>5
<1>7. h \in [M -> Fields(M)]
  BY <1>3, <1>4, <1>6 DEF Fields
<1>8. Alike(g, h, M)
  BY <1>6 DEF Alike
<1>9. M \subseteq Object
  BY <1>3
<1>10. Tidy(h, M)
  BY <1>3, <1>7, <1>8, <1>9, TidyAlike
<1> QED
  BY <1>1, <1>5, <1>6, <1>10

\* The part of a tidy manager that fewer users need.
LEMMA TidyPart ==
  ASSUME NEW D, D \subseteq Object, NEW h \in [D -> Fields(D)],
         NEW M \in SUBSET D, Tidy(h, M), NEW A \in SUBSET Askers(h, M)
  PROVE  Tidy(h, Closure(h, A))
<1>1. PICK N : N = Closure(h, A)
  OBVIOUS
<1>2. A \in SUBSET D /\ A \subseteq M
  BY DEF Askers
<1>3. /\ A \subseteq N /\ N \in SUBSET D /\ KeepsReqs(h, N)
      /\ \A T \in SUBSET D : A \subseteq T /\ KeepsReqs(h, T) => N \subseteq T
  BY <1>1, <1>2, ReachedIs
<1>4. N \subseteq M
  BY <1>2, <1>3 DEF Tidy, Orderly
<1>5. OneEach(N) /\ NoWayBack(h, N)
  BY <1>4 DEF Tidy, Orderly, OneEach, NoWayBack
<1>6. N \subseteq Closure(h, Askers(h, N))
  <2>1. A \subseteq Askers(h, N)
    BY <1>3 DEF Askers
  <2>2. Askers(h, N) \in SUBSET D
    BY <1>3 DEF Askers
  <2>3. /\ Askers(h, N) \subseteq Closure(h, Askers(h, N))
        /\ Closure(h, Askers(h, N)) \in SUBSET D
        /\ KeepsReqs(h, Closure(h, Askers(h, N)))
    BY <2>2, ReachedIs
  <2> QED
    BY <1>3, <2>1, <2>3
<1>7. \A o \in N : h[o].kind = "main" /\ ~h[o].wrapped
  BY <1>4 DEF Tidy
<1>8. Tidy(h, N)
  BY <1>3, <1>5, <1>6, <1>7 DEF Tidy, Orderly
<1> QED
  BY <1>1, <1>8

\* remove leaves a tidy manager, and frees nothing it works on.
LEMMA RemoveTidies ==
  ASSUME NEW w, NEW D, D \subseteq Object, w \in Worlds(D), D = w.map,
         w.failed = "no", Tidy(w.heap, w.map),
         NEW o \in w.map, NEW V \in Visited(w, Users(w) \ {o})
  PROVE  /\ ManagerRemove(w, o, V) \in Worlds(D)
         /\ ManagerRemove(w, o, V).heap = w.heap
         /\ Tidy(w.heap, ManagerRemove(w, o, V).map)
<1>1. PICK left : left = ManagerRemove(w, o, V)
  OBVIOUS
<1>2. PICK h : h = w.heap
  OBVIOUS
<1>3. h \in [D -> Fields(D)] /\ OneEach(D) /\ Tidy(h, D)
  BY <1>2, WorldFields DEF Tidy
<1>4. Users(w) = Askers(h, D)
  BY <1>2 DEF Users, Askers
<1>5. Closure(h, Users(w)) = D
  <2>1. D \in SUBSET D
    OBVIOUS
  <2>2. Closure(h, Askers(h, D)) = D
    BY <1>3, <2>1, TidyNeeds
  <2> QED
    BY <1>4, <2>2
<1>6. left \in Worlds(D) /\ left.heap = h
  <2>1. CASE NameOf(o) \in NamesOf(V)
    <3>1. left = [w EXCEPT !.failed = "this package is using by other"]
      BY <1>1, <2>1 DEF ManagerRemove, Fail
    <3> QED
      BY <1>2, <3>1 DEF Worlds, Failures
  <2>2. CASE NameOf(o) \notin NamesOf(V)
    <3>1. left = Erase(w, NamesOf(EraseVisit(w, o, NamesOf(V))))
      BY <1>1, <2>2 DEF ManagerRemove
    <3> QED
      BY <1>2, <3>1 DEF Worlds, Erase
  <2> QED
    BY <2>1, <2>2
<1>7. \/ left.map = D
      \/ left.map = Closure(h, Users(w) \ {o})
  <2>1. w.map = Closure(w.heap, Users(w))
    BY <1>2, <1>5
  <2>2. /\ ManagerRemove(w, o, V).failed # "no" =>
             ManagerRemove(w, o, V).map = w.map
        /\ ManagerRemove(w, o, V).failed = "no" =>
             ManagerRemove(w, o, V).map = Closure(w.heap, Users(w) \ {o})
    BY <1>3, <2>1, RemoveLeavesNeeded
  <2> QED
    BY <1>1, <1>2, <2>2
<1>8. CASE left.map = D
  BY <1>1, <1>2, <1>3, <1>6, <1>8
<1>9. CASE left.map = Closure(h, Users(w) \ {o})
  <2>1. Users(w) \ {o} \in SUBSET Askers(h, D) /\ D \in SUBSET D
    BY <1>4
  <2>2. Tidy(h, Closure(h, Users(w) \ {o}))
    BY <1>3, <2>1, TidyPart
  <2> QED
    BY <1>1, <1>2, <1>6, <1>9, <2>2
<1> QED
  BY <1>7, <1>8, <1>9

\* Where the objects are those of the map, with one name each, remove comes
\* back to its target by no other object.
LEMMA TargetStays ==
  ASSUME NEW D, D \subseteq Object, NEW w \in Worlds(D), OneEach(D),
         NEW o \in D, NEW marked
  PROVE  ~FreesTarget(w, o, marked)
<1>1. EraseVisit(w, o, marked) \in SUBSET D
  BY EraseVisitGoesOn
<1> QED
  BY <1>1 DEF FreesTarget, OneEach

\* remove_unuse has nothing to sweep in a tidy manager.
LEMMA SweepTidies ==
  ASSUME NEW w, NEW D, D \subseteq Object, w \in Worlds(D), D = w.map,
         Tidy(w.heap, w.map), NEW V \in Visited(w, Users(w))
  PROVE  /\ ManagerRemoveUnuse(w, V) \in Worlds(D)
         /\ ManagerRemoveUnuse(w, V).heap = w.heap
         /\ ManagerRemoveUnuse(w, V).map = w.map
<1>1. PICK h : h = w.heap
  OBVIOUS
<1>2. h \in [D -> Fields(D)] /\ OneEach(D) /\ Tidy(h, D)
  BY <1>1, WorldFields DEF Tidy
<1>3. Users(w) = Askers(h, D)
  BY <1>1 DEF Users, Askers
<1>4. Closure(h, Users(w)) = D
  <2>1. D \in SUBSET D
    OBVIOUS
  <2>2. Closure(h, Askers(h, D)) = D
    BY <1>2, <2>1, TidyNeeds
  <2> QED
    BY <1>3, <2>2
<1>5. ManagerRemoveUnuse(w, V).map = Closure(w.heap, Users(w))
  BY <1>2, SweepLeavesNeeded
<1>6. ManagerRemoveUnuse(w, V) \in Worlds(D) /\ ManagerRemoveUnuse(w, V).heap = w.heap
  BY DEF ManagerRemoveUnuse, Erase, Worlds
<1> QED
  BY <1>1, <1>4, <1>5, <1>6

\* global_update leaves a tidy manager tidy.
LEMMA UpdateTidies ==
  ASSUME NEW w, NEW D, D \subseteq Object, w \in Worlds(D), D = w.map,
         Tidy(w.heap, w.map)
  PROVE  /\ ManagerGlobalUpdate(w) \in Worlds(D)
         /\ ManagerGlobalUpdate(w).map = w.map
         /\ Tidy(ManagerGlobalUpdate(w).heap, w.map)
<1>1. PICK x : x = ManagerGlobalUpdate(w)
  OBVIOUS
<1>2. x \in Worlds(D) /\ x.map = w.map
  BY <1>1, ManagerGlobalUpdateIn
<1>3. PICK h : h = w.heap
  OBVIOUS
<1>4. h \in [D -> Fields(D)] /\ x.heap \in [D -> Fields(D)] /\ Tidy(h, D)
  BY <1>2, <1>3, WorldFields
<1>5. \A o \in D : x.heap[o] = [h[o] EXCEPT !.current = h[o].last]
  BY <1>1, <1>3, <1>4 DEF ManagerGlobalUpdate
<1>6. Alike(h, x.heap, D)
  <2>1. ASSUME NEW o \in D
        PROVE  /\ x.heap[o].reqs = h[o].reqs /\ x.heap[o].using = h[o].using
               /\ x.heap[o].kind = h[o].kind /\ x.heap[o].wrapped = h[o].wrapped
    <3>1. h[o] \in Fields(D)
      BY <1>4
    <3> QED
      BY <1>5, <3>1 DEF Fields
  <2> QED
    BY <2>1 DEF Alike
<1>7. Tidy(x.heap, D)
  BY <1>4, <1>6, TidyAlike
<1> QED
  BY <1>1, <1>2, <1>7

-----------------------------------------------------------------------------
(* Files *)

\* The entries of main packages that are not wrapped make a plain file.
LEMMA EntriesPlain ==
  ASSUME NEW D, NEW x \in Writings(D), AllPlain(D, x.world.heap)
  PROVE  PlainFile(Entries(x))
<1>1. x.written \subseteq D /\ x.world.heap \in [D -> Fields(D)]
  BY KinWritingsOf, WorldFields
<1>2. ASSUME NEW n \in NamesOf(x.written)
      PROVE  (CHOOSE o \in x.written : NameOf(o) = n) \in D
  BY <1>1 DEF NamesOf
<1>3. ASSUME NEW o \in D
      PROVE  EntryOf(x.world.heap, o).kind = "main" /\ ~EntryOf(x.world.heap, o).wrapped
  <2>1. x.world.heap[o] \in Fields(D)
    BY <1>1
  <2>2. x.world.heap[o].kind = "main" /\ ~x.world.heap[o].wrapped
    BY DEF AllPlain
  <2> QED
    BY <2>1, <2>2 DEF EntryOf, Fields
<1> QED
  BY <1>2, <1>3 DEF Entries, PlainFile

\* So does one plain file over another.
LEMMA OverPlain ==
  ASSUME NEW f, NEW g, PlainFile(f), PlainFile(g)
  PROVE  PlainFile(Over(f, g))
<1>1. DOMAIN Over(f, g) = DOMAIN f \cup DOMAIN g
  BY DEF Over
<1>2. \A n \in DOMAIN f \cup DOMAIN g :
        Over(f, g)[n] = IF n \in DOMAIN f THEN f[n] ELSE g[n]
  BY DEF Over
<1> QED
  BY <1>1, <1>2 DEF PlainFile

\* What is loaded from a plain file is a tidy manager.
LEMMA LoadedTidies ==
  ASSUME NEW file, IsFile(file), Loads(file), PlainFile(file), NEW k \in Stamp
  PROVE  \E D : /\ D \subseteq Object
                /\ Loaded(file, k) \in Worlds(D)
                /\ Tidy(Loaded(file, k).heap, Loaded(file, k).map)
<1> DEFINE N == StoredNames(file)
<1> DEFINE D == {<<n, k>> : n \in N}
<1> DEFINE f(o) == [file[NameOf(o)] EXCEPT !.reqs = {<<q, k>> : q \in @}]
<1> DEFINE h == [o \in D |-> f(o)]
<1>1. /\ StoredUsers(file) \subseteq N /\ N \subseteq DOMAIN file /\ N \subseteq Name
      /\ \A n \in N : /\ file[n] \in Fields(Name)
                      /\ file[n].reqs \subseteq N
                      /\ \E u \in StoredUsers(file) : n \in Closure(file, {u})
      /\ \A T : StoredUsers(file) \subseteq T /\ Closed(file, T) => N \subseteq T
  BY StoredIn
<1> HIDE DEF N
<1>2. /\ D \subseteq Object /\ OneEach(D)
      /\ \A n \in N : <<n, k>> \in D /\ NameOf(<<n, k>>) = n
      /\ \A o \in D : NameOf(o) \in N /\ o = <<NameOf(o), k>>
  BY <1>1 DEF Object, OneEach, NameOf
<1>3. ASSUME NEW o \in D
      PROVE  /\ f(o) \in Fields(D)
             /\ f(o).reqs = {<<q, k>> : q \in file[NameOf(o)].reqs}
             /\ f(o).kind = "main" /\ ~f(o).wrapped
             /\ f(o).using = file[NameOf(o)].using
  <2>1. file[NameOf(o)] \in Fields(Name) /\ file[NameOf(o)].reqs \subseteq N
    BY <1>1, <1>2
  <2>2. {<<q, k>> : q \in file[NameOf(o)].reqs} \subseteq D
    BY <2>1
  <2>3. file[NameOf(o)].kind = "main" /\ ~file[NameOf(o)].wrapped
    BY <1>1, <1>2 DEF PlainFile
  <2> QED
    BY <2>1, <2>2, <2>3 DEF Fields
<1>4. Loaded(file, k) = [heap |-> h, map |-> D, failed |-> "no"]
  BY Zenon DEF Loaded, N
<1> HIDE DEF f
<1>5. h \in [D -> Fields(D)] /\ \A o \in D : h[o] = f(o)
  BY <1>3
<1> HIDE DEF h
<1>6. \A n \in N : h[<<n, k>>].reqs = {<<q, k>> : q \in file[n].reqs}
  BY <1>2, <1>3, <1>5
<1>7. KeepsReqs(h, D)
  BY <1>5 DEF KeepsReqs, Fields
<1>8. NoWayBack(h, D)
  <2> SUFFICES ASSUME NEW o \in D PROVE NameOf(o) \notin NamesOf(Below(h, o))
    BY DEF NoWayBack
  <2>1. PICK u \in StoredUsers(file) : NameOf(o) \in Closure(file, {u})
    BY <1>1, <1>2
  <2>2. CanRead(file, u)
    BY DEF Loads
  <2>3. PICK R : R = Closure(file, {u})
    OBVIOUS
  <2>4. R \subseteq N
    <3>1. IsFiniteSet({u})
      BY FS_Singleton
    <3>2. IsFiniteSet(Nodes(file, {u}))
      BY <3>1, FileNodes
    <3>3. Closed(file, N)
      BY <1>1 DEF Closed
    <3>4. {u} \subseteq N
      BY <1>1
    <3>5. \A U : {u} \subseteq U /\ Closed(file, U) => Closure(file, {u}) \subseteq U
      BY <3>2, ClosureIs
    <3> QED
      BY <2>3, <3>3, <3>4, <3>5
  <2>5. PICK c : c = [m \in R |-> <<m, k>>]
    OBVIOUS
  <2>6. Image(file, h, R, c)
    <3>1. c \in [R -> Object]
      BY <1>2, <2>4, <2>5
    <3>2. ASSUME NEW m \in R
          PROVE  NameOf(c[m]) = m /\ h[c[m]].reqs = {c[q] : q \in file[m].reqs}
      <4>1. m \in N /\ c[m] = <<m, k>>
        BY <2>4, <2>5
      <4>2. NameOf(c[m]) = m /\ h[c[m]].reqs = {<<q, k>> : q \in file[m].reqs}
        BY <1>2, <1>6, <4>1
      <4>3. file[m].reqs \subseteq R
        BY <2>2, <2>3, Readings
      <4>4. \A q \in file[m].reqs : c[q] = <<q, k>>
        BY <2>5, <4>3
      <4> QED
        BY <4>2, <4>4
    <3> QED
      BY <3>1, <3>2 DEF Image
  <2>7. PICK T : T = Images(R, c)
    OBVIOUS
  <2>8. Tree(h, T, c[u]) /\ OneEach(T)
    <3>1. Image(file, h, Closure(file, {u}), c)
      BY <2>3, <2>6
    <3>2. /\ Tree(h, Images(Closure(file, {u}), c), c[u])
          /\ OneEach(Images(Closure(file, {u}), c))
      BY <2>2, <3>1, TreeImage
    <3> QED
      BY <2>3, <2>7, <3>2
  <2>9. T \in SUBSET D /\ o \in T
    <3>1. \A m \in R : c[m] = <<m, k>> /\ <<m, k>> \in D
      BY <1>2, <2>4, <2>5
    <3>2. o = c[NameOf(o)] /\ NameOf(o) \in R
      BY <1>2, <2>1, <2>3, <3>1
    <3> QED
      BY <2>7, <3>1, <3>2 DEF Images
  <2> HIDE DEF D
  <2>10. NoWayBack(h, T)
    BY <1>2, <1>5, <2>8, <2>9, TreeNoWayBack
  <2> QED
    BY <2>9, <2>10 DEF NoWayBack
<1>9. D \subseteq Closure(h, Askers(h, D))
  <2>1. PICK T : T = Closure(h, Askers(h, D))
    OBVIOUS
  <2>2. Askers(h, D) \in SUBSET D
    BY DEF Askers
  <2>3. Askers(h, D) \subseteq T /\ T \in SUBSET D /\ KeepsReqs(h, T)
    <3> HIDE DEF D
    <3> QED
      BY <1>2, <1>5, <2>1, <2>2, ReachedIs
  <2> DEFINE Q == {n \in N : <<n, k>> \in T}
  <2>4. StoredUsers(file) \subseteq Q
    <3>1. ASSUME NEW n \in StoredUsers(file) PROVE <<n, k>> \in Askers(h, D)
      <4>1. n \in N /\ file[n].using
        BY <1>1 DEF StoredUsers
      <4>2. <<n, k>> \in D /\ NameOf(<<n, k>>) = n
        BY <1>2, <4>1
      <4>3. h[<<n, k>>].using
        BY <1>3, <1>5, <4>1, <4>2
      <4> QED
        BY <4>2, <4>3 DEF Askers
    <3> QED
      BY <1>1, <2>3, <3>1
  <2>5. Closed(file, Q)
    <3>1. ASSUME NEW n \in Q, NEW q \in file[n].reqs PROVE q \in Q
      <4>1. n \in N /\ q \in N
        BY <1>1
      <4>2. <<q, k>> \in h[<<n, k>>].reqs
        BY <1>6, <4>1
      <4>3. <<q, k>> \in T
        BY <2>3, <4>2 DEF KeepsReqs
      <4> QED
        BY <4>1, <4>3
    <3> QED
      BY <3>1 DEF Closed
  <2> HIDE DEF Q
  <2>6. N \subseteq Q
    BY <1>1, <2>4, <2>5
  <2> QED
    BY <1>2, <2>1, <2>6 DEF Q
<1>10. \A o \in D : h[o].kind = "main" /\ ~h[o].wrapped
  BY <1>3, <1>5
<1> HIDE DEF D
<1>11. Tidy(h, D)
  BY <1>2, <1>7, <1>8, <1>9, <1>10 DEF Tidy, Orderly
<1>12. Loaded(file, k) \in Worlds(D)
  BY <1>4, <1>5 DEF Worlds, Failures
<1>13. Loaded(file, k).heap = h /\ Loaded(file, k).map = D
  BY <1>4
<1> QED
  BY <1>2, <1>11, <1>12, <1>13

-----------------------------------------------------------------------------
(* What remove_unuse_one_thread colours in a tidy manager *)

\* What each turn of a loop gets, and no turn takes away, is there at the end.
LEMMA LoopGets ==
  ASSUME NEW V, NEW E, NEW body, NEW s \in V, NEW q \in Seq(E),
         StaysIn(body, V, E), NEW got,
         \A x \in V, e \in E : body[x][e] \in got[e],
         \A x \in V, e \in E, f \in E : x \in got[e] => body[x][f] \in got[e]
  PROVE  \A i \in 1 .. Len(q) : Loop(body, s, q) \in got[q[i]]
<1>0. Len(q) \in Nat /\ \A i \in 1 .. Len(q) : q[i] \in E
  BY LenProperties, ElementOfSeq
<1> DEFINE P == [i \in 0 .. Len(q) |-> {x \in V : \A j \in 1 .. i : x \in got[q[j]]}]
<1>1. s \in P[0]
  BY <1>0
<1>2. Stages(P, body, q)
  <2> SUFFICES ASSUME NEW i \in 1 .. Len(q), NEW x \in P[i - 1]
               PROVE  body[x][q[i]] \in P[i]
    BY DEF Stages
  <2>1. i - 1 \in 0 .. Len(q) /\ i \in 0 .. Len(q) /\ q[i] \in E
    BY <1>0
  <2>2. x \in V /\ \A j \in 1 .. i - 1 : x \in got[q[j]]
    BY <2>1
  <2>3. body[x][q[i]] \in V
    BY <2>1, <2>2 DEF StaysIn
  <2>4. ASSUME NEW j \in 1 .. i PROVE body[x][q[i]] \in got[q[j]]
    <3>1. q[j] \in E
      BY <1>0
    <3>2. CASE j = i
      BY <2>1, <2>2, <3>2
    <3>3. CASE j # i
      <4>1. j \in 1 .. i - 1
        BY <1>0, <3>3
      <4> QED
        BY <2>1, <2>2, <3>1, <4>1
    <3> QED
      BY <3>2, <3>3
  <2> QED
    BY <2>1, <2>3, <2>4
<1>3. P[Len(q)] = {x \in V : \A j \in 1 .. Len(q) : x \in got[q[j]]}
  BY <1>0
<1> HIDE DEF P
<1>4. Loop(body, s, q) \in P[Len(q)]
  BY <1>1, <1>2, LoopStages
<1> QED
  BY <1>3, <1>4

\* From x to y only names of D have become black, and with a name become black
\* those that its object requires.
Blackens(D, h, x, y) ==
  /\ x.black \subseteq y.black
  /\ y.black \subseteq x.black \cup NamesOf(D)
  /\ \A v \in D : NameOf(v) \in y.black \ x.black =>
       NamesOf(h[v].reqs) \subseteq y.black

\* Blackening adds up.
LEMMA BlackensOn ==
  ASSUME NEW D, NEW h, NEW x, NEW y, NEW z, Blackens(D, h, x, y), Blackens(D, h, y, z)
  PROVE  Blackens(D, h, x, z)
BY DEF Blackens

\* Visits that end with the name they are for, if no more than d calls are
\* needed.
FullVisits(D, h, d) ==
  {f \in QuietVisits(D, h) :
     \A x \in Colours(D), o \in D :
       Free(h, o, x) /\ Size(h, o) <= d =>
         Blackens(D, h, x, f[x][o]) /\ NameOf(o) \in f[x][o].black}

\* A visit does, if those it makes do.
LEMMA VisitOnceFull ==
  ASSUME NEW D, D \subseteq Object, OneEach(D), NEW h \in [D -> Fields(D)],
         NEW d \in Nat, NEW visit \in FullVisits(D, h, d), NEW x \in Colours(D),
         NEW o \in D, Free(h, o, x), Size(h, o) <= d + 1
  PROVE  /\ Blackens(D, h, x, VisitOnce(h, visit, x, o))
         /\ NameOf(o) \in VisitOnce(h, visit, x, o).black
<1>0. DOMAIN h = D
  OBVIOUS
<1> DEFINE Look == [acc \in Colours(D) |-> [v \in D |->
        IF acc.closing # {} \/ NameOf(v) \in acc.black THEN acc
        ELSE IF NameOf(v) \in acc.grey THEN [acc EXCEPT !.closing = {<<o, v>>}]
        ELSE visit[acc][v]]]
<1> DEFINE begin == [x EXCEPT !.grey = @ \cup {NameOf(o)}]
<1> DEFINE end == Loop(Look, begin, Required(h, o))
<1> DEFINE I == {acc \in Colours(D) : /\ acc.closing = {}
                                      /\ acc.grey = x.grey \cup {NameOf(o)}
                                      /\ Blackens(D, h, x, acc)}
<1> DEFINE got == [v \in h[o].reqs |-> {acc \in I : NameOf(v) \in acc.black}]
<1>1. ASSUME NEW acc \in I, NEW v \in h[o].reqs
      PROVE  /\ Look[acc][v] \in I
             /\ NameOf(v) \in Look[acc][v].black
             /\ acc.black \subseteq Look[acc][v].black
  <2>1. /\ acc \in Colours(D) /\ acc.closing = {}
        /\ acc.grey = x.grey \cup {NameOf(o)} /\ Blackens(D, h, x, acc)
    BY <1>1
  <2>2. v \in D /\ Free(h, v, acc)
    BY <1>1, <2>1, FreeBelow
  <2>3. Size(h, v) <= d
    <3>1. NameOf(o) \notin NamesOf(Below(h, o))
      BY DEF Free, NoWayBack
    <3>2. Size(h, v) + 1 <= Size(h, o)
      BY <1>1, <3>1, SizeShrinks
    <3>3. Size(h, v) \in Nat /\ Size(h, o) \in Nat
      BY <2>2, SizeIs
    <3> QED
      BY <3>2, <3>3
  <2>4. /\ visit[acc][v].closing = {} /\ visit[acc][v].grey = acc.grey
        /\ visit[acc][v] \in Colours(D)
    BY <2>1, <2>2 DEF FullVisits, QuietVisits
  <2>5. Blackens(D, h, acc, visit[acc][v]) /\ NameOf(v) \in visit[acc][v].black
    BY <2>1, <2>2, <2>3 DEF FullVisits
  <2>6. NameOf(v) \notin acc.grey
    BY <2>2 DEF Free
  <2>7. Look[acc][v] = IF NameOf(v) \in acc.black THEN acc ELSE visit[acc][v]
    BY <2>1, <2>2, <2>6
  <2>8. Blackens(D, h, x, visit[acc][v])
    BY <2>1, <2>5, BlackensOn
  <2> HIDE DEF Look
  <2>9. acc.black \subseteq visit[acc][v].black
    BY <2>5 DEF Blackens
  <2> QED
    BY <2>1, <2>4, <2>5, <2>7, <2>8, <2>9
<1>2. NameOf(o) \in Name
  BY ObjectNames
<1>3. begin \in I
  BY <1>2 DEF Colours, Free, Blackens
<1>4. /\ Required(h, o) \in Seq(h[o].reqs)
      /\ \A r \in h[o].reqs : \E i \in 1 .. Len(Required(h, o)) : Required(h, o)[i] = r
  <2>1. h[o].reqs \subseteq Object
    BY DEF Fields
  <2> QED
    BY <2>1, RequiredIn
<1>5. VisitOnce(h, visit, x, o) =
        IF end.closing # {} THEN end
        ELSE [end EXCEPT !.grey = @ \ {NameOf(o)}, !.black = @ \cup {NameOf(o)}]
  BY <1>0 DEF VisitOnce
<1>6. StaysIn(Look, I, h[o].reqs)
  BY <1>1 DEF StaysIn
<1>7. \A acc \in I, v \in h[o].reqs : Look[acc][v] \in got[v]
  <2> HIDE DEF Look, I
  <2> QED
    BY <1>1
<1>8. \A acc \in I, v \in h[o].reqs, r \in h[o].reqs :
        acc \in got[v] => Look[acc][r] \in got[v]
  <2> HIDE DEF Look, I
  <2> QED
    BY <1>1
<1>9. end \in I
  <2> HIDE DEF Look, begin, I
  <2> QED
    BY <1>3, <1>4, <1>6, LoopIn
<1>10. \A i \in 1 .. Len(Required(h, o)) : end \in got[Required(h, o)[i]]
  <2>1. PICK g : g = got
    OBVIOUS
  <2> HIDE DEF Look, begin, I, got
  <2>2. /\ \A acc \in I, v \in h[o].reqs : Look[acc][v] \in g[v]
        /\ \A acc \in I, v \in h[o].reqs, r \in h[o].reqs :
             acc \in g[v] => Look[acc][r] \in g[v]
    BY <1>7, <1>8, <2>1
  <2>3. \A i \in 1 .. Len(Required(h, o)) :
          Loop(Look, begin, Required(h, o)) \in g[Required(h, o)[i]]
    BY <1>3, <1>4, <1>6, <2>2, LoopGets
  <2> QED
    BY <2>1, <2>3
<1> HIDE DEF end
<1>11. \A v \in h[o].reqs : NameOf(v) \in end.black
  <2> SUFFICES ASSUME NEW v \in h[o].reqs PROVE NameOf(v) \in end.black
    OBVIOUS
  <2>1. PICK i \in 1 .. Len(Required(h, o)) : Required(h, o)[i] = v
    BY <1>4
  <2>2. end \in got[v]
    BY <1>10, <2>1
  <2> QED
    BY <2>2
<1>12. end.closing = {} /\ end \in Colours(D) /\ Blackens(D, h, x, end)
  BY <1>9
<1>13. VisitOnce(h, visit, x, o).black = end.black \cup {NameOf(o)}
  <2>1. VisitOnce(h, visit, x, o) =
          [end EXCEPT !.grey = @ \ {NameOf(o)}, !.black = @ \cup {NameOf(o)}]
    BY <1>5, <1>12
  <2> QED
    BY <1>12, <2>1 DEF Colours
<1>14. PICK y : y = VisitOnce(h, visit, x, o)
  OBVIOUS
<1>15. Blackens(D, h, x, y)
  <2>1. x.black \subseteq y.black /\ y.black \subseteq x.black \cup NamesOf(D)
    BY <1>12, <1>13, <1>14 DEF Blackens, NamesOf
  <2>2. ASSUME NEW v \in D, NameOf(v) \in y.black \ x.black
        PROVE  NamesOf(h[v].reqs) \subseteq y.black
    <3>1. CASE NameOf(v) \in end.black
      BY <1>12, <1>13, <1>14, <2>2, <3>1 DEF Blackens
    <3>2. CASE NameOf(v) = NameOf(o)
      <4>1. v = o
        BY <3>2 DEF OneEach
      <4> QED
        BY <1>11, <1>13, <1>14, <4>1 DEF NamesOf
    <3> QED
      BY <1>13, <1>14, <2>2, <3>1, <3>2
  <2> QED
    BY <2>1, <2>2 DEF Blackens
<1> QED
  BY <1>13, <1>14, <1>15

\* DFS_visit does, however deep it nests.
LEMMA DFSVisitFull ==
  ASSUME NEW D, D \subseteq Object, OneEach(D), NEW h \in [D -> Fields(D)],
         NEW s \in Colours(D), NEW u \in D, Free(h, u, s)
  PROVE  Blackens(D, h, s, DFSVisit(h, s, u)) /\ NameOf(u) \in DFSVisit(h, s, u).black
<1>1. PICK g : DFSCalls(D, h, g)
  BY DFSLevels
<1> DEFINE S == {d \in Nat : g[d] \in FullVisits(D, h, d)}
<1>2. 0 \in S
  <2>1. g[0] = [x \in Colours(D) |-> [o \in D |-> x]]
    BY <1>1 DEF DFSCalls
  <2>2. \A x \in Colours(D), o \in D : Free(h, o, x) => x.closing = {}
    BY DEF Free
  <2>3. g[0] \in QuietVisits(D, h)
    <3>1. g[0] \in [Colours(D) -> [D -> Colours(D)]]
      BY <2>1
    <3>2. \A x \in Colours(D), o \in D : g[0][x][o] = x
      BY <2>1
    <3> QED
      BY <2>2, <3>1, <3>2 DEF QuietVisits
  <2>4. ASSUME NEW o \in D PROVE ~(Size(h, o) <= 0)
    <3>1. Size(h, o) \in Nat /\ 1 <= Size(h, o)
      BY SizeIs
    <3> QED
      BY <3>1
  <2> QED
    BY <2>3, <2>4 DEF FullVisits
<1>3. ASSUME NEW d \in 1 .. Depth, d - 1 \in S PROVE d \in S
  <2>1. g[d - 1] \in FullVisits(D, h, d - 1) /\ d - 1 \in Nat
    BY <1>3
  <2>2. d \in Nat /\ d \in 0 .. Depth /\ (d - 1) + 1 = d
    BY DepthIsNumber
  <2>3. g[d] \in [Colours(D) -> [D -> Colours(D)]]
    BY <1>1, <2>2 DEF DFSCalls
  <2>4. ASSUME NEW x \in Colours(D), NEW o \in D
        PROVE  g[d][x][o] = VisitOnce(h, g[d - 1], x, o)
    <3>1. g[d] = [y \in Colours(D) |-> [p \in D |-> VisitOnce(h, g[d - 1], y, p)]]
      BY <1>1 DEF DFSCalls
    <3> QED
      BY <3>1
  <2>5. ASSUME NEW x \in Colours(D), NEW o \in D, Free(h, o, x)
        PROVE  g[d][x][o].closing = {} /\ g[d][x][o].grey = x.grey
    <3>1. g[d - 1] \in QuietVisits(D, h)
      BY <2>1 DEF FullVisits
    <3> QED
      BY <2>4, <2>5, <3>1, VisitOnceQuiet
  <2>6. ASSUME NEW x \in Colours(D), NEW o \in D, Free(h, o, x), Size(h, o) <= d
        PROVE  Blackens(D, h, x, g[d][x][o]) /\ NameOf(o) \in g[d][x][o].black
    <3>1. Size(h, o) <= (d - 1) + 1
      BY <2>2, <2>6
    <3>2. /\ Blackens(D, h, x, VisitOnce(h, g[d - 1], x, o))
          /\ NameOf(o) \in VisitOnce(h, g[d - 1], x, o).black
      BY <2>1, <2>6, <3>1, VisitOnceFull
    <3> QED
      BY <2>4, <3>2
  <2>7. g[d] \in QuietVisits(D, h)
    BY <2>3, <2>5 DEF QuietVisits
  <2> QED
    BY <2>2, <2>6, <2>7 DEF FullVisits
<1> HIDE DEF S
<1>4. Depth \in S
  BY <1>2, <1>3, DepthIsNumber, EveryDepth
<1>5. DFSVisit(h, s, u) = g[Depth][s][u]
  BY <1>1 DEF DFSCalls
<1>6. Size(h, u) <= Depth
  BY SizeIs
<1> QED
  BY <1>4, <1>5, <1>6 DEF S, FullVisits

\* So does what looks at what o requires.
LEMMA VisitRequiredFull ==
  ASSUME NEW D, D \subseteq Object, OneEach(D), NEW h \in [D -> Fields(D)],
         NoWayBack(h, D), NEW s \in Colours(D), s.grey = {}, s.closing = {},
         NEW o \in D
  PROVE  /\ Blackens(D, h, s, VisitRequired(h, s, o))
         /\ NamesOf(h[o].reqs) \subseteq VisitRequired(h, s, o).black
         /\ VisitRequired(h, s, o).grey = {}
         /\ VisitRequired(h, s, o).closing = {}
<1>0. DOMAIN h = D
  OBVIOUS
<1> DEFINE Look == [acc \in Colours(D) |-> [v \in D |->
                      IF acc.closing # {} \/ NameOf(v) \in acc.black THEN acc
                      ELSE DFSVisit(h, acc, v)]]
<1> DEFINE end == Loop(Look, s, Required(h, o))
<1> DEFINE I == {acc \in Colours(D) : /\ acc.closing = {} /\ acc.grey = {}
                                      /\ Blackens(D, h, s, acc)}
<1> DEFINE got == [v \in h[o].reqs |-> {acc \in I : NameOf(v) \in acc.black}]
<1>1. ASSUME NEW acc \in I, NEW v \in h[o].reqs
      PROVE  /\ Look[acc][v] \in I
             /\ NameOf(v) \in Look[acc][v].black
             /\ acc.black \subseteq Look[acc][v].black
  <2>1. /\ acc \in Colours(D) /\ acc.closing = {} /\ acc.grey = {}
        /\ Blackens(D, h, s, acc)
    BY <1>1
  <2>2. v \in D
    BY <1>1 DEF Fields
  <2>3. {v} \cup Below(h, v) \subseteq D
    BY <2>2, BelowIs
  <2>4. Free(h, v, acc)
    BY <2>1, <2>3 DEF Free, NoWayBack
  <2>5. DFSVisit(h, acc, v) \in Colours(D)
    BY <2>1, <2>2, DFSVisitIn
  <2>6. DFSVisit(h, acc, v).closing = {} /\ DFSVisit(h, acc, v).grey = {}
    BY <2>1, <2>2, <2>4, DFSVisitQuiet
  <2>7. Blackens(D, h, acc, DFSVisit(h, acc, v)) /\ NameOf(v) \in DFSVisit(h, acc, v).black
    BY <2>1, <2>2, <2>4, DFSVisitFull
  <2>8. Look[acc][v] = IF NameOf(v) \in acc.black THEN acc ELSE DFSVisit(h, acc, v)
    BY <2>1, <2>2
  <2>9. Blackens(D, h, s, DFSVisit(h, acc, v))
    BY <2>1, <2>7, BlackensOn
  <2>10. acc.black \subseteq DFSVisit(h, acc, v).black
    BY <2>7 DEF Blackens
  <2> HIDE DEF Look
  <2> QED
    BY <2>1, <2>5, <2>6, <2>7, <2>8, <2>9, <2>10
<1>2. s \in I
  BY DEF Blackens
<1>3. /\ Required(h, o) \in Seq(h[o].reqs)
      /\ \A r \in h[o].reqs : \E i \in 1 .. Len(Required(h, o)) : Required(h, o)[i] = r
  <2>1. h[o].reqs \subseteq Object
    BY DEF Fields
  <2> QED
    BY <2>1, RequiredIn
<1>4. VisitRequired(h, s, o) = end
  BY <1>0 DEF VisitRequired
<1>5. StaysIn(Look, I, h[o].reqs)
  BY <1>1 DEF StaysIn
<1>6. /\ \A acc \in I, v \in h[o].reqs : Look[acc][v] \in got[v]
      /\ \A acc \in I, v \in h[o].reqs, r \in h[o].reqs :
           acc \in got[v] => Look[acc][r] \in got[v]
  <2> HIDE DEF Look, I
  <2> QED
    BY <1>1
<1>7. end \in I
  <2> HIDE DEF Look, I
  <2> QED
    BY <1>2, <1>3, <1>5, LoopIn
<1>8. \A i \in 1 .. Len(Required(h, o)) : end \in got[Required(h, o)[i]]
  <2>1. PICK g : g = got
    OBVIOUS
  <2> HIDE DEF Look, I, got
  <2>2. /\ \A acc \in I, v \in h[o].reqs : Look[acc][v] \in g[v]
        /\ \A acc \in I, v \in h[o].reqs, r \in h[o].reqs :
             acc \in g[v] => Look[acc][r] \in g[v]
    BY <1>6, <2>1
  <2>3. \A i \in 1 .. Len(Required(h, o)) :
          Loop(Look, s, Required(h, o)) \in g[Required(h, o)[i]]
    BY <1>2, <1>3, <1>5, <2>2, LoopGets
  <2> QED
    BY <2>1, <2>3
<1> HIDE DEF end
<1>9. \A v \in h[o].reqs : NameOf(v) \in end.black
  <2> SUFFICES ASSUME NEW v \in h[o].reqs PROVE NameOf(v) \in end.black
    OBVIOUS
  <2>1. PICK i \in 1 .. Len(Required(h, o)) : Required(h, o)[i] = v
    BY <1>3
  <2>2. end \in got[v]
    BY <1>8, <2>1
  <2> QED
    BY <2>2
<1> QED
  BY <1>4, <1>7, <1>9 DEF NamesOf

\* Each black name has the black names of what its object requires.
Filled(D, h, names) ==
  \A v \in D : NameOf(v) \in names => NamesOf(h[v].reqs) \subseteq names

\* remove_unuse_one_thread, where nothing leads back and all is needed: whatever
\* the order of the users, it meets no circle and colours everything.
LEMMA OneThreadColours ==
  ASSUME NEW D, D \subseteq Object, OneEach(D), NEW w \in Worlds(D),
         NoWayBack(w.heap, D), NEW users \in SUBSET D,
         D \subseteq Closure(w.heap, users), NEW order \in Orders(users)
  PROVE  /\ OneThread(w, order).closing = {}
         /\ OneThread(w, order).black = NamesOf(D)
<1>0. PICK h : h = w.heap
  OBVIOUS
<1>1. h \in [D -> Fields(D)] /\ DOMAIN h = D /\ NoWayBack(h, D)
  BY <1>0, WorldFields
<1> DEFINE Body == [acc \in Colours(D) |-> [o \in D |->
        IF acc.closing # {} THEN acc
        ELSE VisitRequired(h, [acc EXCEPT !.black = @ \cup {NameOf(o)}], o)]]
<1> DEFINE end == Loop(Body, White, order)
<1> DEFINE I == {acc \in Colours(D) : /\ acc.closing = {} /\ acc.grey = {}
                                      /\ acc.black \subseteq NamesOf(D)
                                      /\ Filled(D, h, acc.black)}
<1> DEFINE got == [o \in users |-> {acc \in I : NameOf(o) \in acc.black}]
<1>2. /\ order \in Seq(users)
      /\ \A o \in users : \E i \in 1 .. Len(order) : order[i] = o
  <2>1. IsFiniteSet(users)
    BY ObjectsFinite
  <2> QED
    BY <2>1, OrdersIn
<1>3. \A T \in SUBSET D : users \subseteq T /\ KeepsReqs(h, T) => D \subseteq T
  BY <1>0, <1>1, ReachedIs
<1>4. ASSUME NEW acc \in I, NEW o \in users
      PROVE  /\ Body[acc][o] \in I
             /\ NameOf(o) \in Body[acc][o].black
             /\ acc.black \subseteq Body[acc][o].black
  <2>1. /\ acc \in Colours(D) /\ acc.closing = {} /\ acc.grey = {}
        /\ acc.black \subseteq NamesOf(D) /\ Filled(D, h, acc.black)
    BY <1>4
  <2>2. PICK s : s = [acc EXCEPT !.black = @ \cup {NameOf(o)}]
    OBVIOUS
  <2>3. o \in D /\ NameOf(o) \in NamesOf(D)
    BY DEF NamesOf
  <2>4. NameOf(o) \in Name
    BY <2>3, ObjectNames
  <2>5. /\ s \in Colours(D) /\ s.closing = {} /\ s.grey = {}
        /\ s.black = acc.black \cup {NameOf(o)}
    BY <2>1, <2>2, <2>4 DEF Colours
  <2>6. PICK y : y = VisitRequired(h, s, o)
    OBVIOUS
  <2>7. y \in Colours(D)
    BY <1>1, <2>3, <2>5, <2>6, VisitRequiredIn
  <2>8. /\ Blackens(D, h, s, y) /\ NamesOf(h[o].reqs) \subseteq y.black
        /\ y.grey = {} /\ y.closing = {}
    <3>1. /\ Blackens(D, h, s, VisitRequired(h, s, o))
          /\ NamesOf(h[o].reqs) \subseteq VisitRequired(h, s, o).black
          /\ VisitRequired(h, s, o).grey = {}
          /\ VisitRequired(h, s, o).closing = {}
      BY <1>1, <2>3, <2>5, VisitRequiredFull
    <3> QED
      BY <2>6, <3>1
  <2>9. Body[acc][o] = y
    BY <2>1, <2>2, <2>3, <2>6
  <2>10. /\ acc.black \subseteq y.black /\ NameOf(o) \in y.black
         /\ y.black \subseteq NamesOf(D)
    BY <2>1, <2>3, <2>5, <2>8 DEF Blackens
  <2>11. Filled(D, h, y.black)
    <3> SUFFICES ASSUME NEW v \in D, NameOf(v) \in y.black
                 PROVE  NamesOf(h[v].reqs) \subseteq y.black
      BY DEF Filled
    <3>1. CASE NameOf(v) \notin s.black
      BY <2>8, <3>1 DEF Blackens
    <3>2. CASE NameOf(v) = NameOf(o)
      <4>1. v = o
        BY <2>3, <3>2 DEF OneEach
      <4> QED
        BY <2>8, <4>1
    <3>3. CASE NameOf(v) \in acc.black
      BY <2>1, <2>10, <3>3 DEF Filled
    <3> QED
      BY <2>5, <3>1, <3>2, <3>3
  <2> HIDE DEF Body
  <2> QED
    BY <2>7, <2>8, <2>9, <2>10, <2>11
<1>5. White \in I
  BY DEF White, Colours, Filled
<1>6. OneThread(w, order) = end
  BY <1>0, <1>1 DEF OneThread
<1>7. StaysIn(Body, I, users)
  BY <1>4 DEF StaysIn
<1>8. /\ \A acc \in I, o \in users : Body[acc][o] \in got[o]
      /\ \A acc \in I, o \in users, p \in users :
           acc \in got[o] => Body[acc][p] \in got[o]
  <2> HIDE DEF Body, I
  <2> QED
    BY <1>4
<1>9. end \in I
  <2> HIDE DEF Body, I
  <2> QED
    BY <1>2, <1>5, <1>7, LoopIn
<1>10. \A i \in 1 .. Len(order) : end \in got[order[i]]
  <2>1. PICK g : g = got
    OBVIOUS
  <2> HIDE DEF Body, I, got
  <2>2. /\ \A acc \in I, o \in users : Body[acc][o] \in g[o]
        /\ \A acc \in I, o \in users, p \in users :
             acc \in g[o] => Body[acc][p] \in g[o]
    BY <1>8, <2>1
  <2>3. \A i \in 1 .. Len(order) : Loop(Body, White, order) \in g[order[i]]
    BY <1>2, <1>5, <1>7, <2>2, LoopGets
  <2> QED
    BY <2>1, <2>3
<1> HIDE DEF end
<1>11. \A o \in users : NameOf(o) \in end.black
  <2> SUFFICES ASSUME NEW o \in users PROVE NameOf(o) \in end.black
    OBVIOUS
  <2>1. PICK i \in 1 .. Len(order) : order[i] = o
    BY <1>2
  <2>2. end \in got[o]
    BY <1>10, <2>1
  <2> QED
    BY <2>2
<1>12. end.closing = {} /\ end.black \subseteq NamesOf(D) /\ Filled(D, h, end.black)
  BY <1>9
<1> DEFINE T == {v \in D : NameOf(v) \in end.black}
<1>13. KeepsReqs(h, T)
  <2> SUFFICES ASSUME NEW v \in T, NEW r \in h[v].reqs PROVE r \in T
    BY DEF KeepsReqs
  <2>1. r \in D
    BY <1>1 DEF Fields
  <2>2. NameOf(r) \in end.black
    BY <1>12 DEF Filled, NamesOf
  <2> QED
    BY <2>1, <2>2
<1>14. D \subseteq T
  BY <1>3, <1>11, <1>13
<1>15. NamesOf(D) \subseteq end.black
  BY <1>14 DEF NamesOf
<1> QED
  BY <1>6, <1>12, <1>15

\* So both ways to sweep a tidy manager agree.
LEMMA TidySweeps ==
  ASSUME NEW w, NEW D, D \subseteq Object, w \in Worlds(D), D = w.map,
         Tidy(w.heap, w.map), NEW order \in Orders(Users(w))
  PROVE  /\ OneThread(w, order).closing = {}
         /\ \E V \in Visited(w, Users(w)) : OneThread(w, order).black = NamesOf(V)
<1>1. PICK h : h = w.heap
  OBVIOUS
<1>2. h \in [D -> Fields(D)]
  BY <1>1, WorldFields
<1>3. Tidy(h, D)
  BY <1>1
<1>4. Users(w) = Askers(h, D)
  BY <1>1 DEF Users, Askers
<1>5. OneEach(D) /\ NoWayBack(h, D) /\ KeepsReqs(h, D)
  BY <1>3 DEF Tidy, Orderly
<1>6. Closure(h, Users(w)) = D
  <2>1. D \in SUBSET D
    OBVIOUS
  <2>2. Closure(h, Askers(h, D)) = D
    BY <1>2, <1>3, <2>1, TidyNeeds
  <2> QED
    BY <1>4, <2>2
<1>7. OneThread(w, order).closing = {} /\ OneThread(w, order).black = NamesOf(D)
  <2>1. Users(w) \in SUBSET D /\ D \subseteq Closure(w.heap, Users(w))
        /\ NoWayBack(w.heap, D)
    BY <1>1, <1>5, <1>6 DEF Users
  <2> QED
    BY <1>5, <2>1, OneThreadColours
<1>8. D \in Visited(w, Users(w))
  <2>1. Users(w) \subseteq D
    BY DEF Users
  <2>2. \A o \in D : NamesOf(h[o].reqs) \subseteq NamesOf(D)
    BY <1>5 DEF KeepsReqs, NamesOf
  <2>3. \A o \in D \ Users(w) : \E p \in D : o \in h[p].reqs
    <3> SUFFICES ASSUME NEW o \in D \ Users(w), \A p \in D : o \notin h[p].reqs
                 PROVE  FALSE
      OBVIOUS
    <3>1. PICK T : T = D \ {o}
      OBVIOUS
    <3>2. T \in SUBSET D /\ Users(w) \in SUBSET D /\ Users(w) \subseteq T
      BY <2>1, <3>1
    <3>3. KeepsReqs(h, T)
      BY <1>5, <3>1 DEF KeepsReqs
    <3>4. Closure(h, Users(w)) \subseteq T
      BY <1>2, <3>2, <3>3, ReachedIs
    <3> QED
      BY <1>6, <3>1, <3>4
  <2> QED
    BY <1>1, <1>6, <2>1, <2>2, <2>3 DEF Visited
<1> QED
  BY <1>7, <1>8

-----------------------------------------------------------------------------
(* Files that agree on what packages require *)

\* What can be reached from n in a file is the least set that has n and what
\* its members require.
LEMMA FileReach ==
  ASSUME NEW file, IsFile(file), NEW n
  PROVE  /\ n \in Closure(file, {n})
         /\ Closed(file, Closure(file, {n}))
         /\ \A T : n \in T /\ Closed(file, T) => Closure(file, {n}) \subseteq T
<1>1. IsFiniteSet({n})
  BY FS_Singleton
<1>2. IsFiniteSet(Nodes(file, {n}))
  BY <1>1, FileNodes
<1>3. /\ {n} \subseteq Closure(file, {n})
      /\ Closed(file, Closure(file, {n}))
      /\ \A U : {n} \subseteq U /\ Closed(file, U) => Closure(file, {n}) \subseteq U
  BY <1>2, ClosureIs
<1> QED
  BY <1>3

\* Whatever is reached, but n, is required by something that is.
LEMMA FileParents ==
  ASSUME NEW file, IsFile(file), NEW n, Closure(file, {n}) \subseteq DOMAIN file,
         NEW m \in Closure(file, {n}), m # n
  PROVE  \E k \in Closure(file, {n}) : m \in file[k].reqs
<1>1. PICK R : R = Closure(file, {n})
  OBVIOUS
<1>2. n \in R /\ Closed(file, R) /\ \A T : n \in T /\ Closed(file, T) => R \subseteq T
  BY <1>1, FileReach
<1> DEFINE T == {x \in R : x = n \/ \E k \in R : x \in file[k].reqs}
<1>3. n \in T
  BY <1>2
<1>4. Closed(file, T)
  BY <1>1, <1>2 DEF Closed
<1> HIDE DEF T
<1>5. R \subseteq T
  BY <1>2, <1>3, <1>4
<1> QED
  BY <1>1, <1>5 DEF T

\* In a plain file the reader refuses only what leads to a name that is not
\* there, or to one name in two ways.
Reads(file, n) ==
  /\ Closure(file, {n}) \subseteq DOMAIN file
  /\ \A k \in Closure(file, {n}) : n \notin file[k].reqs
  /\ \A k, l \in Closure(file, {n}) : \A m \in file[k].reqs :
       m \in file[l].reqs => k = l

LEMMA ReadsAll ==
  ASSUME NEW file, IsFile(file), PlainFile(file), NEW n
  PROVE  CanRead(file, n) <=> Reads(file, n)
<1>1. ASSUME CanRead(file, n) PROVE Reads(file, n)
  BY <1>1, ReadOnce, Readings DEF Reads
<1>2. ASSUME Reads(file, n) PROVE CanRead(file, n)
  <2>1. PICK R : R = Closure(file, {n})
    OBVIOUS
  <2>2. /\ n \in R /\ R \subseteq DOMAIN file /\ Closed(file, R)
        /\ \A k \in R : n \notin file[k].reqs
        /\ \A k, l \in R : \A m \in file[k].reqs : m \in file[l].reqs => k = l
    BY <1>2, <2>1, FileReach DEF Reads
  <2>3. ASSUME NEW m \in R
        PROVE  Cardinality({k \in R : m \in file[k].reqs}) = IF m = n THEN 0 ELSE 1
    <3>1. CASE m = n
      <4>1. {k \in R : m \in file[k].reqs} = {}
        BY <2>2, <3>1
      <4> QED
        BY <3>1, <4>1, FS_EmptySet
    <3>2. CASE m # n
      <4>1. PICK k \in R : m \in file[k].reqs
        BY <2>1, <2>2, <3>2, FileParents
      <4>2. {l \in R : m \in file[l].reqs} = {k}
        BY <2>2, <4>1
      <4>3. Cardinality({k}) = 1
        BY FS_Singleton
      <4> QED
        BY <3>2, <4>2, <4>3
    <3> QED
      BY <3>1, <3>2
  <2>4. \A m \in R : file[m].wrapped => file[m].kind = "main"
    BY <2>2 DEF PlainFile
  <2> QED
    BY <2>1, <2>2, <2>3, <2>4 DEF CanRead
<1> QED
  BY <1>1, <1>2

\* A file has entries of base only, as far as requirements go.
Within(file, base) ==
  \A n \in DOMAIN file : n \in DOMAIN base /\ file[n].reqs = base[n].reqs

\* What is reached in a file is reached in base.
LEMMA WithinReach ==
  ASSUME NEW file, IsFile(file), NEW base, IsFile(base), Within(file, base),
         NEW n, Closure(file, {n}) \subseteq DOMAIN file
  PROVE  Closure(base, {n}) = Closure(file, {n})
<1>1. PICK R, S : R = Closure(file, {n}) /\ S = Closure(base, {n})
  OBVIOUS
<1>2. n \in R /\ Closed(file, R) /\ \A T : n \in T /\ Closed(file, T) => R \subseteq T
  BY <1>1, FileReach
<1>3. n \in S /\ Closed(base, S) /\ \A T : n \in T /\ Closed(base, T) => S \subseteq T
  BY <1>1, FileReach
<1>4. Closed(base, R)
  BY <1>1, <1>2 DEF Closed, Within
<1>5. Closed(file, S)
  BY <1>3 DEF Closed, Within
<1> QED
  BY <1>1, <1>2, <1>3, <1>4, <1>5

\* What can be read from a file can be read from base.
LEMMA WithinReads ==
  ASSUME NEW file, IsFile(file), NEW base, IsFile(base), Within(file, base),
         PlainFile(file), PlainFile(base), NEW n, CanRead(file, n)
  PROVE  CanRead(base, n) /\ Closure(base, {n}) = Closure(file, {n})
<1>1. Reads(file, n)
  BY ReadsAll
<1>2. PICK R : R = Closure(file, {n})
  OBVIOUS
<1>3. R \subseteq DOMAIN file /\ Closure(base, {n}) = R
  BY <1>1, <1>2, WithinReach DEF Reads
<1>4. \A k \in R : k \in DOMAIN base /\ file[k].reqs = base[k].reqs
  BY <1>3 DEF Within
<1>5. Reads(base, n)
  BY <1>1, <1>2, <1>3, <1>4 DEF Reads
<1> QED
  BY <1>2, <1>3, <1>5, ReadsAll

\* And the other way round, if the file has what its entries require.
LEMMA WithinRead ==
  ASSUME NEW file, IsFile(file), NEW base, IsFile(base), Within(file, base),
         PlainFile(file), PlainFile(base), Closed(file, DOMAIN file),
         NEW n \in DOMAIN file, CanRead(base, n)
  PROVE  CanRead(file, n) /\ Closure(base, {n}) = Closure(file, {n})
<1>1. Reads(base, n)
  BY ReadsAll
<1>2. PICK R : R = Closure(file, {n})
  OBVIOUS
<1>3. R \subseteq DOMAIN file
  BY <1>2, FileReach
<1>4. Closure(base, {n}) = R
  BY <1>2, <1>3, WithinReach
<1>5. \A k \in R : file[k].reqs = base[k].reqs
  BY <1>3 DEF Within
<1>6. Reads(file, n)
  BY <1>1, <1>2, <1>3, <1>4, <1>5 DEF Reads
<1> QED
  BY <1>2, <1>4, <1>6, ReadsAll

\* What can be read can be read from each name on the way.
LEMMA ReadsBelow ==
  ASSUME NEW file, IsFile(file), PlainFile(file), NEW n, CanRead(file, n),
         NEW m \in Closure(file, {n})
  PROVE  CanRead(file, m) /\ Closure(file, {m}) \subseteq Closure(file, {n})
<1>1. Reads(file, n)
  BY ReadsAll
<1>2. PICK R, S : R = Closure(file, {n}) /\ S = Closure(file, {m})
  OBVIOUS
<1>3. /\ n \in R /\ Closed(file, R) /\ R \subseteq DOMAIN file
      /\ \A T : n \in T /\ Closed(file, T) => R \subseteq T
      /\ \A k \in R : n \notin file[k].reqs
      /\ \A k, l \in R : \A q \in file[k].reqs : q \in file[l].reqs => k = l
  BY <1>1, <1>2, FileReach DEF Reads
<1>4. m \in S /\ Closed(file, S) /\ \A T : m \in T /\ Closed(file, T) => S \subseteq T
  BY <1>2, FileReach
<1>5. S \subseteq R
  BY <1>2, <1>3, <1>4
<1>6. S \subseteq DOMAIN file
  BY <1>3, <1>5
<1>7. \A q \in S : q # m => \E k \in S : q \in file[k].reqs
  BY <1>2, <1>6, FileParents
<1>8. ASSUME NEW k \in S, m \in file[k].reqs PROVE FALSE
  <2>1. m # n
    BY <1>3, <1>5, <1>8
  <2>2. n \notin S
    BY <1>3, <1>5, <1>7, <2>1
  <2>3. ASSUME NEW x \in R \ S, NEW q \in file[x].reqs PROVE q \in R \ S
    <3>1. q \in R
      BY <1>3, <2>3 DEF Closed
    <3>2. ASSUME q \in S PROVE FALSE
      <4>1. PICK l \in S : q \in file[l].reqs
        BY <1>7, <1>8, <3>2
      <4>2. x = l
        BY <1>3, <1>5, <2>3, <4>1
      <4> QED
        BY <2>3, <4>1, <4>2
    <3> QED
      BY <3>1, <3>2
  <2>4. Closed(file, R \ S)
    BY <2>3 DEF Closed
  <2>5. R \subseteq R \ S
    BY <1>3, <2>2, <2>4
  <2> QED
    BY <1>2, <1>4, <1>5, <2>5
<1>9. Reads(file, m)
  BY <1>2, <1>3, <1>5, <1>6, <1>8 DEF Reads
<1> QED
  BY <1>2, <1>5, <1>9, ReadsAll

-----------------------------------------------------------------------------
(* Objects that require what a file says *)

Reach(h, o) == {o} \cup Below(h, o)

\* The objects of S require what the entries of base of their names do, and
\* those can be read.
Mirrors(h, S, base) ==
  \A o \in S : /\ NameOf(o) \in DOMAIN base
               /\ NamesOf(h[o].reqs) = base[NameOf(o)].reqs
               /\ CanRead(base, NameOf(o))

\* What an object leads to is the least set that has it and what its members
\* require.
LEMMA ReachIs ==
  ASSUME NEW D, D \subseteq Object, NEW h \in [D -> Fields(D)], NEW o \in D
  PROVE  /\ o \in Reach(h, o) /\ Reach(h, o) \in SUBSET D
         /\ KeepsReqs(h, Reach(h, o))
         /\ \A T \in SUBSET D : o \in T /\ KeepsReqs(h, T) => Reach(h, o) \subseteq T
<1>1. PICK B : B = Below(h, o)
  OBVIOUS
<1>2. /\ h[o].reqs \subseteq B /\ B \in SUBSET D /\ KeepsReqs(h, B)
      /\ \A T \in SUBSET D : h[o].reqs \subseteq T /\ KeepsReqs(h, T) => B \subseteq T
  BY <1>1, BelowIs
<1>3. PICK R : R = {o} \cup B
  OBVIOUS
<1>4. R = Reach(h, o)
  BY <1>1, <1>3 DEF Reach
<1>5. o \in R /\ R \in SUBSET D /\ KeepsReqs(h, R)
  BY <1>2, <1>3 DEF KeepsReqs
<1>6. ASSUME NEW T \in SUBSET D, o \in T, KeepsReqs(h, T) PROVE R \subseteq T
  <2>1. h[o].reqs \subseteq T
    BY <1>6 DEF KeepsReqs
  <2>2. B \subseteq T
    BY <1>2, <1>6, <2>1
  <2> QED
    BY <1>3, <1>6, <2>2
<1> QED
  BY <1>4, <1>5, <1>6

\* The names of what a member of S leads to are what its name leads to.
LEMMA MirrorReach ==
  ASSUME NEW D, D \subseteq Object, NEW h \in [D -> Fields(D)], NEW S \in SUBSET D,
         KeepsReqs(h, S), NEW base, IsFile(base), Mirrors(h, S, base), NEW o \in S
  PROVE  /\ Reach(h, o) \subseteq S
         /\ NamesOf(Reach(h, o)) = Closure(base, {NameOf(o)})
<1>1. PICK R, n, C : R = Reach(h, o) /\ n = NameOf(o) /\ C = Closure(base, {n})
  OBVIOUS
<1>2. /\ o \in R /\ R \in SUBSET D /\ KeepsReqs(h, R)
      /\ \A T \in SUBSET D : o \in T /\ KeepsReqs(h, T) => R \subseteq T
  BY <1>1, ReachIs
<1>3. n \in C /\ Closed(base, C) /\ \A T : n \in T /\ Closed(base, T) => C \subseteq T
  BY <1>1, FileReach
<1>4. R \subseteq S
  BY <1>2
<1>5. NamesOf(R) \subseteq C
  <2> DEFINE T == {x \in S : NameOf(x) \in C}
  <2>1. o \in T /\ T \in SUBSET D
    BY <1>1, <1>3
  <2>2. ASSUME NEW x \in T, NEW r \in h[x].reqs PROVE r \in T
    <3>1. r \in S
      BY <2>2 DEF KeepsReqs
    <3>2. NameOf(r) \in base[NameOf(x)].reqs
      BY <2>2 DEF Mirrors, NamesOf
    <3>3. NameOf(r) \in C
      BY <1>3, <2>2, <3>2 DEF Mirrors, Closed
    <3> QED
      BY <3>1, <3>3
  <2>3. KeepsReqs(h, T)
    BY <2>2 DEF KeepsReqs
  <2> HIDE DEF T
  <2>4. R \subseteq T
    BY <1>2, <2>1, <2>3
  <2> QED
    BY <2>4 DEF T, NamesOf
<1>6. n \in NamesOf(R)
  BY <1>1, <1>2 DEF NamesOf
<1>7. Closed(base, NamesOf(R))
  <2>1. ASSUME NEW m \in NamesOf(R), NEW q \in base[m].reqs PROVE q \in NamesOf(R)
    <3>1. PICK x \in R : m = NameOf(x)
      BY <2>1 DEF NamesOf
    <3>2. NamesOf(h[x].reqs) = base[m].reqs
      BY <1>4, <3>1 DEF Mirrors
    <3>3. h[x].reqs \subseteq R
      BY <1>2 DEF KeepsReqs
    <3> QED
      BY <2>1, <3>2, <3>3 DEF NamesOf
  <2> QED
    BY <2>1 DEF Closed
<1> QED
  BY <1>1, <1>3, <1>4, <1>5, <1>6, <1>7

\* o leads back to no name, and to each object in one way.
Sprouts(h, o) ==
  /\ OneEach(Reach(h, o)) /\ NoWayBack(h, Reach(h, o))
  /\ \A x, y \in Reach(h, o) : \A r \in h[x].reqs : r \in h[y].reqs => x = y

\* Objects with names of their own do, if they require what can be read.
LEMMA MirrorSprouts ==
  ASSUME NEW D, D \subseteq Object, NEW h \in [D -> Fields(D)], NEW S \in SUBSET D,
         KeepsReqs(h, S), NEW base, IsFile(base), PlainFile(base),
         Mirrors(h, S, base), NEW o \in S, OneEach(Below(h, o))
  PROVE  Sprouts(h, o)
<1>1. ASSUME NEW x \in S PROVE NameOf(x) \notin NamesOf(Below(h, x))
  <2>1. PICK R, n, C : R = Reach(h, x) /\ n = NameOf(x) /\ C = Closure(base, {n})
    OBVIOUS
  <2>2. R \subseteq S /\ NamesOf(R) = C /\ CanRead(base, n)
    BY <1>1, <2>1, MirrorReach DEF Mirrors
  <2>3. \A k \in C : n \notin base[k].reqs
    BY <2>1, <2>2, ReadOnce
  <2>4. x \in R /\ R \in SUBSET D /\ KeepsReqs(h, R)
    BY <1>1, <2>1, ReachIs
  <2>5. PICK B : B = Below(h, x)
    OBVIOUS
  <2>6. /\ h[x].reqs \subseteq B /\ B \in SUBSET D /\ KeepsReqs(h, B)
        /\ \A T \in SUBSET D : h[x].reqs \subseteq T /\ KeepsReqs(h, T) => B \subseteq T
    BY <1>1, <2>5, BelowIs
  <2>7. B \subseteq R
    BY <2>1, <2>5 DEF Reach
  <2> DEFINE T == {y \in B : NameOf(y) # n}
  <2>8. ASSUME NEW z \in R, NEW r \in h[z].reqs PROVE NameOf(r) # n
    <3>1. NameOf(r) \in base[NameOf(z)].reqs
      BY <2>2, <2>8 DEF Mirrors, NamesOf
    <3>2. NameOf(z) \in C
      BY <2>2 DEF NamesOf
    <3> QED
      BY <2>3, <3>1, <3>2
  <2>9. h[x].reqs \subseteq T
    BY <2>4, <2>6, <2>8
  <2>10. KeepsReqs(h, T)
    BY <2>6, <2>7, <2>8 DEF KeepsReqs
  <2>11. T \in SUBSET D
    BY <2>6
  <2> HIDE DEF T
  <2>12. B \subseteq T
    BY <2>6, <2>9, <2>10, <2>11
  <2> QED
    BY <2>1, <2>5, <2>12 DEF T, NamesOf
<1>2. PICK R, n, C : R = Reach(h, o) /\ n = NameOf(o) /\ C = Closure(base, {n})
  OBVIOUS
<1>3. R \subseteq S /\ NamesOf(R) = C /\ CanRead(base, n)
  BY <1>2, MirrorReach DEF Mirrors
<1>4. NoWayBack(h, R)
  BY <1>1, <1>3 DEF NoWayBack
<1>5. OneEach(R)
  <2>1. NameOf(o) \notin NamesOf(Below(h, o))
    BY <1>1
  <2> QED
    BY <1>2, <2>1 DEF OneEach, Reach, NamesOf
<1>6. ASSUME NEW x \in R, NEW y \in R, NEW r \in h[x].reqs, r \in h[y].reqs
      PROVE  x = y
  <2>1. /\ NameOf(r) \in base[NameOf(x)].reqs
        /\ NameOf(r) \in base[NameOf(y)].reqs
    BY <1>3, <1>6 DEF Mirrors, NamesOf
  <2>2. NameOf(x) \in C /\ NameOf(y) \in C
    BY <1>3 DEF NamesOf
  <2>3. \A k, l \in C : \A m \in base[k].reqs : m \in base[l].reqs => k = l
    BY <1>2, <1>3, ReadOnce
  <2>4. NameOf(x) = NameOf(y)
    BY <2>1, <2>2, <2>3
  <2> QED
    BY <1>5, <2>4 DEF OneEach
<1> QED
  BY <1>2, <1>4, <1>5, <1>6 DEF Sprouts

\* What is required on the way does too.
LEMMA SproutsBelow ==
  ASSUME NEW D, D \subseteq Object, NEW h \in [D -> Fields(D)], NEW o \in D,
         Sprouts(h, o), NEW r \in h[o].reqs
  PROVE  /\ r \in D /\ Sprouts(h, r) /\ Reach(h, r) \subseteq Below(h, o)
<1>1. /\ r \in Below(h, o) /\ r \in D /\ Below(h, r) \subseteq Below(h, o)
  BY BelowShrinks
<1>2. Reach(h, r) \subseteq Below(h, o) /\ Reach(h, r) \subseteq Reach(h, o)
  BY <1>1 DEF Reach
<1>3. Sprouts(h, r)
  BY <1>2 DEF Sprouts, OneEach, NoWayBack
<1> QED
  BY <1>1, <1>2, <1>3

\* Two of them lead nowhere in common.
LEMMA SproutsApart ==
  ASSUME NEW D, D \subseteq Object, NEW h \in [D -> Fields(D)], NEW o \in D,
         Sprouts(h, o), NEW r \in h[o].reqs, NEW s \in h[o].reqs, r # s
  PROVE  Reach(h, r) \cap Reach(h, s) = {}
<1>1. PICK R, S, T : R = Reach(h, r) /\ S = Reach(h, s) /\ T = Reach(h, o)
  OBVIOUS
<1>2. r \in D /\ s \in D /\ R \subseteq Below(h, o) /\ S \subseteq Below(h, o)
  BY <1>1, SproutsBelow
<1>3. /\ r \in R /\ R \in SUBSET D /\ KeepsReqs(h, R)
      /\ \A Q \in SUBSET D : r \in Q /\ KeepsReqs(h, Q) => R \subseteq Q
  BY <1>1, <1>2, ReachIs
<1>4. /\ s \in S /\ S \in SUBSET D /\ KeepsReqs(h, S)
      /\ \A Q \in SUBSET D : s \in Q /\ KeepsReqs(h, Q) => S \subseteq Q
  BY <1>1, <1>2, ReachIs
<1>5. /\ o \in T /\ R \subseteq T /\ S \subseteq T
      /\ \A x, y \in T : \A q \in h[x].reqs : q \in h[y].reqs => x = y
  BY <1>1, <1>2 DEF Sprouts, Reach
<1>6. o \notin R /\ o \notin S
  <2>1. NameOf(o) \notin NamesOf(Below(h, o))
    BY <1>1, <1>5 DEF Sprouts, NoWayBack
  <2> QED
    BY <1>2, <2>1 DEF NamesOf
<1>7. \A q \in R : q # r => \E x \in R : q \in h[x].reqs
  <2> DEFINE Q == {q \in R : q = r \/ \E x \in R : q \in h[x].reqs}
  <2>1. r \in Q /\ Q \in SUBSET D /\ KeepsReqs(h, Q)
    BY <1>3 DEF KeepsReqs
  <2> HIDE DEF Q
  <2>2. R \subseteq Q
    BY <1>3, <2>1
  <2> QED
    BY <2>2 DEF Q
<1>8. s \notin R
  <2>1. ASSUME s \in R PROVE FALSE
    <3>1. PICK x \in R : s \in h[x].reqs
      BY <1>7, <2>1
    <3>2. x = o
      BY <1>5, <3>1
    <3> QED
      BY <1>6, <3>1, <3>2
  <2> QED
    BY <2>1
<1>9. ASSUME NEW x \in S \ R, NEW q \in h[x].reqs PROVE q \in S \ R
  <2>1. q \in S
    BY <1>4, <1>9 DEF KeepsReqs
  <2>2. ASSUME q \in R PROVE FALSE
    <3>1. CASE q = r
      <4>1. x = o
        BY <1>5, <1>9, <3>1
      <4> QED
        BY <1>6, <1>9, <4>1
    <3>2. CASE q # r
      <4>1. PICK y \in R : q \in h[y].reqs
        BY <1>7, <2>2, <3>2
      <4>2. x = y
        BY <1>5, <1>9, <4>1
      <4> QED
        BY <1>9, <4>1, <4>2
    <3> QED
      BY <3>1, <3>2
  <2> QED
    BY <2>1, <2>2
<1>10. KeepsReqs(h, S \ R)
  BY <1>9 DEF KeepsReqs
<1>11. S \subseteq S \ R
  BY <1>4, <1>8, <1>10
<1> QED
  BY <1>1, <1>11

-----------------------------------------------------------------------------
(* What write_package_to_json writes *)

\* An object leads to itself and to what its requirements lead to.
LEMMA ReachParts ==
  ASSUME NEW D, D \subseteq Object, NEW h \in [D -> Fields(D)], NEW p \in D
  PROVE  Reach(h, p) = {p} \cup UNION {Reach(h, r) : r \in h[p].reqs}
<1>1. PICK T : T = {p} \cup UNION {Reach(h, r) : r \in h[p].reqs}
  OBVIOUS
<1>2. ASSUME NEW r \in h[p].reqs
      PROVE  /\ r \in D /\ r \in Reach(h, r) /\ Reach(h, r) \in SUBSET D
             /\ KeepsReqs(h, Reach(h, r)) /\ Reach(h, r) \subseteq Reach(h, p)
  <2>1. r \in Below(h, p) /\ r \in D /\ Below(h, r) \subseteq Below(h, p)
    BY BelowShrinks
  <2>2. /\ r \in Reach(h, r) /\ Reach(h, r) \in SUBSET D
        /\ KeepsReqs(h, Reach(h, r))
    BY <2>1, ReachIs
  <2>3. Reach(h, r) \subseteq Reach(h, p)
    BY <2>1 DEF Reach
  <2> QED
    BY <2>1, <2>2, <2>3
<1>3. p \in T /\ T \in SUBSET D
  BY <1>1, <1>2
<1>4. KeepsReqs(h, T)
  <2>1. ASSUME NEW x \in T PROVE h[x].reqs \subseteq T
    <3>1. CASE x = p
      BY <1>1, <1>2, <3>1
    <3>2. ASSUME NEW r \in h[p].reqs, x \in Reach(h, r) PROVE h[x].reqs \subseteq T
      BY <1>1, <1>2, <3>2 DEF KeepsReqs
    <3> QED
      BY <1>1, <3>1, <3>2
  <2> QED
    BY <2>1 DEF KeepsReqs
<1>5. Reach(h, p) \subseteq T
  BY <1>3, <1>4, ReachIs
<1>6. p \in Reach(h, p)
  BY ReachIs
<1> QED
  BY <1>1, <1>2, <1>5, <1>6

\* W has been written of w.
Wrote(w, W) == [world |-> w, written |-> W]

\* None of what p leads to has a name of W.
NoneOf(h, p, W) == \A x \in Reach(h, p), y \in W : NameOf(x) # NameOf(y)

\* Calls that write what p leads to, if it needs no more than d of them.
ExactWriting(D, w, d) ==
  {f \in Writing(D) :
     \A p \in D, W \in SUBSET D :
       Sprouts(w.heap, p) /\ Size(w.heap, p) <= d /\ NoneOf(w.heap, p, W) =>
         f[Wrote(w, W)][p] = Wrote(w, W \cup Reach(w.heap, p))}

\* The turns of write_package_to_json.
WriteBody(D, write) ==
  [acc \in Writings(D) |-> [r \in D |->
     IF acc.world.failed # "no" THEN acc ELSE write[acc][r]]]

\* Writing an object of its own name whose check finds nothing.
LEMMA WriteNestedIs ==
  ASSUME NEW D, NEW w \in Worlds(D), w.failed = "no", NEW W \in SUBSET D,
         NEW p \in D, CycleCheck(w, p) = w, NameOf(p) \notin NamesOf(W), NEW write
  PROVE  WriteNested(write, Wrote(w, W), p) =
           Loop(WriteBody(D, write), Wrote(w, W \cup {p}), Required(w.heap, p))
<1>1. PICK x : x = Wrote(w, W)
  OBVIOUS
<1>2. x.world = w /\ x.written = W /\ DOMAIN x.world.heap = D
  BY <1>1, WorldFields DEF Wrote
<1>3. [x EXCEPT !.written = @ \cup {p}] = Wrote(w, W \cup {p})
  BY <1>1 DEF Wrote
<1>4. WriteNested(write, x, p) =
        Loop(WriteBody(D, write), [x EXCEPT !.written = @ \cup {p}],
             Required(w.heap, p))
  BY <1>2, Zenon DEF WriteNested, WriteBody
<1> QED
  BY <1>1, <1>3, <1>4

\* What the first i turns for p have written.
WroteFirst(h, W, p, q, i) == W \cup {p} \cup UNION {Reach(h, q[j]) : j \in 1 .. i}

TurnWrites(body, w, W, p, q, i) ==
  body[Wrote(w, WroteFirst(w.heap, W, p, q, i - 1))][q[i]]
    = Wrote(w, WroteFirst(w.heap, W, p, q, i))

\* One turn writes what one requirement leads to.
LEMMA WriteTurn ==
  ASSUME NEW D, D \subseteq Object, NEW w \in Worlds(D), w.failed = "no",
         NEW d \in Nat, NEW write \in ExactWriting(D, w, d), NEW p \in D,
         Sprouts(w.heap, p), Size(w.heap, p) <= d + 1, NEW W \in SUBSET D,
         NoneOf(w.heap, p, W), NEW i \in 1 .. Len(Required(w.heap, p))
  PROVE  TurnWrites(WriteBody(D, write), w, W, p, Required(w.heap, p), i)
<1>1. PICK h, q : h = w.heap /\ q = Required(w.heap, p)
  OBVIOUS
<1>2. h \in [D -> Fields(D)]
  BY <1>1, WorldFields
<1>3. /\ q \in Seq(h[p].reqs)
      /\ \A j, k \in 1 .. Len(q) : j < k => q[j] # q[k]
  <2>1. h[p].reqs \subseteq Object
    BY <1>2 DEF Fields
  <2>2. /\ Required(h, p) \in Seq(h[p].reqs)
        /\ \A j, k \in 1 .. Len(Required(h, p)) :
             j < k => Required(h, p)[j] # Required(h, p)[k]
    BY <2>1, RequiredIn
  <2> QED
    BY <1>1, <2>2
<1>4. Len(q) \in Nat /\ \A j \in 1 .. Len(q) : q[j] \in h[p].reqs
  BY <1>3
<1>5. PICK V : V = WroteFirst(h, W, p, q, i - 1)
  OBVIOUS
<1>6. PICK r : r = q[i] /\ r \in h[p].reqs
  BY <1>1, <1>4
<1>7. r \in D /\ Sprouts(h, r) /\ Reach(h, r) \subseteq Below(h, p)
  BY <1>1, <1>2, <1>6, SproutsBelow
<1>8. NameOf(p) \notin NamesOf(Below(h, p)) /\ OneEach(Reach(h, p))
  BY <1>1 DEF Sprouts, NoWayBack, Reach
<1>9. Size(h, r) <= d
  <2>1. Size(h, r) + 1 <= Size(h, p) /\ Size(h, r) \in Nat /\ Size(h, p) \in Nat
    BY <1>2, <1>6, <1>7, <1>8, SizeShrinks, SizeIs
  <2> QED
    BY <1>1, <2>1
<1>10. \A j \in 1 .. (i - 1) :
         /\ q[j] \in h[p].reqs /\ q[j] # r
         /\ q[j] \in D /\ Reach(h, q[j]) \subseteq Below(h, p)
  <2> SUFFICES ASSUME NEW j \in 1 .. (i - 1)
               PROVE  /\ q[j] \in h[p].reqs /\ q[j] # r
                      /\ q[j] \in D /\ Reach(h, q[j]) \subseteq Below(h, p)
    OBVIOUS
  <2>1. j \in 1 .. Len(q) /\ i \in 1 .. Len(q) /\ j < i
    BY <1>1, <1>4
  <2>2. PICK s : s = q[j]
    OBVIOUS
  <2>3. s \in h[p].reqs /\ s # r
    BY <1>3, <1>4, <1>6, <2>1, <2>2
  <2>4. s \in D /\ Reach(h, s) \subseteq Below(h, p)
    BY <1>1, <1>2, <2>3, SproutsBelow
  <2> QED
    BY <2>2, <2>3, <2>4
<1>11. Below(h, p) \in SUBSET D
  BY <1>2, BelowIs
<1>12. V \in SUBSET D
  BY <1>5, <1>10, <1>11 DEF WroteFirst
<1>13. NoneOf(h, r, V)
  <2> SUFFICES ASSUME NEW x \in Reach(h, r), NEW y \in V, NameOf(x) = NameOf(y)
               PROVE  FALSE
    BY DEF NoneOf
  <2>1. x \in Below(h, p) /\ x \in Reach(h, p)
    BY <1>7 DEF Reach
  <2>2. CASE y \in W
    BY <1>1, <2>1, <2>2 DEF NoneOf
  <2>3. CASE y = p
    BY <1>8, <2>1, <2>3 DEF NamesOf
  <2>4. ASSUME NEW j \in 1 .. (i - 1), y \in Reach(h, q[j]) PROVE FALSE
    <3>1. PICK s : s = q[j]
      OBVIOUS
    <3>2. s \in h[p].reqs /\ s # r /\ Reach(h, s) \subseteq Below(h, p)
      BY <1>10, <3>1
    <3>3. y \in Reach(h, s) /\ y \in Reach(h, p)
      BY <2>4, <3>1, <3>2 DEF Reach
    <3>4. x = y
      BY <1>8, <2>1, <3>3 DEF OneEach
    <3>5. Reach(h, r) \cap Reach(h, s) = {}
      BY <1>1, <1>2, <1>6, <3>2, SproutsApart
    <3> QED
      BY <3>3, <3>4, <3>5
  <2> QED
    BY <1>5, <2>2, <2>3, <2>4 DEF WroteFirst
<1>14. write[Wrote(w, V)][r] = Wrote(w, V \cup Reach(h, r))
  BY <1>1, <1>7, <1>9, <1>12, <1>13 DEF ExactWriting
<1>15. Wrote(w, V) \in Writings(D) /\ Wrote(w, V).world = w
  BY <1>12 DEF Wrote, Writings
<1>16. WriteBody(D, write)[Wrote(w, V)][r] = write[Wrote(w, V)][r]
  BY <1>7, <1>15 DEF WriteBody
<1>17. V \cup Reach(h, r) = WroteFirst(h, W, p, q, i)
  <2>1. 1 .. i = (1 .. (i - 1)) \cup {i}
    BY <1>4
  <2> QED
    BY <1>5, <1>6, <2>1 DEF WroteFirst
<1> QED
  BY <1>1, <1>5, <1>6, <1>14, <1>16, <1>17 DEF TurnWrites

\* Writing an object writes what it leads to, if writing what it requires does.
LEMMA WriteNestedExact ==
  ASSUME NEW D, D \subseteq Object, NEW w \in Worlds(D), w.failed = "no",
         NEW d \in Nat, NEW write \in ExactWriting(D, w, d), NEW p \in D,
         Sprouts(w.heap, p), Size(w.heap, p) <= d + 1, NEW W \in SUBSET D,
         NoneOf(w.heap, p, W)
  PROVE  WriteNested(write, Wrote(w, W), p) = Wrote(w, W \cup Reach(w.heap, p))
<1>1. PICK h, q : h = w.heap /\ q = Required(h, p)
  OBVIOUS
<1>2. h \in [D -> Fields(D)]
  BY <1>1, WorldFields
<1>3. /\ q \in Seq(h[p].reqs)
      /\ \A r \in h[p].reqs : \E i \in 1 .. Len(q) : q[i] = r
      /\ h[p].reqs \subseteq D
  <2>1. h[p].reqs \subseteq D
    BY <1>2 DEF Fields
  <2>2. h[p].reqs \subseteq Object
    BY <2>1
  <2>3. /\ Required(h, p) \in Seq(h[p].reqs)
        /\ \A r \in h[p].reqs :
             \E i \in 1 .. Len(Required(h, p)) : Required(h, p)[i] = r
    BY <2>2, RequiredIn
  <2> QED
    BY <1>1, <2>1, <2>3
<1>4. Len(q) \in Nat /\ \A j \in 1 .. Len(q) : q[j] \in h[p].reqs
  BY <1>3
<1>5. CycleCheck(w, p) = w
  <2>1. KeepsReqs(h, Reach(h, p)) /\ Reach(h, p) \in SUBSET D /\ p \in Reach(h, p)
    BY <1>2, ReachIs
  <2>2. Orderly(h, Reach(h, p)) /\ h[p].reqs \subseteq Reach(h, p)
    BY <1>1, <2>1 DEF Sprouts, Orderly, KeepsReqs
  <2> QED
    BY <1>1, <2>1, <2>2, OrderlyCheck
<1>6. p \in Reach(h, p)
  BY <1>2, ReachIs
<1>7. NameOf(p) \notin NamesOf(W)
  BY <1>1, <1>6 DEF NoneOf, NamesOf
<1>8. PICK body : body = WriteBody(D, write)
  OBVIOUS
<1> DEFINE Done(i) == WroteFirst(h, W, p, q, i)
<1>9. WriteNested(write, Wrote(w, W), p) = Loop(body, Wrote(w, W \cup {p}), q)
  BY <1>1, <1>5, <1>7, <1>8, WriteNestedIs
<1>10. ASSUME NEW i \in 1 .. Len(q)
       PROVE  body[Wrote(w, Done(i - 1))][q[i]] = Wrote(w, Done(i))
  <2>1. i \in 1 .. Len(Required(w.heap, p))
    BY <1>1
  <2>2. TurnWrites(WriteBody(D, write), w, W, p, Required(w.heap, p), i)
    BY <2>1, WriteTurn
  <2> QED
    BY <1>1, <1>8, <2>2 DEF TurnWrites
<1>11. StaysIn(body, Writings(D), h[p].reqs)
  <2>1. write \in [Writings(D) -> [D -> Writings(D)]]
    BY DEF ExactWriting, Writing
  <2> QED
    BY <1>3, <1>8, <2>1 DEF StaysIn, WriteBody
<1>12. Wrote(w, W \cup {p}) \in Writings(D)
  BY DEF Wrote, Writings
<1>13. PICK P : P = [i \in 0 .. Len(q) |-> {Wrote(w, Done(i))}]
  OBVIOUS
<1>14. Wrote(w, W \cup {p}) \in P[0]
  <2>1. Done(0) = W \cup {p}
    <3>1. 1 .. 0 = {}
      OBVIOUS
    <3> QED
      BY <3>1 DEF WroteFirst
  <2> HIDE DEF Done
  <2>2. P[0] = {Wrote(w, Done(0))}
    BY <1>4, <1>13
  <2> QED
    BY <2>1, <2>2
<1>15. Stages(P, body, q)
  <2> HIDE DEF Done
  <2> SUFFICES ASSUME NEW i \in 1 .. Len(q), NEW x \in P[i - 1]
               PROVE  body[x][q[i]] \in P[i]
    BY DEF Stages
  <2>1. i - 1 \in 0 .. Len(q) /\ i \in 0 .. Len(q)
    BY <1>4
  <2>2. x = Wrote(w, Done(i - 1)) /\ P[i] = {Wrote(w, Done(i))}
    BY <1>13, <2>1
  <2> QED
    BY <1>10, <2>2
<1>16. Loop(body, Wrote(w, W \cup {p}), q) \in P[Len(q)]
  BY <1>3, <1>11, <1>12, <1>14, <1>15, LoopStages
<1>17. Loop(body, Wrote(w, W \cup {p}), q) = Wrote(w, Done(Len(q)))
  BY <1>4, <1>13, <1>16
<1>18. Done(Len(q)) = W \cup Reach(h, p)
  <2>1. UNION {Reach(h, q[j]) : j \in 1 .. Len(q)}
          = UNION {Reach(h, r) : r \in h[p].reqs}
    <3>1. ASSUME NEW j \in 1 .. Len(q) PROVE \E r \in h[p].reqs : r = q[j]
      BY <1>4
    <3>2. ASSUME NEW r \in h[p].reqs PROVE \E j \in 1 .. Len(q) : r = q[j]
      BY <1>3
    <3>3. ASSUME NEW x
          PROVE  (\E j \in 1 .. Len(q) : x \in Reach(h, q[j]))
                   <=> (\E r \in h[p].reqs : x \in Reach(h, r))
      BY <3>1, <3>2
    <3> QED
      BY <3>3
  <2>2. Reach(h, p) = {p} \cup UNION {Reach(h, r) : r \in h[p].reqs}
    BY <1>2, ReachParts
  <2> QED
    BY <2>1, <2>2 DEF WroteFirst
<1> QED
  BY <1>1, <1>9, <1>17, <1>18

\* write_package_to_json writes what the package leads to, and no exception.
LEMMA WriteExact ==
  ASSUME NEW D, D \subseteq Object, NEW w \in Worlds(D), w.failed = "no",
         NEW o \in D, Sprouts(w.heap, o)
  PROVE  WriteToJson(w, o) = Wrote(w, Reach(w.heap, o))
<1>1. PICK g : WriteCalls(D, g)
  BY WriteLevels
<1>2. w.heap \in [D -> Fields(D)]
  BY WorldFields
<1> DEFINE T == {d \in Nat : g[d] \in ExactWriting(D, w, d)}
<1>3. 0 \in T
  <2>1. g[0] \in Writing(D)
    BY <1>1, DepthIsNumber DEF WriteCalls
  <2>2. ASSUME NEW p \in D PROVE ~(Size(w.heap, p) <= 0)
    <3>1. Size(w.heap, p) \in Nat /\ 1 <= Size(w.heap, p)
      BY <1>2, SizeIs
    <3> QED
      BY <3>1
  <2> QED
    BY <2>1, <2>2 DEF ExactWriting
<1>4. ASSUME NEW d \in 1 .. Depth, d - 1 \in T PROVE d \in T
  <2>1. g[d - 1] \in ExactWriting(D, w, d - 1) /\ d - 1 \in Nat
    BY <1>4
  <2>2. d \in Nat /\ d \in 0 .. Depth /\ (d - 1) + 1 = d
    BY DepthIsNumber
  <2>3. g[d] \in Writing(D)
    BY <1>1, <2>2 DEF WriteCalls
  <2>4. ASSUME NEW p \in D, NEW W \in SUBSET D, Sprouts(w.heap, p),
               Size(w.heap, p) <= d, NoneOf(w.heap, p, W)
        PROVE  g[d][Wrote(w, W)][p] = Wrote(w, W \cup Reach(w.heap, p))
    <3>1. g[d] = [y \in Writings(D) |-> [q \in D |-> WriteNested(g[d - 1], y, q)]]
      BY <1>1 DEF WriteCalls
    <3>2. Wrote(w, W) \in Writings(D)
      BY DEF Wrote, Writings
    <3>3. g[d][Wrote(w, W)][p] = WriteNested(g[d - 1], Wrote(w, W), p)
      BY <3>1, <3>2
    <3>4. Size(w.heap, p) <= (d - 1) + 1
      BY <2>2, <2>4
    <3>5. WriteNested(g[d - 1], Wrote(w, W), p) = Wrote(w, W \cup Reach(w.heap, p))
      BY <2>1, <2>4, <3>4, WriteNestedExact
    <3> QED
      BY <3>3, <3>5
  <2> QED
    BY <2>2, <2>3, <2>4 DEF ExactWriting
<1> HIDE DEF T
<1>5. Depth \in T
  BY <1>3, <1>4, DepthIsNumber, EveryDepth
<1>6. WriteToJson(w, o) = g[Depth][Wrote(w, {})][o]
  BY <1>1 DEF WriteCalls, Wrote
<1>7. Size(w.heap, o) <= Depth /\ NoneOf(w.heap, o, {})
  BY <1>2, SizeIs DEF NoneOf
<1>8. g[Depth] \in ExactWriting(D, w, Depth)
  BY <1>5 DEF T
<1>9. g[Depth][Wrote(w, {})][o] = Wrote(w, {} \cup Reach(w.heap, o))
  BY <1>7, <1>8 DEF ExactWriting
<1> QED
  BY <1>6, <1>9

\* The turns of write_package_manager_to_file.
Joined(first, one) ==
  [one EXCEPT !.written =
     first \cup {o \in @ : NameOf(o) \notin NamesOf(first)}]
WriteAllBody(D) ==
  [acc \in Writings(D) |-> [o \in D |->
     IF acc.world.failed # "no" THEN acc
     ELSE Joined(acc.written, WriteToJson(acc.world, o))]]

\* They are loops of it.
LEMMA WriteAllIs ==
  ASSUME NEW D, NEW w \in Worlds(D), NEW order
  PROVE  WriteAll(w, order) = Loop(WriteAllBody(D), Wrote(w, {}), order)
<1>1. DOMAIN w.heap = D
  BY WorldFields
<1> QED
  BY <1>1, Zenon DEF WriteAll, WriteAllBody, Joined, Wrote

\* What joins what has been written, if no two objects have one name.
LEMMA JoinedOnce ==
  ASSUME NEW S, OneEach(S), NEW w, NEW V \in SUBSET S, NEW R \in SUBSET S
  PROVE  Joined(V, Wrote(w, R)) = Wrote(w, V \cup R)
<1>1. V \cup {o \in R : NameOf(o) \notin NamesOf(V)} = V \cup R
  BY DEF OneEach, NamesOf
<1>2. Joined(V, Wrote(w, R))
        = Wrote(w, V \cup {o \in R : NameOf(o) \notin NamesOf(V)})
  BY DEF Joined, Wrote
<1> QED
  BY <1>1, <1>2

\* What has been written of S so far.
WrittenOf(w, S) == {Wrote(w, V) : V \in SUBSET S}

\* One turn writes what one package leads to.
LEMMA WriteAllTurn ==
  ASSUME NEW D, D \subseteq Object, NEW w \in Worlds(D), w.failed = "no",
         NEW S \in SUBSET D, OneEach(S), KeepsReqs(w.heap, S),
         \A o \in S : Sprouts(w.heap, o), NEW V \in SUBSET S, NEW o \in S
  PROVE  /\ WriteAllBody(D)[Wrote(w, V)][o] = Wrote(w, V \cup Reach(w.heap, o))
         /\ o \in Reach(w.heap, o) /\ Reach(w.heap, o) \in SUBSET S
<1>1. w.heap \in [D -> Fields(D)]
  BY WorldFields
<1>2. o \in Reach(w.heap, o) /\ Reach(w.heap, o) \in SUBSET S
  BY <1>1, ReachIs
<1>3. WriteToJson(w, o) = Wrote(w, Reach(w.heap, o))
  BY WriteExact
<1>4. Wrote(w, V) \in Writings(D) /\ Wrote(w, V).world = w /\ Wrote(w, V).written = V
  BY DEF Wrote, Writings
<1>5. WriteAllBody(D)[Wrote(w, V)][o] = Joined(V, WriteToJson(w, o))
  BY <1>4 DEF WriteAllBody
<1>6. Joined(V, Wrote(w, Reach(w.heap, o))) = Wrote(w, V \cup Reach(w.heap, o))
  BY <1>2, JoinedOnce
<1> QED
  BY <1>2, <1>3, <1>5, <1>6

\* write_package_manager_to_file writes every package, in whatever order they
\* come, and no exception.
LEMMA WriteAllExact ==
  ASSUME NEW D, D \subseteq Object, NEW w \in Worlds(D), w.failed = "no",
         NEW S \in SUBSET D, OneEach(S), KeepsReqs(w.heap, S),
         \A o \in S : Sprouts(w.heap, o), NEW order \in Orders(S)
  PROVE  WriteAll(w, order) = Wrote(w, S)
<1>1. order \in Seq(S) /\ \A x \in S : \E i \in 1 .. Len(order) : order[i] = x
  <2>1. IsFiniteSet(S)
    <3>1. IsFiniteSet(Object)
      BY FS_Product, NameAssumption, StampAssumption DEF Object
    <3> QED
      BY <3>1, FS_Subset
  <2> QED
    BY <2>1, OrdersIn
<1>2. PICK body : body = WriteAllBody(D)
  OBVIOUS
<1>3. WriteAll(w, order) = Loop(body, Wrote(w, {}), order)
  BY <1>2, WriteAllIs
<1>4. ASSUME NEW V \in SUBSET S, NEW o \in S
      PROVE  /\ body[Wrote(w, V)][o] = Wrote(w, V \cup Reach(w.heap, o))
             /\ o \in Reach(w.heap, o) /\ Reach(w.heap, o) \in SUBSET S
  <2>1. /\ WriteAllBody(D)[Wrote(w, V)][o] = Wrote(w, V \cup Reach(w.heap, o))
        /\ o \in Reach(w.heap, o) /\ Reach(w.heap, o) \in SUBSET S
    BY WriteAllTurn
  <2> QED
    BY <1>2, <2>1
<1>5. StaysIn(body, WrittenOf(w, S), S)
  <2> SUFFICES ASSUME NEW V \in SUBSET S, NEW o \in S
               PROVE  body[Wrote(w, V)][o] \in WrittenOf(w, S)
    BY DEF StaysIn, WrittenOf
  <2>1. V \cup Reach(w.heap, o) \in SUBSET S
    BY <1>4
  <2> QED
    BY <1>4, <2>1 DEF WrittenOf
<1>6. Wrote(w, {}) \in WrittenOf(w, S)
  BY DEF WrittenOf
<1>7. PICK got : got = [o \in S |-> {Wrote(w, V) : V \in {T \in SUBSET S : o \in T}}]
  OBVIOUS
<1>8. ASSUME NEW x \in WrittenOf(w, S), NEW e \in S PROVE body[x][e] \in got[e]
  <2>1. PICK V \in SUBSET S : x = Wrote(w, V)
    BY DEF WrittenOf
  <2>2. /\ body[x][e] = Wrote(w, V \cup Reach(w.heap, e))
        /\ V \cup Reach(w.heap, e) \in SUBSET S /\ e \in V \cup Reach(w.heap, e)
    BY <1>4, <2>1
  <2> QED
    BY <1>7, <2>2
<1>9. ASSUME NEW x \in WrittenOf(w, S), NEW e \in S, NEW f \in S, x \in got[e]
      PROVE  body[x][f] \in got[e]
  <2>1. PICK V \in {T \in SUBSET S : e \in T} : x = Wrote(w, V)
    BY <1>7, <1>9
  <2>2. /\ body[x][f] = Wrote(w, V \cup Reach(w.heap, f))
        /\ V \cup Reach(w.heap, f) \in SUBSET S /\ e \in V \cup Reach(w.heap, f)
    BY <1>4, <2>1
  <2> QED
    BY <1>7, <2>2
<1>10. \A i \in 1 .. Len(order) : Loop(body, Wrote(w, {}), order) \in got[order[i]]
  BY <1>1, <1>5, <1>6, <1>8, <1>9, LoopGets
<1>11. Loop(body, Wrote(w, {}), order) \in WrittenOf(w, S)
  BY <1>1, <1>5, <1>6, LoopIn
<1>12. PICK V \in SUBSET S : Loop(body, Wrote(w, {}), order) = Wrote(w, V)
  BY <1>11 DEF WrittenOf
<1>13. ASSUME NEW o \in S PROVE o \in V
  <2>1. PICK i \in 1 .. Len(order) : order[i] = o
    BY <1>1
  <2>2. Wrote(w, V) \in got[o]
    BY <1>10, <1>12, <2>1
  <2>3. PICK T \in {T \in SUBSET S : o \in T} : Wrote(w, V) = Wrote(w, T)
    BY <1>7, <2>2
  <2> QED
    BY <2>3 DEF Wrote
<1>14. V = S
  BY <1>13
<1> QED
  BY <1>3, <1>12, <1>14

-----------------------------------------------------------------------------
(* Files that have all their entries require *)

\* The entries of the file require what those of base do and can be read
\* there; the file has all they require, and nothing but what is stored for
\* users.
Backed(file, base) ==
  /\ Within(file, base)
  /\ Closed(file, DOMAIN file)
  /\ \A n \in DOMAIN file : CanRead(base, n)
  /\ \A T : StoredUsers(file) \subseteq T /\ Closed(file, T) => DOMAIN file \subseteq T

\* What is in such a file can be read from it, and is what is loaded.
LEMMA BackedLoads ==
  ASSUME NEW file, IsFile(file), PlainFile(file), NEW base, IsFile(base),
         PlainFile(base), Backed(file, base)
  PROVE  Loads(file) /\ StoredNames(file) = DOMAIN file
<1>1. ASSUME NEW n \in DOMAIN file PROVE CanRead(file, n)
  BY WithinRead DEF Backed
<1>2. Loads(file)
  BY <1>1 DEF Loads, StoredUsers
<1>3. /\ StoredNames(file) \subseteq DOMAIN file
      /\ StoredUsers(file) \subseteq StoredNames(file)
      /\ \A n \in StoredNames(file) : file[n].reqs \subseteq StoredNames(file)
  BY <1>2, StoredIn
<1>4. Closed(file, StoredNames(file))
  BY <1>3 DEF Closed
<1>5. DOMAIN file \subseteq StoredNames(file)
  BY <1>3, <1>4 DEF Backed
<1> QED
  BY <1>2, <1>3, <1>5

\* The file has the entries of the objects of M, but for the flags.
RecordedIn(file, h, o) ==
  [file[NameOf(o)] EXCEPT !.using = FALSE] = [EntryOf(h, o) EXCEPT !.using = FALSE]
UpToDate(file, h, M) ==
  DOMAIN file = NamesOf(M) /\ \A o \in M : RecordedIn(file, h, o)

\* The fields of an entry.
LEMMA EntryFields ==
  ASSUME NEW D, D \subseteq Object, NEW h \in [D -> Fields(D)], NEW o \in D
  PROVE  /\ EntryOf(h, o).reqs = NamesOf(h[o].reqs)
         /\ EntryOf(h, o).using = h[o].using
BY DEF EntryOf, Fields

\* What has been written of objects with names of their own.
LEMMA WroteEntries ==
  ASSUME NEW w, NEW W, OneEach(W)
  PROVE  /\ DOMAIN Entries(Wrote(w, W)) = NamesOf(W)
         /\ \A o \in W : Entries(Wrote(w, W))[NameOf(o)] = EntryOf(w.heap, o)
<1>1. Wrote(w, W).written = W /\ Wrote(w, W).world = w
  BY DEF Wrote
<1>2. DOMAIN Entries(Wrote(w, W)) = NamesOf(W)
  BY <1>1 DEF Entries
<1>3. ASSUME NEW o \in W PROVE Entries(Wrote(w, W))[NameOf(o)] = EntryOf(w.heap, o)
  <2>1. NameOf(o) \in NamesOf(W)
    BY DEF NamesOf
  <2>2. (CHOOSE p \in W : NameOf(p) = NameOf(o)) = o
    BY DEF OneEach
  <2> QED
    BY <1>1, <2>1, <2>2 DEF Entries
<1> QED
  BY <1>2, <1>3

\* All of a tidy manager whose objects require what base says makes such a
\* file, and it is up to date.
LEMMA EntriesBacked ==
  ASSUME NEW D, D \subseteq Object, NEW w \in Worlds(D),
         Tidy(w.heap, w.map), NEW base, IsFile(base), Mirrors(w.heap, w.map, base)
  PROVE  /\ Backed(Entries(Wrote(w, w.map)), base)
         /\ UpToDate(Entries(Wrote(w, w.map)), w.heap, w.map)
<1>1. PICK h, M, f : h = w.heap /\ M = w.map /\ f = Entries(Wrote(w, w.map))
  OBVIOUS
<1>2. h \in [D -> Fields(D)] /\ M \in SUBSET D
  BY <1>1, WorldFields
<1>3. OneEach(M) /\ KeepsReqs(h, M) /\ M \subseteq Closure(h, Askers(h, M))
  BY <1>1 DEF Tidy, Orderly
<1>4. DOMAIN f = NamesOf(M) /\ \A o \in M : f[NameOf(o)] = EntryOf(h, o)
  BY <1>1, <1>3, WroteEntries
<1>5. \A o \in M : /\ f[NameOf(o)].reqs = NamesOf(h[o].reqs)
                   /\ f[NameOf(o)].using = h[o].using
  BY <1>2, <1>4, EntryFields
<1>6. \A n \in DOMAIN f : \E o \in M : n = NameOf(o)
  BY <1>4 DEF NamesOf
<1>7. Within(f, base) /\ \A n \in DOMAIN f : CanRead(base, n)
  BY <1>1, <1>5, <1>6 DEF Mirrors, Within
<1>8. Closed(f, DOMAIN f)
  <2>1. ASSUME NEW o \in M PROVE f[NameOf(o)].reqs \subseteq NamesOf(M)
    BY <1>3, <1>5 DEF KeepsReqs, NamesOf
  <2> QED
    BY <1>4, <1>6, <2>1 DEF Closed
<1>9. ASSUME NEW T, StoredUsers(f) \subseteq T, Closed(f, T)
      PROVE  DOMAIN f \subseteq T
  <2> DEFINE Q == {o \in M : NameOf(o) \in T}
  <2>1. Askers(h, M) \subseteq Q
    BY <1>4, <1>5, <1>9 DEF Askers, StoredUsers, NamesOf
  <2>2. KeepsReqs(h, Q)
    <3>1. ASSUME NEW o \in Q, NEW r \in h[o].reqs PROVE r \in Q
      <4>1. r \in M
        BY <1>3 DEF KeepsReqs
      <4>2. NameOf(o) \in DOMAIN f /\ NameOf(r) \in f[NameOf(o)].reqs
        BY <1>4, <1>5 DEF NamesOf
      <4>3. NameOf(r) \in T
        BY <1>9, <4>2 DEF Closed
      <4> QED
        BY <4>1, <4>3
    <3> QED
      BY <3>1 DEF KeepsReqs
  <2>3. Q \in SUBSET D /\ Askers(h, M) \in SUBSET D
    BY <1>2 DEF Askers
  <2> HIDE DEF Q
  <2>4. Closure(h, Askers(h, M)) \subseteq Q
    BY <1>2, <2>1, <2>2, <2>3, ReachedIs
  <2>5. M \subseteq Q
    BY <1>3, <2>4
  <2> QED
    BY <1>6, <2>5 DEF Q
<1>10. Backed(f, base)
  BY <1>7, <1>8, <1>9 DEF Backed
<1>11. UpToDate(f, h, M)
  BY <1>4 DEF UpToDate, RecordedIn
<1> QED
  BY <1>1, <1>10, <1>11

\* A tidy manager whose objects require what base says is written as it is.
LEMMA TidyWritten ==
  ASSUME NEW D, D \subseteq Object, NEW w \in Worlds(D), w.failed = "no",
         Tidy(w.heap, w.map), NEW base, IsFile(base), PlainFile(base),
         Mirrors(w.heap, w.map, base), NEW order \in Orders(w.map)
  PROVE  WriteAll(w, order) = Wrote(w, w.map)
<1>1. PICK h, M : h = w.heap /\ M = w.map
  OBVIOUS
<1>2. h \in [D -> Fields(D)] /\ M \in SUBSET D /\ OneEach(M) /\ KeepsReqs(h, M)
  BY <1>1, WorldFields DEF Tidy, Orderly
<1>3. ASSUME NEW o \in M PROVE Sprouts(h, o)
  <2>1. Below(h, o) \subseteq M
    <3>1. o \in D /\ h[o].reqs \subseteq M
      BY <1>2 DEF KeepsReqs
    <3> QED
      BY <1>2, <3>1, BelowIs
  <2>2. OneEach(Below(h, o))
    BY <1>2, <2>1 DEF OneEach
  <2>3. Mirrors(h, M, base)
    BY <1>1
  <2> QED
    BY <1>2, <2>2, <2>3, MirrorSprouts
<1>4. order \in Orders(M) /\ KeepsReqs(w.heap, M) /\ \A o \in M : Sprouts(w.heap, o)
  BY <1>1, <1>2, <1>3
<1>5. WriteAll(w, order) = Wrote(w, M)
  BY <1>2, <1>4, WriteAllExact
<1> QED
  BY <1>1, <1>5

\* What add has left, and what write_package_to_json makes of it.
AddedMirrors(D, root, a, base) ==
  /\ Mirrors(a.heap, a.map \cup {root}, base)
  /\ WriteToJson(a, root) = Wrote(a, Reach(a.heap, root))
  /\ Reach(a.heap, root) \in SUBSET (a.map \cup {root})
  /\ OneEach(Reach(a.heap, root))
  /\ NamesOf(Reach(a.heap, root)) = Closure(base, {NameOf(root)})

\* If what was read requires what base says, what has been added does, and
\* its entries are written without an exception.
LEMMA AddedWritten ==
  ASSUME NEW D, D \subseteq Object, NEW h \in [D -> Fields(D)], NEW M,
         NEW root \in D, NEW base, IsFile(base), PlainFile(base),
         Mirrors(h, D, base), NEW a, AddedTo(D, h, M, root, a)
  PROVE  AddedMirrors(D, root, a, base)
<1>1. PICK g : g = a.heap
  OBVIOUS
<1>2. PICK N : N = a.map
  OBVIOUS
<1>3. PICK S : S = N \cup {root}
  OBVIOUS
<1>4. /\ a \in Worlds(D) /\ a.failed = "no" /\ Tidy(g, N) /\ g[root].reqs \subseteq N
  BY <1>1, <1>2 DEF AddedTo, Added
<1>5. g \in [D -> Fields(D)] /\ N \subseteq D
  BY <1>1, <1>2, <1>4, WorldFields
<1>6. OneEach(N) /\ KeepsReqs(g, N)
  BY <1>4 DEF Tidy, Orderly
<1>7. S \in SUBSET D /\ root \in S /\ KeepsReqs(g, S)
  BY <1>3, <1>4, <1>5, <1>6 DEF KeepsReqs
<1>8. Mirrors(g, S, base)
  <2>1. \A o \in D : NamesOf(g[o].reqs) = NamesOf(h[o].reqs)
    BY <1>1 DEF AddedTo
  <2> QED
    BY <1>7, <2>1 DEF Mirrors
<1>9. Below(g, root) \subseteq N
  BY <1>4, <1>5, <1>6, BelowIs
<1>10. OneEach(Below(g, root))
  BY <1>6, <1>9 DEF OneEach
<1>11. Sprouts(g, root)
  BY <1>5, <1>7, <1>8, <1>10, MirrorSprouts
<1>12. /\ Reach(g, root) \subseteq S
       /\ NamesOf(Reach(g, root)) = Closure(base, {NameOf(root)})
  BY <1>5, <1>7, <1>8, MirrorReach
<1>13. WriteToJson(a, root) = Wrote(a, Reach(g, root))
  BY <1>1, <1>4, <1>11, WriteExact
<1>14. OneEach(Reach(g, root))
  BY <1>11 DEF Sprouts
<1> QED
  BY <1>1, <1>2, <1>3, <1>8, <1>12, <1>13, <1>14 DEF AddedMirrors

\* A file over one that has no other names is the file.
LEMMA OverNothing ==
  ASSUME NEW f, IsFile(f), NEW g, DOMAIN g \subseteq DOMAIN f
  PROVE  Over(f, g) = f
<1>1. f \in [DOMAIN f -> Fields(Name)]
  BY DEF IsFile
<1>2. DOMAIN f \cup DOMAIN g = DOMAIN f
  OBVIOUS
<1>3. Over(f, g) = [x \in DOMAIN f |-> f[x]]
  BY <1>2 DEF Over
<1> QED
  BY <1>1, <1>3

\* What leads to all of R in a file leads to all of its entries.
LEMMA EntriesReached ==
  ASSUME NEW D, D \subseteq Object, NEW h \in [D -> Fields(D)], NEW root \in D,
         NEW base, Mirrors(h, Reach(h, root), base), NEW file,
         Within(file, base), NamesOf(Reach(h, root)) \subseteq DOMAIN file,
         NEW T, NameOf(root) \in T, Closed(file, T)
  PROVE  NamesOf(Reach(h, root)) \subseteq T
<1>1. PICK R : R = Reach(h, root)
  OBVIOUS
<1>2. /\ root \in R /\ R \in SUBSET D /\ KeepsReqs(h, R)
      /\ \A Q \in SUBSET D : root \in Q /\ KeepsReqs(h, Q) => R \subseteq Q
  BY <1>1, ReachIs
<1> DEFINE Q == {o \in R : NameOf(o) \in T}
<1>3. root \in Q /\ Q \in SUBSET D
  BY <1>2
<1>4. ASSUME NEW o \in Q, NEW r \in h[o].reqs PROVE r \in Q
  <2>1. r \in R
    BY <1>2 DEF KeepsReqs
  <2>2. /\ NameOf(o) \in DOMAIN file
        /\ file[NameOf(o)].reqs = base[NameOf(o)].reqs
        /\ NamesOf(h[o].reqs) = base[NameOf(o)].reqs
    BY <1>1 DEF Mirrors, Within, NamesOf
  <2>3. NameOf(r) \in file[NameOf(o)].reqs
    BY <2>2 DEF NamesOf
  <2>4. NameOf(r) \in T
    BY <2>2, <2>3 DEF Closed
  <2> QED
    BY <2>1, <2>4
<1>5. KeepsReqs(h, Q)
  BY <1>4 DEF KeepsReqs
<1> HIDE DEF Q
<1>6. R \subseteq Q
  BY <1>2, <1>3, <1>5
<1> QED
  BY <1>1, <1>6 DEF Q, NamesOf

\* The file after add, with the entries of what root leads to.
WithEntries(file, root, a) == Over(file, Entries(Wrote(a, Reach(a.heap, root))))

\* What has been added, in the names of R, which root leads to.
LEMMA AddedNames ==
  ASSUME NEW D, D \subseteq Object, NEW h, NEW M, NEW root \in D, NEW base,
         NEW a, AddedTo(D, h, M, root, a), AddedMirrors(D, root, a, base)
  PROVE  NamesOf(a.map) = NamesOf(M) \cup NamesOf(Reach(a.heap, root))
<1>1. PICK R : R = Reach(a.heap, root)
  OBVIOUS
<1>2. M \subseteq a.map /\ a.map \subseteq M \cup R
  BY <1>1 DEF AddedTo, Reach
<1>3. R \subseteq a.map \cup {root}
  BY <1>1 DEF AddedMirrors
<1>4. NameOf(root) \in NamesOf(a.map)
  BY DEF AddedTo, NamesOf
<1> QED
  BY <1>1, <1>2, <1>3, <1>4 DEF NamesOf

\* If the file has the name of root it does not change.
LEMMA FileStays ==
  ASSUME NEW D, D \subseteq Object, NEW root \in D, NEW base, IsFile(base),
         PlainFile(base), NEW a, AddedMirrors(D, root, a, base),
         NEW file, IsFile(file), PlainFile(file), Backed(file, base),
         NameOf(root) \in DOMAIN file
  PROVE  WithEntries(file, root, a) = file
<1>1. PICK R, n : R = Reach(a.heap, root) /\ n = NameOf(root)
  OBVIOUS
<1>2. NamesOf(R) = Closure(base, {n}) /\ OneEach(R)
  BY <1>1 DEF AddedMirrors
<1>3. CanRead(file, n) /\ Closure(base, {n}) = Closure(file, {n})
  BY <1>1, WithinRead DEF Backed
<1>4. Closure(file, {n}) \subseteq DOMAIN file
  BY <1>3, Readings
<1>5. DOMAIN Entries(Wrote(a, R)) \subseteq DOMAIN file
  BY <1>2, <1>3, <1>4, WroteEntries
<1> QED
  BY <1>1, <1>5, OverNothing DEF WithEntries

\* It has the entries of file, and those of R for other names.
FillsIn(new, file, h, R) ==
  /\ DOMAIN new = DOMAIN file \cup NamesOf(R)
  /\ \A n \in DOMAIN file : new[n] = file[n]
  /\ \A o \in R : NameOf(o) \notin DOMAIN file => new[NameOf(o)] = EntryOf(h, o)

\* The entries of what root leads to.
LEMMA WithEntriesIs ==
  ASSUME NEW D, D \subseteq Object, NEW root \in D, NEW base,
         NEW a \in Worlds(D), AddedMirrors(D, root, a, base), NEW file
  PROVE  FillsIn(WithEntries(file, root, a), file, a.heap, Reach(a.heap, root))
<1>1. PICK R, g : R = Reach(a.heap, root) /\ g = Entries(Wrote(a, R))
  OBVIOUS
<1>2. OneEach(R)
  BY <1>1 DEF AddedMirrors
<1>3. DOMAIN g = NamesOf(R) /\ \A o \in R : g[NameOf(o)] = EntryOf(a.heap, o)
  BY <1>1, <1>2, WroteEntries
<1>4. PICK new : new = Over(file, g)
  OBVIOUS
<1>5. /\ DOMAIN new = DOMAIN file \cup DOMAIN g
      /\ \A n \in DOMAIN file : new[n] = file[n]
      /\ \A n \in DOMAIN g : n \notin DOMAIN file => new[n] = g[n]
  BY <1>4 DEF Over
<1>6. \A o \in R : NameOf(o) \in NamesOf(R)
  BY DEF NamesOf
<1>7. WithEntries(file, root, a) = new
  BY <1>1, <1>4 DEF WithEntries
<1> QED
  BY <1>1, <1>3, <1>5, <1>6, <1>7 DEF FillsIn

\* What add writes keeps the file backed.
LEMMA AddedBacked ==
  ASSUME NEW D, D \subseteq Object, NEW h, NEW M, NEW root \in D, NEW base,
         IsFile(base), PlainFile(base), NEW a, AddedTo(D, h, M, root, a),
         AddedMirrors(D, root, a, base), NEW file, IsFile(file), PlainFile(file),
         Backed(file, base), NamesOf(M) \subseteq DOMAIN file
  PROVE  Backed(WithEntries(file, root, a), base)
<1>1. PICK g, R, new : g = a.heap /\ R = Reach(g, root)
                         /\ new = WithEntries(file, root, a)
  OBVIOUS
<1>2. a \in Worlds(D) /\ g \in [D -> Fields(D)]
  BY <1>1, WorldFields DEF AddedTo, Added
<1>3. CASE NameOf(root) \in DOMAIN file
  BY <1>3, FileStays
<1>4. CASE NameOf(root) \notin DOMAIN file
  <2>1. /\ DOMAIN new = DOMAIN file \cup NamesOf(R)
        /\ \A n \in DOMAIN file : new[n] = file[n]
        /\ \A o \in R : NameOf(o) \notin DOMAIN file =>
             new[NameOf(o)] = EntryOf(g, o)
    <3>1. FillsIn(WithEntries(file, root, a), file, a.heap, Reach(a.heap, root))
      BY <1>2, WithEntriesIs
    <3> QED
      BY <1>1, <3>1 DEF FillsIn
  <2>2. root \in R /\ R \in SUBSET D /\ KeepsReqs(g, R)
    BY <1>1, <1>2, ReachIs
  <2>3. Mirrors(g, R, base)
    BY <1>1 DEF AddedMirrors, Mirrors
  <2>4. ASSUME NEW o \in R, NameOf(o) \notin DOMAIN file
        PROVE  /\ new[NameOf(o)].reqs = NamesOf(g[o].reqs)
               /\ new[NameOf(o)].using = g[o].using
    BY <1>2, <2>1, <2>2, <2>4, EntryFields
  <2>5. ASSUME NEW n \in DOMAIN new, n \notin DOMAIN file
        PROVE  \E o \in R : n = NameOf(o)
    BY <2>1, <2>5 DEF NamesOf
  <2>6. ASSUME NEW n \in DOMAIN new
        PROVE  n \in DOMAIN base /\ new[n].reqs = base[n].reqs /\ CanRead(base, n)
    <3>1. CASE n \in DOMAIN file
      BY <2>1, <3>1 DEF Backed, Within
    <3>2. CASE n \notin DOMAIN file
      BY <2>3, <2>4, <2>5, <3>2 DEF Mirrors
    <3> QED
      BY <3>1, <3>2
  <2>7. Within(new, base)
    BY <2>6 DEF Within
  <2>8. Closed(new, DOMAIN new)
    <3>1. ASSUME NEW n \in DOMAIN new PROVE new[n].reqs \subseteq DOMAIN new
      <4>1. CASE n \in DOMAIN file
        BY <2>1, <4>1 DEF Backed, Closed
      <4>2. CASE n \notin DOMAIN file
        <5>1. PICK o \in R : n = NameOf(o)
          BY <2>5, <4>2
        <5>2. new[n].reqs = NamesOf(g[o].reqs) /\ g[o].reqs \subseteq R
          BY <2>2, <2>4, <4>2, <5>1 DEF KeepsReqs
        <5> QED
          BY <2>1, <5>2 DEF NamesOf
      <4> QED
        BY <4>1, <4>2
    <3> QED
      BY <3>1 DEF Closed
  <2>9. new[NameOf(root)].using
    <3>1. NameOf(root) \notin NamesOf(M)
      BY <1>4
    <3>2. g[root].using
      BY <1>1, <3>1 DEF AddedTo
    <3> QED
      BY <1>4, <2>2, <2>4, <3>2
  <2>10. ASSUME NEW T, StoredUsers(new) \subseteq T, Closed(new, T)
         PROVE  DOMAIN new \subseteq T
    <3>1. StoredUsers(file) \subseteq T
      BY <2>1, <2>10 DEF StoredUsers
    <3>2. Closed(file, T)
      BY <2>1, <2>10 DEF Closed
    <3>3. DOMAIN file \subseteq T
      BY <3>1, <3>2 DEF Backed
    <3>4. NameOf(root) \in T
      BY <2>1, <2>2, <2>9, <2>10 DEF StoredUsers, NamesOf
    <3>5. NamesOf(R) \subseteq DOMAIN new
      BY <2>1
    <3>6. NamesOf(R) \subseteq T
      <4>1. Mirrors(g, Reach(g, root), base) /\ NamesOf(Reach(g, root)) \subseteq DOMAIN new
        BY <1>1, <2>3, <3>5
      <4>2. NamesOf(Reach(g, root)) \subseteq T
        BY <1>2, <2>7, <2>10, <3>4, <4>1, EntriesReached
      <4> QED
        BY <1>1, <4>2
    <3> QED
      BY <2>1, <3>3, <3>6
  <2>11. Backed(new, base)
    BY <2>6, <2>7, <2>8, <2>10 DEF Backed
  <2> QED
    BY <1>1, <2>11
<1> QED
  BY <1>3, <1>4

\* And up to date, if it was.
LEMMA AddedUpToDate ==
  ASSUME NEW D, D \subseteq Object, NEW h \in [D -> Fields(D)], NEW M \in SUBSET D,
         NEW root \in D, NEW base, NEW a, AddedTo(D, h, M, root, a),
         AddedMirrors(D, root, a, base), NEW file, UpToDate(file, h, M)
  PROVE  UpToDate(WithEntries(file, root, a), a.heap, a.map)
<1>1. PICK g, R, new, N : /\ g = a.heap /\ R = Reach(a.heap, root)
                          /\ new = WithEntries(file, root, a) /\ N = a.map
  OBVIOUS
<1>2. a \in Worlds(D) /\ g \in [D -> Fields(D)] /\ N \subseteq D /\ OneEach(N)
  BY <1>1, WorldFields DEF AddedTo, Added, Tidy
<1>3. /\ DOMAIN new = DOMAIN file \cup NamesOf(R)
      /\ \A n \in DOMAIN file : new[n] = file[n]
      /\ \A o \in R : NameOf(o) \notin DOMAIN file => new[NameOf(o)] = EntryOf(g, o)
  <2>1. FillsIn(WithEntries(file, root, a), file, a.heap, Reach(a.heap, root))
    BY <1>2, WithEntriesIs
  <2> QED
    BY <1>1, <2>1 DEF FillsIn
<1>4. DOMAIN file = NamesOf(M) /\ \A o \in M : RecordedIn(file, h, o)
  BY DEF UpToDate
<1>5. DOMAIN new = NamesOf(N)
  <2>1. NamesOf(N) = NamesOf(M) \cup NamesOf(R)
    BY <1>1, AddedNames
  <2> QED
    BY <1>3, <1>4, <2>1
<1>6. ASSUME NEW o \in N PROVE RecordedIn(new, g, o)
  <2>1. CASE o \in M
    <3>1. NameOf(o) \in DOMAIN file
      BY <1>4, <2>1 DEF NamesOf
    <3>2. new[NameOf(o)] = file[NameOf(o)] /\ RecordedIn(file, h, o)
      BY <1>3, <1>4, <2>1, <3>1
    <3>3. g[o] = [h[o] EXCEPT !.using = g[o].using]
      BY <1>1, <2>1 DEF AddedTo
    <3>4. h[o] \in Fields(D)
      BY <2>1
    <3>5. [EntryOf(g, o) EXCEPT !.using = FALSE] = [EntryOf(h, o) EXCEPT !.using = FALSE]
      BY <3>3, <3>4 DEF EntryOf, Fields
    <3> QED
      BY <3>2, <3>5 DEF RecordedIn
  <2>2. CASE o \notin M
    <3>1. M \subseteq N /\ o \in R
      BY <1>1, <2>2 DEF AddedTo, Reach
    <3>2. NameOf(o) \notin NamesOf(M)
      BY <1>2, <2>2, <3>1 DEF OneEach, NamesOf
    <3>3. new[NameOf(o)] = EntryOf(g, o)
      BY <1>3, <1>4, <3>1, <3>2
    <3> QED
      BY <3>3 DEF RecordedIn
  <2> QED
    BY <2>1, <2>2
<1> QED
  BY <1>1, <1>5, <1>6 DEF UpToDate

-----------------------------------------------------------------------------
(* What is read and what is loaded *)

\* What is required is all that matters.
LEMMA MirrorsAlike ==
  ASSUME NEW h, NEW g, NEW S, NEW T \in SUBSET S, NEW base, Mirrors(h, S, base),
         \A o \in T : NamesOf(g[o].reqs) = NamesOf(h[o].reqs)
  PROVE  Mirrors(g, T, base)
BY DEF Mirrors

\* The new objects require what their entries do.
LEMMA ReadRequires ==
  ASSUME NEW D, D \subseteq Object, NEW w \in Worlds(D), NEW file, IsFile(file),
         NEW n, CanRead(file, n), HasRoom(w, Closure(file, {n})),
         NEW o \in DOMAIN ReadPackage(w, file, n).heap \ D
  PROVE  /\ NameOf(o) \in Closure(file, {n})
         /\ NamesOf(ReadPackage(w, file, n).heap[o].reqs) = file[NameOf(o)].reqs
<1> DEFINE R == Closure(file, {n})
<1> DEFINE new == {NewObject(w, m) : m \in R}
<1> DEFINE f(p) == [file[NameOf(p)] EXCEPT !.reqs = {NewObject(w, q) : q \in @}]
<1> DEFINE g == [p \in new |-> f(p)]
<1> DEFINE h == Over(w.heap, g)
<1>1. w.heap \in [D -> Fields(D)] /\ DOMAIN w.heap = D
  BY WorldFields
<1>2. /\ n \in R /\ R \subseteq DOMAIN file /\ R \subseteq Name
      /\ \A m \in R : file[m].reqs \subseteq R
  BY Readings
<1>3. \A m \in R : NameOf(NewObject(w, m)) = m
  BY <1>1, <1>2, NewObjectIn
<1>4. ReadPackage(w, file, n) = [w EXCEPT !.heap = h]
  BY Zenon DEF ReadPackage
<1> HIDE DEF R, f
<1>5. ReadPackage(w, file, n).heap = h
  <2> HIDE DEF h
  <2> QED
    BY <1>4, WorldFields DEF Worlds
<1>6. o \in new /\ h[o] = f(o)
  <2>1. DOMAIN h = D \cup new /\ \A p \in new : p \notin D => h[p] = f(p)
    BY <1>1 DEF Over
  <2> HIDE DEF h, new
  <2> QED
    BY <1>5, <2>1
<1>7. PICK m \in R : o = NewObject(w, m)
  BY <1>6
<1>8. NameOf(o) = m /\ file[m] \in Fields(Name) /\ file[m].reqs \subseteq R
  BY <1>2, <1>3, <1>7 DEF IsFile
<1>9. f(o).reqs = {NewObject(w, q) : q \in file[m].reqs}
  BY <1>8 DEF f, Fields
<1>10. NamesOf(f(o).reqs) = file[m].reqs
  BY <1>3, <1>8, <1>9 DEF NamesOf
<1> QED
  BY <1>5, <1>6, <1>7, <1>8, <1>10 DEF R

\* What has been read from a file within base requires what base says.
LEMMA ReadMirrors ==
  ASSUME NEW D, D \subseteq Object, NEW w \in Worlds(D), NEW base, IsFile(base),
         PlainFile(base), Mirrors(w.heap, D, base), NEW file, IsFile(file),
         PlainFile(file), Within(file, base), NEW n, CanRead(file, n),
         HasRoom(w, Closure(file, {n})), NEW E, NEW root,
         TreeRead(D, w, E, root, ReadPackage(w, file, n))
  PROVE  Mirrors(ReadPackage(w, file, n).heap, E, base)
<1>1. PICK x : x = ReadPackage(w, file, n)
  OBVIOUS
<1>2. x \in Worlds(E) /\ D \subseteq E /\ \A o \in D : x.heap[o] = w.heap[o]
  BY <1>1 DEF TreeRead
<1>3. DOMAIN x.heap = E
  BY <1>2, WorldFields
<1>4. CanRead(base, n) /\ Closure(base, {n}) = Closure(file, {n})
  BY WithinReads
<1>5. ASSUME NEW o \in E \ D
      PROVE  /\ NameOf(o) \in DOMAIN base
             /\ NamesOf(x.heap[o].reqs) = base[NameOf(o)].reqs
             /\ CanRead(base, NameOf(o))
  <2>1. o \in DOMAIN ReadPackage(w, file, n).heap \ D
    BY <1>1, <1>3
  <2>2. /\ NameOf(o) \in Closure(file, {n})
        /\ NamesOf(ReadPackage(w, file, n).heap[o].reqs) = file[NameOf(o)].reqs
    BY <2>1, ReadRequires
  <2>3. NameOf(o) \in DOMAIN file
    BY <2>2, Readings
  <2>4. CanRead(base, NameOf(o))
    BY <1>4, <2>2, ReadsBelow
  <2> QED
    BY <1>1, <2>2, <2>3, <2>4 DEF Within
<1>6. \A o \in D : /\ NameOf(o) \in DOMAIN base
                   /\ NamesOf(x.heap[o].reqs) = base[NameOf(o)].reqs
                   /\ CanRead(base, NameOf(o))
  BY <1>2 DEF Mirrors
<1> QED
  BY <1>1, <1>5, <1>6 DEF Mirrors

\* What is loaded from a file requires what the file says, and the file is up
\* to date.
LEMMA LoadedMirrors ==
  ASSUME NEW file, IsFile(file), PlainFile(file), NEW base, IsFile(base),
         PlainFile(base), Backed(file, base), NEW k \in Stamp
  PROVE  /\ Mirrors(Loaded(file, k).heap, Loaded(file, k).map, base)
         /\ UpToDate(file, Loaded(file, k).heap, Loaded(file, k).map)
<1>1. Loads(file) /\ StoredNames(file) = DOMAIN file
  BY BackedLoads
<1> DEFINE D == {<<n, k>> : n \in DOMAIN file}
<1> DEFINE f(o) == [file[NameOf(o)] EXCEPT !.reqs = {<<q, k>> : q \in @}]
<1> DEFINE h == [o \in D |-> f(o)]
<1>2. Loaded(file, k) = [heap |-> h, map |-> D, failed |-> "no"]
  BY <1>1, Zenon DEF Loaded
<1> HIDE DEF f
<1>3. Loaded(file, k).heap = h /\ Loaded(file, k).map = D
  BY <1>2
<1>4. /\ \A o \in D : NameOf(o) \in DOMAIN file /\ h[o] = f(o)
      /\ NamesOf(D) = DOMAIN file
  <2>1. \A n \in DOMAIN file : NameOf(<<n, k>>) = n
    BY DEF NameOf
  <2> QED
    BY <2>1 DEF NamesOf
<1>5. ASSUME NEW o \in D
      PROVE  /\ file[NameOf(o)] \in Fields(Name)
             /\ f(o).reqs = {<<q, k>> : q \in file[NameOf(o)].reqs}
  <2>1. file[NameOf(o)] \in Fields(Name)
    BY <1>4 DEF IsFile
  <2> QED
    BY <2>1 DEF f, Fields
<1>6. ASSUME NEW o \in D PROVE NamesOf(h[o].reqs) = file[NameOf(o)].reqs
  <2>1. PICK Q : Q = file[NameOf(o)].reqs
    OBVIOUS
  <2>2. PICK R : R = {<<q, k>> : q \in Q}
    OBVIOUS
  <2>3. h[o].reqs = R
    BY <1>4, <1>5, <2>1, <2>2
  <2>4. \A q \in Q : NameOf(<<q, k>>) = q
    BY DEF NameOf
  <2>5. {NameOf(x) : x \in R} = Q
    BY ONLY <2>2, <2>4, Zenon
  <2> QED
    BY <2>1, <2>3, <2>5 DEF NamesOf
<1>7. ASSUME NEW o \in D PROVE EntryOf(h, o) = file[NameOf(o)]
  <2>1. file[NameOf(o)] \in Fields(Name) /\ h[o] = f(o)
    BY <1>4, <1>5
  <2>2. EntryOf(h, o) = [f(o) EXCEPT !.reqs = file[NameOf(o)].reqs]
    BY <1>6, <2>1 DEF EntryOf
  <2> QED
    BY <2>1, <2>2 DEF f, Fields
<1> HIDE DEF h, D
<1>8. Mirrors(h, D, base)
  BY <1>4, <1>6 DEF Mirrors, Backed, Within
<1>9. UpToDate(file, h, D)
  BY <1>4, <1>7 DEF UpToDate, RecordedIn
<1> QED
  BY <1>3, <1>8, <1>9
=============================================================================
