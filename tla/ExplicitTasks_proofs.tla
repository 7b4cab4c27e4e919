------------------------- MODULE ExplicitTasks_proofs -------------------------
(***************************************************************************)
(* Proofs about ExplicitTasks, for teams of every size and all programs.   *)
(*                                                                         *)
(* The callbacks treat the dependence graph as TaskGraph says, so what is  *)
(* proved of TaskGraph holds of them.  Labels and segments have the shape  *)
(* that Label.cpp and Core.cpp take for granted, the marks which taskwait  *)
(* and taskgroup set in segments that labels share never take an order     *)
(* away, and only a task that has outlived one above it meets a label that *)
(* the assertions of Core.cpp rule out.                                    *)
(***************************************************************************)
EXTENDS ExplicitTasks, HappensBefore_proofs, FiniteSetTheorems, TLAPS

-----------------------------------------------------------------------------
(* The dependence graph                                                    *)

Graph == INSTANCE TaskGraph_proofs

\* No step changes the bounds that the program was started with.
LEMMA ProgramStays == Spec => [](program \in Programs)
<1>1. Init => program \in Programs
  BY DEF Init
<1>2. program \in Programs /\ [Next]_vars => (program \in Programs)'
  BY ZenonT(40) DEF Next, Step, ExpStep, Create, RegisterDependences, Begin, Finish, ReachTaskwait,
         TaskwaitEnd, GroupBegin, GroupEnd, SingleBegin, SingleEnd,
         LoopBegin, Dispatch, OrderedAcquired, OrderedReleased, LoopEnd,
         ReachBarrier, OpenBarrier, BarrierEnd, Record, vars
<1> QED BY <1>1, <1>2, PTL DEF Spec

(* The operators of the two instances of TaskGraph are the same.           *)
LEMMA SameSteps ==
  ASSUME NEW t \in ExpTasks
  PROVE  /\ \A clauses \in Clauses : TaskCreate(t, clauses) => Graph!TaskCreate(t, clauses)
         /\ Dependences(t) => Graph!Dependences(t)
         /\ TaskBegin(t) => Graph!TaskBegin(t)
         /\ TaskComplete(t) => Graph!TaskComplete(t)
<1> USE DEF NamesNone, Graph!NamesNone, NoDep, Graph!NoDep, Siblings, Graph!Siblings,
        MustPrecede, Graph!MustPrecede, Unordered, Graph!Unordered,
        Complete, Graph!Complete
<1>1. \A clauses \in Clauses : TaskCreate(t, clauses) => Graph!TaskCreate(t, clauses)
  BY DEF TaskCreate, Graph!TaskCreate, CreatorIsBusy, Graph!CreatorIsBusy
<1>2. AddDeps(t) => Graph!AddDeps(t)
  BY DEF AddDeps, Graph!AddDeps, Registered, Graph!Registered, Predecessors, Graph!Predecessors,
         Entries, Graph!Entries, HasEdge, Graph!HasEdge
<1>3. Dependences(t) => Graph!Dependences(t)
  BY <1>2 DEF Dependences, Graph!Dependences
<1>4. TaskBegin(t) => Graph!TaskBegin(t)
  BY DEF TaskBegin, Graph!TaskBegin, Excludes, Graph!Excludes
<1>5. TaskComplete(t) => Graph!TaskComplete(t)
  BY DEF TaskComplete, Graph!TaskComplete
<1> QED BY <1>1, <1>3, <1>4, <1>5

(* The clauses of a program are clauses.                                   *)
LEMMA ProgramClauses ==
  ASSUME program \in Programs
  PROVE  program.clauses \subseteq Clauses /\ NamesNone \in Clauses
  BY ProgramsAssumption DEF Bounds, Clauses, NamesNone

(* Each callback makes one step of the dependence graph or leaves it alone.*)
LEMMA GraphStep == program \in Programs /\ [Next]_vars => [Graph!GraphNext]_(Graph!graphVars)
<1> SUFFICES ASSUME program \in Programs, [Next]_vars
             PROVE  Graph!GraphNext \/ UNCHANGED depVars
  BY DEF depVars, Graph!graphVars
<1>1. ASSUME NEW p \in Tasks, Create(p) PROVE Graph!GraphNext
  <2>1. PICK c \in ExpTasks, clauses \in Clauses : TaskCreate(c, clauses)
    BY <1>1, ProgramClauses DEF Create
  <2> QED BY <2>1, SameSteps DEF Graph!GraphNext, Clauses, Graph!Clauses, DepTypes,
             Graph!DepTypes, NoDep, Graph!NoDep
<1>2. ASSUME NEW t \in ExpTasks, ExpStep(t) PROVE Graph!GraphNext
  BY <1>2, SameSteps DEF ExpStep, RegisterDependences, Begin, Finish, Graph!GraphNext
<1>3. ASSUME NEW t \in Tasks,
             \/ ReachTaskwait(t) \/ TaskwaitEnd(t) \/ GroupBegin(t) \/ GroupEnd(t)
             \/ SingleBegin(t) \/ SingleEnd(t) \/ LoopBegin(t) \/ Dispatch(t)
             \/ OrderedAcquired(t) \/ OrderedReleased(t) \/ LoopEnd(t)
             \/ ReachBarrier(t) \/ BarrierEnd(t) \/ Record(t)
      PROVE  UNCHANGED depVars
  BY <1>3 DEF ReachTaskwait, TaskwaitEnd, GroupBegin, GroupEnd, SingleBegin, SingleEnd,
              LoopBegin, Dispatch, OrderedAcquired, OrderedReleased, LoopEnd,
              ReachBarrier, BarrierEnd, Record
<1>4. ASSUME OpenBarrier \/ UNCHANGED vars PROVE UNCHANGED depVars
  BY <1>4 DEF OpenBarrier, vars
<1> QED BY <1>1, <1>2, <1>3, <1>4 DEF Next, Step

(* The callbacks implement the specification of the dependence graph.      *)
THEOREM ImplementsGraph == Spec => Graph!GraphSpec
<1>1. Init => Graph!GraphInit
  BY DEF Init, GraphInit, Graph!GraphInit, NamesNone, Graph!NamesNone, NoDep, Graph!NoDep
<1> QED BY <1>1, GraphStep, ProgramStays, PTL DEF Spec, Graph!GraphSpec

(* With teams, taskwaits, taskgroups and barriers around it, a path of     *)
(* dependences between siblings is an order of the two tasks.              *)
THEOREM PathsOrder == Spec => []PathsAreOrdered
<1>1. Graph!PathsAreOrdered => PathsAreOrdered
  BY DEF PathsAreOrdered, Graph!PathsAreOrdered, DependentTasksAreSiblings,
         Graph!DependentTasksAreSiblings, HasPath, Graph!HasPath, Nodes, Graph!Nodes,
         Started, Graph!Started, Complete, Graph!Complete, NamesNone, Graph!NamesNone,
         NoDep, Graph!NoDep, Siblings, Graph!Siblings
<1> QED BY <1>1, ImplementsGraph, Graph!PathsOrder, PTL

(* ... and the first task that names a variable is found.                  *)
THEOREM FirstIsFound == Spec => []FirstTaskIsFound
<1>1. Graph!FirstTaskIsFound => FirstTaskIsFound
  BY DEF FirstTaskIsFound, Graph!FirstTaskIsFound, HasPath, Graph!HasPath, Nodes, Graph!Nodes,
         Started, Graph!Started, NoDep, Graph!NoDep, Unordered, Graph!Unordered
<1> QED BY <1>1, ImplementsGraph, Graph!FirstIsFound, PTL

-----------------------------------------------------------------------------
(* Names                                                                   *)

(* The paths of members and of explicit tasks.                             *)
LEMMA Names ==
  /\ Root \notin Tasks /\ Root \notin Members /\ Root \notin ExpTasks
  /\ Members \cap ExpTasks = {}
  /\ \A t \in Tasks : t \in Seq(Nat) /\ Len(t) >= 1
  /\ \A m \in Members : Len(m) = 1 /\ m[1] \in Nat /\ m[1] < TeamSize /\ m = <<m[1]>>
<1>1. ASSUME NEW m \in Members
      PROVE  m \in Seq(Nat) /\ Len(m) = 1 /\ m[1] \in Nat /\ m[1] < TeamSize /\ m = <<m[1]>>
  <2>1. PICK i \in 0..TeamSize-1 : m = <<i>>
    BY DEF Members
  <2>2. i \in Nat /\ i < TeamSize
    BY TeamAssumption
  <2> QED BY <2>1, <2>2
<1>2. ASSUME NEW t \in ExpTasks PROVE t \in Seq(Nat) /\ Len(t) >= 2
  <2>0. PICK m \in Creators, s \in Paths : t = m \o s
    BY DEF ExpTasks
  <2>1. PICK n \in 1..MaxTasks : s \in [1..n -> 1..MaxTasks]
    BY DEF Paths
  <2>2. m \in Seq(Nat) /\ Len(m) = 1
    BY <1>1, TeamAssumption
  <2>3. s \in Seq(Nat) /\ Len(s) = n
    <3>1. n \in Nat /\ s \in [1..n -> Nat]
      BY <2>1, MaxTasksAssumption
    <3> QED BY <3>1
  <2> QED BY <2>0, <2>2, <2>3, ConcatProperties
<1>3. Root \in Seq(Nat) /\ Len(Root) = 0
  BY DEF Root
<1>4. \A t \in Tasks : t \in Members \/ t \in ExpTasks
  BY DEF Tasks
<1>5. ASSUME NEW m \in Members PROVE m # Root /\ m \notin ExpTasks
  <2>1. Len(m) = 1
    BY <1>1
  <2>2. m \in ExpTasks => Len(m) >= 2
    BY <1>2
  <2>3. m = Root => Len(m) = 0
    BY <1>3
  <2> QED BY <2>1, <2>2, <2>3
<1>6. \A t \in ExpTasks : t # Root
  BY <1>2, <1>3
<1> QED BY <1>1, <1>2, <1>4, <1>5, <1>6

(* The creator of the n-th task of p is p.                                 *)
LEMMA CreatorOf ==
  ASSUME NEW p \in Tasks, NEW n \in Nat, Append(p, n) \in ExpTasks
  PROVE  Creator[Append(p, n)] = p /\ Append(p, n) # p
<1>1. p \in Seq(Nat)
  BY Names
<1>2. Front(Append(p, n)) = p /\ Len(Append(p, n)) = Len(p) + 1
  BY <1>1, Ends
<1> QED BY <1>1, <1>2 DEF Creator

-----------------------------------------------------------------------------
(* Segments                                                                *)

(* What a task makes of its own segment is one of its segments again.      *)
LEMMA NewSegments ==
  ASSUME program \in Programs, NEW s \in Tasks, NEW seg \in SegmentType, NEW k, NEW n,
         ObjectOK(s, k, seg), CountsOK(seg)
  PROVE  /\ TaskCreated(seg) \in SegmentType /\ ObjectOK(s, n, TaskCreated(seg))
         /\ CountsOK(TaskCreated(seg))
         /\ TaskWaited(seg) \in SegmentType /\ ObjectOK(s, n, TaskWaited(seg))
         /\ seg.taskwait < program.waits => CountsOK(TaskWaited(seg))
         /\ GroupBegun(seg) \in SegmentType /\ ObjectOK(s, n, GroupBegun(seg))
         /\ seg.taskGroupId + seg.taskGroupLevel < 2 * program.groups => CountsOK(GroupBegun(seg))
         /\ seg.taskGroupLevel > 0 => /\ GroupEnded(seg) \in SegmentType
                                      /\ ObjectOK(s, n, GroupEnded(seg))
                                      /\ CountsOK(GroupEnded(seg))
         /\ s \in Members => /\ NextPhase(seg) \in SegmentType
                             /\ ObjectOK(s, n, NextPhase(seg)) /\ CountsOK(NextPhase(seg))
                             /\ LoopCounted(seg) \in SegmentType
                             /\ ObjectOK(s, n, LoopCounted(seg))
                             /\ CountsOK(LoopCounted(seg))
<1>0. program.groups \in Nat /\ program.waits \in Nat
  BY ProgramsAssumption, WidthAssumption DEF Bounds
<1>1. s # Root /\ (s \in Members => s \notin ExpTasks)
  BY Names
<1>2. /\ TaskCreated(seg) \in SegmentType /\ TaskWaited(seg) \in SegmentType
      /\ GroupBegun(seg) \in SegmentType
      /\ NextPhase(seg) \in SegmentType /\ LoopCounted(seg) \in SegmentType
  <2>1. TaskCreated(seg) \in SegmentType /\ TaskWaited(seg) \in SegmentType
    BY DEF TaskCreated, TaskWaited, SegmentType
  <2>2. GroupBegun(seg) \in SegmentType
    <3>1. seg.taskGroupLevel + 1 \in Nat /\ seg.taskGroupId + 1 \in Nat
      BY DEF SegmentType
    <3> QED BY <3>1 DEF GroupBegun, SegmentType
  <2>3. NextPhase(seg) \in SegmentType /\ LoopCounted(seg) \in SegmentType
    BY DEF NextPhase, LoopCounted, SegmentType
  <2> QED BY <2>1, <2>2, <2>3
<1>2a. seg.taskGroupLevel > 0 => GroupEnded(seg) \in SegmentType
  <2> HAVE seg.taskGroupLevel > 0
  <2>1. seg.taskGroupLevel - 1 \in Nat /\ seg.taskGroupId + 1 \in Nat
    BY DEF SegmentType
  <2> QED BY <2>1 DEF GroupEnded, SegmentType
<1>3. /\ ObjectOK(s, n, TaskCreated(seg)) /\ ObjectOK(s, n, TaskWaited(seg))
      /\ ObjectOK(s, n, GroupBegun(seg)) /\ ObjectOK(s, n, GroupEnded(seg))
  BY <1>1 DEF TaskCreated, TaskWaited, GroupBegun, GroupEnded, SegmentType, ObjectOK
<1>4. s \in Members => /\ ObjectOK(s, n, NextPhase(seg))
                       /\ ObjectOK(s, n, LoopCounted(seg))
  BY <1>1 DEF NextPhase, LoopCounted, SegmentType, ObjectOK
<1>5. /\ CountsOK(TaskCreated(seg)) /\ CountsOK(NextPhase(seg))
      /\ CountsOK(LoopCounted(seg))
      /\ seg.taskwait < program.waits => CountsOK(TaskWaited(seg))
  BY <1>0 DEF TaskCreated, TaskWaited, NextPhase, LoopCounted, SegmentType, CountsOK
<1>6. PICK begun \in 0..program.groups : seg.taskGroupId + seg.taskGroupLevel = 2 * begun
  BY DEF CountsOK
<1>7. /\ seg.taskGroupId \in Nat /\ seg.taskGroupLevel \in Nat
      /\ seg.taskGroupLevel <= seg.taskGroupId /\ seg.taskwait <= program.waits
  BY DEF CountsOK, SegmentType
<1>8. /\ GroupBegun(seg).taskGroupId = seg.taskGroupId + 1
      /\ GroupBegun(seg).taskGroupLevel = seg.taskGroupLevel + 1
      /\ GroupBegun(seg).taskwait = seg.taskwait
      /\ GroupEnded(seg).taskGroupId = seg.taskGroupId + 1
      /\ GroupEnded(seg).taskGroupLevel = seg.taskGroupLevel - 1
      /\ GroupEnded(seg).taskwait = seg.taskwait
  BY DEF GroupBegun, GroupEnded, SegmentType
<1>9. seg.taskGroupId + seg.taskGroupLevel < 2 * program.groups => CountsOK(GroupBegun(seg))
  <2> HAVE seg.taskGroupId + seg.taskGroupLevel < 2 * program.groups
  <2>1. begun + 1 \in 0..program.groups
    BY <1>0, <1>6, <1>7
  <2> QED BY <2>1, <1>6, <1>7, <1>8 DEF CountsOK
<1>10. seg.taskGroupLevel > 0 => CountsOK(GroupEnded(seg))
  BY <1>0, <1>6, <1>7, <1>8 DEF CountsOK
<1> QED BY <1>2, <1>2a, <1>3, <1>4, <1>5, <1>9, <1>10

-----------------------------------------------------------------------------
(* The heap of segment objects                                             *)

\* Objects are added, and marks are set in those there were.
Grows(heap, new) ==
  /\ HeapOK(new)
  /\ \A s \in Owners : /\ Len(heap[s]) <= Len(new[s])
                       /\ \A n \in 1..Len(heap[s]) : MarkedOnly(heap[s][n], new[s][n])

(* Marks change neither what an object is nor its counts.                  *)
LEMMA MarksKeepObject ==
  ASSUME NEW s, NEW n, NEW old, NEW new, MarkedOnly(old, new), ObjectOK(s, n, old), CountsOK(old)
  PROVE  ObjectOK(s, n, new) /\ CountsOK(new)
<1>1. ObjectOK(s, n, new)
  BY DEF MarkedOnly, ObjectOK
<1>2. CountsOK(new)
  BY DEF MarkedOnly, CountsOK
<1> QED BY <1>1, <1>2

(* An object of the heap.                                                  *)
LEMMA HeapObject ==
  ASSUME NEW heap, HeapOK(heap), NEW s \in Owners
  PROVE  /\ heap[s] \in Seq(SegmentType) /\ Len(heap[s]) \in Nat
         /\ DOMAIN heap[s] = 1..Len(heap[s])
         /\ \A n \in 1..Len(heap[s]) : /\ heap[s][n] \in SegmentType
                                       /\ ObjectOK(s, n, heap[s][n]) /\ CountsOK(heap[s][n])
<1>1. heap[s] \in Seq(SegmentType)
  BY DEF HeapOK
<1>2. Len(heap[s]) \in Nat /\ DOMAIN heap[s] = 1..Len(heap[s])
  BY <1>1, LenProperties
<1>3. \A n \in 1..Len(heap[s]) : heap[s][n] \in SegmentType
  BY <1>1, ElementOfSeq
<1> QED BY <1>1, <1>2, <1>3 DEF HeapOK

(* Nothing changes.                                                        *)
LEMMA GrowsReflexive ==
  ASSUME NEW heap, HeapOK(heap)
  PROVE  Grows(heap, heap)
<1>1. ASSUME NEW s \in Owners
      PROVE  /\ Len(heap[s]) <= Len(heap[s])
             /\ \A n \in 1..Len(heap[s]) : MarkedOnly(heap[s][n], heap[s][n])
  BY HeapObject DEF MarkedOnly
<1> QED BY <1>1 DEF Grows

(* One change after the other.                                             *)
LEMMA GrowsTransitive ==
  ASSUME NEW a, NEW b, NEW c, HeapOK(a), Grows(a, b), Grows(b, c)
  PROVE  Grows(a, c)
<1>1. ASSUME NEW s \in Owners
      PROVE  /\ Len(a[s]) <= Len(c[s])
             /\ \A n \in 1..Len(a[s]) : MarkedOnly(a[s][n], c[s][n])
  <2>1. /\ Len(a[s]) <= Len(b[s]) /\ Len(b[s]) <= Len(c[s])
        /\ Len(a[s]) \in Nat /\ Len(b[s]) \in Nat /\ Len(c[s]) \in Nat
    BY HeapObject DEF Grows
  <2>2. ASSUME NEW n \in 1..Len(a[s]) PROVE MarkedOnly(a[s][n], c[s][n])
    <3>1. n \in 1..Len(b[s])
      BY <2>1
    <3>2. MarkedOnly(a[s][n], b[s][n]) /\ MarkedOnly(b[s][n], c[s][n])
      BY <3>1 DEF Grows
    <3> QED BY <3>2 DEF MarkedOnly
  <2> QED BY <2>1, <2>2
<1> QED BY <1>1 DEF Grows

\* An object is added.
Added(heap, t, seg) == [heap EXCEPT ![t] = Append(@, seg)]

(* The heap grows by it.                                                   *)
LEMMA AddGrows ==
  ASSUME NEW heap, HeapOK(heap), NEW t \in Tasks, NEW seg \in SegmentType,
         ObjectOK(t, Len(heap[t]) + 1, seg), CountsOK(seg)
  PROVE  /\ Grows(heap, Added(heap, t, seg))
         /\ Len(Added(heap, t, seg)[t]) = Len(heap[t]) + 1
         /\ Added(heap, t, seg)[t][Len(heap[t]) + 1] = seg
         /\ \A s \in Owners \ {t} : Added(heap, t, seg)[s] = heap[s]
<1> DEFINE new == Added(heap, t, seg)
<1>0. new = [heap EXCEPT ![t] = Append(@, seg)]
  BY DEF Added
<1> HIDE DEF new
<1>1. t \in Owners /\ t # Root
  BY Names DEF Owners
<1>2. heap \in [Owners -> Seq(SegmentType)]
  BY DEF HeapOK
<1>3. heap[t] \in Seq(SegmentType) /\ Len(heap[t]) \in Nat
  BY <1>1, HeapObject
<1>4. /\ new \in [Owners -> Seq(SegmentType)] /\ new[t] = Append(heap[t], seg)
      /\ \A s \in Owners \ {t} : new[s] = heap[s]
  <2>1. Append(heap[t], seg) \in Seq(SegmentType)
    BY <1>3, Ends
  <2> QED BY <2>1, <1>0, <1>1, <1>2
<1>5. /\ Len(new[t]) = Len(heap[t]) + 1 /\ new[t][Len(heap[t]) + 1] = seg
      /\ \A n \in 1..Len(heap[t]) : new[t][n] = heap[t][n]
  BY <1>3, <1>4, Ends
<1>6. ASSUME NEW s \in Owners
      PROVE  /\ Len(heap[s]) <= Len(new[s])
             /\ \A n \in 1..Len(heap[s]) : MarkedOnly(heap[s][n], new[s][n])
             /\ \A n \in DOMAIN new[s] : ObjectOK(s, n, new[s][n]) /\ CountsOK(new[s][n])
  <2>1. /\ Len(heap[s]) \in Nat /\ DOMAIN heap[s] = 1..Len(heap[s])
        /\ \A n \in 1..Len(heap[s]) : /\ heap[s][n] \in SegmentType
                                      /\ ObjectOK(s, n, heap[s][n]) /\ CountsOK(heap[s][n])
    BY HeapObject
  <2>2. \A n \in 1..Len(heap[s]) : MarkedOnly(heap[s][n], heap[s][n])
    BY <2>1 DEF MarkedOnly
  <2>3. CASE s # t
    BY <2>1, <2>2, <2>3, <1>4
  <2>4. CASE s = t
    <3>1. new[t] \in Seq(SegmentType) /\ DOMAIN new[t] = 1..Len(heap[t]) + 1
      BY <1>1, <1>3, <1>4, <1>5, LenProperties
    <3>2. \A n \in 1..Len(heap[t]) + 1 : n \in 1..Len(heap[t]) \/ n = Len(heap[t]) + 1
      BY <1>3
    <3> QED BY <2>1, <2>2, <2>4, <3>1, <3>2, <1>3, <1>5
  <2> QED BY <2>3, <2>4
<1>7. Len(new[Root]) = program.barriers + 1
  BY <1>1, <1>4 DEF HeapOK, Owners
<1>8. HeapOK(new)
  BY <1>4, <1>6, <1>7 DEF HeapOK
<1> QED BY <1>4, <1>5, <1>6, <1>8 DEF Grows, new

(* Every object is replaced by itself with marks.                          *)
LEMMA MarkGrows ==
  ASSUME NEW heap, HeapOK(heap), NEW new,
         DOMAIN new = Owners, new = [s \in Owners |-> new[s]],
         \A s \in Owners : /\ new[s] = [n \in 1..Len(heap[s]) |-> new[s][n]]
                           /\ \A n \in 1..Len(heap[s]) : MarkedOnly(heap[s][n], new[s][n])
  PROVE  Grows(heap, new) /\ \A s \in Owners : Len(new[s]) = Len(heap[s])
<1>1. ASSUME NEW s \in Owners
      PROVE  /\ new[s] \in Seq(SegmentType) /\ Len(new[s]) = Len(heap[s])
             /\ \A n \in DOMAIN new[s] : ObjectOK(s, n, new[s][n]) /\ CountsOK(new[s][n])
  <2>1. /\ Len(heap[s]) \in Nat
        /\ \A n \in 1..Len(heap[s]) : /\ ObjectOK(s, n, heap[s][n]) /\ CountsOK(heap[s][n])
                                      /\ MarkedOnly(heap[s][n], new[s][n])
    BY HeapObject
  <2>2. \A n \in 1..Len(heap[s]) : /\ new[s][n] \in SegmentType
                                   /\ ObjectOK(s, n, new[s][n]) /\ CountsOK(new[s][n])
    BY <2>1, MarksKeepObject DEF MarkedOnly
  <2>3. new[s] \in [1..Len(heap[s]) -> SegmentType]
    BY <2>2
  <2> QED BY <2>1, <2>2, <2>3
<1>2. new \in [Owners -> Seq(SegmentType)]
  BY <1>1
<1>3. Len(new[Root]) = program.barriers + 1
  BY <1>1 DEF HeapOK, Owners
<1>4. HeapOK(new)
  BY <1>1, <1>2, <1>3 DEF HeapOK
<1>5. ASSUME NEW s \in Owners PROVE Len(heap[s]) <= Len(new[s])
  BY <1>1, HeapObject
<1> QED BY <1>1, <1>4, <1>5 DEF Grows

\* No explicit task is marked with a phase.
NoTaskIsPhased(marks, phase) ==
  \A s \in ExpTasks : \A n \in Nat : <<s, n>> \in marks => phase = 0

(* The mark of a taskwait.                                                 *)
LEMMA MarkWaitedGrows ==
  ASSUME NEW heap, HeapOK(heap), NEW marks, NEW phase \in Nat, NoTaskIsPhased(marks, phase)
  PROVE  /\ Grows(heap, MarkWaited(heap, marks, phase))
         /\ \A s \in Owners : Len(MarkWaited(heap, marks, phase)[s]) = Len(heap[s])
<1> DEFINE new == MarkWaited(heap, marks, phase)
<1>1. DOMAIN heap = Owners
  BY DEF HeapOK
<1>2. /\ new = [s \in Owners |-> new[s]] /\ DOMAIN new = Owners
      /\ \A s \in Owners : new[s] = [n \in DOMAIN heap[s] |->
           IF <<s, n>> \in marks THEN Waited(heap[s][n], phase) ELSE heap[s][n]]
  BY <1>1 DEF MarkWaited
<1> HIDE DEF new
<1>3. ASSUME NEW s \in Owners
      PROVE  /\ new[s] = [n \in 1..Len(heap[s]) |-> new[s][n]]
             /\ \A n \in 1..Len(heap[s]) : MarkedOnly(heap[s][n], new[s][n])
  <2>1. /\ Len(heap[s]) \in Nat /\ DOMAIN heap[s] = 1..Len(heap[s])
        /\ \A n \in 1..Len(heap[s]) : heap[s][n] \in SegmentType /\ ObjectOK(s, n, heap[s][n])
    BY HeapObject
  <2>2. new[s] = [n \in 1..Len(heap[s]) |-> new[s][n]]
    BY <1>2, <2>1
  <2>3. ASSUME NEW n \in 1..Len(heap[s]) PROVE MarkedOnly(heap[s][n], new[s][n])
    <3>1. heap[s][n] \in SegmentType /\ ObjectOK(s, n, heap[s][n])
      BY <2>1
    <3>2. CASE <<s, n>> \notin marks
      <4>1. new[s][n] = IF <<s, n>> \in marks THEN Waited(heap[s][n], phase) ELSE heap[s][n]
        BY <1>2, <2>1
      <4>2. new[s][n] = heap[s][n]
        BY <4>1, <3>2
      <4> QED BY <3>1, <4>2 DEF MarkedOnly
    <3>3. CASE <<s, n>> \in marks
      <4> DEFINE old == heap[s][n]
                 seg == Waited(old, phase)
      <4>1. new[s][n] = seg
        BY <1>2, <2>1, <3>3
      <4>2. seg \in SegmentType
        BY <3>1 DEF SegmentType, Waited
      <4>3. old.type = "explicit" => old.taskwaitPhase = 0 /\ phase = 0
        BY <3>1, <3>3, <2>1 DEF ObjectOK, NoTaskIsPhased
      <4>4. MarkedOnly(old, seg)
        BY <3>1, <4>2, <4>3 DEF MarkedOnly, SegmentType, Waited
      <4> QED BY <4>1, <4>4
    <3> QED BY <3>2, <3>3
  <2> QED BY <2>2, <2>3
<1>4. DOMAIN new = Owners /\ new = [s \in Owners |-> new[s]]
  BY <1>2
<1>5. \A s \in Owners : /\ new[s] = [n \in 1..Len(heap[s]) |-> new[s][n]]
                        /\ \A n \in 1..Len(heap[s]) : MarkedOnly(heap[s][n], new[s][n])
  BY <1>3
<1>6. Grows(heap, new) /\ \A s \in Owners : Len(new[s]) = Len(heap[s])
  BY <1>4, <1>5, MarkGrows
<1> QED BY <1>6 DEF new

(* The mark of a taskgroup.                                                *)
LEMMA MarkGroupSyncGrows ==
  ASSUME NEW heap, HeapOK(heap), NEW marks
  PROVE  /\ Grows(heap, MarkGroupSync(heap, marks))
         /\ \A s \in Owners : Len(MarkGroupSync(heap, marks)[s]) = Len(heap[s])
<1> DEFINE new == MarkGroupSync(heap, marks)
<1>1. DOMAIN heap = Owners
  BY DEF HeapOK
<1>2. /\ new = [s \in Owners |-> new[s]] /\ DOMAIN new = Owners
      /\ \A s \in Owners : new[s] = [n \in DOMAIN heap[s] |->
           [heap[s][n] EXCEPT !.taskGroupSync = @ \/ <<s, n>> \in marks]]
  BY <1>1 DEF MarkGroupSync
<1> HIDE DEF new
<1>3. ASSUME NEW s \in Owners
      PROVE  /\ new[s] = [n \in 1..Len(heap[s]) |-> new[s][n]]
             /\ \A n \in 1..Len(heap[s]) : MarkedOnly(heap[s][n], new[s][n])
  <2>1. /\ Len(heap[s]) \in Nat /\ DOMAIN heap[s] = 1..Len(heap[s])
        /\ \A n \in 1..Len(heap[s]) : heap[s][n] \in SegmentType
    BY HeapObject
  <2>2. new[s] = [n \in 1..Len(heap[s]) |-> new[s][n]]
    BY <1>2, <2>1
  <2>3. ASSUME NEW n \in 1..Len(heap[s]) PROVE MarkedOnly(heap[s][n], new[s][n])
    <3> DEFINE old == heap[s][n]
               mark == old.taskGroupSync \/ <<s, n>> \in marks
               seg == [old EXCEPT !.taskGroupSync = mark]
    <3>1. old \in SegmentType
      BY <2>1
    <3>2. new[s][n] = seg
      BY <1>2, <2>1
    <3>3. mark \in BOOLEAN /\ (old.taskGroupSync => mark)
      OBVIOUS
    <3> HIDE DEF mark, old
    <3>4. seg \in SegmentType
      BY <3>1, <3>3 DEF SegmentType
    <3>5. MarkedOnly(old, seg)
      BY <3>1, <3>3, <3>4 DEF MarkedOnly, SegmentType
    <3> QED BY <3>2, <3>5 DEF old
  <2> QED BY <2>2, <2>3
<1>4. DOMAIN new = Owners /\ new = [s \in Owners |-> new[s]]
  BY <1>2
<1>5. \A s \in Owners : /\ new[s] = [n \in 1..Len(heap[s]) |-> new[s][n]]
                        /\ \A n \in 1..Len(heap[s]) : MarkedOnly(heap[s][n], new[s][n])
  BY <1>3
<1>6. Grows(heap, new) /\ \A s \in Owners : Len(new[s]) = Len(heap[s])
  BY <1>4, <1>5, MarkGrows
<1> QED BY <1>6 DEF new

-----------------------------------------------------------------------------
(* Labels                                                                  *)

(* The references of a label.                                              *)
LEMMA LabelRefs ==
  ASSUME NEW heap, HeapOK(heap), NEW x, LabelOK(heap, x)
  PROVE  /\ x \in Seq(Owners \X Nat) /\ Len(x) \in Nat /\ DOMAIN x = 1..Len(x)
         /\ \A k \in 1..Len(x) :
              /\ x[k] \in Owners \X Nat /\ x[k] = <<x[k][1], x[k][2]>>
              /\ x[k][1] \in Owners /\ x[k][2] \in 1..Len(heap[x[k][1]])
              /\ ObjectAt(heap, x[k]) \in SegmentType
              /\ ObjectOK(x[k][1], x[k][2], ObjectAt(heap, x[k]))
              /\ CountsOK(ObjectAt(heap, x[k]))
<1>1. x \in Seq(Owners \X Nat) /\ Len(x) \in Nat /\ DOMAIN x = 1..Len(x)
  BY LenProperties DEF LabelOK
<1>2. ASSUME NEW k \in 1..Len(x)
      PROVE  /\ x[k] \in Owners \X Nat /\ x[k] = <<x[k][1], x[k][2]>>
             /\ x[k][1] \in Owners /\ x[k][2] \in 1..Len(heap[x[k][1]])
             /\ ObjectAt(heap, x[k]) \in SegmentType
             /\ ObjectOK(x[k][1], x[k][2], ObjectAt(heap, x[k]))
             /\ CountsOK(ObjectAt(heap, x[k]))
  <2>1. x[k] \in Owners \X Nat
    BY <1>1, ElementOfSeq
  <2>2. IsObject(heap, x[k])
    BY <1>1 DEF LabelOK
  <2>3. x[k][1] \in Owners /\ x[k][2] \in 1..Len(heap[x[k][1]])
    BY <2>2, HeapObject DEF IsObject
  <2> QED BY <2>1, <2>3, HeapObject DEF ObjectAt
<1> QED BY <1>1, <1>2

(* A label stays one while the heap grows.                                 *)
LEMMA LabelStays ==
  ASSUME NEW heap, HeapOK(heap), NEW new, Grows(heap, new), NEW x, LabelOK(heap, x)
  PROVE  /\ LabelOK(new, x)
         /\ \A k \in 1..Len(x) : MarkedOnly(ObjectAt(heap, x[k]), ObjectAt(new, x[k]))
<1>1. ASSUME NEW k \in 1..Len(x)
      PROVE  /\ MarkedOnly(ObjectAt(heap, x[k]), ObjectAt(new, x[k]))
             /\ ObjectAt(new, x[k]).type = ObjectAt(heap, x[k]).type
             /\ IsObject(new, x[k])
  <2>1. x[k][1] \in Owners /\ x[k][2] \in 1..Len(heap[x[k][1]])
    BY LabelRefs
  <2>2. MarkedOnly(ObjectAt(heap, x[k]), ObjectAt(new, x[k]))
    BY <2>1 DEF Grows, ObjectAt
  <2>3. /\ Len(heap[x[k][1]]) <= Len(new[x[k][1]])
        /\ DOMAIN new[x[k][1]] = 1..Len(new[x[k][1]])
        /\ Len(heap[x[k][1]]) \in Nat /\ Len(new[x[k][1]]) \in Nat
    BY <2>1, HeapObject DEF Grows
  <2> QED BY <2>1, <2>2, <2>3 DEF MarkedOnly, IsObject
<1>2. DOMAIN x = 1..Len(x) /\ Len(x) >= 2 /\ Len(x) \in Nat
  BY LabelRefs DEF LabelOK
<1>3. ObjectAt(new, x[2]).type = "implicit"
  BY <1>1, <1>2 DEF LabelOK
<1>4. \A k \in 3..Len(x) :
       \/ x[k][1] \in ExpTasks
       \/ k = 3 /\ x[3][1] = x[2][1] /\ ObjectAt(new, x[3]).type = "workshare"
  BY <1>1, <1>2, SMTT(30) DEF LabelOK
<1> QED BY <1>1, <1>2, <1>3, <1>4 DEF LabelOK

(* A segment is added below a label.                                       *)
LEMMA LabelLonger ==
  ASSUME NEW heap, HeapOK(heap), NEW x, LabelOK(heap, x), NEW ref \in Owners \X Nat,
         IsObject(heap, ref),
         \/ ref[1] \in ExpTasks
         \/ Len(x) = 2 /\ ref[1] = x[2][1] /\ ObjectAt(heap, ref).type = "workshare"
  PROVE  LabelOK(heap, Append(x, ref))
<1> DEFINE y == Append(x, ref)
<1>1. x \in Seq(Owners \X Nat) /\ Len(x) \in Nat /\ Len(x) >= 2 /\ DOMAIN x = 1..Len(x)
  BY LabelRefs DEF LabelOK
<1>2. /\ y \in Seq(Owners \X Nat) /\ Len(y) = Len(x) + 1 /\ y[Len(x) + 1] = ref
      /\ \A k \in 1..Len(x) : y[k] = x[k]
  BY <1>1, Ends
<1>3. DOMAIN y = 1..Len(x) + 1
  BY <1>2, LenProperties
<1> HIDE DEF y
<1>4. y[1] = x[1] /\ y[2] = x[2]
  BY <1>1, <1>2
<1>5. ASSUME NEW k \in DOMAIN y PROVE IsObject(heap, y[k])
  <2>1. k \in 1..Len(x) \/ k = Len(x) + 1
    BY <1>1, <1>3
  <2> QED BY <1>1, <1>2, <2>1 DEF LabelOK
<1>6. ASSUME NEW k \in 3..Len(y)
      PROVE  \/ y[k][1] \in ExpTasks
             \/ k = 3 /\ y[3][1] = y[2][1] /\ ObjectAt(heap, y[3]).type = "workshare"
  <2>1. k \in 3..Len(x) \/ k = Len(x) + 1
    BY <1>1, <1>2
  <2>2. CASE k \in 3..Len(x)
    <3>1. y[k] = x[k] /\ (k = 3 => y[3] = x[3])
      BY <1>1, <1>2, <2>2
    <3> QED BY <2>2, <3>1, <1>4 DEF LabelOK
  <2>3. CASE k = Len(x) + 1
    <3>1. y[k] = ref
      BY <1>2, <2>3
    <3>2. CASE ref[1] \in ExpTasks
      BY <3>1, <3>2
    <3>3. CASE Len(x) = 2 /\ ref[1] = x[2][1] /\ ObjectAt(heap, ref).type = "workshare"
      BY <1>4, <2>3, <3>1, <3>3
    <3> QED BY <3>2, <3>3
  <2> QED BY <2>1, <2>2, <2>3
<1>7. LabelOK(heap, y)
  BY <1>1, <1>2, <1>4, <1>5, <1>6 DEF LabelOK
<1> QED BY <1>7 DEF y

(* The last segment of a label is popped.                                  *)
LEMMA LabelShorter ==
  ASSUME NEW heap, HeapOK(heap), NEW x, LabelOK(heap, x), Len(x) >= 3
  PROVE  LabelOK(heap, Front(x))
<1> DEFINE y == Front(x)
<1>1. x \in Seq(Owners \X Nat) /\ Len(x) \in Nat /\ Len(x) >= 1 /\ DOMAIN x = 1..Len(x)
  BY LabelRefs
<1>2. /\ y \in Seq(Owners \X Nat) /\ Len(y) = Len(x) - 1
      /\ \A k \in 1..Len(x)-1 : y[k] = x[k]
  BY <1>1, Fronts
<1>3. DOMAIN y = 1..Len(x)-1
  BY <1>2, LenProperties
<1> HIDE DEF y
<1>a. 1 \in 1..Len(x)-1 /\ 2 \in 1..Len(x)-1 /\ (Len(x) > 3 => 3 \in 1..Len(x)-1)
  BY <1>1
<1>4. y[1] = x[1] /\ y[2] = x[2] /\ (Len(x) > 3 => y[3] = x[3])
  BY <1>2, <1>a
<1>5. ASSUME NEW k \in DOMAIN y PROVE IsObject(heap, y[k])
  <2>1. k \in DOMAIN x /\ y[k] = x[k]
    BY <1>1, <1>2, <1>3
  <2> QED BY <2>1 DEF LabelOK
<1>6. ASSUME NEW k \in 3..Len(y)
      PROVE  \/ y[k][1] \in ExpTasks
             \/ k = 3 /\ y[3][1] = y[2][1] /\ ObjectAt(heap, y[3]).type = "workshare"
  <2>1. k \in 3..Len(x) /\ y[k] = x[k] /\ Len(x) > 3
    BY <1>1, <1>2
  <2> QED BY <2>1, <1>4 DEF LabelOK
<1>7. LabelOK(heap, y)
  BY <1>1, <1>2, <1>4, <1>5, <1>6 DEF LabelOK
<1> QED BY <1>7 DEF y

(* A segment of a label is replaced by one of the same owner and type.     *)
LEMMA LabelReplaced ==
  ASSUME NEW heap, HeapOK(heap), NEW x, LabelOK(heap, x), NEW y \in Seq(Owners \X Nat),
         Len(y) = Len(x), NEW i \in 1..Len(x), \A k \in 1..Len(x) : k # i => y[k] = x[k],
         IsObject(heap, y[i]), y[i][1] = x[i][1],
         ObjectAt(heap, y[i]).type = ObjectAt(heap, x[i]).type
  PROVE  LabelOK(heap, y)
<1>1. Len(x) \in Nat /\ DOMAIN x = 1..Len(x) /\ DOMAIN y = 1..Len(x) /\ Len(x) >= 2
  BY LabelRefs, LenProperties DEF LabelOK
<1>2. ASSUME NEW k \in 1..Len(x)
      PROVE  /\ y[k][1] = x[k][1] /\ IsObject(heap, y[k])
             /\ ObjectAt(heap, y[k]).type = ObjectAt(heap, x[k]).type
  <2>1. CASE k = i
    BY <2>1
  <2>2. CASE k # i
    BY <2>2, <1>1 DEF LabelOK
  <2> QED BY <2>1, <2>2
<1>3. 1 \in 1..Len(x) /\ 2 \in 1..Len(x)
  BY <1>1
<1>4. y[1][1] = Root /\ y[2][1] \in Members /\ ObjectAt(heap, y[2]).type = "implicit"
  BY <1>2, <1>3 DEF LabelOK
<1>5. ASSUME NEW k \in 3..Len(x)
      PROVE  \/ y[k][1] \in ExpTasks
             \/ k = 3 /\ y[3][1] = y[2][1] /\ ObjectAt(heap, y[3]).type = "workshare"
  <2>1. k \in 1..Len(x)
    BY <1>1
  <2>2. \/ x[k][1] \in ExpTasks
        \/ k = 3 /\ x[3][1] = x[2][1] /\ ObjectAt(heap, x[3]).type = "workshare"
    BY DEF LabelOK
  <2> QED BY <2>1, <2>2, <1>2, <1>3
<1> QED BY <1>1, <1>2, <1>4, <1>5 DEF LabelOK

(* The tool replaces the last segment of a label.                          *)
LEMMA LabelEndReplaced ==
  ASSUME NEW heap, HeapOK(heap), NEW x, LabelOK(heap, x), NEW ref \in Owners \X Nat,
         IsObject(heap, ref), ref[1] = Last(x)[1],
         ObjectAt(heap, ref).type = ObjectAt(heap, Last(x)).type
  PROVE  /\ LabelOK(heap, ReplaceLast(x, ref))
         /\ Len(ReplaceLast(x, ref)) = Len(x) /\ ReplaceLast(x, ref)[Len(x)] = ref
         /\ \A k \in 1..Len(x)-1 : ReplaceLast(x, ref)[k] = x[k]
<1> DEFINE y == ReplaceLast(x, ref)
<1>1. /\ x \in Seq(Owners \X Nat) /\ Len(x) \in Nat /\ Len(x) >= 1 /\ Len(x) \in 1..Len(x)
      /\ Last(x) = x[Len(x)]
  BY LabelRefs DEF LabelOK, Last
<1>2. /\ y \in Seq(Owners \X Nat) /\ Len(y) = Len(x) /\ y[Len(x)] = ref
      /\ \A k \in 1..Len(x)-1 : y[k] = x[k]
  <2> DEFINE Refs == Owners \X Nat
  <2>1. x \in Seq(Refs) /\ Len(x) >= 1 /\ ref \in Refs
    BY <1>1
  <2> HIDE DEF Refs
  <2>2. /\ ReplaceLast(x, ref) \in Seq(Refs) /\ Len(ReplaceLast(x, ref)) = Len(x)
        /\ ReplaceLast(x, ref)[Len(x)] = ref
        /\ \A k \in 1..Len(x)-1 : ReplaceLast(x, ref)[k] = x[k]
    BY <2>1, LastReplaced
  <2> QED BY <2>2 DEF Refs
<1> HIDE DEF y
<1>3. \A k \in 1..Len(x) : k # Len(x) => y[k] = x[k]
  BY <1>1, <1>2
<1>4. LabelOK(heap, y)
  BY <1>1, <1>2, <1>3, LabelReplaced, ZenonT(40)
<1> QED BY <1>2, <1>4 DEF y

-----------------------------------------------------------------------------
(* What the steps do to labels                                             *)

(* The label of a task ends with its own segment.                          *)
LEMMA OwnSegment ==
  ASSUME Heap, LabelsEnd, NEW t \in Tasks, Live(t)
  PROVE  /\ LabelOK(segs, label[t]) /\ label[t] \in Seq(Owners \X Nat)
         /\ Len(label[t]) \in Nat /\ Len(label[t]) >= 2
         /\ Last(label[t]) = label[t][Len(label[t])] /\ Last(label[t])[1] = t
         /\ Own(t) = ObjectAt(segs, label[t][Len(label[t])])
         /\ Own(t) \in SegmentType /\ CountsOK(Own(t)) /\ \E n \in Nat : ObjectOK(t, n, Own(t))
         /\ t \in Owners /\ t # Root
<1>1. LabelOK(segs, label[t]) /\ t \in Owners /\ t # Root /\ (t \in Members => Exists(t))
  BY Names DEF LabelsEnd, LabelEnds, Live, Owners
<1>2. HeapOK(segs)
  BY DEF Heap
<1>3. /\ label[t] \in Seq(Owners \X Nat) /\ Len(label[t]) \in Nat /\ Len(label[t]) >= 2
      /\ Len(label[t]) \in 1..Len(label[t])
  <2>1. label[t] \in Seq(Owners \X Nat) /\ Len(label[t]) \in Nat
    BY <1>1, <1>2, LabelRefs
  <2>2. Len(label[t]) >= 2
    BY <1>1 DEF LabelOK
  <2> QED BY <2>1, <2>2
<1>4. Last(label[t]) = label[t][Len(label[t])]
  BY DEF Last
<1>5. Last(label[t])[1] = t
  <2>1. CASE t \in Members
    <3>1. /\ label[t][2][1] = t /\ (InConstruct(t) => label[t][3][1] = t)
          /\ Len(label[t]) = (IF InConstruct(t) THEN 3 ELSE 2)
      BY <2>1 DEF LabelsEnd, LabelEnds
    <3> QED BY <3>1, <1>4
  <2>2. CASE t \in ExpTasks
    BY <2>2 DEF LabelsEnd, LabelEnds
  <2> QED BY <2>1, <2>2 DEF Tasks
<1>6. Own(t) = ObjectAt(segs, label[t][Len(label[t])])
  BY <1>4 DEF Own, Obj
<1>7. /\ Own(t) \in SegmentType /\ CountsOK(Own(t))
      /\ ObjectOK(t, label[t][Len(label[t])][2], Own(t)) /\ label[t][Len(label[t])][2] \in Nat
  <2>1. label[t][Len(label[t])] \in Owners \X Nat
    BY <1>1, <1>2, <1>3, LabelRefs
  <2>2. /\ Own(t) \in SegmentType /\ CountsOK(Own(t))
        /\ ObjectOK(label[t][Len(label[t])][1], label[t][Len(label[t])][2], Own(t))
    BY <1>1, <1>2, <1>3, <1>6, LabelRefs
  <2> QED BY <2>1, <2>2, <1>4, <1>5
<1> QED BY <1>1, <1>3, <1>4, <1>5, <1>6, <1>7

\* A step of the tasks in S: objects are added and marked, and no task goes away.
Moves(S) ==
  /\ program' = program /\ Grows(segs, segs')
  /\ \A u \in Tasks : Exists(u) => Exists(u)'
  /\ \A u \in ExpTasks : life[u] # "none" => life'[u] # "none"
  /\ \A u \in Tasks \ S : /\ Len(segs'[u]) = Len(segs[u])
                          /\ at'[u] = at[u] /\ label'[u] = label[u]
                          /\ groups'[u] = groups[u] /\ children'[u] = children[u]
                          /\ u \in Members => work'[u] = work[u]
                          /\ u \in ExpTasks => life'[u] = life[u]

\* What the invariant says of one task.
TaskOK(t) ==
  LabelEnds(t) /\ PlaceOK(t) /\ NestingOK(t) /\ (t \in Members => MarkOK(t))

(* A reference in a label to an object: marks keep its counts.             *)
LEMMA ObjectStays ==
  ASSUME Heap, Grows(segs, segs'), NEW x, LabelOK(segs, x)
  PROVE  /\ LabelOK(segs', x)
         /\ \A k \in 1..Len(x) : MarkedOnly(Obj(x[k]), ObjectAt(segs', x[k]))
  BY LabelStays DEF Heap, Obj

(* What the invariant says of a task stays true while others move.         *)
LEMMA OthersKeep ==
  ASSUME Structure, NEW S, Moves(S), NEW u \in Tasks \ S
  PROVE  TaskOK(u)'
<1>1. /\ Len(segs'[u]) = Len(segs[u])
      /\ at'[u] = at[u] /\ label'[u] = label[u] /\ groups'[u] = groups[u]
      /\ children'[u] = children[u] /\ (u \in Members => work'[u] = work[u])
      /\ (u \in ExpTasks => life'[u] = life[u]) /\ program' = program
      /\ Grows(segs, segs') /\ Heap
  BY DEF Moves, Structure
<1>2. LabelEnds(u) /\ PlaceOK(u) /\ NestingOK(u) /\ (u \in Members => MarkOK(u))
  BY DEF Structure, LabelsEnd, Places, Nesting, Recorded
<1>3. Exists(u) => LabelOK(segs, label[u])
  BY <1>2 DEF LabelEnds
<1>4. Exists(u) => LabelOK(segs', label[u])
  BY <1>1, <1>3, ObjectStays
<1>5. LabelEnds(u)'
  BY <1>1, <1>2, <1>4 DEF LabelEnds, Exists, Live, InConstruct
<1>6. PlaceOK(u)'
  <2>1. u \in ExpTasks /\ life[u] # "none" => Exists(Creator[u])'
    BY <1>2 DEF PlaceOK, Moves
  <2> QED BY <2>1, <1>1, <1>2 DEF PlaceOK, Exists
<1>7. ASSUME Live(u)
      PROVE  /\ Own(u)'.taskGroupLevel = Own(u).taskGroupLevel
             /\ Own(u)'.taskwait = Own(u).taskwait
  <2>1. Len(label[u]) \in 1..Len(label[u]) /\ Last(label[u]) = label[u][Len(label[u])]
    BY <1>7, <1>1, OwnSegment DEF Structure
  <2>2. MarkedOnly(Own(u), ObjectAt(segs', Last(label[u])))
    BY <1>1, <1>3, <1>7, <2>1, ObjectStays DEF Own, Live
  <2> QED BY <1>1, <2>2 DEF MarkedOnly, Own, Obj
<1>8. ASSUME u \in Members, InConstruct(u)
      PROVE  /\ Obj(label[u][2])'.taskGroupLevel = Obj(label[u][2]).taskGroupLevel
             /\ Obj(label[u][3])'.workShareId = Obj(label[u][3]).workShareId
  <2>1. Len(label[u]) = 3 /\ Exists(u)
    BY <1>2, <1>8 DEF LabelEnds, PlaceOK
  <2>2. 2 \in 1..Len(label[u]) /\ 3 \in 1..Len(label[u])
    BY <2>1
  <2>3. /\ MarkedOnly(Obj(label[u][2]), ObjectAt(segs', label[u][2]))
        /\ MarkedOnly(Obj(label[u][3]), ObjectAt(segs', label[u][3]))
    BY <1>1, <1>3, <2>1, <2>2, ObjectStays
  <2> QED BY <1>1, <2>3 DEF MarkedOnly, Obj
<1>9. NestingOK(u)'
  <2>1. Len(groups'[u]) = (IF Live(u)' THEN Own(u)'.taskGroupLevel ELSE 0)
    BY <1>1, <1>2, <1>7 DEF NestingOK, Live, Exists
  <2>2. at'[u] = "taskwait" => Own(u)'.taskwait < program'.waits
    <3>1. at[u] = "taskwait" => Live(u)
      <4> HAVE at[u] = "taskwait"
      <4>1. u \in Members => Exists(u)
        BY <1>2 DEF PlaceOK
      <4>2. u \in ExpTasks => Exists(u)
        BY <1>2 DEF PlaceOK
      <4> QED BY <4>1, <4>2 DEF Tasks, Live
    <3> QED BY <3>1, <1>1, <1>2, <1>7 DEF NestingOK
  <2>3. \A c \in children'[u] : Creator[c] = u /\ life'[c] # "none"
    <3>1. \A c \in children[u] : c \in ExpTasks /\ Creator[c] = u /\ life[c] # "none"
      BY <1>2 DEF NestingOK, Structure, Shape
    <3> QED BY <3>1, <1>1 DEF Moves
  <2>4. u \in Members /\ InConstruct(u)' => Obj(label[u][2])'.taskGroupLevel = 0
    BY <1>1, <1>2, <1>8 DEF NestingOK, InConstruct
  <2>5. at'[u] \in {"none", "passes"} => groups'[u] = <<>>
    BY <1>1, <1>2 DEF NestingOK
  <2> QED BY <1>1, <2>1, <2>2, <2>3, <2>4, <2>5 DEF NestingOK
<1>10. u \in Members => MarkOK(u)'
  BY <1>1, <1>2, <1>8 DEF MarkOK, InConstruct
<1> QED BY <1>5, <1>6, <1>9, <1>10 DEF TaskOK

(* It is enough to look at the tasks that move.                            *)
LEMMA StructureStep ==
  ASSUME Structure, [Next]_vars, NEW S, Moves(S), Shape', hist' = hist,
         label' \in [Tasks -> Seq(Owners \X Nat)], \A t \in Tasks \cap S : TaskOK(t)',
         turn' = Cardinality(OrderedOver')
  PROVE  Structure'
<1>1. \A t \in Tasks : TaskOK(t)'
  <2>1. \A t \in Tasks \ S : TaskOK(t)'
    BY OthersKeep
  <2> QED BY <2>1
<1>2. program \in Programs /\ GraphTypeOK /\ Heap /\ Recorded /\ Grows(segs, segs') /\ program' = program
  BY DEF Structure, Moves
<1>3. GraphTypeOK'
  <2>1. Graph!GraphTypeOK <=> GraphTypeOK
    BY DEF GraphTypeOK, Graph!GraphTypeOK, Clauses, Graph!Clauses, DepTypes, Graph!DepTypes,
           NoDep, Graph!NoDep
  <2>2. Graph!GraphTypeOK' <=> GraphTypeOK'
    BY DEF GraphTypeOK, Graph!GraphTypeOK, Clauses, Graph!Clauses, DepTypes, Graph!DepTypes,
           NoDep, Graph!NoDep
  <2> QED BY <1>2, <2>1, <2>2, GraphStep, Graph!TypeStep
<1>4. Heap'
  BY <1>2 DEF Heap, Grows, HeapOK, CountsOK, ObjectOK
<1>5. LabelsEnd' /\ Nesting'
  BY <1>1 DEF LabelsEnd, Nesting, TaskOK
<1>6. Places'
  BY <1>1 DEF Places, TaskOK
<1>7. Recorded'
  <2>1. hist # <<>> => LabelOK(segs', hist)
    BY <1>2, ObjectStays DEF Recorded
  <2>2. ASSUME Len(hist) = 3, hist[3][1] \in Members
        PROVE  Obj(hist[3])'.workShareId \in Nat \cup {SingleExec}
    <3>1. hist # <<>> /\ 3 \in 1..Len(hist)
      BY <2>2
    <3>2. MarkedOnly(Obj(hist[3]), ObjectAt(segs', hist[3]))
      BY <1>2, <3>1, ObjectStays DEF Recorded
    <3>3. Obj(hist[3]).workShareId \in Nat \cup {SingleExec}
      BY <1>2, <2>2 DEF Recorded
    <3> QED BY <3>2, <3>3 DEF MarkedOnly, Obj
  <2>3. \A m \in Members : MarkOK(m)'
    BY <1>1 DEF TaskOK, Tasks
  <2>4. hist' # <<>> => LabelOK(segs', hist')
    BY <2>1
  <2>5. Len(hist') = 3 /\ hist'[3][1] \in Members =>
          Obj(hist[3])'.workShareId \in Nat \cup {SingleExec}
    BY <2>2
  <2> QED BY <2>3, <2>4, <2>5 DEF Recorded
<1> QED BY <1>2, <1>3, <1>4, <1>5, <1>6, <1>7 DEF Structure

(* A task makes a new object, which is marked at most.                     *)
LEMMA NewObject ==
  ASSUME Heap, NEW t \in Tasks, NEW seg \in SegmentType, ObjectOK(t, Len(segs[t]) + 1, seg),
         CountsOK(seg), Grows(Added(segs, t, seg), segs')
  PROVE  /\ Grows(segs, segs') /\ IsObject(segs', NextRef(t))
         /\ NextRef(t) \in Owners \X Nat /\ NextRef(t)[1] = t
         /\ MarkedOnly(seg, ObjectAt(segs', NextRef(t)))
<1> DEFINE heap == Added(segs, t, seg)
<1>1. HeapOK(segs) /\ t \in Owners
  BY DEF Heap, Owners
<1>2. /\ Grows(segs, heap) /\ Len(heap[t]) = Len(segs[t]) + 1 /\ heap[t][Len(segs[t]) + 1] = seg
  BY <1>1, AddGrows DEF heap
<1> HIDE DEF heap
<1>3. Grows(segs, segs')
  BY <1>1, <1>2, GrowsTransitive DEF heap
<1>4. Len(segs[t]) \in Nat /\ Len(segs'[t]) \in Nat /\ DOMAIN segs'[t] = 1..Len(segs'[t])
  BY <1>1, <1>3, HeapObject DEF Grows
<1>2a. Grows(heap, segs')
  BY DEF heap
<1>5. Len(segs[t]) + 1 \in 1..Len(heap[t]) /\ Len(heap[t]) <= Len(segs'[t])
  BY <1>1, <1>2, <1>2a, <1>4 DEF Grows
<1>6. Len(segs[t]) + 1 \in DOMAIN segs'[t] /\ MarkedOnly(seg, segs'[t][Len(segs[t]) + 1])
  BY <1>1, <1>2, <1>2a, <1>4, <1>5 DEF Grows
<1>7. NextRef(t)[1] = t /\ NextRef(t)[2] = Len(segs[t]) + 1 /\ NextRef(t) \in Owners \X Nat
  BY <1>1, <1>4 DEF NextRef
<1> QED BY <1>1, <1>3, <1>6, <1>7 DEF IsObject, ObjectAt

(* The label of a task once the tool has replaced its last segment.        *)
LEMMA RenewedLabel ==
  ASSUME Structure, NEW t \in Tasks, Live(t), Grows(segs, segs'), IsObject(segs', NextRef(t)),
         NextRef(t) \in Owners \X Nat, ObjectAt(segs', NextRef(t)).type = Own(t).type,
         label'[t] = ReplaceLast(label[t], NextRef(t)), at'[t] # "done",
         t \in Members => (InConstruct(t)' <=> InConstruct(t))
  PROVE  /\ label'[t] \in Seq(Owners \X Nat) /\ Len(label'[t]) = Len(label[t])
         /\ label'[t][Len(label[t])] = NextRef(t) /\ Own(t)' = ObjectAt(segs', NextRef(t))
         /\ \A k \in 1..Len(label[t])-1 : label'[t][k] = label[t][k]
         /\ LabelEnds(t)' /\ Live(t)' /\ label'[t][1] = label[t][1]
         /\ t \in Members /\ InConstruct(t) =>
              /\ Obj(label[t][2])'.taskGroupLevel = Obj(label[t][2]).taskGroupLevel
              /\ Obj(label[t][3])' = Own(t)' /\ Obj(label[t][3]) = Own(t)
<1> DEFINE n == Len(label[t])
<1>1. Heap /\ HeapOK(segs) /\ HeapOK(segs') /\ LabelsEnd
  BY DEF Structure, Heap, Grows
<1>2. /\ LabelOK(segs, label[t]) /\ label[t] \in Seq(Owners \X Nat) /\ n \in Nat /\ n >= 2
      /\ Last(label[t]) = label[t][n] /\ Last(label[t])[1] = t /\ LabelEnds(t)
      /\ Own(t) = ObjectAt(segs, label[t][n])
  BY <1>1, OwnSegment DEF LabelsEnd
<1>3. LabelOK(segs', label[t])
  BY <1>1, <1>2, ObjectStays
<1>3a. MarkedOnly(Own(t), ObjectAt(segs', Last(label[t])))
  <2>1. n \in 1..n
    BY <1>2
  <2>2. MarkedOnly(Obj(label[t][n]), ObjectAt(segs', label[t][n]))
    BY <1>1, <1>2, <2>1, ObjectStays
  <2> QED BY <2>2, <1>2 DEF Obj
<1>4. ObjectAt(segs', NextRef(t)).type = ObjectAt(segs', Last(label[t])).type
  BY <1>3a DEF MarkedOnly
<1>5. NextRef(t)[1] = Last(label[t])[1]
  BY <1>2 DEF NextRef
<1>6. /\ LabelOK(segs', label'[t]) /\ Len(label'[t]) = n /\ label'[t][n] = NextRef(t)
      /\ \A k \in 1..n-1 : label'[t][k] = label[t][k]
  BY <1>1, <1>3, <1>4, <1>5, LabelEndReplaced
<1> HIDE DEF n
<1>7. label'[t] \in Seq(Owners \X Nat) /\ Exists(t)' /\ Last(label'[t]) = NextRef(t)
  BY <1>2, <1>6 DEF LabelOK, Exists, Last
<1>8. Own(t)' = ObjectAt(segs', NextRef(t))
  BY <1>7 DEF Own, Obj
<1>9. 1 \in 1..n-1 /\ (n > 2 => 2 \in 1..n-1) /\ n-1 \in 1..n-1
  BY <1>2
<1>10. label'[t][1] = label[t][1] /\ (n > 2 => label'[t][2] = label[t][2]) /\ label'[t][n-1] = label[t][n-1]
  BY <1>6, <1>9
<1>11. t \in Members => /\ n = (IF InConstruct(t) THEN 3 ELSE 2)
                        /\ label[t][2][1] = t
  BY <1>2 DEF LabelEnds, n
<1>12. t \in Members => /\ label'[t][2][1] = t /\ n = (IF InConstruct(t)' THEN 3 ELSE 2)
                        /\ InConstruct(t)' => label'[t][3][1] = t
  <2> HAVE t \in Members
  <2>1. CASE InConstruct(t)
    BY <2>1, <1>5, <1>6, <1>10, <1>11, <1>2
  <2>2. CASE ~ InConstruct(t)
    BY <2>2, <1>5, <1>6, <1>11, <1>2
  <2> QED BY <2>1, <2>2
<1>13. t \in ExpTasks => /\ n >= 3 /\ label'[t][n-1][1] = Creator[t] /\ Last(label'[t])[1] = t
  BY <1>2, <1>5, <1>7, <1>10 DEF LabelEnds, n
<1>14. LabelEnds(t)'
  BY <1>6, <1>7, <1>12, <1>13 DEF LabelEnds
<1>15. ASSUME t \in Members, InConstruct(t)
       PROVE  /\ Obj(label[t][2])'.taskGroupLevel = Obj(label[t][2]).taskGroupLevel
              /\ Obj(label[t][3])' = Own(t)' /\ Obj(label[t][3]) = Own(t)
  <2>1. n = 3 /\ 2 \in 1..n
    BY <1>11, <1>15
  <2>2. MarkedOnly(Obj(label[t][2]), ObjectAt(segs', label[t][2]))
    BY <1>1, <1>2, <2>1, ObjectStays DEF n
  <2>3. label'[t][2] = label[t][2]
    BY <1>10, <2>1
  <2> QED BY <2>1, <2>2, <2>3, <1>2, <1>6, <1>8 DEF MarkedOnly, Obj
<1> QED BY <1>6, <1>7, <1>8, <1>10, <1>14, <1>15 DEF n, Live

-----------------------------------------------------------------------------
(* The order of objects                                                    *)

\* A task goes on with its segment or with an older one of the same kind.
Kept(u) ==
  /\ Acting(u) /\ Len(label'[u]) = Len(label[u])
  /\ \A k \in 1..Len(label[u])-1 : label'[u][k] = label[u][k]
  /\ SameKind(Own(u)', Own(u)) /\ Age(Own(u)') >= Age(Own(u))

\* y goes down from the last segment of x, or from one above it.
Extends(y, x) == Len(y) = Len(x) + 1 /\ \A k \in 1..Len(x) : y[k] = x[k]
Follows(y, x) == Len(y) <= Len(x) + 1 /\ \A k \in 1..Len(y)-1 : y[k] = x[k]

(* The labels in use are labels.                                           *)
LEMMA UsedLabels ==
  ASSUME Heap, LabelsEnd, Recorded, NEW x \in InUse
  PROVE  LabelOK(segs, x)
<1>1. ASSUME NEW t \in Tasks, Live(t), x = label[t] PROVE LabelOK(segs, x)
  BY <1>1, OwnSegment
<1>2. x = hist /\ hist # <<>> => LabelOK(segs, x)
  BY DEF Recorded
<1> QED BY <1>1, <1>2 DEF InUse

(* Marks change neither the kind nor the age of the objects in use.        *)
LEMMA UsedObjects ==
  ASSUME Heap, LabelsEnd, Recorded, Grows(segs, segs'), NEW x \in InUse, NEW k \in 1..Len(x)
  PROVE  /\ Age(Obj(x[k])) \in Nat /\ Age(ObjectAt(segs', x[k])) = Age(Obj(x[k]))
         /\ SameKind(ObjectAt(segs', x[k]), Obj(x[k]))
<1>1. LabelOK(segs, x)
  BY UsedLabels
<1>2. MarkedOnly(Obj(x[k]), ObjectAt(segs', x[k]))
  BY <1>1, ObjectStays
<1> QED BY <1>2, SMTT(30) DEF MarkedOnly, SameKind, Age, SegmentType

(* A task that does not move goes on with its segment.                     *)
LEMMA OthersAreKept ==
  ASSUME Structure, NEW S, Moves(S), NEW u \in Tasks \ S, Live(u)'
  PROVE  label'[u] = label[u] /\ label[u] \in InUse /\ (Acting(u)' => Kept(u))
<1>1. label'[u] = label[u] /\ at'[u] = at[u] /\ Live(u) /\ (Acting(u)' => Acting(u))
  BY DEF Moves, Live, Exists, Acting
<1>2. label[u] \in InUse
  BY <1>1 DEF InUse
<1>3. Len(label[u]) \in 1..Len(label[u]) /\ Last(label[u]) = label[u][Len(label[u])]
  BY <1>1, OwnSegment DEF Structure
<1>4. /\ Age(Own(u)) \in Nat /\ Age(ObjectAt(segs', Last(label[u]))) = Age(Own(u))
      /\ SameKind(ObjectAt(segs', Last(label[u])), Own(u))
  BY <1>2, <1>3, UsedObjects DEF Structure, Moves, Own
<1>5. Own(u)' = ObjectAt(segs', Last(label[u]))
  BY <1>1 DEF Own, Obj
<1> QED BY <1>1, <1>2, <1>4, <1>5 DEF Kept

\* A step of the tasks in S, in which p makes objects or a label below its own for c.
Orders(S, p, c) ==
  /\ \A u \in S \cap Tasks :
       Acting(u)' => Kept(u) \/ (u = c /\ Acting(p) /\ Extends(label'[u], label[p]))
  /\ \A u \in S \cap Tasks : Live(u)' =>
       /\ \/ label'[u] \in InUse
          \/ Len(label'[u]) <= 2
          \/ /\ Acting(p) /\ Follows(label'[u], label[p])
             /\ Len(label'[u]) > Len(label[p]) /\ Acting(p)' /\ Kept(p)
                => Age(Own(p)') > Age(Own(p))
       /\ \E z \in InUse : label'[u][1] = z[1] /\ label'[u][2][1] = z[2][1]
  /\ \A m \in Members \cap S :
       /\ label'[m][1] = label[m][1]
       /\ work'[m] = "preamble" => Age(Obj(label[m][3])') = 0

(* Such a step keeps what is known of the ages.                            *)
LEMMA AgesStep ==
  ASSUME Structure, Structure', Ages, NEW S, Moves(S), hist' = hist,
         NEW p \in Tasks, NEW c \in Tasks, Orders(S, p, c)
  PROVE  Ages'
<1> DEFINE n == Len(label[p])
<1>1. /\ Heap /\ LabelsEnd /\ Recorded /\ Heap' /\ LabelsEnd' /\ Recorded'
      /\ Grows(segs, segs') /\ HeapOK(segs')
  BY DEF Structure, Moves, Grows
<1>2. PartsShow /\ DescendantsAreBelowOlder /\ EndsDiffer /\ NoLabelIsAhead /\ PlaceHoldersAreNew
  BY DEF Ages
<1>3. ASSUME NEW x \in InUse'
      PROVE  /\ LabelOK(segs', x) /\ x \in Seq(Owners \X Nat) /\ Len(x) \in Nat /\ Len(x) >= 2
  <2>1. LabelOK(segs', x)
    <3>1. ASSUME NEW t \in Tasks, Live(t)', x = label'[t] PROVE LabelOK(segs', x)
      BY <1>1, <3>1 DEF LabelsEnd, LabelEnds, Live
    <3>2. x = hist' /\ hist' # <<>> => LabelOK(segs', x)
      BY <1>1 DEF Recorded
    <3> QED BY <3>1, <3>2 DEF InUse
  <2>2. x \in Seq(Owners \X Nat) /\ Len(x) \in Nat
    BY <2>1, <1>1, LabelRefs
  <2> QED BY <2>1, <2>2 DEF LabelOK
<1>4. ASSUME NEW x \in InUse'
      PROVE  \/ x \in InUse
             \/ \E u \in S \cap Tasks : Live(u)' /\ x = label'[u]
  <2>1. x = hist' /\ hist' # <<>> => x \in InUse
    BY DEF InUse
  <2>2. ASSUME NEW u \in Tasks \ S, Live(u)', x = label'[u] PROVE x \in InUse
    BY <2>2, OthersAreKept
  <2> QED BY <2>1, <2>2 DEF InUse
<1>5. ASSUME NEW u \in Tasks, Acting(u)'
      PROVE  Kept(u) \/ (u = c /\ Acting(p) /\ Extends(label'[u], label[p]))
  <2>1. CASE u \in S
    BY <2>1, <1>5 DEF Orders
  <2>2. CASE u \notin S
    BY <2>2, <1>5, OthersAreKept DEF Acting
  <2> QED BY <2>1, <2>2
<1>6. ASSUME NEW u \in Tasks, Acting(u)
      PROVE  /\ label[u] \in InUse /\ Len(label[u]) \in Nat /\ Len(label[u]) >= 2
             /\ Own(u) = Obj(label[u][Len(label[u])])
             /\ Age(Own(u)) \in Nat /\ Age(ObjectAt(segs', label[u][Len(label[u])])) = Age(Own(u))
             /\ SameKind(ObjectAt(segs', label[u][Len(label[u])]), Own(u))
  <2>1. /\ label[u] \in InUse /\ Len(label[u]) \in Nat /\ Len(label[u]) >= 2
        /\ Own(u) = Obj(label[u][Len(label[u])])
    BY <1>1, <1>6, OwnSegment DEF Acting, InUse, Obj
  <2>2. Len(label[u]) \in 1..Len(label[u])
    BY <2>1
  <2> QED BY <1>1, <2>1, <2>2, UsedObjects
(* A label in use goes down like one that was in use before.               *)
<1>7. ASSUME NEW x \in InUse', NEW i \in 2..Len(x)-1
      PROVE  \E z \in InUse :
               /\ i <= Len(z) /\ Len(z) \in Nat /\ \A k \in 1..i : z[k] = x[k]
               /\ \/ i < Len(z)
                  \/ /\ i = n /\ z = label[p] /\ Acting(p)
                     /\ Acting(p)' /\ Kept(p) => Age(Own(p)') > Age(Own(p))
  <2>1. CASE x \in InUse
    <3>1. i <= Len(x) /\ Len(x) \in Nat /\ i < Len(x)
      BY <1>3
    <3> QED BY <2>1, <3>1
  <2>2. CASE x \notin InUse
    <3>1. PICK u \in S \cap Tasks : Live(u)' /\ x = label'[u]
      BY <1>4, <2>2
    <3>2. /\ Acting(p) /\ Follows(x, label[p])
          /\ Len(x) > n /\ Acting(p)' /\ Kept(p) => Age(Own(p)') > Age(Own(p))
      <4>1. i \in Int /\ 2 <= i /\ i <= Len(x) - 1 /\ Len(x) \in Nat
        BY <1>3
      <4>2. ~ (Len(x) <= 2)
        BY <4>1
      <4> QED BY <3>1, <4>2, <2>2 DEF Orders
    <3>3. label[p] \in InUse /\ n \in Nat
      BY <3>2, <1>6
    <3>4. i <= n /\ \A k \in 1..i : label[p][k] = x[k]
      <4>1. Len(x) <= n + 1 /\ \A k \in 1..Len(x)-1 : x[k] = label[p][k]
        BY <3>2 DEF Follows
      <4>2. i <= Len(x) - 1 /\ Len(x) \in Nat /\ i \in Nat
        BY <1>3
      <4> QED BY <4>1, <4>2, <3>3, SMTT(30)
    <3>5. i < n \/ (i = n /\ Len(x) > n)
      BY <3>3, <3>4, <1>3
    <3> QED BY <3>2, <3>3, <3>4, <3>5
  <2> QED BY <2>1, <2>2
(* Nothing is below the segment of a task that acts.                       *)
<1>8. ASSUME Acting(p), NEW z \in InUse, n < Len(z), \A k \in 1..n : z[k] = label[p][k]
      PROVE  FALSE
  <2>1. n \in Nat /\ n \in 1..n
    BY <1>6, <1>8
  <2>2. AgreeBelow(z, label[p], n) /\ Obj(z[n]) = Own(p) /\ Age(Own(p)) \in Nat
    BY <1>6, <1>8, <2>1 DEF AgreeBelow
  <2>3. ~ SameKind(Obj(z[n]), Own(p)) \/ Age(Obj(z[n])) < Age(Own(p))
    BY <1>2, <1>8, <2>2 DEF DescendantsAreBelowOlder
  <2>4. SameKind(Own(p), Own(p))
    BY DEF SameKind
  <2>5. CASE ~ SameKind(Obj(z[n]), Own(p))
    BY <2>2, <2>4, <2>5
  <2>6. CASE Age(Obj(z[n])) < Age(Own(p))
    BY <2>2, <2>6
  <2> QED BY <2>3, <2>5, <2>6
<1> HIDE DEF n
<1>9. PartsShow'
  <2> SUFFICES ASSUME NEW x \in InUse', NEW y \in InUse', NEW i \in 1..Len(x)-1,
                      i < Len(y), AgreeBelow(x, y, i), x[i] # y[i]
               PROVE  \/ ~ SameKind(ObjectAt(segs', x[i]), ObjectAt(segs', y[i]))
                      \/ Age(ObjectAt(segs', x[i])) # Age(ObjectAt(segs', y[i]))
    BY DEF PartsShow, Obj
  <2>0. i \in Nat /\ i <= Len(x) /\ i \in 1..Len(x) /\ i \in 1..Len(y) /\ i \in 1..Len(y)-1
    BY <1>3
  <2>1. CASE i = 1
    <3>1. /\ x[1][1] = Root /\ y[1][1] = Root
          /\ x[1] = <<x[1][1], x[1][2]>> /\ y[1] = <<y[1][1], y[1][2]>>
          /\ x[1][2] \in Nat /\ y[1][2] \in Nat
          /\ ObjectOK(Root, x[1][2], ObjectAt(segs', x[1]))
          /\ ObjectOK(Root, y[1][2], ObjectAt(segs', y[1]))
      <4>1. LabelOK(segs', x) /\ LabelOK(segs', y) /\ 1 \in 1..Len(x) /\ 1 \in 1..Len(y)
        BY <1>3, <2>0, <2>1
      <4>2. x[1][1] = Root /\ y[1][1] = Root
        BY <4>1 DEF LabelOK
      <4>3. /\ x[1] \in Owners \X Nat /\ x[1] = <<x[1][1], x[1][2]>>
            /\ ObjectOK(x[1][1], x[1][2], ObjectAt(segs', x[1]))
        BY <1>1, <4>1, LabelRefs
      <4>4. /\ y[1] \in Owners \X Nat /\ y[1] = <<y[1][1], y[1][2]>>
            /\ ObjectOK(y[1][1], y[1][2], ObjectAt(segs', y[1]))
        BY <1>1, <4>1, LabelRefs
      <4> QED BY <4>2, <4>3, <4>4
    <3>2. Root \notin Members /\ Root \notin ExpTasks
      BY Names
    <3>3. /\ ObjectAt(segs', x[1]).offset = x[1][2] - 1
          /\ ObjectAt(segs', y[1]).offset = y[1][2] - 1
      BY <3>1, <3>2 DEF ObjectOK
    <3>4. x[1][2] # y[1][2]
      BY <3>1, <2>1
    <3>5. ObjectAt(segs', x[1]).offset # ObjectAt(segs', y[1]).offset
      BY <3>1, <3>3, <3>4
    <3> QED BY <3>5, <2>1 DEF SameKind
  <2>2. CASE i # 1
    <3>1. i \in 2..Len(x)-1 /\ i \in 2..Len(y)-1
      BY <2>0, <2>2
    <3>2. PICK z \in InUse :
            /\ i <= Len(z) /\ Len(z) \in Nat /\ \A k \in 1..i : z[k] = x[k]
            /\ i < Len(z) \/ (i = n /\ z = label[p] /\ Acting(p))
      BY <1>7, <3>1
    <3>3. PICK w \in InUse :
            /\ i <= Len(w) /\ Len(w) \in Nat /\ \A k \in 1..i : w[k] = y[k]
            /\ i < Len(w) \/ (i = n /\ w = label[p] /\ Acting(p))
      BY <1>7, <3>1
    <3>4. /\ i \in 1..Len(z) /\ i \in 1..Len(w) /\ z[i] = x[i] /\ w[i] = y[i] /\ z[i] # w[i]
      BY <3>2, <3>3, <2>0
    <3>5. AgreeBelow(z, w, i) /\ AgreeBelow(w, z, i)
      <4>1. \A k \in 1..i-1 : k \in 1..i
        BY <2>0
      <4>2. \A k \in 1..i-1 : z[k] = x[k] /\ w[k] = y[k]
        BY <4>1, <3>2, <3>3
      <4>3. \A k \in 1..i-1 : x[k] = y[k]
        BY DEF AgreeBelow
      <4> QED BY <4>2, <4>3 DEF AgreeBelow
    <3>6. /\ Age(Obj(z[i])) \in Nat /\ Age(ObjectAt(segs', z[i])) = Age(Obj(z[i]))
          /\ SameKind(ObjectAt(segs', z[i]), Obj(z[i]))
          /\ Age(Obj(w[i])) \in Nat /\ Age(ObjectAt(segs', w[i])) = Age(Obj(w[i]))
          /\ SameKind(ObjectAt(segs', w[i]), Obj(w[i]))
      BY <3>4, <1>1, UsedObjects
    <3>7. ~ SameKind(Obj(z[i]), Obj(w[i])) \/ Age(Obj(z[i])) # Age(Obj(w[i]))
      <4>1. CASE i < Len(z) /\ i < Len(w)
        <5>1. i \in 1..Len(z)-1
          BY <4>1, <3>4, <3>2
        <5> QED BY <5>1, <4>1, <3>4, <3>5, <1>2 DEF PartsShow
      <4>2. CASE i < Len(z) /\ i = n /\ w = label[p] /\ Acting(p)
        <5>1. Own(p) = Obj(w[i]) /\ i = Len(label[p])
          BY <4>2, <1>6 DEF n
        <5>2. ~ SameKind(Obj(z[i]), Own(p)) \/ Age(Obj(z[i])) < Age(Own(p))
          BY <4>2, <5>1, <3>5, <1>2 DEF DescendantsAreBelowOlder
        <5> QED BY <5>1, <5>2, <3>6
      <4>3. CASE i < Len(w) /\ i = n /\ z = label[p] /\ Acting(p)
        <5>1. Own(p) = Obj(z[i]) /\ i = Len(label[p])
          BY <4>3, <1>6 DEF n
        <5>2. ~ SameKind(Obj(w[i]), Own(p)) \/ Age(Obj(w[i])) < Age(Own(p))
          BY <4>3, <5>1, <3>5, <1>2 DEF DescendantsAreBelowOlder
        <5>3. SameKind(Obj(z[i]), Obj(w[i])) => SameKind(Obj(w[i]), Own(p))
          BY <5>1 DEF SameKind
        <5> QED BY <5>1, <5>2, <5>3, <3>6
      <4>4. ~ (z = label[p] /\ w = label[p])
        BY <3>4
      <4> QED BY <4>1, <4>2, <4>3, <4>4, <3>2, <3>3
    <3> QED BY <3>4, <3>6, <3>7 DEF SameKind
  <2> QED BY <2>1, <2>2
<1>10. DescendantsAreBelowOlder'
  <2> SUFFICES ASSUME NEW u \in Tasks, Acting(u)', NEW x \in InUse', Len(label'[u]) < Len(x),
                      AgreeBelow(x, label'[u], Len(label'[u]))
               PROVE  \/ ~ SameKind(ObjectAt(segs', x[Len(label'[u])]), Own(u)')
                      \/ Age(ObjectAt(segs', x[Len(label'[u])])) < Age(Own(u)')
    BY DEF DescendantsAreBelowOlder, Obj
  <2> DEFINE i == Len(label'[u])
  <2>0. i \in Nat /\ i >= 2 /\ i \in 2..Len(x)-1 /\ i \in 1..i
    <3>1. label'[u] \in InUse'
      BY DEF InUse, Acting
    <3>2. i \in Nat /\ i >= 2
      BY <3>1, <1>3
    <3> QED BY <3>2, <1>3
  <2>1. PICK z \in InUse :
          /\ i <= Len(z) /\ Len(z) \in Nat /\ \A k \in 1..i : z[k] = x[k]
          /\ \/ i < Len(z)
             \/ /\ i = n /\ z = label[p] /\ Acting(p)
                /\ Acting(p)' /\ Kept(p) => Age(Own(p)') > Age(Own(p))
    BY <2>0, <1>7
  <2>2. /\ i \in 1..Len(z) /\ z[i] = x[i]
        /\ Age(Obj(z[i])) \in Nat /\ Age(ObjectAt(segs', z[i])) = Age(Obj(z[i]))
        /\ SameKind(ObjectAt(segs', z[i]), Obj(z[i]))
    <3>1. i \in 1..Len(z) /\ z[i] = x[i]
      BY <2>0, <2>1
    <3> QED BY <3>1, <1>1, UsedObjects
  <2>3. CASE Kept(u)
    <3>1. /\ i = Len(label[u]) /\ Acting(u) /\ \A k \in 1..i-1 : label'[u][k] = label[u][k]
          /\ SameKind(Own(u)', Own(u)) /\ Age(Own(u)') >= Age(Own(u)) /\ Age(Own(u)) \in Nat
      BY <2>3, <1>6 DEF Kept
    <3>2. AgreeBelow(z, label[u], i) /\ AgreeBelow(label[u], z, i)
      BY <2>0, <2>1, <3>1 DEF AgreeBelow
    <3>3. CASE i < Len(z)
      <4>1. ~ SameKind(Obj(z[i]), Own(u)) \/ Age(Obj(z[i])) < Age(Own(u))
        BY <3>1, <3>2, <3>3, <1>2 DEF DescendantsAreBelowOlder
      <4>2. SameKind(ObjectAt(segs', x[i]), Own(u)') => SameKind(Obj(z[i]), Own(u))
        BY <2>2, <3>1 DEF SameKind
      <4>3. Age(Obj(z[i])) < Age(Own(u)) => Age(ObjectAt(segs', x[i])) < Age(Own(u)')
        <5> HAVE Age(Obj(z[i])) < Age(Own(u))
        <5>1. Age(Own(u)') \in Int
          <6>1. label'[u] \in InUse'
            BY DEF InUse, Acting
          <6>2. ObjectAt(segs', label'[u][i]) \in SegmentType
            BY <6>1, <2>0, <1>1, <1>3, LabelRefs
          <6>3. Own(u)' = ObjectAt(segs', label'[u][i])
            BY DEF Own, Obj, Last
          <6> QED BY <6>2, <6>3 DEF SegmentType, Age
        <5> QED BY <2>2, <3>1, <5>1
      <4> QED BY <4>1, <4>2, <4>3
    <3>4. CASE i = n /\ z = label[p] /\ Acting(p) /\ u # p
      <4>1. ~ SameKind(Own(u), Own(p))
        BY <3>1, <3>2, <3>4, <1>2 DEF EndsDiffer, n
      <4>2. Own(p) = Obj(z[i])
        BY <3>4, <1>6 DEF n
      <4>3. SameKind(ObjectAt(segs', x[i]), Own(u)') => SameKind(Own(u), Own(p))
        BY <2>2, <3>1, <4>2 DEF SameKind
      <4> QED BY <4>1, <4>3
    <3>5. CASE i = n /\ z = label[p] /\ u = p /\ (Acting(p)' /\ Kept(p) => Age(Own(p)') > Age(Own(p)))
      <4>1. Own(p) = Obj(z[i])
        BY <3>1, <3>5, <1>6 DEF n
      <4>2. Age(ObjectAt(segs', x[i])) = Age(Own(p)) /\ Age(Own(p)') > Age(Own(p))
        BY <2>2, <2>3, <3>5, <4>1
      <4> QED BY <4>2, <3>5
    <3> QED BY <2>1, <3>3, <3>4, <3>5
  <2>4. CASE Acting(p) /\ Extends(label'[u], label[p])
    <3>1. i = n + 1 /\ n \in Nat /\ \A k \in 1..n : label'[u][k] = label[p][k]
      BY <2>4, <1>6 DEF Extends, n
    <3>2. \A k \in 1..n : z[k] = label[p][k]
      BY <2>1, <3>1 DEF AgreeBelow
    <3>3. n < Len(z)
      BY <2>1, <3>1
    <3> QED BY <3>2, <3>3, <2>4, <1>8
  <2> QED BY <2>3, <2>4, <1>5
<1>11. EndsDiffer'
  <2> SUFFICES ASSUME NEW t \in Tasks, NEW u \in Tasks, Acting(t)', Acting(u)', t # u,
                      Len(label'[t]) = Len(label'[u]),
                      AgreeBelow(label'[t], label'[u], Len(label'[t]))
               PROVE  ~ SameKind(Own(t)', Own(u)')
    BY DEF EndsDiffer
  <2>1. CASE Kept(t) /\ Kept(u)
    <3>1. /\ Acting(t) /\ Acting(u) /\ Len(label[t]) = Len(label[u])
          /\ AgreeBelow(label[t], label[u], Len(label[t]))
      BY <2>1 DEF Kept, AgreeBelow
    <3>2. ~ SameKind(Own(t), Own(u))
      BY <3>1, <1>2 DEF EndsDiffer
    <3> QED BY <2>1, <3>2 DEF Kept, SameKind
  <2>2. ASSUME NEW r \in Tasks, NEW s \in Tasks, Acting(p), Extends(label'[r], label[p]), Kept(s),
               Len(label'[r]) = Len(label'[s]), AgreeBelow(label'[r], label'[s], Len(label'[r]))
        PROVE  FALSE
    <3>1. n \in Nat /\ Len(label'[r]) = n + 1 /\ \A k \in 1..n : label'[r][k] = label[p][k]
      BY <2>2, <1>6 DEF Extends, n
    <3>2. /\ Acting(s) /\ Len(label[s]) = n + 1
          /\ \A k \in 1..n : label'[s][k] = label[s][k]
      BY <2>2, <3>1 DEF Kept
    <3>3. \A k \in 1..n : label[s][k] = label[p][k]
      BY <2>2, <3>1, <3>2 DEF AgreeBelow
    <3>4. label[s] \in InUse /\ n < Len(label[s])
      BY <3>1, <3>2, <1>6
    <3> QED BY <3>3, <3>4, <2>2, <1>8
  <2>3. AgreeBelow(label'[u], label'[t], Len(label'[u]))
    BY DEF AgreeBelow
  <2> QED BY <2>1, <2>2, <2>3, <1>5
<1>12. ASSUME NEW m \in Members
       PROVE  label'[m][1] = label[m][1] /\ (work'[m] = "preamble" => Age(Obj(label[m][3])') = 0)
  <2>1. CASE m \in S
    BY <2>1 DEF Orders
  <2>2. CASE m \notin S
    <3>1. m \in Tasks /\ label'[m] = label[m] /\ work'[m] = work[m]
      BY <2>2 DEF Moves, Tasks
    <3>2. work'[m] = "preamble" => Age(Obj(label[m][3])') = 0
      <4> HAVE work'[m] = "preamble"
      <4>1. Age(Obj(label[m][3])) = 0
        BY <3>1, <1>2 DEF PlaceHoldersAreNew
      <4>2. /\ label[m] \in InUse /\ 3 \in 1..Len(label[m])
        <5>1. InConstruct(m) /\ Live(m)
          BY <3>1 DEF InConstruct, Structure, Places, PlaceOK, Live
        <5>2. Len(label[m]) = 3
          BY <3>1, <5>1 DEF Structure, LabelsEnd, LabelEnds
        <5> QED BY <3>1, <5>1, <5>2 DEF InUse
      <4>3. Age(ObjectAt(segs', label[m][3])) = 0
        BY <4>1, <4>2, <1>1, UsedObjects
      <4> QED BY <4>3, <3>1 DEF Obj
    <3> QED BY <3>1, <3>2
  <2> QED BY <2>1, <2>2
<1>13. NoLabelIsAhead'
  <2> SUFFICES ASSUME NEW x \in InUse' PROVE x[1][2] <= label'[x[2][1]][1][2]
    BY DEF NoLabelIsAhead
  <2>1. \E z \in InUse : x[1] = z[1] /\ x[2][1] = z[2][1]
    BY <1>4 DEF Orders
  <2>2. PICK z \in InUse : x[1] = z[1] /\ x[2][1] = z[2][1]
    BY <2>1
  <2>3. z[2][1] \in Members
    BY <1>1, UsedLabels DEF LabelOK
  <2>4. z[1][2] <= label[z[2][1]][1][2]
    BY <1>2 DEF NoLabelIsAhead
  <2> QED BY <2>2, <2>3, <2>4, <1>12
<1>14. PlaceHoldersAreNew'
  BY <1>12 DEF PlaceHoldersAreNew
<1> QED BY <1>9, <1>10, <1>11, <1>13, <1>14 DEF Ages

-----------------------------------------------------------------------------
(* The actions                                                             *)

(* Truth values stay truth values.                                         *)
LEMMA TruthChanges ==
  ASSUME NEW f \in [Tasks -> BOOLEAN], NEW t \in Tasks, NEW b \in BOOLEAN
  PROVE  [f EXCEPT ![t] = b] \in [Tasks -> BOOLEAN]
  OBVIOUS

(* What the variables besides labels and segments hold.                    *)
LEMMA ShapeStep ==
  ASSUME Shape, program \in Programs, GraphTypeOK, [Next]_vars
  PROVE  Shape'
<1> USE DEF Shape, GraphTypeOK
<1>a. /\ at \in [Tasks -> {"none", "runs", "taskwait", "passes", "barrier", "released", "done"}]
      /\ groups \in [Tasks -> Seq(Nat)] /\ children \in [Tasks -> SUBSET ExpTasks]
  OBVIOUS
<1>b. \A m \in Members : m \in Tasks
  BY DEF Tasks
<1>c. \A t \in Tasks : t \in Owners
  BY DEF Owners
<1>d. \A t \in ExpTasks : t \in Tasks
  BY DEF Tasks
<1>1. ASSUME NEW p \in Tasks, Create(p) PROVE Shape'
  <2> DEFINE c == Append(p, Made(p) + 1)
  <2>1. /\ c \in ExpTasks /\ children' = [children EXCEPT ![p] = @ \cup {c}]
        /\ \E clauses \in Clauses : TaskCreate(c, clauses)
        /\ knows' = [knows EXCEPT ![c] = knows[p]]
        /\ seen' = [seen EXCEPT ![c] = seen[p] \/ (grouped[p] /\ Len(groups[p]) <= 1)]
    BY <1>1, ProgramClauses DEF Create
  <2> HIDE DEF c
  <2>2. life' = [life EXCEPT ![c] = "created"]
    BY <2>1 DEF TaskCreate
  <2>3. {t \in ExpTasks : life'[t] # "none"} = {t \in ExpTasks : life[t] # "none"} \cup {c}
    BY <2>1, <2>2
  <2>4. IsFiniteSet({t \in ExpTasks : life'[t] # "none"})
    <3> DEFINE T == {t \in ExpTasks : life[t] # "none"}
    <3>1. IsFiniteSet(T)
      OBVIOUS
    <3> HIDE DEF T
    <3>2. IsFiniteSet(T \cup {c})
      BY <3>1, FS_AddElement
    <3> QED BY <2>3, <3>2 DEF T
  <2>5. children' \in [Tasks -> SUBSET ExpTasks]
    BY <2>1
  <2>6. knows' \in [Tasks -> BOOLEAN] /\ seen' \in [Tasks -> BOOLEAN]
    <3>1. c \in Tasks /\ knows[p] \in BOOLEAN /\ (seen[p] \/ (grouped[p] /\ Len(groups[p]) <= 1)) \in BOOLEAN
      BY <2>1, <1>d
    <3> QED BY <2>1, <3>1, TruthChanges
  <2> QED BY <2>4, <2>5, <2>6, <1>1 DEF Create, teamVars
<1>2. ASSUME NEW t \in ExpTasks, RegisterDependences(t) PROVE Shape'
  <2>1. {u \in ExpTasks : life'[u] # "none"} = {u \in ExpTasks : life[u] # "none"}
    BY <1>2 DEF RegisterDependences, Dependences
  <2> QED BY <2>1, <1>2 DEF RegisterDependences, taskVars, teamVars, truth
<1>3. ASSUME NEW t \in ExpTasks, Begin(t) PROVE Shape'
  <2>1. {u \in ExpTasks : life'[u] # "none"} = {u \in ExpTasks : life[u] # "none"}
    BY <1>3 DEF Begin, TaskBegin
  <2>2. at' = [at EXCEPT ![t] = "runs"]
    BY <1>3 DEF Begin, Go
  <2>3. knows' \in [Tasks -> BOOLEAN]
    <3> DEFINE b == knows[t] \/ \E s \in earlier[t] : MustPrecede(s, t) /\ knows[s]
    <3>1. knows' = [knows EXCEPT ![t] = b] /\ b \in BOOLEAN /\ t \in Tasks
      BY <1>3, <1>d DEF Begin
    <3> QED BY <3>1, TruthChanges
  <2> QED BY <2>1, <2>2, <2>3, <1>3 DEF Begin, taskVars, teamVars
<1>4. ASSUME NEW t \in ExpTasks, Finish(t) PROVE Shape'
  <2>1. {u \in ExpTasks : life'[u] # "none"} = {u \in ExpTasks : life[u] # "none"}
    BY <1>4 DEF Finish, TaskComplete
  <2>2. at' = [at EXCEPT ![t] = "done"]
    BY <1>4 DEF Finish, Go
  <2> QED BY <2>1, <2>2, <1>4 DEF Finish, truth, teamVars
<1>5. ASSUME NEW t \in Tasks, ReachTaskwait(t) \/ ReachBarrier(t) PROVE Shape'
  <2>1. at' = [at EXCEPT ![t] = "taskwait"] \/ at' = [at EXCEPT ![t] = "barrier"]
    BY <1>5 DEF ReachTaskwait, ReachBarrier, Go
  <2>2. UNCHANGED <<program, depVars, taskVars, teamVars, groups, hist, recorded, truth>>
    BY <1>5 DEF ReachTaskwait, ReachBarrier
  <2> QED BY <2>1, <2>2 DEF depVars, taskVars, teamVars, truth
<1>6. ASSUME NEW t \in Tasks, TaskwaitEnd(t) PROVE Shape'
  <2>1. at' = [at EXCEPT ![t] = "runs"] /\ children' = [children EXCEPT ![t] = {}]
    BY <1>6 DEF TaskwaitEnd, Go
  <2>2. knows' \in [Tasks -> BOOLEAN] /\ seen' \in [Tasks -> BOOLEAN]
    <3> DEFINE b == knows[t] \/ \E c \in ExpTasks : Creator[c] = t /\ knows[c]
               d == seen[t] \/ (recorded \in ExpTasks /\ Creator[recorded] = t /\ MadeHere(t))
    <3>1. /\ knows' = [knows EXCEPT ![t] = b] /\ b \in BOOLEAN
          /\ seen' = [seen EXCEPT ![t] = d] /\ d \in BOOLEAN
      BY <1>6 DEF TaskwaitEnd
    <3> QED BY <3>1, TruthChanges
  <2> QED BY <2>1, <2>2, <1>6 DEF TaskwaitEnd, depVars, teamVars
<1>7. ASSUME NEW t \in Tasks, GroupBegin(t) PROVE Shape'
  <2>1. Made(t) \in Nat
    <3>1. {c \in ExpTasks : Creator[c] = t /\ life[c] # "none"}
             \subseteq {c \in ExpTasks : life[c] # "none"}
      OBVIOUS
    <3> QED BY <3>1, FS_Subset, FS_CardinalityType DEF Made
  <2>2. groups' = [groups EXCEPT ![t] = Append(@, Made(t))] /\ Append(groups[t], Made(t)) \in Seq(Nat)
    BY <1>7, <2>1 DEF GroupBegin
  <2> QED BY <2>2, <1>7 DEF GroupBegin, depVars, teamVars, truth
<1>8. ASSUME NEW t \in Tasks, GroupEnd(t) PROVE Shape'
  <2>1. groups' = [groups EXCEPT ![t] = Front(@)] /\ Front(groups[t]) \in Seq(Nat)
    <3>1. Len(groups[t]) >= 1
      BY <1>8 DEF GroupEnd
    <3>2. Front(groups[t]) \in Seq(Nat)
      BY <3>1, Fronts
    <3> QED BY <1>8, <3>2 DEF GroupEnd
  <2>2. children' = [children EXCEPT ![t] = @ \ GroupSynced(t)]
    BY <1>8 DEF GroupEnd
  <2>3. knows' \in [Tasks -> BOOLEAN] /\ grouped' \in [Tasks -> BOOLEAN]
    <3> DEFINE b == knows[t] \/ \E d \in InGroup(t) : knows[d]
               d == grouped[t] \/ recorded \in InGroup(t)
    <3>1. /\ knows' = [knows EXCEPT ![t] = b] /\ b \in BOOLEAN
          /\ grouped' = [grouped EXCEPT ![t] = d] /\ d \in BOOLEAN
      BY <1>8 DEF GroupEnd
    <3> QED BY <3>1, TruthChanges
  <2> QED BY <2>1, <2>2, <2>3, <1>8 DEF GroupEnd, depVars, teamVars
<1>9. ASSUME NEW m \in Tasks, SingleBegin(m) PROVE Shape'
  <2>1. /\ \/ work' = [work EXCEPT ![m] = "executes"]
           \/ work' = [work EXCEPT ![m] = "passes"]
        /\ \/ at' = [at EXCEPT ![m] = "runs"]
           \/ at' = [at EXCEPT ![m] = "passes"]
    BY <1>9 DEF SingleBegin, Go
  <2> QED BY <2>1, <1>9 DEF SingleBegin, depVars, truth
<1>10. ASSUME NEW m \in Tasks, SingleEnd(m) \/ LoopEnd(m) PROVE Shape'
  <2>1. work' = [work EXCEPT ![m] = "after"] /\ at' = [at EXCEPT ![m] = "barrier"]
    BY <1>10 DEF SingleEnd, LoopEnd, Go
  <2> QED BY <2>1, <1>10 DEF SingleEnd, LoopEnd, depVars, truth
<1>11. ASSUME NEW m \in Tasks, LoopBegin(m) PROVE Shape'
  <2>1. work' = [work EXCEPT ![m] = "preamble"] /\ at' = [at EXCEPT ![m] = "passes"]
    BY <1>11 DEF LoopBegin, Go
  <2> QED BY <2>1, <1>11 DEF LoopBegin, depVars, truth
<1>12. ASSUME NEW m \in Tasks, Dispatch(m) PROVE Shape'
  <2>1. work' = [work EXCEPT ![m] = "iterates"] /\ at' = [at EXCEPT ![m] = "runs"]
    BY <1>12 DEF Dispatch, Go
  <2> QED BY <2>1, <1>12 DEF Dispatch, depVars, truth
<1>13. ASSUME NEW m \in Tasks, OrderedAcquired(m) PROVE Shape'
  <2>1. work' = [work EXCEPT ![m] = "ordered"]
    BY <1>13 DEF OrderedAcquired
  <2>2. knows' \in [Tasks -> BOOLEAN] /\ seen' \in [Tasks -> BOOLEAN]
    <3> DEFINE b == knows[m] \/ chain
               d == seen[m] \/ (chain /\ OfIteration(recorded))
    <3>1. /\ knows' = [knows EXCEPT ![m] = b] /\ b \in BOOLEAN
          /\ seen' = [seen EXCEPT ![m] = d] /\ d \in BOOLEAN
      BY <1>13 DEF OrderedAcquired
    <3> QED BY <3>1, TruthChanges
  <2> QED BY <2>1, <2>2, <1>13 DEF OrderedAcquired, depVars
<1>14. ASSUME NEW m \in Tasks, OrderedReleased(m) PROVE Shape'
  <2>1. work' = [work EXCEPT ![m] = "past"] /\ turn' = turn + 1
    BY <1>14 DEF OrderedReleased
  <2>2. chain' \in BOOLEAN
    BY <1>14 DEF OrderedReleased
  <2> QED BY <2>1, <2>2, <1>14 DEF OrderedReleased, depVars
<1>15. ASSUME OpenBarrier PROVE Shape'
  <2>1. at' = [t \in Tasks |-> IF t \in Members THEN "released" ELSE at[t]]
    BY <1>15 DEF OpenBarrier
  <2>2. knows' \in [Tasks -> BOOLEAN] /\ seen' \in [Tasks -> BOOLEAN]
    BY <1>15 DEF OpenBarrier
  <2> QED BY <2>1, <2>2, <1>15 DEF OpenBarrier, depVars, taskVars, teamVars
<1>16. ASSUME NEW m \in Tasks, BarrierEnd(m) PROVE Shape'
  <2>1. at' = [at EXCEPT ![m] = "runs"]
    BY <1>16 DEF BarrierEnd, Go
  <2> QED BY <2>1, <1>16 DEF BarrierEnd, depVars, teamVars, truth
<1>17. ASSUME NEW t \in Tasks, Record(t) PROVE Shape'
  <2>1. knows' = [knows EXCEPT ![t] = TRUE] /\ seen' = [seen EXCEPT ![t] = TRUE] /\ recorded' = t
    BY <1>17 DEF Record
  <2> QED BY <2>1, <1>c, <1>17 DEF Record, depVars, taskVars, teamVars
<1>18. ASSUME UNCHANGED vars PROVE Shape'
  BY <1>18 DEF vars, depVars, taskVars, teamVars, truth
<1> QED
  BY <1>1, <1>2, <1>3, <1>4, <1>5, <1>6, <1>7, <1>8, <1>9, <1>10, <1>11, <1>12, <1>13, <1>14,
     <1>15, <1>16, <1>17, <1>18 DEF Next, Step, ExpStep

(* Putting the parts together.                                             *)
LEMMA StepKeeps ==
  ASSUME IInv, [Next]_vars, NEW S, Moves(S), hist' = hist,
         label' \in [Tasks -> Seq(Owners \X Nat)], turn' = Cardinality(OrderedOver'),
         \A t \in Tasks \cap S : TaskOK(t)',
         NEW p \in Tasks, NEW c \in Tasks, Orders(S, p, c)
  PROVE  IInv' /\ Grows(segs, segs')
<1>1. Shape'
  BY ShapeStep DEF IInv, Structure
<1>2. Structure'
  BY <1>1, StructureStep DEF IInv
<1>3. Ages'
  BY <1>2, AgesStep DEF IInv
<1> QED BY <1>2, <1>3 DEF IInv, Moves

(* No ordered region ends.                                                 *)
LEMMA TurnStays ==
  ASSUME Structure, program' = program, turn' = turn,
         program.construct = "ordered" =>
           \A m \in Members : (work'[m] \in {"past", "after"}) <=> (work[m] \in {"past", "after"})
  PROVE  turn' = Cardinality(OrderedOver')
<1>1. OrderedOver' = OrderedOver
  BY DEF OrderedOver
<1> QED BY <1>1 DEF Structure, Places

(* A step that leaves labels and segments alone.                           *)
LEMMA QuietStep ==
  ASSUME IInv, [Next]_vars, NEW S \in SUBSET Tasks,
         UNCHANGED <<program, segs, label, children, work, turn, groups, hist>>,
         \A u \in Tasks \ S : at'[u] = at[u],
         \A u \in ExpTasks \ S : life'[u] = life[u],
         \A u \in ExpTasks : life[u] # "none" => life'[u] # "none",
         \A t \in S : /\ PlaceOK(t)' /\ Live(t) /\ at'[t] # "done" /\ (Acting(t)' => Acting(t))
                      /\ at'[t] = "taskwait" => Own(t).taskwait < program.waits
                      /\ at[t] = "passes" <=> at'[t] = "passes"
                      /\ at'[t] = "none" => at[t] = "none"
  PROVE  IInv' /\ Grows(segs, segs')
<1>1. Structure /\ Heap /\ LabelsEnd
  BY DEF IInv, Structure
<1>2. Moves(S)
  <2>1. Grows(segs, segs')
    BY <1>1, GrowsReflexive DEF Heap
  <2> QED BY <2>1 DEF Moves, Exists
<1>3. ASSUME NEW t \in S PROVE TaskOK(t)'
  <2>1. LabelEnds(t) /\ NestingOK(t) /\ (t \in Members => MarkOK(t)) /\ Live(t)
    BY <1>1 DEF Structure, LabelsEnd, Nesting, Recorded
  <2>2. LabelEnds(t)'
    BY <2>1 DEF LabelEnds, Live, Exists, InConstruct
  <2>3. NestingOK(t)'
    <3>1. Live(t)' /\ Own(t)' = Own(t) /\ (InConstruct(t)' <=> InConstruct(t))
      BY <2>1 DEF Live, Exists, Own, Obj, InConstruct
    <3>2. \A c \in children'[t] : Creator[c] = t /\ life'[c] # "none"
      BY <1>1, <2>1 DEF NestingOK, Structure, Shape
    <3>3. at'[t] = "taskwait" => Own(t)'.taskwait < program'.waits
      BY <3>1
    <3>4. t \in Members /\ InConstruct(t)' => Obj(label[t][2])'.taskGroupLevel = 0
      BY <2>1, <3>1 DEF NestingOK, Obj
    <3>5. Len(groups'[t]) = (IF Live(t)' THEN Own(t)'.taskGroupLevel ELSE 0)
      BY <2>1, <3>1 DEF NestingOK
    <3>6. at'[t] \in {"none", "passes"} => groups'[t] = <<>>
      BY <2>1 DEF NestingOK
    <3> QED BY <3>2, <3>3, <3>4, <3>5, <3>6 DEF NestingOK
  <2>4. t \in Members => MarkOK(t)'
    BY <2>1 DEF MarkOK, InConstruct, Obj
  <2> QED BY <2>2, <2>3, <2>4 DEF TaskOK
<1>4. label' \in [Tasks -> Seq(Owners \X Nat)]
  BY <1>1 DEF LabelsEnd
<1>5. turn' = Cardinality(OrderedOver')
  BY <1>1, TurnStays
<1>6. PICK p \in Tasks : TRUE
  <2>1. 0 \in 0..TeamSize-1
    BY TeamAssumption
  <2>2. <<0>> \in Members
    BY <2>1 DEF Members
  <2> QED BY <2>2 DEF Tasks
<1>7. Orders(S, p, p)
  <2>1. ASSUME NEW u \in S, Acting(u)' PROVE Kept(u)
    <3>1. Acting(u) /\ Own(u)' = Own(u)
      BY <2>1 DEF Own, Obj
    <3>2. Own(u) \in SegmentType
      BY <1>1, OwnSegment
    <3>3. Age(Own(u)) \in Nat
      BY <3>2 DEF Age, SegmentType
    <3> QED BY <3>1, <3>3 DEF Kept, SameKind
  <2>2. ASSUME NEW u \in S PROVE label'[u] \in InUse
    BY DEF InUse
  <2>3. ASSUME NEW m \in Members, work'[m] = "preamble" PROVE Age(Obj(label[m][3])') = 0
    BY <2>3 DEF IInv, Ages, PlaceHoldersAreNew, Obj
  <2> QED BY <2>1, <2>2, <2>3 DEF Orders
<1> QED BY <1>2, <1>3, <1>4, <1>5, <1>7, StepKeeps

(* Arriving at a taskwait and at the barrier.                              *)
LEMMA ReachTaskwaitKeeps ==
  ASSUME IInv, NEW t \in Tasks, ReachTaskwait(t), [Next]_vars
  PROVE  IInv' /\ Grows(segs, segs')
<1>1. Structure /\ PlaceOK(t) /\ Shape
  BY DEF IInv, Structure, Places
<1>2. /\ at[t] = "runs" /\ at' = [at EXCEPT ![t] = "taskwait"] /\ Own(t).taskwait < program.waits
      /\ UNCHANGED <<program, depVars, taskVars, teamVars, groups, hist, recorded, truth>>
  BY DEF ReachTaskwait, Runs, Go
<1>3. Live(t)
  BY <1>1, <1>2 DEF PlaceOK, Live, Tasks
<1>4. PlaceOK(t)'
  <2>1. at'[t] = "taskwait"
    BY <1>1, <1>2 DEF Shape
  <2> QED BY <1>1, <1>2, <2>1 DEF PlaceOK, Exists, depVars, taskVars, teamVars
<1>5. at'[t] = "taskwait" /\ \A u \in Tasks \ {t} : at'[u] = at[u]
  BY <1>1, <1>2 DEF Shape
<1>6. Acting(t)
  BY <1>2, <1>3 DEF Acting
<1>7. UNCHANGED <<program, segs, label, children, work, turn, groups, hist, life>>
  BY <1>2 DEF depVars, taskVars, teamVars
<1> QED BY <1>2, <1>3, <1>4, <1>5, <1>6, <1>7, QuietStep

\* Reaching a barrier changes no label.
LEMMA ReachBarrierKeeps ==
  ASSUME IInv, NEW t \in Tasks, ReachBarrier(t), [Next]_vars
  PROVE  IInv' /\ Grows(segs, segs')
<1>1. Structure /\ PlaceOK(t) /\ Shape
  BY DEF IInv, Structure, Places
<1>2. /\ t \in Members /\ at[t] = "runs" /\ at' = [at EXCEPT ![t] = "barrier"]
      /\ work[t] = "after" /\ label[t][1][2] <= program.barriers
      /\ UNCHANGED <<program, depVars, taskVars, teamVars, groups, hist, recorded, truth>>
  BY DEF ReachBarrier, Runs, Go
<1>3. Live(t)
  BY <1>1, <1>2 DEF PlaceOK, Live
<1>5. at'[t] = "barrier" /\ \A u \in Tasks \ {t} : at'[u] = at[u]
  BY <1>1, <1>2 DEF Shape
<1>4. PlaceOK(t)'
  <2>1. t \notin ExpTasks
    BY <1>2, Names
  <2> QED BY <1>1, <1>2, <1>5, <2>1 DEF PlaceOK, Exists, taskVars, teamVars
<1>6. Acting(t)
  BY <1>2, <1>3 DEF Acting
<1>7. UNCHANGED <<program, segs, label, children, work, turn, groups, hist, life>>
  BY <1>2 DEF depVars, taskVars, teamVars
<1> QED BY <1>2, <1>3, <1>4, <1>5, <1>6, <1>7, QuietStep, ZenonT(40)

(* The callback dependences, and the start of a task.                      *)
LEMMA RegisterDependencesKeeps ==
  ASSUME IInv, NEW t \in ExpTasks, RegisterDependences(t), [Next]_vars
  PROVE  IInv' /\ Grows(segs, segs')
<1>0. t \in Tasks
  BY DEF Tasks
<1>1. Structure /\ PlaceOK(t) /\ Shape /\ GraphTypeOK
  BY <1>0 DEF IInv, Structure, Places
<1>2. /\ life[t] = "created" /\ life' = [life EXCEPT ![t] = "registered"]
      /\ UNCHANGED <<program, taskVars, teamVars, at, groups, hist, recorded, truth>>
  BY DEF RegisterDependences, Dependences
<1>3. /\ life'[t] = "registered" /\ \A u \in ExpTasks \ {t} : life'[u] = life[u]
  BY <1>1, <1>2 DEF GraphTypeOK
<1>4. Live(t) /\ at[t] = "none"
  BY <1>1, <1>2 DEF PlaceOK, Live
<1>5. PlaceOK(t)'
  <2>1. t \notin Members
    BY Names
  <2> QED BY <1>1, <1>2, <1>3, <1>4, <2>1 DEF PlaceOK, Exists, taskVars
<1>6. Acting(t)
  BY <1>4 DEF Acting
<1>7. UNCHANGED <<program, segs, label, children, work, turn, groups, hist, at>>
  BY <1>2 DEF taskVars, teamVars
<1> QED BY <1>0, <1>2, <1>3, <1>4, <1>5, <1>6, <1>7, QuietStep

\* Starting a task changes no label.
LEMMA BeginKeeps ==
  ASSUME IInv, NEW t \in ExpTasks, Begin(t), [Next]_vars
  PROVE  IInv' /\ Grows(segs, segs')
<1>0. t \in Tasks /\ t \notin Members
  BY Names DEF Tasks
<1>1. Structure /\ PlaceOK(t) /\ Shape /\ GraphTypeOK
  BY <1>0 DEF IInv, Structure, Places
<1>2. /\ life[t] \in {"created", "registered"} /\ life' = [life EXCEPT ![t] = "started"]
      /\ at' = [at EXCEPT ![t] = "runs"]
      /\ UNCHANGED <<program, taskVars, teamVars, groups, hist>>
  BY DEF Begin, TaskBegin, Go
<1>3. /\ life'[t] = "started" /\ \A u \in ExpTasks \ {t} : life'[u] = life[u]
      /\ at'[t] = "runs" /\ \A u \in Tasks \ {t} : at'[u] = at[u]
  BY <1>0, <1>1, <1>2 DEF GraphTypeOK, Shape
<1>4. Live(t) /\ at[t] = "none"
  BY <1>1, <1>2 DEF PlaceOK, Live
<1>5. PlaceOK(t)'
  BY <1>0, <1>1, <1>2, <1>3, <1>4 DEF PlaceOK, Exists, taskVars
<1>6. Acting(t)
  BY <1>4 DEF Acting
<1>7. UNCHANGED <<program, segs, label, children, work, turn, groups, hist>>
  BY <1>2 DEF taskVars, teamVars
<1>8. /\ \A u \in Tasks \ {t} : at'[u] = at[u]
      /\ \A u \in ExpTasks \ {t} : life'[u] = life[u]
      /\ \A u \in ExpTasks : life[u] # "none" => life'[u] # "none"
  BY <1>3
<1>9. at'[t] = "runs" /\ at[t] = "none"
  BY <1>3, <1>4
<1> QED BY <1>0, <1>4, <1>5, <1>6, <1>7, <1>8, <1>9, QuietStep

(* The runtime opens the barrier.                                          *)
LEMMA OpenBarrierKeeps ==
  ASSUME IInv, OpenBarrier, [Next]_vars
  PROVE  IInv' /\ Grows(segs, segs')
<1>0. Members \subseteq Tasks /\ \A m \in Members : m \notin ExpTasks
  BY Names DEF Tasks
<1>1. Structure
  BY DEF IInv
<1>2. /\ \A m \in Members : at[m] = "barrier" /\ at'[m] = "released"
      /\ \A u \in Tasks \ Members : at'[u] = at[u]
      /\ UNCHANGED <<program, depVars, taskVars, teamVars, groups, hist>>
  BY <1>0 DEF OpenBarrier
<1>3. ASSUME NEW m \in Members
      PROVE  PlaceOK(m)' /\ Live(m) /\ at'[m] = "released" /\ ~ Acting(m)' /\ at[m] # "passes"
  <2>1. PlaceOK(m)
    BY <1>0, <1>1 DEF Structure, Places
  <2> QED BY <1>0, <1>2, <2>1 DEF PlaceOK, Live, Exists, Acting, taskVars, teamVars
<1>4. UNCHANGED <<program, segs, label, children, work, turn, groups, hist, life>>
  BY <1>2 DEF taskVars, teamVars, depVars
<1> QED BY <1>0, <1>2, <1>3, <1>4, QuietStep

(* The access that stays in the history.                                   *)
LEMMA RecordKeeps ==
  ASSUME IInv, NEW t \in Tasks, Record(t), [Next]_vars
  PROVE  IInv'
<1>1. Structure /\ Ages /\ Shape' /\ PlaceOK(t)
  BY ShapeStep DEF IInv, Structure, Places
<1>2. /\ at[t] = "runs" /\ hist' = label[t]
      /\ UNCHANGED <<program, expTaskCount, expLocalId, deps, graph, life, named, earlier,
                     segs, label, children, work, turn, at, groups>>
  BY DEF Record, Runs, depVars, taskVars, teamVars
<1>3. Live(t)
  BY <1>1, <1>2 DEF PlaceOK, Live, Tasks
<1>4. LabelOK(segs, label[t])
  BY <1>1, <1>3, OwnSegment DEF Structure
<1>5. Len(label[t]) = 3 /\ label[t][3][1] \in Members => Obj(label[t][3]).workShareId \in Nat \cup {SingleExec}
  <2> HAVE Len(label[t]) = 3 /\ label[t][3][1] \in Members
  <2>1. LabelEnds(t) /\ Last(label[t]) = label[t][3] /\ Last(label[t])[1] = t
    BY <1>1, <1>3, OwnSegment DEF Structure, LabelsEnd
  <2>2. t \in Members /\ InConstruct(t)
    BY <2>1 DEF LabelEnds
  <2> QED BY <1>1, <1>2, <2>2 DEF Structure, Recorded, MarkOK
<1>6. Recorded'
  <2>1. \A m \in Members : MarkOK(m)'
    BY <1>1, <1>2 DEF Structure, Recorded, MarkOK, InConstruct, Obj
  <2>2. hist' # <<>> => LabelOK(segs', hist')
    BY <1>2, <1>4
  <2>3. Len(hist') = 3 /\ hist'[3][1] \in Members => Obj(hist[3])'.workShareId \in Nat \cup {SingleExec}
    BY <1>2, <1>5 DEF Obj
  <2> QED BY <2>1, <2>2, <2>3 DEF Recorded
<1>7. Structure'
  <2>1. GraphTypeOK'
    BY <1>1, <1>2 DEF Structure, GraphTypeOK
  <2>2. Heap' /\ LabelsEnd'
    BY <1>1, <1>2 DEF Structure, Heap, HeapOK, CountsOK, LabelsEnd, LabelEnds, Exists, Live, InConstruct
  <2>3. Places' /\ Nesting'
    BY <1>1, <1>2 DEF Structure, Places, PlaceOK, Nesting, NestingOK, OrderedOver, Exists, Live,
       InConstruct, Own, Obj
  <2> QED BY <1>1, <1>2, <1>6, <2>1, <2>2, <2>3 DEF Structure
<1>8. InUse' \subseteq InUse
  BY <1>2, <1>3 DEF InUse, Live, Exists
<1>9. Ages'
  <2>1. PartsShow' /\ DescendantsAreBelowOlder' /\ EndsDiffer'
    BY <1>1, <1>2, <1>8 DEF Ages, PartsShow, DescendantsAreBelowOlder, EndsDiffer, Acting, Live,
       Exists, Own, Obj
  <2>2. NoLabelIsAhead' /\ PlaceHoldersAreNew'
    BY <1>1, <1>2, <1>8 DEF Ages, NoLabelIsAhead, PlaceHoldersAreNew, Obj
  <2> QED BY <2>1, <2>2 DEF Ages
<1> QED BY <1>7, <1>9 DEF IInv

\* The invariant speaks of the variables of the module only.
LEMMA StutterKeeps ==
  ASSUME IInv, UNCHANGED vars, [Next]_vars
  PROVE  IInv' /\ Grows(segs, segs')
<1>1. UNCHANGED <<program, segs, label, children, work, turn, groups, hist, at, life>>
  BY DEF vars, depVars, taskVars, teamVars
<1>2. {} \in SUBSET Tasks
  OBVIOUS
<1> QED BY <1>1, <1>2, QuietStep

(* The tool replaces the last segment of the label of a task by one that is*)
(* not younger.                                                            *)
LEMMA RenewedTask ==
  ASSUME IInv, NEW t \in Tasks, Live(t), at[t] \in {"runs", "taskwait", "passes"},
         NEW seg \in SegmentType, SameKind(seg, Own(t)), Age(seg) >= Age(Own(t)),
         Grows(segs, segs'), IsObject(segs', NextRef(t)), NextRef(t) \in Owners \X Nat,
         MarkedOnly(seg, ObjectAt(segs', NextRef(t))),
         label'[t] = ReplaceLast(label[t], NextRef(t)), program' = program,
         at'[t] = "runs", Len(groups'[t]) = seg.taskGroupLevel,
         t \in ExpTasks => life'[t] = life[t],
         \A u \in Tasks : Exists(u) /\ u # t => Exists(u)',
         \A c \in children'[t] : Creator[c] = t /\ life'[c] # "none",
         t \in Members =>
           \/ work'[t] = work[t] /\ at[t] # "passes"
           \/ work[t] \in {"preamble", "iterates", "ordered"}
              /\ work'[t] \in {"iterates", "ordered", "past"},
         t \in Members /\ InConstruct(t) => seg.workShareId \in Nat \cup {SingleExec}
  PROVE  /\ TaskOK(t)' /\ Live(t)' /\ label'[t] \in Seq(Owners \X Nat)
         /\ Kept(t) /\ Age(Own(t)') = Age(seg) /\ label[t] \in InUse
         /\ Follows(label'[t], label[t]) /\ ~ (Len(label'[t]) > Len(label[t]))
         /\ label'[t][1] = label[t][1] /\ label'[t][2][1] = label[t][2][1]
         /\ t \in Members => work'[t] # "preamble"
<1>1. Structure /\ Heap /\ LabelsEnd /\ PlaceOK(t) /\ NestingOK(t) /\ Shape /\ Ages
  BY DEF IInv, Structure, Places, Nesting
<1>4. t \in Members => (InConstruct(t)' <=> InConstruct(t))
  BY DEF InConstruct
<1>5. ObjectAt(segs', NextRef(t)).type = Own(t).type
  BY DEF MarkedOnly, SameKind
<1>6. /\ label'[t] \in Seq(Owners \X Nat) /\ Len(label'[t]) = Len(label[t])
      /\ Own(t)' = ObjectAt(segs', NextRef(t))
      /\ \A k \in 1..Len(label[t])-1 : label'[t][k] = label[t][k]
      /\ LabelEnds(t)' /\ Live(t)' /\ label'[t][1] = label[t][1]
      /\ t \in Members /\ InConstruct(t) =>
           /\ Obj(label[t][2])'.taskGroupLevel = Obj(label[t][2]).taskGroupLevel
           /\ Obj(label[t][3])' = Own(t)'
  BY <1>1, <1>4, <1>5, RenewedLabel
<1>7. MarkedOnly(seg, Own(t)')
  BY <1>6
<1>8. \A u \in Tasks : Exists(u) => Exists(u)'
  BY <1>6 DEF Live
<1>9. PlaceOK(t)'
  <2>1. t \in ExpTasks => at[t] # "passes" /\ t \notin Members
    BY <1>1, Names DEF PlaceOK
  <2>2. t \in ExpTasks /\ life[t] # "none" => Creator[t] \in Tasks /\ Exists(Creator[t])'
    BY <1>1, <1>8 DEF PlaceOK
  <2>3. t \in ExpTasks => /\ Exists(t)' <=> life'[t] # "none"
                          /\ life[t] \in {"started", "complete"} /\ life[t] # "complete"
    BY <1>1, <1>6, <2>1 DEF PlaceOK, Live
  <2>4. t \in Members =>
       /\ Exists(t)'
       /\ at'[t] = "passes" <=> work'[t] \in {"passes", "preamble"}
       /\ work'[t] # "after" => label'[t][1][2] = 1 /\ program.construct # "none"
       /\ work'[t] \in {"executes", "passes"} => program.construct = "single"
       /\ work'[t] \in {"preamble", "iterates", "ordered", "past"} => program.construct = "ordered"
    BY <1>1, <1>6 DEF PlaceOK, Live
  <2> QED BY <2>1, <2>2, <2>3, <2>4 DEF PlaceOK
<1>10. NestingOK(t)'
  <2>1. Len(groups'[t]) = (IF Live(t)' THEN Own(t)'.taskGroupLevel ELSE 0)
    BY <1>6, <1>7 DEF MarkedOnly
  <2>3. t \in Members /\ InConstruct(t)' => Obj(label[t][2])'.taskGroupLevel = 0
    BY <1>1, <1>4, <1>6 DEF NestingOK
  <2> QED BY <2>1, <2>3 DEF NestingOK
<1>11. t \in Members => MarkOK(t)'
  <2> HAVE t \in Members
  <2>1. InConstruct(t)' => Obj(label[t][3])'.workShareId = seg.workShareId
    BY <1>4, <1>6, <1>7 DEF MarkedOnly
  <2> QED BY <2>1, <1>4 DEF MarkOK
<1>12. TaskOK(t)'
  BY <1>6, <1>9, <1>10, <1>11 DEF TaskOK
<1>14. Acting(t) /\ label[t] \in InUse /\ Len(label[t]) \in Nat /\ Len(label[t]) >= 2
  BY <1>1, OwnSegment DEF Acting, InUse
<1>15. Kept(t) /\ Age(Own(t)') = Age(seg)
  <2>1. Age(Own(t)') = Age(seg) /\ SameKind(Own(t)', Own(t))
    BY <1>7 DEF MarkedOnly, Age, SameKind
  <2> QED BY <2>1, <1>6, <1>14 DEF Kept
<1>16. Follows(label'[t], label[t]) /\ ~ (Len(label'[t]) > Len(label[t]))
  <2>1. Len(label'[t]) = Len(label[t]) /\ Len(label[t]) \in Nat
    BY <1>6, <1>14
  <2>2. Len(label'[t]) <= Len(label[t]) + 1 /\ ~ (Len(label'[t]) > Len(label[t]))
    BY <2>1
  <2>3. \A k \in 1..Len(label'[t])-1 : label'[t][k] = label[t][k]
    BY <1>6, <2>1
  <2> QED BY <2>2, <2>3 DEF Follows
<1>17. label'[t][1] = label[t][1] /\ label'[t][2][1] = label[t][2][1]
  <2>1. CASE Len(label[t]) > 2
    <3>1. 2 \in 1..Len(label[t])-1
      BY <2>1, <1>14
    <3> QED BY <3>1, <1>6
  <2>2. CASE Len(label[t]) = 2
    <3>1. Last(label[t]) = label[t][Len(label[t])] /\ Last(label[t])[1] = t
      BY <1>1, OwnSegment
    <3>2. label[t][2][1] = t
      BY <3>1, <2>2
    <3>3. t \in Members
      <4>1. t \in ExpTasks => Len(label[t]) >= 3
        BY <1>1 DEF LabelsEnd, LabelEnds
      <4> QED BY <4>1, <2>2 DEF Tasks
    <3> QED BY <3>2, <3>3, <1>6 DEF LabelEnds
  <2>3. Len(label[t]) > 2 \/ Len(label[t]) = 2
    <3> DEFINE n == Len(label[t])
    <3>1. n \in Nat /\ n >= 2
      BY <1>14
    <3> HIDE DEF n
    <3>2. n > 2 \/ n = 2
      BY <3>1
    <3> QED BY <3>2 DEF n
  <2> QED BY <2>1, <2>2, <2>3
<1>18. t \in Members => work'[t] # "preamble"
  BY <1>1 DEF PlaceOK
<1> QED BY <1>6, <1>12, <1>14, <1>15, <1>16, <1>17, <1>18

(* ... and does nothing else.                                              *)
LEMMA RenewStep ==
  ASSUME IInv, [Next]_vars, NEW t \in Tasks, Live(t), at[t] \in {"runs", "taskwait", "passes"},
         NEW seg \in SegmentType, ObjectOK(t, Len(segs[t]) + 1, seg), CountsOK(seg),
         Grows(Added(segs, t, seg), segs'), SameKind(seg, Own(t)), Age(seg) >= Age(Own(t)),
         \A u \in Owners : Len(segs'[u]) = Len(Added(segs, t, seg)[u]),
         label' = [label EXCEPT ![t] = ReplaceLast(@, NextRef(t))],
         UNCHANGED <<program, hist, life>>,
         \A u \in Tasks \ {t} : /\ at'[u] = at[u] /\ groups'[u] = groups[u]
                                /\ children'[u] = children[u]
                                /\ u \in Members => work'[u] = work[u],
         at'[t] = "runs", children'[t] \subseteq children[t],
         Len(groups'[t]) = seg.taskGroupLevel, turn' = Cardinality(OrderedOver'),
         t \in Members =>
           \/ work'[t] = work[t] /\ at[t] # "passes"
           \/ work[t] \in {"preamble", "iterates", "ordered"}
              /\ work'[t] \in {"iterates", "ordered", "past"},
         t \in Members /\ InConstruct(t) => seg.workShareId \in Nat \cup {SingleExec}
  PROVE  IInv' /\ Grows(segs, segs')
<1>1. Structure /\ Heap /\ LabelsEnd /\ NestingOK(t)
  BY DEF IInv, Structure, Nesting
<1>2. /\ Grows(segs, segs') /\ IsObject(segs', NextRef(t)) /\ NextRef(t) \in Owners \X Nat
      /\ MarkedOnly(seg, ObjectAt(segs', NextRef(t)))
  BY <1>1, NewObject
<1>3. label'[t] = ReplaceLast(label[t], NextRef(t)) /\ \A u \in Tasks \ {t} : label'[u] = label[u]
  BY <1>1 DEF LabelsEnd
<1>4. /\ \A u \in Tasks : Exists(u) /\ u # t => Exists(u)'
      /\ \A c \in children'[t] : Creator[c] = t /\ life'[c] # "none"
  BY <1>1, <1>3 DEF Exists, NestingOK
<1>5. /\ TaskOK(t)' /\ Live(t)' /\ label'[t] \in Seq(Owners \X Nat)
      /\ Kept(t) /\ label[t] \in InUse /\ Acting(t)
      /\ Follows(label'[t], label[t]) /\ ~ (Len(label'[t]) > Len(label[t]))
      /\ label'[t][1] = label[t][1] /\ label'[t][2][1] = label[t][2][1]
      /\ t \in Members => work'[t] # "preamble"
  BY <1>2, <1>3, <1>4, RenewedTask DEF Kept
<1>6. Moves({t})
  <2>1. \A u \in Tasks : Exists(u) => Exists(u)'
    BY <1>4, <1>5 DEF Live
  <2>2. \A u \in Tasks \ {t} : Len(segs'[u]) = Len(segs[u])
    <3>1. \A u \in Owners \ {t} : Added(segs, t, seg)[u] = segs[u]
      BY <1>1, AddGrows DEF Heap
    <3> QED BY <3>1 DEF Owners
  <2> QED BY <1>2, <1>3, <2>1, <2>2 DEF Moves
<1>7. label' \in [Tasks -> Seq(Owners \X Nat)]
  BY <1>1, <1>5 DEF LabelsEnd
<1>8. Orders({t}, t, t)
  BY <1>5 DEF Orders
<1> QED BY <1>5, <1>6, <1>7, <1>8, StepKeeps

(* The members of the team are finitely many.                              *)
LEMMA TeamIsFinite == IsFiniteSet(Members)
<1> DEFINE index == 0..TeamSize-1
           f == [i \in index |-> <<i>>]
<1>1. IsFiniteSet(index)
  BY TeamAssumption, FS_Interval
<1>2. f \in Surjection(index, Members)
  BY DEF Surjection, Members
<1> QED BY <1>1, <1>2, FS_Surjection

(* The segment of an iteration or of a single construct.                   *)
LEMMA ConstructSegment ==
  ASSUME Structure, NEW m \in Members, InConstruct(m)
  PROVE  /\ Live(m) /\ Len(label[m]) = 3 /\ label[m][3][1] = m /\ Own(m) = Obj(label[m][3])
         /\ Own(m).type = "workshare" /\ Own(m).offset = 0
         /\ label[m][2][1] = m /\ Obj(label[m][2]).type = "implicit"
         /\ Obj(label[m][2]).taskGroupLevel = 0
<1>1. m \in Tasks /\ m \notin ExpTasks /\ m # Root
  BY Names DEF Tasks
<1>2. PlaceOK(m) /\ LabelEnds(m) /\ NestingOK(m) /\ Heap /\ LabelsEnd /\ HeapOK(segs)
  BY <1>1 DEF Structure, Places, LabelsEnd, Nesting, Heap
<1>3. Live(m) /\ Len(label[m]) = 3 /\ label[m][3][1] = m /\ label[m][2][1] = m
  BY <1>2 DEF PlaceOK, Live, LabelEnds
<1>4. LabelOK(segs, label[m]) /\ Own(m) = Obj(label[m][3])
  BY <1>1, <1>2, <1>3, OwnSegment DEF Obj
<1>5. Own(m).type = "workshare" /\ Obj(label[m][2]).type = "implicit"
  <2>1. 3 \in 3..Len(label[m])
    BY <1>3
  <2> QED BY <2>1, <1>1, <1>3, <1>4 DEF LabelOK, Obj
<1>6. ObjectOK(m, label[m][3][2], Own(m))
  BY <1>2, <1>3, <1>4, LabelRefs DEF Obj
<1> QED BY <1>1, <1>2, <1>3, <1>4, <1>5, <1>6 DEF ObjectOK, NestingOK

(* What a task makes of its segment is not younger.                        *)
LEMMA NotYounger ==
  ASSUME NEW seg \in SegmentType
  PROVE  /\ SameKind(TaskCreated(seg), seg) /\ Age(TaskCreated(seg)) = Age(seg) + 1
         /\ SameKind(TaskWaited(seg), seg) /\ Age(TaskWaited(seg)) >= Age(seg)
         /\ SameKind(GroupBegun(seg), seg) /\ Age(GroupBegun(seg)) >= Age(seg)
         /\ SameKind(GroupEnded(seg), seg) /\ Age(GroupEnded(seg)) >= Age(seg)
         /\ SameKind(NextPhase(seg), seg) /\ Age(NextPhase(seg)) >= Age(seg)
         /\ TaskWaited(seg).taskGroupLevel = seg.taskGroupLevel
         /\ TaskCreated(seg).taskGroupLevel = seg.taskGroupLevel
         /\ NextPhase(seg).taskGroupLevel = seg.taskGroupLevel
         /\ GroupBegun(seg).taskGroupLevel = seg.taskGroupLevel + 1
         /\ GroupEnded(seg).taskGroupLevel = seg.taskGroupLevel - 1
         /\ TaskCreated(seg).workShareId = seg.workShareId
         /\ TaskWaited(seg).workShareId = seg.workShareId
         /\ NextPhase(seg).workShareId = seg.workShareId
         /\ GroupBegun(seg).workShareId = seg.workShareId
         /\ GroupEnded(seg).workShareId = seg.workShareId
<1>1. /\ Age(seg) \in Nat /\ seg.taskcreate \in Nat /\ seg.taskwait \in Nat /\ seg.phase \in Nat
      /\ seg.loopCount \in Nat
  BY DEF Age, SegmentType
<1>2. /\ TaskCreated(seg).taskcreate = seg.taskcreate + 1 /\ TaskCreated(seg).taskwait = seg.taskwait
      /\ TaskCreated(seg).phase = seg.phase /\ TaskCreated(seg).loopCount = seg.loopCount
      /\ TaskWaited(seg).taskcreate = seg.taskcreate /\ TaskWaited(seg).taskwait = seg.taskwait + 1
      /\ TaskWaited(seg).phase = seg.phase /\ TaskWaited(seg).loopCount = seg.loopCount
      /\ GroupBegun(seg).taskcreate = seg.taskcreate /\ GroupBegun(seg).taskwait = seg.taskwait
      /\ GroupBegun(seg).phase = seg.phase /\ GroupBegun(seg).loopCount = seg.loopCount
      /\ GroupEnded(seg).taskcreate = seg.taskcreate /\ GroupEnded(seg).taskwait = seg.taskwait
      /\ GroupEnded(seg).phase = seg.phase /\ GroupEnded(seg).loopCount = seg.loopCount
      /\ NextPhase(seg).taskcreate = seg.taskcreate /\ NextPhase(seg).taskwait = seg.taskwait
      /\ NextPhase(seg).phase = seg.phase + 1 /\ NextPhase(seg).loopCount = seg.loopCount
  BY DEF TaskCreated, TaskWaited, GroupBegun, GroupEnded, NextPhase, SegmentType
<1>3. /\ Age(TaskCreated(seg)) = Age(seg) + 1 /\ Age(TaskWaited(seg)) >= Age(seg)
      /\ Age(GroupBegun(seg)) >= Age(seg) /\ Age(GroupEnded(seg)) >= Age(seg)
      /\ Age(NextPhase(seg)) >= Age(seg)
  BY <1>1, <1>2 DEF Age
<1>4. /\ SameKind(TaskCreated(seg), seg) /\ SameKind(TaskWaited(seg), seg)
      /\ SameKind(GroupBegun(seg), seg) /\ SameKind(GroupEnded(seg), seg)
      /\ SameKind(NextPhase(seg), seg)
  BY DEF TaskCreated, TaskWaited, GroupBegun, GroupEnded, NextPhase, SegmentType, SameKind
<1>5. /\ TaskWaited(seg).taskGroupLevel = seg.taskGroupLevel
      /\ TaskCreated(seg).taskGroupLevel = seg.taskGroupLevel
      /\ NextPhase(seg).taskGroupLevel = seg.taskGroupLevel
      /\ GroupBegun(seg).taskGroupLevel = seg.taskGroupLevel + 1
      /\ GroupEnded(seg).taskGroupLevel = seg.taskGroupLevel - 1
  BY DEF TaskCreated, TaskWaited, GroupBegun, GroupEnded, NextPhase, SegmentType
<1>6. /\ TaskCreated(seg).workShareId = seg.workShareId
      /\ TaskWaited(seg).workShareId = seg.workShareId
      /\ NextPhase(seg).workShareId = seg.workShareId
      /\ GroupBegun(seg).workShareId = seg.workShareId
      /\ GroupEnded(seg).workShareId = seg.workShareId
  BY DEF TaskCreated, TaskWaited, GroupBegun, GroupEnded, NextPhase, SegmentType
<1> QED BY <1>3, <1>4, <1>5, <1>6

(* A task that runs has a segment of its own.                              *)
LEMMA RunningTask ==
  ASSUME Structure, NEW t \in Tasks, at[t] \in {"runs", "taskwait", "passes"}
  PROVE  /\ Live(t) /\ Acting(t) /\ PlaceOK(t) /\ NestingOK(t) /\ LabelEnds(t) /\ HeapOK(segs)
         /\ Own(t) \in SegmentType /\ CountsOK(Own(t)) /\ \E n \in Nat : ObjectOK(t, n, Own(t))
         /\ Len(groups[t]) = Own(t).taskGroupLevel
         /\ t \in Members => MarkOK(t)
<1>1. PlaceOK(t) /\ NestingOK(t) /\ LabelEnds(t) /\ Heap /\ LabelsEnd /\ HeapOK(segs)
  BY DEF Structure, Places, LabelsEnd, Nesting, Heap
<1>2. Live(t)
  BY <1>1 DEF PlaceOK, Live, Tasks
<1>3. Acting(t)
  BY <1>2 DEF Acting
<1>4. t \in Members => MarkOK(t)
  BY DEF Structure, Recorded
<1> QED BY <1>1, <1>2, <1>3, <1>4, OwnSegment DEF NestingOK

(* The end of a taskwait.                                                  *)
LEMMA TaskwaitEndKeeps ==
  ASSUME IInv, NEW t \in Tasks, TaskwaitEnd(t), [Next]_vars
  PROVE  IInv' /\ Grows(segs, segs')
<1> DEFINE seg == TaskWaited(Own(t))
           heap == Added(segs, t, seg)
<1>1. Structure /\ Shape /\ program \in Programs
  BY DEF IInv, Structure
<1>2. /\ at[t] = "taskwait"
      /\ \A c \in ExpTasks : Creator[c] = t /\ life[c] # "none" => Complete(c)
      /\ segs' = MarkWaited(heap, WaitMarks(t), Own(t).phase)
      /\ label' = [label EXCEPT ![t] = ReplaceLast(@, NextRef(t))]
      /\ children' = [children EXCEPT ![t] = {}]
      /\ at' = [at EXCEPT ![t] = "runs"]
      /\ UNCHANGED <<program, depVars, teamVars, groups, hist>>
  BY DEF TaskwaitEnd, Added, Go
<1>3. /\ Live(t) /\ NestingOK(t) /\ HeapOK(segs) /\ Own(t) \in SegmentType /\ CountsOK(Own(t))
      /\ Len(groups[t]) = Own(t).taskGroupLevel /\ (t \in Members => MarkOK(t))
  BY <1>1, <1>2, RunningTask
<1>4. PICK n \in Nat : ObjectOK(t, n, Own(t))
  BY <1>1, <1>2, RunningTask
<1>5. Own(t).taskwait < program.waits
  BY <1>2, <1>3 DEF NestingOK
<1>6. seg \in SegmentType /\ ObjectOK(t, Len(segs[t]) + 1, seg) /\ CountsOK(seg)
  BY <1>1, <1>3, <1>4, <1>5, NewSegments
<1>7. SameKind(seg, Own(t)) /\ Age(seg) >= Age(Own(t)) /\ seg.taskGroupLevel = Own(t).taskGroupLevel
      /\ seg.workShareId = Own(t).workShareId
  BY <1>3, NotYounger
<1> HIDE DEF seg
<1>8. NoTaskIsPhased(WaitMarks(t), Own(t).phase)
  <2> SUFFICES ASSUME NEW s \in ExpTasks, NEW k \in Nat, <<s, k>> \in WaitMarks(t)
               PROVE  Own(t).phase = 0
    BY DEF NoTaskIsPhased
  <2>1. PICK c \in children[t] : <<s, k>> = Last(label[c])
    BY DEF WaitMarks
  <2>2. c \in ExpTasks /\ Creator[c] = t /\ Complete(c)
    BY <1>1, <1>2, <1>3 DEF NestingOK, Shape
  <2>3. Last(label[c])[1] = t
    <3>1. PlaceOK(c) /\ LabelEnds(c)
      BY <1>1, <2>2 DEF Structure, Places, LabelsEnd, Tasks
    <3>2. at[c] = "done"
      BY <2>2, <3>1 DEF PlaceOK, Complete
    <3> QED BY <2>2, <3>1, <3>2 DEF LabelEnds
  <2>4. t \in ExpTasks
    BY <2>1, <2>3
  <2>5. t # Root /\ t \notin Members
    BY <2>4, Names
  <2> QED BY <1>4, <2>4, <2>5 DEF ObjectOK
<1>9. HeapOK(heap)
  BY <1>3, <1>6, AddGrows DEF Grows
<1>10. Own(t).phase \in Nat
  BY <1>3 DEF SegmentType
<1>11. Grows(heap, segs') /\ \A u \in Owners : Len(segs'[u]) = Len(heap[u])
  <2> HIDE DEF heap
  <2> QED BY <1>2, <1>8, <1>9, <1>10, MarkWaitedGrows
<1>12. /\ at'[t] = "runs" /\ children'[t] \subseteq children[t] /\ groups' = groups /\ work' = work
       /\ \A u \in Tasks \ {t} : at'[u] = at[u] /\ children'[u] = children[u]
       /\ UNCHANGED <<program, hist, life, turn>>
  BY <1>1, <1>2 DEF Shape, depVars, teamVars
<1>13. turn' = Cardinality(OrderedOver')
  BY <1>1, <1>12, TurnStays
<1>14. t \in Members /\ InConstruct(t) => seg.workShareId \in Nat \cup {SingleExec}
  BY <1>1, <1>2, <1>3, <1>7, ConstructSegment DEF MarkOK
<1> HIDE DEF heap
<1>15. Grows(Added(segs, t, seg), segs') /\ \A u \in Owners : Len(segs'[u]) = Len(Added(segs, t, seg)[u])
  BY <1>11 DEF heap
<1>16. Len(groups'[t]) = seg.taskGroupLevel /\ at[t] # "passes"
  BY <1>2, <1>3, <1>7, <1>12
<1> QED BY <1>2, <1>3, <1>6, <1>7, <1>12, <1>13, <1>14, <1>15, <1>16, RenewStep

(* The begin of a taskgroup.                                               *)
LEMMA GroupBeginKeeps ==
  ASSUME IInv, NEW t \in Tasks, GroupBegin(t), [Next]_vars
  PROVE  IInv' /\ Grows(segs, segs')
<1> DEFINE seg == GroupBegun(Own(t))
<1>1. Structure /\ Shape /\ program \in Programs
  BY DEF IInv, Structure
<1>2. /\ at[t] = "runs" /\ Own(t).taskGroupId + Own(t).taskGroupLevel < 2 * program.groups
      /\ segs' = Added(segs, t, seg)
      /\ label' = [label EXCEPT ![t] = ReplaceLast(@, NextRef(t))]
      /\ groups' = [groups EXCEPT ![t] = Append(@, Made(t))]
      /\ UNCHANGED <<program, depVars, children, teamVars, at, hist>>
  BY DEF GroupBegin, Runs, MutateLast, Added
<1>3. /\ Live(t) /\ HeapOK(segs) /\ Own(t) \in SegmentType /\ CountsOK(Own(t))
      /\ Len(groups[t]) = Own(t).taskGroupLevel /\ (t \in Members => MarkOK(t))
  BY <1>1, <1>2, RunningTask
<1>4. PICK n \in Nat : ObjectOK(t, n, Own(t))
  BY <1>1, <1>2, RunningTask
<1>6. seg \in SegmentType /\ ObjectOK(t, Len(segs[t]) + 1, seg) /\ CountsOK(seg)
  BY <1>1, <1>2, <1>3, <1>4, NewSegments
<1>7. SameKind(seg, Own(t)) /\ Age(seg) >= Age(Own(t)) /\ seg.taskGroupLevel = Own(t).taskGroupLevel + 1
      /\ seg.workShareId = Own(t).workShareId
  BY <1>3, NotYounger
<1> HIDE DEF seg
<1>8. Grows(Added(segs, t, seg), segs')
  <2>1. HeapOK(Added(segs, t, seg))
    BY <1>3, <1>6, AddGrows DEF Grows
  <2> QED BY <1>2, <2>1, GrowsReflexive
<1>9. Len(groups'[t]) = seg.taskGroupLevel /\ \A u \in Tasks \ {t} : groups'[u] = groups[u]
  <2>1. groups[t] \in Seq(Nat) /\ groups'[t] = Append(groups[t], Made(t))
    BY <1>1, <1>2 DEF Shape
  <2>2. Len(groups'[t]) = Len(groups[t]) + 1
    BY <2>1, LenProperties
  <2> QED BY <1>1, <1>2, <1>3, <1>7, <2>2 DEF Shape
<1>12. /\ at'[t] = "runs" /\ children' = children /\ work' = work /\ at' = at
       /\ UNCHANGED <<program, hist, life, turn>>
  BY <1>2 DEF depVars, teamVars
<1>13. turn' = Cardinality(OrderedOver')
  BY <1>1, <1>12, TurnStays
<1>14. t \in Members /\ InConstruct(t) => seg.workShareId \in Nat \cup {SingleExec}
  BY <1>1, <1>2, <1>3, <1>7, ConstructSegment DEF MarkOK
<1> QED BY <1>2, <1>3, <1>6, <1>7, <1>8, <1>9, <1>12, <1>13, <1>14, RenewStep

(* The end of a taskgroup.                                                 *)
LEMMA GroupEndKeeps ==
  ASSUME IInv, NEW t \in Tasks, GroupEnd(t), [Next]_vars
  PROVE  IInv' /\ Grows(segs, segs')
<1> DEFINE seg == GroupEnded(Own(t))
           heap == Added(segs, t, seg)
           marks == {Last(label[c]) : c \in GroupSynced(t)}
<1>1. Structure /\ Shape /\ program \in Programs
  BY DEF IInv, Structure
<1>2. /\ at[t] = "runs" /\ groups[t] # <<>>
      /\ segs' = MarkGroupSync(heap, marks)
      /\ label' = [label EXCEPT ![t] = ReplaceLast(@, NextRef(t))]
      /\ children' = [children EXCEPT ![t] = @ \ GroupSynced(t)]
      /\ groups' = [groups EXCEPT ![t] = Front(@)]
      /\ UNCHANGED <<program, depVars, teamVars, at, hist>>
  BY DEF GroupEnd, Runs, Added
<1>3. /\ Live(t) /\ HeapOK(segs) /\ Own(t) \in SegmentType /\ CountsOK(Own(t))
      /\ Len(groups[t]) = Own(t).taskGroupLevel /\ (t \in Members => MarkOK(t))
  BY <1>1, <1>2, RunningTask
<1>4. PICK n \in Nat : ObjectOK(t, n, Own(t))
  BY <1>1, <1>2, RunningTask
<1>5. groups[t] \in Seq(Nat) /\ Len(groups[t]) >= 1 /\ Len(groups[t]) \in Nat
  BY <1>1, <1>2, EmptySeq, LenProperties DEF Shape
<1>5a. Own(t).taskGroupLevel > 0
  BY <1>3, <1>5
<1>6. seg \in SegmentType /\ ObjectOK(t, Len(segs[t]) + 1, seg) /\ CountsOK(seg)
  BY <1>1, <1>3, <1>4, <1>5a, NewSegments
<1>7. SameKind(seg, Own(t)) /\ Age(seg) >= Age(Own(t)) /\ seg.taskGroupLevel = Own(t).taskGroupLevel - 1
      /\ seg.workShareId = Own(t).workShareId
  BY <1>3, NotYounger
<1> HIDE DEF seg
<1>8. Grows(heap, segs') /\ \A u \in Owners : Len(segs'[u]) = Len(heap[u])
  <2>1. HeapOK(heap)
    BY <1>3, <1>6, AddGrows DEF Grows
  <2> HIDE DEF heap, marks
  <2> QED BY <1>2, <2>1, MarkGroupSyncGrows
<1>9. Len(groups'[t]) = seg.taskGroupLevel /\ \A u \in Tasks \ {t} : groups'[u] = groups[u]
  <2>1. groups'[t] = Front(groups[t])
    BY <1>1, <1>2 DEF Shape
  <2>2. Len(groups'[t]) = Len(groups[t]) - 1
    BY <1>5, <2>1, Fronts
  <2> QED BY <1>1, <1>2, <1>3, <1>7, <2>2 DEF Shape
<1>12. /\ at'[t] = "runs" /\ children'[t] \subseteq children[t] /\ work' = work /\ at' = at
       /\ \A u \in Tasks \ {t} : children'[u] = children[u]
       /\ UNCHANGED <<program, hist, life, turn>>
  BY <1>1, <1>2 DEF Shape, depVars, teamVars
<1>13. turn' = Cardinality(OrderedOver')
  BY <1>1, <1>12, TurnStays
<1>14. t \in Members /\ InConstruct(t) => seg.workShareId \in Nat \cup {SingleExec}
  BY <1>1, <1>2, <1>3, <1>7, ConstructSegment DEF MarkOK
<1>15. Grows(Added(segs, t, seg), segs') /\ \A u \in Owners : Len(segs'[u]) = Len(Added(segs, t, seg)[u])
  BY <1>8
<1> HIDE DEF heap, marks
<1> QED BY <1>2, <1>3, <1>6, <1>7, <1>9, <1>12, <1>13, <1>14, <1>15, RenewStep

\* A segment as a worksharing construct makes it.
IsNewConstruct(seg) ==
  /\ seg \in SegmentType /\ seg.type = "workshare" /\ seg.offset = 0 /\ seg.span = 1
  /\ seg.taskGroupLevel = 0 /\ seg.taskGroupId = 0
  /\ seg.taskwait = 0 /\ seg.phase = 0 /\ seg.loopCount = 0 /\ seg.taskcreate = 0

(* The three kinds of them.                                                *)
LEMMA ConstructsAreNew ==
  /\ IsNewConstruct(PlaceHolderSegment)
  /\ \A id \in Nat : IsNewConstruct(IterationSegment(id)) /\ IterationSegment(id).workShareId = id
  /\ \A mark \in {SingleExec, SingleOther} :
       IsNewConstruct(SingleSegment(mark)) /\ SingleSegment(mark).workShareId = mark
<1> DEFINE base == Segment("workshare", 0, 1)
<1>1. IsNewConstruct(base) /\ base \in SegmentType
  BY DEF Segment, SegmentType, IsNewConstruct
<1> HIDE DEF base
<1>2. IsNewConstruct([base EXCEPT !.bit2 = TRUE])
  BY <1>1 DEF SegmentType, IsNewConstruct
<1>3. \A id \in Int : /\ IsNewConstruct([base EXCEPT !.workShareId = id])
                      /\ [base EXCEPT !.workShareId = id].workShareId = id
  BY <1>1 DEF SegmentType, IsNewConstruct
<1>4. SingleExec \in Int /\ SingleOther \in Int
  BY DEF SingleExec, SingleOther
<1> QED BY <1>2, <1>3, <1>4 DEF PlaceHolderSegment, IterationSegment, SingleSegment, base

(* A member gets its iteration.                                            *)
LEMMA DispatchKeeps ==
  ASSUME IInv, NEW m \in Tasks, Dispatch(m), [Next]_vars
  PROVE  IInv' /\ Grows(segs, segs')
<1> DEFINE seg == IterationSegment(Cardinality(Dispatched))
<1>1. Structure /\ Shape /\ program \in Programs /\ Ages
  BY DEF IInv, Structure
<1>2. /\ m \in Members /\ work[m] = "preamble"
      /\ segs' = Added(segs, m, seg)
      /\ label' = [label EXCEPT ![m] = ReplaceLast(@, NextRef(m))]
      /\ work' = [work EXCEPT ![m] = "iterates"] /\ at' = [at EXCEPT ![m] = "runs"]
      /\ UNCHANGED <<program, depVars, children, turn, groups, hist>>
  BY DEF Dispatch, MutateLast, Added, Go
<1>3. InConstruct(m) /\ at[m] = "passes"
  BY <1>1, <1>2 DEF InConstruct, Structure, Places, PlaceOK
<1>4. /\ Live(m) /\ HeapOK(segs) /\ NestingOK(m) /\ Own(m).type = "workshare" /\ Own(m).offset = 0
      /\ Own(m) = Obj(label[m][3])
  BY <1>1, <1>2, <1>3, RunningTask, ConstructSegment
<1>5. Cardinality(Dispatched) \in Nat
  <2>1. Dispatched \subseteq Members
    BY DEF Dispatched
  <2> QED BY <2>1, TeamIsFinite, FS_Subset, FS_CardinalityType
<1>6. /\ seg \in SegmentType /\ seg.type = "workshare" /\ seg.offset = 0 /\ seg.span = 1
      /\ seg.workShareId \in Nat /\ seg.taskGroupLevel = 0 /\ seg.taskGroupId = 0
      /\ seg.taskwait = 0 /\ seg.phase = 0 /\ seg.loopCount = 0 /\ seg.taskcreate = 0
  BY <1>5, ConstructsAreNew DEF IsNewConstruct
<1> HIDE DEF seg
<1>7. ObjectOK(m, Len(segs[m]) + 1, seg) /\ SameKind(seg, Own(m))
  BY <1>2, <1>4, <1>6 DEF ObjectOK, SameKind
<1>8. CountsOK(seg)
  <2>1. program.groups \in Nat /\ program.waits \in Nat
    BY <1>1, ProgramsAssumption, WidthAssumption DEF Bounds
  <2>2. 0 \in 0..program.groups
    BY <2>1
  <2> QED BY <1>6, <2>1, <2>2 DEF CountsOK
<1>9. Age(seg) >= Age(Own(m))
  <2>1. Age(Own(m)) = 0
    BY <1>1, <1>2, <1>4 DEF Ages, PlaceHoldersAreNew
  <2>2. Age(seg) = 0
    BY <1>6 DEF Age
  <2> QED BY <2>1, <2>2
<1>10. Grows(Added(segs, m, seg), segs')
  <2>1. HeapOK(Added(segs, m, seg))
    BY <1>4, <1>6, <1>7, <1>8, AddGrows DEF Grows
  <2> QED BY <1>2, <2>1, GrowsReflexive
<1>11. Len(groups'[m]) = seg.taskGroupLevel
  <2>1. groups[m] = <<>>
    BY <1>3, <1>4 DEF NestingOK
  <2> QED BY <1>2, <1>6, <2>1, EmptySeq
<1>12. /\ at'[m] = "runs" /\ work'[m] = "iterates" /\ children' = children /\ groups' = groups
       /\ \A u \in Tasks \ {m} : at'[u] = at[u] /\ (u \in Members => work'[u] = work[u])
       /\ UNCHANGED <<program, hist, life, turn>>
  BY <1>1, <1>2 DEF Shape, depVars
<1>13. turn' = Cardinality(OrderedOver')
  <2>1. \A n \in Members : (work'[n] \in {"past", "after"}) <=> (work[n] \in {"past", "after"})
    BY <1>2, <1>12 DEF Tasks
  <2> QED BY <1>1, <1>12, <2>1, TurnStays
<1> QED BY <1>2, <1>3, <1>4, <1>6, <1>7, <1>8, <1>9, <1>10, <1>11, <1>12, <1>13, RenewStep

(* A member in or after its ordered region: a phase passes.                *)
LEMMA PhaseStep ==
  ASSUME IInv, [Next]_vars, NEW m \in Members, at[m] = "runs", work[m] \in {"iterates", "ordered"},
         MutateLast(m, NextPhase(Own(m))), NEW place \in {"ordered", "past"},
         work' = [work EXCEPT ![m] = place],
         UNCHANGED <<program, life, children, at, groups, hist>>, turn' = Cardinality(OrderedOver')
  PROVE  IInv' /\ Grows(segs, segs')
<1> DEFINE seg == NextPhase(Own(m))
<1>0. m \in Tasks
  BY DEF Tasks
<1>1. Structure /\ Shape /\ program \in Programs
  BY DEF IInv, Structure
<1>2. /\ segs' = Added(segs, m, seg)
      /\ label' = [label EXCEPT ![m] = ReplaceLast(@, NextRef(m))]
  BY DEF MutateLast, Added
<1>3. InConstruct(m)
  BY DEF InConstruct
<1>4. /\ Live(m) /\ HeapOK(segs) /\ Own(m) \in SegmentType /\ CountsOK(Own(m)) /\ MarkOK(m)
      /\ Len(groups[m]) = Own(m).taskGroupLevel
  BY <1>0, <1>1, RunningTask
<1>5. PICK n \in Nat : ObjectOK(m, n, Own(m))
  BY <1>0, <1>1, RunningTask
<1>6. seg \in SegmentType /\ ObjectOK(m, Len(segs[m]) + 1, seg) /\ CountsOK(seg)
  BY <1>0, <1>1, <1>4, <1>5, NewSegments
<1>7. SameKind(seg, Own(m)) /\ Age(seg) >= Age(Own(m)) /\ seg.taskGroupLevel = Own(m).taskGroupLevel
      /\ seg.workShareId = Own(m).workShareId
  BY <1>4, NotYounger
<1> HIDE DEF seg
<1>8. Grows(Added(segs, m, seg), segs')
  <2>1. HeapOK(Added(segs, m, seg))
    BY <1>0, <1>4, <1>6, AddGrows DEF Grows
  <2> QED BY <1>2, <2>1, GrowsReflexive
<1>9. seg.workShareId \in Nat \cup {SingleExec}
  BY <1>1, <1>3, <1>4, <1>7, ConstructSegment DEF MarkOK
<1>10. work'[m] = place /\ \A u \in Members \ {m} : work'[u] = work[u]
  BY <1>0, <1>1 DEF Shape
<1>11. place \in {"iterates", "ordered", "past"} /\ work[m] \in {"preamble", "iterates", "ordered"}
  OBVIOUS
<1> QED BY <1>0, <1>2, <1>4, <1>6, <1>7, <1>8, <1>9, <1>10, <1>11, RenewStep

\* mutex_acquired replaces the segment of the iteration by one of the next phase.
LEMMA OrderedAcquiredKeeps ==
  ASSUME IInv, NEW m \in Tasks, OrderedAcquired(m), [Next]_vars
  PROVE  IInv' /\ Grows(segs, segs')
<1>1. Structure /\ Shape
  BY DEF IInv, Structure
<1>2. /\ m \in Members /\ at[m] = "runs" /\ work[m] = "iterates"
      /\ MutateLast(m, NextPhase(Own(m))) /\ work' = [work EXCEPT ![m] = "ordered"]
      /\ UNCHANGED <<program, life, children, turn, at, groups, hist>>
  BY DEF OrderedAcquired, Runs, depVars
<1>3. turn' = Cardinality(OrderedOver')
  <2>1. \A n \in Members : (work'[n] \in {"past", "after"}) <=> (work[n] \in {"past", "after"})
    BY <1>1, <1>2 DEF Shape
  <2> QED BY <1>1, <1>2, <2>1, TurnStays
<1> QED BY <1>2, <1>3, PhaseStep

\* mutex_released does the same, and ends the turn.
LEMMA OrderedReleasedKeeps ==
  ASSUME IInv, NEW m \in Tasks, OrderedReleased(m), [Next]_vars
  PROVE  IInv' /\ Grows(segs, segs')
<1>1. Structure /\ Shape /\ Places
  BY DEF IInv, Structure
<1>2. /\ m \in Members /\ at[m] = "runs" /\ work[m] = "ordered"
      /\ MutateLast(m, NextPhase(Own(m))) /\ work' = [work EXCEPT ![m] = "past"]
      /\ turn' = turn + 1 /\ UNCHANGED <<program, life, children, at, groups, hist>>
  BY DEF OrderedReleased, Runs, depVars
<1>3. program.construct = "ordered"
  BY <1>1, <1>2 DEF Places, PlaceOK, Tasks
<1>4. turn' = Cardinality(OrderedOver')
  <2>1. OrderedOver' = OrderedOver \cup {m} /\ m \notin OrderedOver
    BY <1>1, <1>2, <1>3 DEF Shape, OrderedOver
  <2>2. IsFiniteSet(OrderedOver)
    <3>1. OrderedOver \subseteq Members
      BY DEF OrderedOver
    <3> QED BY <3>1, TeamIsFinite, FS_Subset
  <2>3. Cardinality(OrderedOver \cup {m}) = Cardinality(OrderedOver) + 1
    BY <2>1, <2>2, FS_AddElement
  <2> QED BY <1>1, <1>2, <2>1, <2>3 DEF Places
<1> QED BY <1>2, <1>4, PhaseStep

(* The tasks that a task has made can be counted.                          *)
LEMMA MadeIsCount ==
  ASSUME Shape, NEW p \in Tasks
  PROVE  Made(p) \in Nat
<1> DEFINE T == {c \in ExpTasks : life[c] # "none"}
           own == {c \in ExpTasks : Creator[c] = p /\ life[c] # "none"}
<1>1. own \subseteq T /\ IsFiniteSet(T)
  BY DEF Shape
<1> HIDE DEF T
<1> QED BY <1>1, FS_Subset, FS_CardinalityType DEF Made

(* A task creates an explicit task.                                        *)
LEMMA CreateKeeps ==
  ASSUME IInv, NEW p \in Tasks, Create(p), [Next]_vars
  PROVE  IInv' /\ Grows(segs, segs')
<1>0. PICK c : c = Append(p, Made(p) + 1)
  OBVIOUS
<1> DEFINE seg == TaskCreated(Own(p))
           first == Segment("explicit", 0, 1)
           heap == Added(segs, c, first)
<1>1. /\ Structure /\ Shape /\ program \in Programs /\ GraphTypeOK /\ Heap /\ HeapOK(segs)
      /\ LabelsEnd /\ \A u \in ExpTasks : u \in Tasks
  BY DEF IInv, Structure, Heap, Tasks
<1>2. /\ at[p] = "runs" /\ c \in ExpTasks
      /\ life[c] = "none" /\ life' = [life EXCEPT ![c] = "created"]
      /\ segs' = [segs EXCEPT ![c] = <<first>>, ![p] = Append(@, seg)]
      /\ label' = [label EXCEPT ![c] = Append(label[p], <<c, 1>>),
                                ![p] = ReplaceLast(@, NextRef(p))]
      /\ children' = [children EXCEPT ![p] = @ \cup {c}]
      /\ UNCHANGED <<program, teamVars, at, groups, hist>>
  BY <1>0 DEF Create, Runs, TaskCreate
<1>3. Creator[c] = p /\ c # p /\ c \in Tasks /\ c \notin Members
  <2>1. Made(p) + 1 \in Nat
    BY <1>1, MadeIsCount
  <2> QED BY <1>0, <1>1, <1>2, <2>1, CreatorOf, Names
<1>4. /\ Live(p) /\ PlaceOK(p) /\ NestingOK(p) /\ Own(p) \in SegmentType /\ CountsOK(Own(p))
      /\ Len(groups[p]) = Own(p).taskGroupLevel /\ (p \in Members => MarkOK(p))
  BY <1>1, <1>2, RunningTask
<1>5. PICK n \in Nat : ObjectOK(p, n, Own(p))
  BY <1>1, <1>2, RunningTask
<1>6. seg \in SegmentType /\ ObjectOK(p, Len(segs[p]) + 1, seg) /\ CountsOK(seg)
  BY <1>1, <1>4, <1>5, NewSegments
<1>7. SameKind(seg, Own(p)) /\ Age(seg) = Age(Own(p)) + 1 /\ seg.taskGroupLevel = Own(p).taskGroupLevel
      /\ seg.workShareId = Own(p).workShareId
  BY <1>4, NotYounger
<1> HIDE DEF seg
<1>8. /\ ~ Exists(c) /\ at[c] = "none" /\ segs[c] = <<>> /\ Len(segs[c]) = 0 /\ Len(groups[c]) = 0
      /\ \A d \in children[c] : d \in ExpTasks /\ Creator[d] = c /\ life[d] # "none"
  <2>1. PlaceOK(c) /\ LabelEnds(c) /\ NestingOK(c)
    BY <1>1, <1>3 DEF Structure, Places, Nesting, LabelsEnd
  <2>2. ~ Exists(c) /\ at[c] = "none"
    BY <1>2, <2>1 DEF PlaceOK
  <2>3. Len(segs[c]) = 0 /\ segs[c] \in Seq(SegmentType)
    <3>1. c \in Owners
      BY <1>3 DEF Owners
    <3> QED BY <1>1, <2>1, <2>2, <3>1, HeapObject DEF LabelEnds
  <2> QED BY <1>1, <1>3, <2>1, <2>2, <2>3, EmptySeq DEF NestingOK, Live, Shape
<1>9. first \in SegmentType /\ ObjectOK(c, 1, first) /\ CountsOK(first) /\ first.taskGroupLevel = 0
  <2>1. program.groups \in Nat /\ program.waits \in Nat
    BY <1>1, ProgramsAssumption, WidthAssumption DEF Bounds
  <2>2. 0 \in 0..program.groups
    BY <2>1
  <2> QED BY <1>2, <2>1, <2>2 DEF Segment, SegmentType, ObjectOK, CountsOK
<1> HIDE DEF first
<1>10. /\ Grows(segs, heap) /\ Len(heap[c]) = 1 /\ heap[c][1] = first
       /\ \A s \in Owners \ {c} : heap[s] = segs[s]
  <2>1. Len(segs[c]) + 1 = 1
    BY <1>8
  <2>2. ObjectOK(c, Len(segs[c]) + 1, first)
    BY <1>9, <2>1
  <2>3. /\ Grows(segs, heap) /\ Len(heap[c]) = Len(segs[c]) + 1 /\ heap[c][Len(segs[c]) + 1] = first
        /\ \A s \in Owners \ {c} : heap[s] = segs[s]
    BY <1>1, <1>3, <1>9, <2>2, AddGrows
  <2> HIDE DEF heap
  <2> QED BY <2>1, <2>3
<1>11. segs' = Added(heap, p, seg)
  <2>1. Append(segs[c], first) = <<first>>
    BY <1>8
  <2>2. p \in Owners /\ c \in Owners /\ DOMAIN segs = Owners /\ segs = [s \in Owners |-> segs[s]]
    BY <1>1, <1>3 DEF HeapOK, Owners
  <2>3. heap = [s \in Owners |-> IF s = c THEN <<first>> ELSE segs[s]]
    BY <2>1, <2>2 DEF Added
  <2>4. segs' = [s \in Owners |-> IF s = p THEN Append(segs[p], seg)
                                  ELSE IF s = c THEN <<first>> ELSE segs[s]]
    BY <1>2, <1>3, <2>2
  <2> HIDE DEF heap
  <2> QED BY <1>3, <2>2, <2>3, <2>4 DEF Added
<1> HIDE DEF heap
<1>12. /\ p \in Owners /\ c \in Owners /\ heap[p] = segs[p] /\ HeapOK(heap)
  BY <1>3, <1>10 DEF Owners, Grows
<1>13. /\ Grows(heap, segs') /\ Len(segs'[p]) = Len(segs[p]) + 1
       /\ segs'[p][Len(segs[p]) + 1] = seg
       /\ \A s \in Owners \ {p} : segs'[s] = heap[s]
  BY <1>6, <1>11, <1>12, AddGrows
<1>14. Grows(segs, segs') /\ HeapOK(segs')
  BY <1>1, <1>10, <1>13, GrowsTransitive DEF Grows
<1>15. /\ IsObject(segs', NextRef(p)) /\ NextRef(p) \in Owners \X Nat
       /\ ObjectAt(segs', NextRef(p)) = seg
  <2>1. Len(segs[p]) \in Nat /\ DOMAIN segs'[p] = 1..Len(segs'[p])
    BY <1>1, <1>12, <1>14, HeapObject
  <2>2. NextRef(p)[1] = p /\ NextRef(p)[2] = Len(segs[p]) + 1 /\ Len(segs[p]) + 1 \in DOMAIN segs'[p]
    BY <1>13, <2>1 DEF NextRef
  <2> QED BY <1>12, <1>13, <2>1, <2>2 DEF IsObject, ObjectAt, NextRef
<1>16. /\ IsObject(segs', <<c, 1>>) /\ <<c, 1>> \in Owners \X Nat
       /\ ObjectAt(segs', <<c, 1>>) = first
  <2>1. DOMAIN segs'[c] = 1..1 /\ segs'[c][1] = first
    BY <1>3, <1>10, <1>12, <1>13, <1>14, HeapObject
  <2> QED BY <1>12, <2>1 DEF IsObject, ObjectAt
<1>17. /\ label'[p] = ReplaceLast(label[p], NextRef(p)) /\ label'[c] = Append(label[p], <<c, 1>>)
       /\ \A u \in Tasks \ {p, c} : label'[u] = label[u]
       /\ life'[c] = "created" /\ \A u \in ExpTasks \ {c} : life'[u] = life[u]
       /\ children'[p] = children[p] \cup {c}
       /\ \A u \in Tasks \ {p} : children'[u] = children[u]
  BY <1>1, <1>2, <1>3 DEF LabelsEnd, GraphTypeOK, Shape
<1>18. /\ LabelOK(segs, label[p]) /\ label[p] \in Seq(Owners \X Nat) /\ Len(label[p]) \in Nat
       /\ Len(label[p]) >= 2 /\ label[p][Len(label[p])][1] = p
  BY <1>1, <1>4, OwnSegment
<1>19. /\ label'[c] \in Seq(Owners \X Nat) /\ Len(label'[c]) = Len(label[p]) + 1
       /\ label'[c][Len(label[p]) + 1] = <<c, 1>>
       /\ \A k \in 1..Len(label[p]) : label'[c][k] = label[p][k]
       /\ LabelOK(segs', label'[c])
  <2>1. /\ label'[c] \in Seq(Owners \X Nat) /\ Len(label'[c]) = Len(label[p]) + 1
        /\ label'[c][Len(label[p]) + 1] = <<c, 1>>
        /\ \A k \in 1..Len(label[p]) : label'[c][k] = label[p][k]
    BY <1>16, <1>17, <1>18, Ends
  <2>2. LabelOK(segs', label[p])
    BY <1>1, <1>14, <1>18, ObjectStays
  <2>3. <<c, 1>>[1] \in ExpTasks
    BY <1>2
  <2> DEFINE ref == <<c, 1>>
  <2> HIDE DEF ref
  <2>4. LabelOK(segs', Append(label[p], ref))
    BY <1>14, <1>16, <2>2, <2>3, LabelLonger DEF ref
  <2> QED BY <1>17, <2>1, <2>4 DEF ref
<1>20. Exists(c)' /\ Last(label'[c]) = <<c, 1>> /\ Live(c)' /\ Own(c)' = first
  <2>1. Last(label'[c]) = <<c, 1>>
    BY <1>19 DEF Last
  <2>2. Exists(c)'
    <3>1. Len(label'[c]) # 0
      BY <1>18, <1>19
    <3> QED BY <1>19, <3>1, EmptySeq DEF Exists
  <2> QED BY <1>2, <1>8, <1>16, <2>1, <2>2 DEF Live, Own, Obj
<1>21. /\ \A u \in Tasks : Exists(u) /\ u # p => Exists(u)'
       /\ \A d \in children'[p] : Creator[d] = p /\ life'[d] # "none"
  <2>1. ASSUME NEW d \in children[p] PROVE d \in ExpTasks /\ Creator[d] = p /\ life[d] # "none"
    BY <1>1, <1>4 DEF NestingOK, Shape
  <2> QED BY <1>3, <1>8, <1>17, <1>20, <2>1 DEF Exists
<1>22. /\ at'[p] = "runs" /\ Len(groups'[p]) = seg.taskGroupLevel /\ at[p] # "passes"
       /\ work' = work /\ program' = program /\ (p \in ExpTasks => life'[p] = life[p])
       /\ Age(seg) >= Age(Own(p)) /\ MarkedOnly(seg, ObjectAt(segs', NextRef(p)))
  <2>1. Age(Own(p)) \in Nat
    BY <1>4 DEF Age, SegmentType
  <2> QED BY <1>2, <1>3, <1>4, <1>6, <1>7, <1>15, <1>17, <2>1 DEF MarkedOnly, teamVars
<1>23. p \in Members /\ InConstruct(p) => seg.workShareId \in Nat \cup {SingleExec}
  BY <1>1, <1>2, <1>4, <1>7, ConstructSegment DEF MarkOK
<1>24. /\ TaskOK(p)' /\ Live(p)' /\ label'[p] \in Seq(Owners \X Nat)
       /\ Kept(p) /\ Age(Own(p)') = Age(seg) /\ label[p] \in InUse /\ Acting(p)
       /\ Follows(label'[p], label[p]) /\ ~ (Len(label'[p]) > Len(label[p]))
       /\ label'[p][1] = label[p][1] /\ label'[p][2][1] = label[p][2][1]
       /\ p \in Members => work'[p] # "preamble"
  BY <1>2, <1>4, <1>6, <1>7, <1>14, <1>15, <1>17, <1>21, <1>22, <1>23, RenewedTask DEF Kept
<1>25. TaskOK(c)'
  <2>1. LabelEnds(c)'
    <3>1. Len(label'[c]) >= 3 /\ label'[c][Len(label'[c]) - 1][1] = Creator[c]
      <4> DEFINE depth == Len(label[p])
      <4>1. /\ depth \in Nat /\ depth >= 2 /\ Len(label'[c]) = depth + 1 /\ label[p][depth][1] = p
            /\ \A k \in 1..depth : label'[c][k] = label[p][k]
        BY <1>18, <1>19
      <4> HIDE DEF depth
      <4>2. Len(label'[c]) >= 3 /\ Len(label'[c]) - 1 = depth /\ depth \in 1..depth
        BY <4>1
      <4>3. label'[c][depth] = label[p][depth]
        BY <4>1, <4>2
      <4> QED BY <4>1, <4>2, <4>3, <1>3
    <3> QED BY <1>3, <1>2, <1>8, <1>19, <1>20, <3>1 DEF LabelEnds, Live
  <2>2. PlaceOK(c)'
    <3>1. Exists(p)'
      BY <1>24 DEF Live
    <3> QED BY <1>2, <1>3, <1>8, <1>17, <1>20, <3>1 DEF PlaceOK
  <2>3. NestingOK(c)'
    <3>1. \A d \in children'[c] : Creator[d] = c /\ life'[d] # "none"
      BY <1>2, <1>3, <1>8, <1>17
    <3> QED BY <1>2, <1>3, <1>8, <1>9, <1>20, <3>1 DEF NestingOK
  <2> QED BY <1>3, <2>1, <2>2, <2>3 DEF TaskOK
<1> DEFINE S == {p, c}
<1>26. Moves(S)
  <2>1. \A u \in Tasks : Exists(u) => Exists(u)'
    BY <1>21, <1>24 DEF Live
  <2>2. \A u \in Tasks \ S : Len(segs'[u]) = Len(segs[u])
    BY <1>10, <1>13 DEF Owners
  <2>3. \A u \in ExpTasks : life[u] # "none" => life'[u] # "none"
    BY <1>17
  <2> QED BY <1>2, <1>14, <1>17, <1>22, <2>1, <2>2, <2>3 DEF Moves
<1>27. label' \in [Tasks -> Seq(Owners \X Nat)]
  <2>1. \A u \in Tasks : label'[u] \in Seq(Owners \X Nat)
    BY <1>1, <1>17, <1>19, <1>24 DEF LabelsEnd
  <2>2. label' = [u \in Tasks |-> label'[u]]
    BY <1>1, <1>2 DEF LabelsEnd
  <2> QED BY <2>1, <2>2
<1>28. Orders(S, p, c)
  <2>1. Extends(label'[c], label[p]) /\ Follows(label'[c], label[p])
    BY <1>18, <1>19 DEF Extends, Follows
  <2>2. Age(Own(p)') > Age(Own(p))
    <3>1. Age(Own(p)) \in Nat
      BY <1>4 DEF Age, SegmentType
    <3> QED BY <3>1, <1>7, <1>24
  <2>3. label'[c][1] = label[p][1] /\ label'[c][2][1] = label[p][2][1]
    <3>1. 1 \in 1..Len(label[p]) /\ 2 \in 1..Len(label[p])
      BY <1>18
    <3> QED BY <3>1, <1>19
  <2> QED BY <1>3, <1>24, <2>1, <2>2, <2>3 DEF Orders
<1>29. turn' = Cardinality(OrderedOver')
  BY <1>1, <1>2, <1>22, TurnStays DEF teamVars
<1> HIDE DEF S
<1>30. \A t \in Tasks \cap S : TaskOK(t)'
  BY <1>24, <1>25 DEF S
<1> QED BY <1>2, <1>3, <1>26, <1>27, <1>28, <1>29, <1>30, StepKeeps

(* A member enters a construct: a segment is pushed.                       *)
LEMMA PushStep ==
  ASSUME IInv, [Next]_vars, NEW m \in Members, at[m] = "runs", groups[m] = <<>>,
         work[m] = "before", NEW seg, IsNewConstruct(seg),
         NEW place \in {"executes", "passes", "preamble"}, NEW to \in {"runs", "passes"},
         to = "runs" <=> place = "executes",
         program.construct = (IF place = "preamble" THEN "ordered" ELSE "single"),
         place = "executes" => seg.workShareId = SingleExec,
         segs' = Added(segs, m, seg), label' = [label EXCEPT ![m] = Append(@, NextRef(m))],
         work' = [work EXCEPT ![m] = place], at' = [at EXCEPT ![m] = to],
         UNCHANGED <<program, life, children, turn, groups, hist>>
  PROVE  IInv' /\ Grows(segs, segs')
<1>0. m \in Tasks /\ m \notin ExpTasks /\ m \in Owners
  BY Names DEF Tasks, Owners
<1>1. Structure /\ Shape /\ program \in Programs /\ Heap /\ HeapOK(segs) /\ LabelsEnd
  BY DEF IInv, Structure, Heap
<1>2. /\ Live(m) /\ Acting(m) /\ PlaceOK(m) /\ NestingOK(m) /\ LabelEnds(m)
      /\ Len(groups[m]) = Own(m).taskGroupLevel
  BY <1>0, <1>1, RunningTask
<1>3. /\ LabelOK(segs, label[m]) /\ label[m] \in Seq(Owners \X Nat) /\ Len(label[m]) = 2
      /\ label[m][2][1] = m /\ Own(m) = ObjectAt(segs, label[m][2])
  <2>1. ~ InConstruct(m)
    BY DEF InConstruct
  <2>2. Len(label[m]) = 2 /\ label[m][2][1] = m
    BY <1>2, <2>1 DEF LabelEnds
  <2> QED BY <1>0, <1>1, <1>2, <2>2, OwnSegment
<1>4. Own(m).taskGroupLevel = 0
  BY <1>2, EmptySeq
<1>5. seg \in SegmentType /\ ObjectOK(m, Len(segs[m]) + 1, seg) /\ CountsOK(seg)
  <2>1. program.groups \in Nat /\ program.waits \in Nat
    BY <1>1, ProgramsAssumption, WidthAssumption DEF Bounds
  <2>2. 0 \in 0..program.groups
    BY <2>1
  <2> QED BY <2>1, <2>2 DEF IsNewConstruct, ObjectOK, CountsOK
<1>6. /\ Grows(segs, segs') /\ IsObject(segs', NextRef(m)) /\ NextRef(m) \in Owners \X Nat
      /\ NextRef(m)[1] = m /\ MarkedOnly(seg, ObjectAt(segs', NextRef(m)))
  <2>1. HeapOK(Added(segs, m, seg))
    BY <1>0, <1>1, <1>5, AddGrows DEF Grows
  <2>2. Grows(Added(segs, m, seg), segs')
    BY <2>1, GrowsReflexive
  <2> QED BY <1>0, <1>1, <1>5, <2>2, NewObject
<1>7. /\ label'[m] \in Seq(Owners \X Nat) /\ Len(label'[m]) = 3 /\ label'[m][3] = NextRef(m)
      /\ label'[m][1] = label[m][1] /\ label'[m][2] = label[m][2]
      /\ \A u \in Tasks \ {m} : label'[u] = label[u]
  <2>1. label'[m] = Append(label[m], NextRef(m)) /\ \A u \in Tasks \ {m} : label'[u] = label[u]
    BY <1>0, <1>1 DEF LabelsEnd
  <2>0. label[m] \in Seq(Owners \X Nat) /\ NextRef(m) \in Owners \X Nat
    BY <1>3, <1>6
  <2>2. /\ label'[m] \in Seq(Owners \X Nat) /\ Len(label'[m]) = Len(label[m]) + 1
        /\ label'[m][Len(label[m]) + 1] = NextRef(m)
        /\ \A k \in 1..Len(label[m]) : label'[m][k] = label[m][k]
    BY <2>0, <2>1, Ends
  <2>3. Len(label[m]) + 1 = 3 /\ 1 \in 1..Len(label[m]) /\ 2 \in 1..Len(label[m])
    BY <1>3
  <2> QED BY <2>1, <2>2, <2>3
<1>8. LabelOK(segs', label'[m])
  <2>1. LabelOK(segs', label[m])
    BY <1>1, <1>3, <1>6, ObjectStays
  <2>2. label'[m] = Append(label[m], NextRef(m))
    BY <1>0, <1>1 DEF LabelsEnd
  <2>3. ObjectAt(segs', NextRef(m)).type = "workshare"
    BY <1>6 DEF MarkedOnly, IsNewConstruct
  <2>4. HeapOK(segs')
    BY <1>6 DEF Grows
  <2> QED BY <1>3, <1>6, <2>1, <2>2, <2>3, <2>4, LabelLonger
<1>9. /\ work'[m] = place /\ at'[m] = to /\ InConstruct(m)'
      /\ \A u \in Tasks \ {m} : at'[u] = at[u] /\ (u \in Members => work'[u] = work[u])
  BY <1>0, <1>1 DEF Shape, InConstruct
<1>10. Exists(m)' /\ Live(m)' /\ Own(m)' = ObjectAt(segs', NextRef(m)) /\ Obj(label[m][3])' = Own(m)'
  <2>1. Exists(m)'
    BY <1>7, EmptySeq DEF Exists
  <2>2. Last(label'[m]) = NextRef(m)
    BY <1>7 DEF Last
  <2> QED BY <1>7, <1>9, <2>1, <2>2 DEF Live, Own, Obj
<1>11. TaskOK(m)'
  <2>1. LabelEnds(m)'
    BY <1>0, <1>3, <1>6, <1>7, <1>8, <1>9, <1>10 DEF LabelEnds
  <2>2. PlaceOK(m)'
    BY <1>0, <1>2, <1>7, <1>9, <1>10 DEF PlaceOK
  <2>3. NestingOK(m)'
    <3>1. Len(groups'[m]) = 0 /\ Own(m)'.taskGroupLevel = 0 /\ groups'[m] = <<>>
      BY <1>2, <1>4, <1>6, <1>10 DEF MarkedOnly, IsNewConstruct
    <3>2. Obj(label[m][2])'.taskGroupLevel = 0
      <4>1. 2 \in 1..Len(label[m])
        BY <1>3
      <4>2. MarkedOnly(Obj(label[m][2]), ObjectAt(segs', label[m][2]))
        BY <1>1, <1>3, <1>6, <4>1, ObjectStays
      <4>3. Obj(label[m][2])' = ObjectAt(segs', label[m][2])
        BY <1>7 DEF Obj
      <4> QED BY <1>3, <1>4, <4>2, <4>3 DEF MarkedOnly, Obj
    <3>3. \A c \in children'[m] : Creator[c] = m /\ life'[c] # "none"
      BY <1>2 DEF NestingOK
    <3> QED BY <1>9, <1>10, <3>1, <3>2, <3>3 DEF NestingOK
  <2>4. MarkOK(m)'
    <3>1. Obj(label[m][3])'.workShareId = seg.workShareId
      BY <1>6, <1>10 DEF MarkedOnly
    <3>2. at'[m] # "passes" => seg.workShareId = SingleExec
      BY <1>9
    <3> QED BY <3>1, <3>2 DEF MarkOK
  <2> QED BY <2>1, <2>2, <2>3, <2>4 DEF TaskOK
<1>12. Moves({m})
  <2>1. \A u \in Tasks : Exists(u) => Exists(u)'
    BY <1>7, <1>10 DEF Exists
  <2>2. \A u \in Tasks \ {m} : Len(segs'[u]) = Len(segs[u])
    BY <1>0, <1>1, <1>5, AddGrows DEF Owners
  <2> QED BY <1>6, <1>7, <1>9, <2>1, <2>2 DEF Moves
<1>13. label' \in [Tasks -> Seq(Owners \X Nat)]
  BY <1>1, <1>7 DEF LabelsEnd
<1>14. Orders({m}, m, m)
  <2>1. Extends(label'[m], label[m]) /\ Follows(label'[m], label[m]) /\ ~ Kept(m)
    <3>1. \A k \in 1..2 : label'[m][k] = label[m][k]
      BY <1>7
    <3> QED BY <1>3, <1>7, <3>1 DEF Extends, Follows, Kept
  <2>2. Age(Obj(label[m][3])') = 0
    <3>1. Age(ObjectAt(segs', NextRef(m))) = Age(seg)
      BY <1>6 DEF MarkedOnly, Age
    <3>2. Age(seg) = 0
      BY DEF Age, IsNewConstruct
    <3> QED BY <1>10, <3>1, <3>2
  <2>3. label[m] \in InUse
    BY <1>0, <1>2 DEF InUse
  <2> QED BY <1>2, <1>7, <2>1, <2>2, <2>3 DEF Orders
<1>15. turn' = Cardinality(OrderedOver')
  <2>1. \A u \in Members : (work'[u] \in {"past", "after"}) <=> (work[u] \in {"past", "after"})
    BY <1>9 DEF Tasks
  <2> QED BY <1>1, <2>1, TurnStays
<1>16. \A t \in Tasks \cap {m} : TaskOK(t)'
  BY <1>11
<1> DEFINE S == {m}
<1> HIDE DEF S
<1> QED BY <1>0, <1>12, <1>13, <1>14, <1>15, <1>16, StepKeeps DEF S

(* A member arrives at a single construct.                                 *)
LEMMA SingleBeginKeeps ==
  ASSUME IInv, NEW m \in Tasks, SingleBegin(m), [Next]_vars
  PROVE  IInv' /\ Grows(segs, segs')
<1>1. PICK first \in BOOLEAN :
        /\ m \in Members /\ program.construct = "single" /\ at[m] = "runs" /\ groups[m] = <<>>
        /\ work[m] = "before"
        /\ work' = [work EXCEPT ![m] = IF first THEN "executes" ELSE "passes"]
        /\ segs' = Added(segs, m, SingleSegment(IF first THEN SingleExec ELSE SingleOther))
        /\ at' = [at EXCEPT ![m] = IF first THEN "runs" ELSE "passes"]
        /\ label' = [label EXCEPT ![m] = Append(@, NextRef(m))]
        /\ UNCHANGED <<program, life, children, turn, groups, hist>>
  BY DEF SingleBegin, Runs, Go, Added, depVars
<1>2. CASE first
  <2> DEFINE seg == SingleSegment(SingleExec)
  <2>1. IsNewConstruct(seg) /\ seg.workShareId = SingleExec
    BY ConstructsAreNew
  <2>2. /\ segs' = Added(segs, m, seg) /\ work' = [work EXCEPT ![m] = "executes"]
        /\ at' = [at EXCEPT ![m] = "runs"]
    BY <1>1, <1>2
  <2> HIDE DEF seg
  <2> QED BY <1>1, <2>1, <2>2, PushStep
<1>3. CASE ~ first
  <2> DEFINE seg == SingleSegment(SingleOther)
  <2>1. IsNewConstruct(seg)
    BY ConstructsAreNew
  <2>2. /\ segs' = Added(segs, m, seg) /\ work' = [work EXCEPT ![m] = "passes"]
        /\ at' = [at EXCEPT ![m] = "passes"]
    BY <1>1, <1>3
  <2> HIDE DEF seg
  <2> QED BY <1>1, <2>1, <2>2, PushStep
<1> QED BY <1>2, <1>3

(* A member arrives at an ordered loop.                                    *)
LEMMA LoopBeginKeeps ==
  ASSUME IInv, NEW m \in Tasks, LoopBegin(m), [Next]_vars
  PROVE  IInv' /\ Grows(segs, segs')
<1>1. /\ m \in Members /\ program.construct = "ordered" /\ at[m] = "runs" /\ groups[m] = <<>>
      /\ work[m] = "before"
      /\ work' = [work EXCEPT ![m] = "preamble"] /\ at' = [at EXCEPT ![m] = "passes"]
      /\ segs' = Added(segs, m, PlaceHolderSegment)
      /\ label' = [label EXCEPT ![m] = Append(@, NextRef(m))]
      /\ UNCHANGED <<program, life, children, turn, groups, hist>>
  BY DEF LoopBegin, Runs, Go, Added, depVars
<1>2. IsNewConstruct(PlaceHolderSegment)
  BY ConstructsAreNew
<1> QED BY <1>1, <1>2, PushStep

(* A member leaves a construct, for the barrier at its end.                *)
LEMMA PopStep ==
  ASSUME IInv, [Next]_vars, NEW m \in Members, InConstruct(m), groups[m] = <<>>,
         Grows(segs, segs'), \A u \in Owners \ {m} : Len(segs'[u]) = Len(segs[u]),
         NEW y \in Seq(Owners \X Nat), label' = [label EXCEPT ![m] = y],
         Len(y) = 2, y[1] = label[m][1], y[2][1] = m, LabelOK(segs', y),
         ObjectAt(segs', y[2]).taskGroupLevel = 0,
         work' = [work EXCEPT ![m] = "after"], at' = [at EXCEPT ![m] = "barrier"],
         UNCHANGED <<program, life, children, groups, hist>>, turn' = Cardinality(OrderedOver')
  PROVE  IInv' /\ Grows(segs, segs')
<1>0. m \in Tasks /\ m \notin ExpTasks
  BY Names DEF Tasks
<1>1. Structure /\ Shape /\ program \in Programs /\ Heap /\ LabelsEnd
  BY DEF IInv, Structure
<1>2. PlaceOK(m) /\ NestingOK(m) /\ Live(m) /\ label[m][2][1] = m
  BY <1>0, <1>1, ConstructSegment DEF Structure, Places, Nesting
<1>3. /\ label'[m] = y /\ \A u \in Tasks \ {m} : label'[u] = label[u]
      /\ work'[m] = "after" /\ at'[m] = "barrier"
      /\ \A u \in Tasks \ {m} : at'[u] = at[u] /\ (u \in Members => work'[u] = work[u])
  BY <1>0, <1>1 DEF LabelsEnd, Shape
<1>4. Exists(m)' /\ Own(m)' = ObjectAt(segs', y[2]) /\ ~ InConstruct(m)' /\ ~ Acting(m)'
  <2>1. Exists(m)'
    <3>1. y # <<>>
      <4> SUFFICES ASSUME y = <<>> PROVE FALSE
        OBVIOUS
      <4>1. Len(y) = 0
        OBVIOUS
      <4> QED BY <4>1
    <3> QED BY <1>3, <3>1 DEF Exists
  <2> QED BY <1>3, <2>1 DEF Own, Obj, Last, InConstruct, Acting
<1>5. y[1][2] <= program.barriers
  <2>1. y[1][2] = 1 /\ program.construct # "none"
    BY <1>2 DEF PlaceOK, InConstruct
  <2>2. program.barriers > 0 /\ program.barriers \in Nat
    BY <1>1, <2>1, ProgramsAssumption, WidthAssumption DEF Bounds
  <2> QED BY <2>1, <2>2
<1>6. TaskOK(m)'
  <2>1. LabelEnds(m)'
    BY <1>0, <1>3, <1>4 DEF LabelEnds
  <2>2. PlaceOK(m)'
    BY <1>0, <1>2, <1>3, <1>4, <1>5 DEF PlaceOK
  <2>3. NestingOK(m)'
    <3>1. Len(groups'[m]) = 0
      BY EmptySeq
    <3>2. \A c \in children'[m] : Creator[c] = m /\ life'[c] # "none"
      BY <1>2 DEF NestingOK
    <3> QED BY <1>3, <1>4, <3>1, <3>2 DEF NestingOK
  <2>4. MarkOK(m)'
    BY <1>4 DEF MarkOK
  <2> QED BY <2>1, <2>2, <2>3, <2>4 DEF TaskOK
<1>7. Moves({m})
  <2>1. \A u \in Tasks : Exists(u) => Exists(u)'
    BY <1>3, <1>4 DEF Exists
  <2> QED BY <1>3, <2>1 DEF Moves, Owners
<1>8. label' \in [Tasks -> Seq(Owners \X Nat)]
  BY <1>1, <1>3 DEF LabelsEnd
<1>9. Orders({m}, m, m)
  <2>0. label[m] \in InUse
    BY <1>0, <1>2 DEF InUse
  <2>1. Len(label'[m]) <= 2
    <3> DEFINE n == Len(label'[m])
    <3>1. n = 2
      BY <1>3
    <3> HIDE DEF n
    <3>2. n <= 2
      BY <3>1
    <3> QED BY <3>2 DEF n
  <2>2. label'[m][1] = label[m][1] /\ label'[m][2][1] = label[m][2][1]
    BY <1>2, <1>3
  <2>3. \A u \in Tasks \cap {m} : u = m
    OBVIOUS
  <2>4. work'[m] # "preamble"
    BY <1>3
  <2> QED BY <1>4, <2>0, <2>1, <2>2, <2>3, <2>4 DEF Orders
<1>10. \A t \in Tasks \cap {m} : TaskOK(t)'
  BY <1>6
<1> DEFINE S == {m}
<1> HIDE DEF S
<1> QED BY <1>0, <1>7, <1>8, <1>9, <1>10, StepKeeps DEF S

(* The label of a member without the segment of its construct.             *)
LEMMA PoppedLabel ==
  ASSUME Structure, NEW m \in Members, InConstruct(m)
  PROVE  /\ Front(label[m]) \in Seq(Owners \X Nat) /\ Len(Front(label[m])) = 2
         /\ Front(label[m])[1] = label[m][1] /\ Front(label[m])[2] = label[m][2]
         /\ LabelOK(segs, Front(label[m]))
<1>1. /\ Live(m) /\ Len(label[m]) = 3 /\ m \in Tasks /\ Heap /\ HeapOK(segs) /\ LabelsEnd
  BY ConstructSegment DEF Structure, Heap, Tasks
<1>2. LabelOK(segs, label[m]) /\ label[m] \in Seq(Owners \X Nat)
  BY <1>1, OwnSegment
<1>3. LabelOK(segs, Front(label[m]))
  <2> DEFINE n == Len(label[m])
  <2>1. n = 3
    BY <1>1
  <2> HIDE DEF n
  <2>2. n >= 3
    BY <2>1
  <2>3. Len(label[m]) >= 3
    BY <2>2 DEF n
  <2> QED BY <1>1, <1>2, <2>3, LabelShorter
<1>4. /\ Len(label[m]) >= 1 /\ Len(label[m]) - 1 = 2
      /\ 1 \in 1..Len(label[m])-1 /\ 2 \in 1..Len(label[m])-1
  BY <1>1
<1>5. /\ Front(label[m]) \in Seq(Owners \X Nat) /\ Len(Front(label[m])) = Len(label[m]) - 1
      /\ \A k \in 1..Len(label[m])-1 : Front(label[m])[k] = label[m][k]
  <2>1. label[m] \in Seq(Owners \X Nat) /\ Len(label[m]) >= 1
    BY <1>2, <1>4
  <2> QED BY <2>1, Fronts
<1> QED BY <1>3, <1>4, <1>5

(* The end of a single construct.                                          *)
LEMMA SingleEndKeeps ==
  ASSUME IInv, NEW m \in Tasks, SingleEnd(m), [Next]_vars
  PROVE  IInv' /\ Grows(segs, segs')
<1>1. Structure /\ NestingOK(m) /\ PlaceOK(m) /\ HeapOK(segs)
  BY DEF IInv, Structure, Nesting, Places, Heap
<1>2. /\ m \in Members /\ work[m] \in {"executes", "passes"}
      /\ at[m] = "passes" \/ groups[m] = <<>>
      /\ label' = [label EXCEPT ![m] = Front(@)] /\ work' = [work EXCEPT ![m] = "after"]
      /\ at' = [at EXCEPT ![m] = "barrier"]
      /\ UNCHANGED <<program, life, segs, children, turn, groups, hist>>
  BY DEF SingleEnd, Runs, Go, depVars
<1>3. InConstruct(m) /\ groups[m] = <<>> /\ program.construct # "ordered"
  BY <1>1, <1>2 DEF InConstruct, NestingOK, PlaceOK
<1>4. /\ Obj(label[m][2]).taskGroupLevel = 0 /\ label[m][2][1] = m
  BY <1>1, <1>2, <1>3, ConstructSegment
<1> DEFINE y == Front(label[m])
<1>5. /\ y \in Seq(Owners \X Nat) /\ Len(y) = 2 /\ y[1] = label[m][1] /\ y[2] = label[m][2]
      /\ LabelOK(segs, y)
  BY <1>1, <1>2, <1>3, PoppedLabel
<1>6. label' = [label EXCEPT ![m] = y]
  BY <1>2
<1> HIDE DEF y
<1>7. /\ y[2][1] = m /\ LabelOK(segs', y) /\ ObjectAt(segs', y[2]).taskGroupLevel = 0
      /\ Grows(segs, segs') /\ \A u \in Owners \ {m} : Len(segs'[u]) = Len(segs[u])
  BY <1>1, <1>2, <1>4, <1>5, GrowsReflexive DEF Obj
<1>8. turn' = Cardinality(OrderedOver')
  BY <1>1, <1>2, <1>3, TurnStays
<1> QED BY <1>2, <1>3, <1>5, <1>6, <1>7, <1>8, PopStep

(* The end of an ordered loop.                                             *)
LEMMA LoopEndKeeps ==
  ASSUME IInv, NEW m \in Tasks, LoopEnd(m), [Next]_vars
  PROVE  IInv' /\ Grows(segs, segs')
<1> DEFINE old == Obj(label[m][2])
           seg == LoopCounted(old)
<1>1. Structure /\ Shape /\ program \in Programs /\ Heap /\ HeapOK(segs)
  BY DEF IInv, Structure, Heap
<1>2. /\ m \in Members /\ work[m] = "past" /\ groups[m] = <<>>
      /\ label' = [label EXCEPT ![m] = ReplaceLast(Front(@), NextRef(m))]
      /\ work' = [work EXCEPT ![m] = "after"] /\ at' = [at EXCEPT ![m] = "barrier"]
      /\ UNCHANGED <<program, life, children, turn, groups, hist>>
  BY DEF LoopEnd, Runs, Go, depVars
<1>3. InConstruct(m)
  BY <1>2 DEF InConstruct
<1>4. old.taskGroupLevel = 0 /\ old.type = "implicit" /\ label[m][2][1] = m
  BY <1>1, <1>2, <1>3, ConstructSegment
<1> DEFINE x == Front(label[m])
           y == ReplaceLast(x, NextRef(m))
<1>5. /\ x \in Seq(Owners \X Nat) /\ Len(x) = 2 /\ x[1] = label[m][1] /\ x[2] = label[m][2]
      /\ LabelOK(segs, x)
  BY <1>1, <1>2, <1>3, PoppedLabel
<1>6. segs' = Added(segs, m, seg)
  BY DEF LoopEnd, Added
<1>7. label' = [label EXCEPT ![m] = y]
  BY <1>2
<1> HIDE DEF x
<1>8. old \in SegmentType /\ ObjectOK(m, x[2][2], old) /\ CountsOK(old)
  <2>1. 2 \in 1..Len(x)
    BY <1>5
  <2>2. /\ ObjectAt(segs, x[2]) \in SegmentType /\ CountsOK(ObjectAt(segs, x[2]))
        /\ ObjectOK(x[2][1], x[2][2], ObjectAt(segs, x[2]))
    BY <2>1, <1>1, <1>5, LabelRefs
  <2>3. old = ObjectAt(segs, x[2]) /\ x[2][1] = m
    BY <1>4, <1>5 DEF Obj
  <2> QED BY <2>2, <2>3
<1> HIDE DEF old
<1>9. seg \in SegmentType /\ ObjectOK(m, Len(segs[m]) + 1, seg) /\ CountsOK(seg)
  BY <1>1, <1>2, <1>8, NewSegments
<1>10. seg.taskGroupLevel = 0 /\ seg.type = "implicit"
  BY <1>4, <1>8 DEF SegmentType, LoopCounted
<1> HIDE DEF seg
<1>11. /\ Grows(segs, segs') /\ IsObject(segs', NextRef(m)) /\ NextRef(m) \in Owners \X Nat
       /\ NextRef(m)[1] = m /\ MarkedOnly(seg, ObjectAt(segs', NextRef(m)))
       /\ \A u \in Owners \ {m} : Len(segs'[u]) = Len(segs[u])
  <2>1. /\ HeapOK(Added(segs, m, seg))
        /\ \A u \in Owners \ {m} : Added(segs, m, seg)[u] = segs[u]
    BY <1>1, <1>9, AddGrows DEF Grows
  <2>2. Grows(Added(segs, m, seg), segs')
    BY <1>6, <2>1, GrowsReflexive
  <2> QED BY <1>1, <1>6, <1>9, <2>1, <2>2, NewObject
<1>12. /\ LabelOK(segs', y) /\ Len(y) = 2 /\ y[2] = NextRef(m) /\ y[1] = x[1]
  <2>1. HeapOK(segs') /\ LabelOK(segs', x)
    BY <1>1, <1>5, <1>11, ObjectStays DEF Grows
  <2>2. Last(x) = x[2]
    BY <1>5 DEF Last
  <2>3. ObjectAt(segs', x[2]).type = "implicit"
    BY <2>1 DEF LabelOK
  <2>4. NextRef(m)[1] = Last(x)[1]
    BY <1>4, <1>5, <1>11, <2>2
  <2>5. ObjectAt(segs', NextRef(m)).type = ObjectAt(segs', Last(x)).type
    BY <1>10, <1>11, <2>2, <2>3 DEF MarkedOnly
  <2>6. /\ LabelOK(segs', y) /\ Len(y) = Len(x) /\ y[Len(x)] = NextRef(m)
        /\ \A k \in 1..Len(x)-1 : y[k] = x[k]
    BY <1>11, <2>1, <2>4, <2>5, LabelEndReplaced
  <2>7. 1 \in 1..Len(x)-1
    BY <1>5
  <2> QED BY <1>5, <2>6, <2>7
<1> HIDE DEF y
<1>13. y \in Seq(Owners \X Nat) /\ y[1] = label[m][1] /\ y[2][1] = m
       /\ ObjectAt(segs', y[2]).taskGroupLevel = 0
  BY <1>5, <1>10, <1>11, <1>12 DEF LabelOK, MarkedOnly
<1>14. turn' = Cardinality(OrderedOver')
  <2>1. \A u \in Members : (work'[u] \in {"past", "after"}) <=> (work[u] \in {"past", "after"})
    BY <1>1, <1>2 DEF Shape
  <2> QED BY <1>1, <1>2, <2>1, TurnStays
<1> QED BY <1>2, <1>3, <1>7, <1>11, <1>12, <1>13, <1>14, PopStep

(* An explicit task completes: its segment is popped.                      *)
LEMMA FinishKeeps ==
  ASSUME IInv, NEW t \in ExpTasks, Finish(t), [Next]_vars
  PROVE  IInv' /\ Grows(segs, segs')
<1>0. t \in Tasks /\ t \notin Members
  BY Names DEF Tasks
<1>1. Structure /\ Shape /\ GraphTypeOK /\ Heap /\ HeapOK(segs) /\ LabelsEnd
  BY DEF IInv, Structure, Heap
<1>2. /\ at[t] = "runs" /\ groups[t] = <<>> /\ life' = [life EXCEPT ![t] = "complete"]
      /\ at' = [at EXCEPT ![t] = "done"] /\ label' = [label EXCEPT ![t] = Front(@)]
      /\ UNCHANGED <<program, segs, children, work, turn, groups, hist>>
  BY DEF Finish, TaskComplete, Runs, Go, teamVars
<1>3. Live(t) /\ PlaceOK(t) /\ NestingOK(t) /\ LabelEnds(t)
  BY <1>0, <1>1, <1>2, RunningTask
<1>4. /\ LabelOK(segs, label[t]) /\ label[t] \in Seq(Owners \X Nat) /\ Len(label[t]) \in Nat
      /\ Len(label[t]) >= 3 /\ label[t][Len(label[t]) - 1][1] = Creator[t]
  BY <1>0, <1>1, <1>3, OwnSegment DEF LabelEnds
<1>5. /\ life'[t] = "complete" /\ at'[t] = "done" /\ label'[t] = Front(label[t])
      /\ \A u \in Tasks \ {t} : at'[u] = at[u] /\ label'[u] = label[u]
      /\ \A u \in ExpTasks \ {t} : life'[u] = life[u]
  BY <1>0, <1>1, <1>2 DEF LabelsEnd, Shape, GraphTypeOK
<1>6. /\ label'[t] \in Seq(Owners \X Nat) /\ label'[t] # <<>> /\ LabelOK(segs', label'[t])
      /\ Last(label'[t])[1] = Creator[t]
  <2> DEFINE n == Len(label[t])
             y == Front(label[t])
  <2>1. LabelOK(segs, y)
    BY <1>1, <1>4, LabelShorter
  <2>2. /\ y \in Seq(Owners \X Nat) /\ Len(y) = n - 1
        /\ \A k \in 1..n-1 : y[k] = label[t][k]
    <3>1. label[t] \in Seq(Owners \X Nat) /\ Len(label[t]) >= 1
      BY <1>4
    <3> QED BY <3>1, Fronts
  <2>3. n - 1 \in 1..n-1 /\ n - 1 # 0
    BY <1>4
  <2>4. y # <<>>
    BY <2>2, <2>3, EmptySeq
  <2>5. Last(y) = label[t][n - 1]
    BY <2>2, <2>3 DEF Last
  <2> QED BY <1>2, <1>4, <1>5, <2>1, <2>2, <2>4, <2>5
<1>7. Exists(t)' /\ ~ Live(t)' /\ ~ Acting(t)'
  BY <1>5, <1>6 DEF Exists, Live, Acting
<1>8. \A u \in Tasks : Exists(u) => Exists(u)'
  BY <1>5, <1>7 DEF Exists
<1>9. TaskOK(t)'
  <2>1. LabelEnds(t)'
    BY <1>0, <1>5, <1>6, <1>7 DEF LabelEnds
  <2>2. PlaceOK(t)'
    BY <1>0, <1>2, <1>3, <1>5, <1>7, <1>8 DEF PlaceOK
  <2>3. NestingOK(t)'
    <3>1. Len(groups'[t]) = 0
      BY <1>2, EmptySeq
    <3>2. \A c \in children'[t] : Creator[c] = t /\ life'[c] # "none"
      <4>1. \A c \in children[t] : c \in ExpTasks /\ Creator[c] = t /\ life[c] # "none"
        BY <1>0, <1>1, <1>3 DEF NestingOK, Shape
      <4> QED BY <1>2, <1>5, <4>1
    <3> QED BY <1>0, <1>5, <1>7, <3>1, <3>2 DEF NestingOK
  <2> QED BY <1>0, <2>1, <2>2, <2>3 DEF TaskOK
<1>10. Moves({t})
  <2>1. Grows(segs, segs')
    BY <1>1, <1>2, GrowsReflexive
  <2>2. \A u \in ExpTasks : life[u] # "none" => life'[u] # "none"
    BY <1>5
  <2> QED BY <1>2, <1>5, <1>8, <2>1, <2>2 DEF Moves
<1>11. label' \in [Tasks -> Seq(Owners \X Nat)]
  BY <1>1, <1>2, <1>5, <1>6 DEF LabelsEnd
<1>12. Orders({t}, t, t)
  BY <1>0, <1>7 DEF Orders
<1>13. turn' = Cardinality(OrderedOver')
  BY <1>1, <1>2, TurnStays
<1>14. \A u \in Tasks \cap {t} : TaskOK(u)'
  BY <1>9
<1> DEFINE S == {t}
<1> HIDE DEF S
<1> QED BY <1>0, <1>2, <1>10, <1>11, <1>12, <1>13, <1>14, StepKeeps DEF S

(* The segments of the initial task and of the member at the top of a label*)
(* tell the barriers passed and the member.                                *)
LEMMA LabelTop ==
  ASSUME Heap, NEW x, LabelOK(segs, x)
  PROVE  /\ Len(x) \in Nat /\ Len(x) >= 2
         /\ x[1] = <<Root, x[1][2]>> /\ x[1][2] \in Nat
         /\ Obj(x[1]).type = "implicit" /\ Obj(x[1]).offset = x[1][2] - 1
         /\ x[2][1] \in Members
         /\ Obj(x[2]).type = "implicit" /\ Obj(x[2]).offset = x[2][1][1]
<1>1. Len(x) \in Nat /\ Len(x) >= 2 /\ 1 \in 1..Len(x) /\ 2 \in 1..Len(x)
  BY LabelRefs DEF Heap, LabelOK
<1>2. /\ x[1] \in Owners \X Nat /\ x[1] = <<x[1][1], x[1][2]>>
      /\ ObjectOK(x[1][1], x[1][2], ObjectAt(segs, x[1]))
  BY <1>1, LabelRefs DEF Heap
<1>3. ObjectOK(x[2][1], x[2][2], ObjectAt(segs, x[2]))
  BY <1>1, LabelRefs DEF Heap
<1>4. x[1][1] = Root /\ x[2][1] \in Members /\ ObjectAt(segs, x[2]).type = "implicit"
  BY DEF LabelOK
<1>5. Root \notin Members /\ Root \notin ExpTasks /\ x[2][1] # Root /\ x[2][1] \notin ExpTasks
  BY <1>4, Names
<1>6. Obj(x[1]).type = "implicit" /\ Obj(x[1]).offset = x[1][2] - 1
  BY <1>2, <1>4, <1>5 DEF ObjectOK, Obj
<1>7. Obj(x[2]).offset = x[2][1][1]
  BY <1>3, <1>4, <1>5 DEF ObjectOK, Obj
<1> QED BY <1>1, <1>2, <1>4, <1>6, <1>7 DEF Obj

(* A member leaves the barrier: the segment of the initial task changes.   *)
LEMMA BarrierEndKeeps ==
  ASSUME IInv, NEW m \in Tasks, BarrierEnd(m), [Next]_vars
  PROVE  IInv' /\ Grows(segs, segs')
<1> DEFINE n == label[m][1][2]
           y == [label[m] EXCEPT ![1] = <<Root, n + 1>>]
<1>1. /\ Structure /\ Shape /\ Ages /\ Heap /\ HeapOK(segs) /\ LabelsEnd /\ PlaceOK(m)
      /\ LabelEnds(m) /\ NestingOK(m) /\ program \in Programs /\ Recorded
  BY DEF IInv, Structure, Heap, LabelsEnd, Nesting, Places
<1>2. /\ at[m] = "released" /\ label' = [label EXCEPT ![m][1] = <<Root, @[2] + 1>>]
      /\ at' = [at EXCEPT ![m] = "runs"]
      /\ UNCHANGED <<program, life, segs, children, work, turn, groups, hist>>
  BY DEF BarrierEnd, Go, depVars, teamVars
<1>3. m \in Members /\ m \notin ExpTasks /\ m # Root
  BY <1>1, <1>2, Names DEF PlaceOK, Tasks
<1>4. /\ Live(m) /\ work[m] = "after" /\ ~ InConstruct(m) /\ n <= program.barriers
      /\ Len(label[m]) = 2 /\ label[m][2][1] = m
  BY <1>1, <1>2, <1>3 DEF PlaceOK, Live, InConstruct, LabelEnds
<1>5. /\ LabelOK(segs, label[m]) /\ label[m] \in Seq(Owners \X Nat)
      /\ Own(m) = Obj(label[m][2])
  BY <1>1, <1>4, OwnSegment DEF Obj
<1>6. /\ label[m][1] = <<Root, n>> /\ n \in Nat /\ Obj(label[m][1]).type = "implicit"
      /\ Own(m).type = "implicit" /\ Own(m).offset = m[1]
  BY <1>1, <1>4, <1>5, LabelTop
<1>7. /\ label'[m] = y /\ at'[m] = "runs"
      /\ \A u \in Tasks \ {m} : label'[u] = label[u] /\ at'[u] = at[u]
  BY <1>1, <1>2 DEF LabelsEnd, Shape
<1>8. /\ IsObject(segs, <<Root, n + 1>>) /\ <<Root, n + 1>> \in Owners \X Nat
      /\ ObjectAt(segs, <<Root, n + 1>>).type = "implicit"
  <2>1. Root \in Owners /\ Len(segs[Root]) = program.barriers + 1 /\ program.barriers \in Nat
    BY <1>1, ProgramsAssumption, WidthAssumption DEF Owners, HeapOK, Bounds
  <2>2. n + 1 \in 1..Len(segs[Root])
    BY <2>1, <1>4, <1>6
  <2>3. DOMAIN segs[Root] = 1..Len(segs[Root]) /\ ObjectOK(Root, n + 1, segs[Root][n + 1])
    BY <2>1, <2>2, <1>1, HeapObject
  <2>4. segs[Root][n + 1].type = "implicit"
    BY <2>3, Names DEF ObjectOK
  <2> QED BY <2>1, <2>2, <2>3, <2>4, <1>6 DEF IsObject, ObjectAt
<1>9. /\ y \in Seq(Owners \X Nat) /\ Len(y) = 2 /\ y[1] = <<Root, n + 1>> /\ y[2] = label[m][2]
      /\ LabelOK(segs, y)
  <2>1. y \in Seq(Owners \X Nat) /\ Len(y) = Len(label[m]) /\ DOMAIN label[m] = 1..Len(label[m])
    <3>1. label[m] \in Seq(Owners \X Nat) /\ 1 \in 1..Len(label[m]) /\ <<Root, n + 1>> \in Owners \X Nat
      BY <1>4, <1>5, <1>8
    <3> QED BY <3>1, ExceptSeq, LenProperties
  <2>2. 1 \in 1..Len(label[m]) /\ 2 \in 1..Len(label[m])
    BY <1>4
  <2>3. y[1] = <<Root, n + 1>> /\ \A k \in 1..Len(label[m]) : k # 1 => y[k] = label[m][k]
    BY <2>1, <2>2
  <2>4. ObjectAt(segs, y[1]).type = ObjectAt(segs, label[m][1]).type /\ y[1][1] = label[m][1][1]
    BY <1>6, <1>8, <2>3 DEF Obj
  <2> HIDE DEF y
  <2>5. LabelOK(segs, y)
    BY <1>1, <1>5, <1>8, <2>1, <2>2, <2>3, <2>4, LabelReplaced
  <2> QED BY <1>4, <2>1, <2>2, <2>3, <2>5
<1> HIDE DEF y
<1>10. Exists(m)' /\ Live(m)' /\ Own(m)' = Own(m) /\ ~ InConstruct(m)'
  <2>1. y # <<>>
    <3> SUFFICES ASSUME y = <<>> PROVE FALSE
      OBVIOUS
    <3>1. Len(y) = 0
      OBVIOUS
    <3> QED BY <3>1, <1>9
  <2>2. Last(y) = y[2]
    BY <1>9 DEF Last
  <2> QED BY <1>2, <1>4, <1>5, <1>7, <1>9, <2>1, <2>2 DEF Exists, Live, Own, Obj, InConstruct
<1>11. TaskOK(m)'
  <2>1. LabelEnds(m)'
    BY <1>2, <1>3, <1>4, <1>7, <1>9, <1>10 DEF LabelEnds
  <2>2. PlaceOK(m)'
    BY <1>1, <1>2, <1>3, <1>4, <1>7, <1>10 DEF PlaceOK
  <2>3. NestingOK(m)'
    BY <1>1, <1>2, <1>4, <1>7, <1>10 DEF NestingOK
  <2>4. MarkOK(m)'
    BY <1>10 DEF MarkOK
  <2> QED BY <2>1, <2>2, <2>3, <2>4 DEF TaskOK
<1>12. Structure'
  <2> DEFINE S == {m}
  <2>1. Moves(S)
    <3>1. Grows(segs, segs')
      BY <1>1, <1>2, GrowsReflexive
    <3>2. \A u \in Tasks : Exists(u) => Exists(u)'
      BY <1>7, <1>10 DEF Exists
    <3> QED BY <1>2, <1>7, <3>1, <3>2 DEF Moves
  <2>2. label' \in [Tasks -> Seq(Owners \X Nat)]
    BY <1>1, <1>2, <1>7, <1>9 DEF LabelsEnd
  <2>3. turn' = Cardinality(OrderedOver')
    BY <1>1, <1>2, TurnStays
  <2>4. Shape'
    BY <1>1, ShapeStep DEF Structure
  <2>5. \A t \in Tasks \cap S : TaskOK(t)'
    BY <1>11
  <2> HIDE DEF S
  <2> QED BY <1>1, <1>2, <2>1, <2>2, <2>3, <2>4, <2>5, StructureStep
<1>13. ASSUME NEW x \in InUse'
       PROVE  LabelOK(segs, x) /\ (x \in InUse \/ x = y)
  <2>1. ASSUME NEW u \in Tasks, Live(u)', x = label'[u] PROVE LabelOK(segs, x) /\ (x \in InUse \/ x = y)
    <3>1. CASE u = m
      BY <2>1, <3>1, <1>7, <1>9
    <3>2. CASE u # m
      <4>1. label'[u] = label[u] /\ Live(u)
        BY <2>1, <3>2, <1>7 DEF Live, Exists
      <4> QED BY <2>1, <4>1, <1>1, OwnSegment DEF InUse
    <3> QED BY <3>1, <3>2
  <2>2. x = hist /\ hist # <<>> => LabelOK(segs, x) /\ x \in InUse
    BY <1>1 DEF InUse, Recorded
  <2> QED BY <2>1, <2>2, <1>2 DEF InUse
<1>14. /\ PartsShow /\ DescendantsAreBelowOlder /\ EndsDiffer /\ NoLabelIsAhead
       /\ PlaceHoldersAreNew
  BY <1>1 DEF Ages
<1>15. ASSUME NEW u \in Tasks, Acting(u)', u # m
       PROVE  Acting(u) /\ label'[u] = label[u] /\ Own(u)' = Own(u) /\ LabelOK(segs, label[u])
  <2>1. Acting(u) /\ label'[u] = label[u]
    BY <1>7, <1>15 DEF Acting, Live, Exists
  <2> QED BY <1>1, <1>2, <2>1, OwnSegment DEF Acting, Own, Obj
<1>16. PartsShow'
  <2> SUFFICES ASSUME NEW x \in InUse', NEW z \in InUse', NEW i \in 1..Len(x)-1,
                      i < Len(z), AgreeBelow(x, z, i), x[i] # z[i]
               PROVE  ~ SameKind(Obj(x[i]), Obj(z[i])) \/ Age(Obj(x[i])) # Age(Obj(z[i]))
    BY <1>2 DEF PartsShow, Obj
  <2>1. LabelOK(segs, x) /\ LabelOK(segs, z) /\ Len(x) \in Nat /\ i \in Nat /\ i < Len(x) /\ i >= 1
    BY <1>1, <1>13, LabelTop
  <2>2. CASE i = 1
    <3>1. Obj(x[1]).offset # Obj(z[1]).offset
      <4>1. /\ x[1] = <<Root, x[1][2]>> /\ x[1][2] \in Nat /\ Obj(x[1]).offset = x[1][2] - 1
            /\ z[1] = <<Root, z[1][2]>> /\ z[1][2] \in Nat /\ Obj(z[1]).offset = z[1][2] - 1
        BY <2>1, <1>1, LabelTop
      <4>2. x[1][2] # z[1][2]
        BY <2>2, <4>1
      <4> QED BY <4>1, <4>2
    <3> QED BY <2>2, <3>1 DEF SameKind
  <2>3. CASE i # 1
    <3>1. i >= 2
      BY <2>1, <2>3
    <3>a. Len(z) \in Nat
      BY <2>1, <1>1, LabelTop
    <3>b. \A l \in Nat : i < l => ~ (l = 2)
      BY <2>1, <3>1
    <3>c. ~ (Len(x) = 2) /\ ~ (Len(z) = 2)
      BY <2>1, <3>a, <3>b
    <3>2. x # y /\ z # y
      BY <3>c, <1>9
    <3>3. x \in InUse /\ z \in InUse
      BY <1>13, <3>2
    <3> QED BY <3>3, <1>14 DEF PartsShow
  <2> QED BY <2>2, <2>3
<1>17. DescendantsAreBelowOlder'
  <2> SUFFICES ASSUME NEW u \in Tasks, Acting(u)', NEW x \in InUse', Len(label'[u]) < Len(x),
                      AgreeBelow(x, label'[u], Len(label'[u]))
               PROVE  \/ ~ SameKind(Obj(x[Len(label'[u])]), Own(u)')
                      \/ Age(Obj(x[Len(label'[u])])) < Age(Own(u)')
    BY <1>2 DEF DescendantsAreBelowOlder, Obj
  <2>1. LabelOK(segs, x) /\ Len(x) \in Nat
    BY <1>1, <1>13, LabelTop
  <2>2. CASE u # m
    <3>1. Acting(u) /\ label'[u] = label[u] /\ Own(u)' = Own(u) /\ LabelOK(segs, label[u])
      BY <2>2, <1>15
    <3>2. Len(label[u]) \in Nat /\ Len(label[u]) >= 2
      BY <3>1, <1>1, LabelTop
    <3>b. \A k, l \in Nat : k >= 2 /\ k < l => ~ (l = 2)
      OBVIOUS
    <3>c. ~ (Len(x) = 2)
      BY <2>1, <3>1, <3>2, <3>b
    <3>3. x # y
      BY <3>c, <1>9
    <3>4. x \in InUse
      BY <1>13, <3>3
    <3> QED BY <3>1, <3>4, <1>14 DEF DescendantsAreBelowOlder
  <2>3. CASE u = m
    <3>1. label'[u] = y /\ Len(label'[u]) = 2 /\ Own(u)' = Own(m)
      BY <2>3, <1>7, <1>9, <1>10
    <3>b. \A l \in Nat : 2 < l => ~ (l = 2)
      OBVIOUS
    <3>c. ~ (Len(x) = 2)
      BY <2>1, <3>1, <3>b
    <3>2. x # y
      BY <3>c, <1>9
    <3>3. x \in InUse /\ x[1] = <<Root, n + 1>>
      <4>1. x[1] = y[1]
        BY <3>1 DEF AgreeBelow
      <4> QED BY <4>1, <3>2, <1>9, <1>13
    <3>4. x[1][2] <= label[x[2][1]][1][2]
      BY <3>3, <1>14 DEF NoLabelIsAhead
    <3>5. x[2][1] # m
      BY <3>3, <3>4, <1>6
    <3>6. x[2][1] \in Members /\ Obj(x[2]).offset = x[2][1][1]
      BY <2>1, <1>1, LabelTop
    <3>7. Obj(x[2]).offset # Own(m).offset
      BY <3>5, <3>6, <1>3, <1>6, Names
    <3> QED BY <3>1, <3>7 DEF SameKind
  <2> QED BY <2>2, <2>3
<1>18. EndsDiffer'
  <2>1. ASSUME NEW u \in Tasks, Acting(u)', u # m, Len(label'[u]) = 2
        PROVE  ~ SameKind(Own(u)', Own(m)') /\ ~ SameKind(Own(m)', Own(u)')
    <3>1. Acting(u) /\ label'[u] = label[u] /\ Own(u)' = Own(u) /\ LabelOK(segs, label[u])
      BY <2>1, <1>15
    <3>2. Len(label[u]) = 2 /\ Last(label[u])[1] = u /\ Own(u) = Obj(label[u][2])
      BY <2>1, <3>1, <1>1, OwnSegment DEF Acting, Obj
    <3>3. label[u][2][1] = u
      BY <3>2 DEF Last
    <3>4. u \in Members /\ Own(u).offset = u[1]
      BY <3>1, <3>2, <3>3, <1>1, LabelTop
    <3>5. u[1] # m[1]
      BY <3>4, <2>1, <1>3, Names
    <3> QED BY <3>1, <3>4, <3>5, <1>6, <1>10 DEF SameKind
  <2> SUFFICES ASSUME NEW t \in Tasks, NEW u \in Tasks, Acting(t)', Acting(u)', t # u,
                      Len(label'[t]) = Len(label'[u]),
                      AgreeBelow(label'[t], label'[u], Len(label'[t]))
               PROVE  ~ SameKind(Own(t)', Own(u)')
    BY DEF EndsDiffer
  <2>2. CASE t = m
    BY <2>1, <2>2, <1>7, <1>9
  <2>3. CASE u = m
    BY <2>1, <2>3, <1>7, <1>9
  <2>4. CASE t # m /\ u # m
    <3>1. /\ Acting(t) /\ label'[t] = label[t] /\ Own(t)' = Own(t)
          /\ Acting(u) /\ label'[u] = label[u] /\ Own(u)' = Own(u)
      BY <2>4, <1>15
    <3> QED BY <3>1, <1>14 DEF EndsDiffer
  <2> QED BY <2>2, <2>3, <2>4
<1>19. NoLabelIsAhead'
  <2> SUFFICES ASSUME NEW x \in InUse' PROVE x[1][2] <= label'[x[2][1]][1][2]
    BY DEF NoLabelIsAhead
  <2>1. CASE x = y
    BY <2>1, <1>4, <1>6, <1>7, <1>9
  <2>2. CASE x \in InUse
    <3>1. x[1][2] <= label[x[2][1]][1][2] /\ x[2][1] \in Members /\ x[1][2] \in Nat
      BY <2>2, <1>1, <1>13, <1>14, LabelTop DEF NoLabelIsAhead
    <3>2. CASE x[2][1] = m
      BY <3>1, <3>2, <1>6, <1>7, <1>9
    <3>3. CASE x[2][1] # m
      BY <3>1, <3>3, <1>7 DEF Tasks
    <3> QED BY <3>2, <3>3
  <2> QED BY <2>1, <2>2, <1>13
<1>20. PlaceHoldersAreNew'
  <2> SUFFICES ASSUME NEW k \in Members, work'[k] = "preamble" PROVE Age(Obj(label[k][3])') = 0
    BY DEF PlaceHoldersAreNew
  <2>1. k # m /\ k \in Tasks
    BY <1>2, <1>4 DEF Tasks
  <2> QED BY <2>1, <1>2, <1>7, <1>14 DEF PlaceHoldersAreNew, Obj
<1>21. Grows(segs, segs')
  BY <1>1, <1>2, GrowsReflexive DEF Structure, Heap
<1> QED BY <1>12, <1>16, <1>17, <1>18, <1>19, <1>20, <1>21 DEF IInv, Ages

-----------------------------------------------------------------------------
(* The invariant                                                           *)

(* The segments of the first state.                                        *)
LEMMA FirstHeap ==
  ASSUME Init
  PROVE  /\ HeapOK(segs)
         /\ \A m \in Members : /\ Len(segs[m]) = 1 /\ segs[m][1].type = "implicit"
                               /\ segs[m][1].offset = m[1] /\ segs[m][1].taskGroupLevel = 0
         /\ \A t \in ExpTasks : Len(segs[t]) = 0
<1>1. /\ program \in Programs
      /\ segs = [t \in Owners |->
           IF t = Root THEN [n \in 1..program.barriers+1 |-> SetOffset(ImplicitSegment(0, 1), n - 1)]
           ELSE IF t \in Members THEN <<ImplicitSegment(t[1], TeamSize)>> ELSE <<>>]
  BY DEF Init, Owners
<1>2. /\ program.barriers \in 0..OffsetLimit-1 /\ program.groups \in Nat /\ program.waits \in Nat
      /\ OffsetLimit \in Nat /\ TeamSize \in Nat
  BY <1>1, ProgramsAssumption, WidthAssumption, TeamAssumption DEF Bounds
<1>3. 0 \in 0..program.groups
  BY <1>2
<1>4. ASSUME NEW n \in 1..program.barriers+1
      PROVE  /\ SetOffset(ImplicitSegment(0, 1), n - 1) \in SegmentType
             /\ ObjectOK(Root, n, SetOffset(ImplicitSegment(0, 1), n - 1))
             /\ CountsOK(SetOffset(ImplicitSegment(0, 1), n - 1))
  <2> DEFINE base == ImplicitSegment(0, 1)
             seg == [base EXCEPT !.offset = n - 1]
  <2>1. (n - 1) % OffsetLimit = n - 1 /\ n - 1 \in Nat
    BY <1>2
  <2>2. SetOffset(base, n - 1) = seg
    BY <2>1 DEF SetOffset
  <2>3. /\ base \in SegmentType /\ base.type = "implicit" /\ base.span = 1 /\ base.taskwait = 0
        /\ base.taskGroupLevel = 0 /\ base.taskGroupId = 0
    BY DEF ImplicitSegment, Segment, SegmentType
  <2> HIDE DEF base
  <2>4. /\ seg \in SegmentType /\ seg.type = "implicit" /\ seg.span = 1 /\ seg.taskwait = 0
        /\ seg.taskGroupLevel = 0 /\ seg.taskGroupId = 0 /\ seg.offset = n - 1
    BY <2>1, <2>3 DEF SegmentType
  <2> HIDE DEF seg
  <2>5. ObjectOK(Root, n, seg) /\ CountsOK(seg)
    BY <1>2, <1>3, <2>4 DEF ObjectOK, CountsOK
  <2> QED BY <2>2, <2>4, <2>5 DEF base
<1>5. ASSUME NEW m \in Members
      PROVE  /\ ImplicitSegment(m[1], TeamSize) \in SegmentType
             /\ ObjectOK(m, 1, ImplicitSegment(m[1], TeamSize))
             /\ CountsOK(ImplicitSegment(m[1], TeamSize))
             /\ ImplicitSegment(m[1], TeamSize).type = "implicit"
             /\ ImplicitSegment(m[1], TeamSize).offset = m[1]
             /\ ImplicitSegment(m[1], TeamSize).taskGroupLevel = 0
  <2> DEFINE seg == ImplicitSegment(m[1], TeamSize)
  <2>1. m[1] \in Nat
    BY Names
  <2>2. /\ seg \in SegmentType /\ seg.type = "implicit" /\ seg.span = TeamSize /\ seg.taskwait = 0
        /\ seg.taskGroupLevel = 0 /\ seg.taskGroupId = 0 /\ seg.offset = m[1]
    BY <1>2, <2>1 DEF ImplicitSegment, Segment, SegmentType
  <2> HIDE DEF seg
  <2>3. ObjectOK(m, 1, seg) /\ CountsOK(seg)
    BY <1>2, <1>3, <2>2 DEF ObjectOK, CountsOK
  <2> QED BY <2>2, <2>3 DEF seg
<1>6. Root \in Owners /\ Root \notin Members /\ \A m \in Members : m \in Owners /\ m # Root
  BY Names DEF Owners, Tasks
<1>7. \A t \in ExpTasks : t \in Owners /\ t # Root /\ t \notin Members
  BY Names DEF Owners, Tasks
<1>8. /\ segs[Root] = [n \in 1..program.barriers+1 |-> SetOffset(ImplicitSegment(0, 1), n - 1)]
      /\ \A m \in Members : segs[m] = <<ImplicitSegment(m[1], TeamSize)>>
      /\ \A t \in ExpTasks : segs[t] = <<>>
  BY <1>1, <1>6, <1>7
<1>9. /\ segs[Root] \in Seq(SegmentType) /\ Len(segs[Root]) = program.barriers + 1
      /\ \A n \in DOMAIN segs[Root] : ObjectOK(Root, n, segs[Root][n]) /\ CountsOK(segs[Root][n])
  <2> DEFINE N == program.barriers + 1
  <2>1. N \in Nat
    BY <1>2
  <2>2. segs[Root] \in [1..N -> SegmentType]
    BY <1>4, <1>8
  <2>3. /\ segs[Root] \in Seq(SegmentType) /\ Len(segs[Root]) = N /\ DOMAIN segs[Root] = 1..N
    BY <2>1, <2>2
  <2> QED BY <1>4, <1>8, <2>3
<1>10. ASSUME NEW m \in Members
       PROVE  /\ segs[m] \in Seq(SegmentType) /\ Len(segs[m]) = 1 /\ segs[m][1].type = "implicit"
              /\ segs[m][1].offset = m[1] /\ segs[m][1].taskGroupLevel = 0
              /\ \A n \in DOMAIN segs[m] : ObjectOK(m, n, segs[m][n]) /\ CountsOK(segs[m][n])
  <2>1. segs[m] = <<ImplicitSegment(m[1], TeamSize)>>
    BY <1>8
  <2>2. /\ segs[m] \in Seq(SegmentType) /\ Len(segs[m]) = 1 /\ DOMAIN segs[m] = 1..1
        /\ segs[m][1] = ImplicitSegment(m[1], TeamSize)
    BY <1>5, <2>1
  <2>3. \A n \in DOMAIN segs[m] : n = 1
    BY <2>2
  <2> QED BY <1>5, <2>2, <2>3
<1>11. ASSUME NEW t \in ExpTasks
       PROVE  segs[t] \in Seq(SegmentType) /\ Len(segs[t]) = 0 /\ DOMAIN segs[t] = {}
  <2>1. segs[t] = <<>>
    BY <1>8
  <2>2. <<>> \in Seq(SegmentType) /\ Len(<<>>) = 0 /\ DOMAIN <<>> = {}
    OBVIOUS
  <2> QED BY <2>1, <2>2
<1>12. HeapOK(segs)
  <2>1. \A s \in Owners : s = Root \/ s \in Members \/ s \in ExpTasks
    BY DEF Owners, Tasks
  <2>2. \A s \in Owners : segs[s] \in Seq(SegmentType)
    BY <2>1, <1>9, <1>10, <1>11
  <2>3. segs \in [Owners -> Seq(SegmentType)]
    BY <2>2, <1>1
  <2>4. \A s \in Owners : \A n \in DOMAIN segs[s] : ObjectOK(s, n, segs[s][n]) /\ CountsOK(segs[s][n])
    BY <2>1, <1>9, <1>10, <1>11
  <2> QED BY <2>3, <2>4, <1>9 DEF HeapOK
<1> QED BY <1>10, <1>11, <1>12

(* It holds at first.                                                      *)
LEMMA InitIInv == Init => IInv
<1> SUFFICES ASSUME Init PROVE IInv
  OBVIOUS
<1>0. \A m \in Members : m \in Tasks /\ m \notin ExpTasks /\ m \in Owners /\ m # Root
  BY Names DEF Tasks, Owners
<1>1. /\ program \in Programs /\ GraphInit /\ turn = 0 /\ hist = <<>> /\ recorded = Root
      /\ label = [t \in Tasks |-> IF t \in Members THEN <<<<Root, 1>>, <<t, 1>>>> ELSE <<>>]
      /\ children = [t \in Tasks |-> {}]
      /\ work = [m \in Members |-> IF program.construct = "none" THEN "after" ELSE "before"]
      /\ at = [t \in Tasks |-> IF t \in Members THEN "runs" ELSE "none"]
      /\ groups = [t \in Tasks |-> <<>>]
      /\ knows = [t \in Tasks |-> FALSE] /\ seen = [t \in Tasks |-> FALSE]
      /\ grouped = [t \in Tasks |-> FALSE] /\ chain = FALSE
  BY DEF Init
<1>2. /\ HeapOK(segs) /\ \A t \in ExpTasks : Len(segs[t]) = 0
      /\ \A m \in Members : /\ Len(segs[m]) = 1 /\ segs[m][1].type = "implicit"
                            /\ segs[m][1].offset = m[1] /\ segs[m][1].taskGroupLevel = 0
  BY FirstHeap
<1>3. ASSUME NEW m \in Members
      PROVE  /\ label[m] = <<<<Root, 1>>, <<m, 1>>>> /\ label[m] \in Seq(Owners \X Nat)
             /\ Len(label[m]) = 2 /\ label[m][1] = <<Root, 1>> /\ label[m][2] = <<m, 1>>
             /\ Exists(m) /\ Live(m) /\ at[m] = "runs" /\ ~ InConstruct(m)
             /\ Own(m) = segs[m][1] /\ LabelOK(segs, label[m])
  <2>1. label[m] = <<<<Root, 1>>, <<m, 1>>>> /\ at[m] = "runs" /\ ~ InConstruct(m)
    BY <1>0, <1>1 DEF InConstruct
  <2>2. Root \in Owners /\ m \in Owners
    BY <1>0 DEF Owners
  <2>3. /\ label[m] \in Seq(Owners \X Nat) /\ Len(label[m]) = 2 /\ DOMAIN label[m] = 1..2
        /\ label[m][1] = <<Root, 1>> /\ label[m][2] = <<m, 1>> /\ label[m] # <<>>
    <3> DEFINE ref == <<Root, 1>>
               own == <<m, 1>>
    <3>1. ref \in Owners \X Nat /\ own \in Owners \X Nat /\ label[m] = <<ref, own>>
      BY <2>1, <2>2
    <3> HIDE DEF ref, own
    <3>2. /\ label[m] \in Seq(Owners \X Nat) /\ Len(label[m]) = 2 /\ DOMAIN label[m] = 1..2
          /\ label[m][1] = ref /\ label[m][2] = own
      BY <3>1
    <3>3. label[m] # <<>>
      BY <3>1
    <3> QED BY <3>2, <3>3 DEF ref, own
  <2>4. Exists(m) /\ Live(m) /\ Last(label[m]) = <<m, 1>> /\ Own(m) = segs[m][1]
    BY <2>1, <2>3 DEF Exists, Live, Last, Own, Obj, ObjectAt
  <2>5. LabelOK(segs, label[m])
    <3>1. 1 \in DOMAIN segs[Root] /\ 1 \in DOMAIN segs[m]
      <4>1. Len(segs[Root]) = program.barriers + 1 /\ program.barriers \in Nat
        BY <1>1, <1>2, ProgramsAssumption, WidthAssumption DEF HeapOK, Bounds
      <4>2. DOMAIN segs[Root] = 1..Len(segs[Root]) /\ DOMAIN segs[m] = 1..Len(segs[m])
        BY <1>2, <2>2, HeapObject
      <4> QED BY <1>2, <4>1, <4>2
    <3>2. \A k \in DOMAIN label[m] : IsObject(segs, label[m][k])
      <4>1. \A k \in DOMAIN label[m] : k = 1 \/ k = 2
        BY <2>3
      <4> QED BY <4>1, <2>2, <2>3, <3>1 DEF IsObject
    <3>3. ObjectAt(segs, label[m][2]).type = "implicit"
      BY <1>2, <2>3 DEF ObjectAt
    <3>4. \A k \in 3..Len(label[m]) : FALSE
      BY <2>3
    <3>5. Len(label[m]) >= 2
      BY <2>3
    <3> QED BY <2>3, <3>2, <3>3, <3>4, <3>5 DEF LabelOK
  <2> QED BY <2>1, <2>3, <2>4, <2>5
<1>4. ASSUME NEW t \in ExpTasks
      PROVE  label[t] = <<>> /\ ~ Exists(t) /\ ~ Live(t) /\ at[t] = "none" /\ t \in Tasks
             /\ t \notin Members /\ life[t] = "none"
  BY <1>0, <1>1 DEF Exists, Live, Tasks, GraphInit
<1>5. Shape
  <2>1. /\ at \in [Tasks -> {"none", "runs", "taskwait", "passes", "barrier", "released", "done"}]
        /\ work \in [Members -> {"before", "executes", "passes", "preamble", "iterates", "ordered",
                                "past", "after"}]
        /\ groups \in [Tasks -> Seq(Nat)] /\ children \in [Tasks -> SUBSET ExpTasks]
    BY <1>1
  <2>2. /\ recorded \in Owners /\ turn \in Nat
        /\ knows \in [Tasks -> BOOLEAN] /\ seen \in [Tasks -> BOOLEAN]
        /\ grouped \in [Tasks -> BOOLEAN] /\ chain \in BOOLEAN
    BY <1>1 DEF Owners
  <2>3. IsFiniteSet({t \in ExpTasks : life[t] # "none"})
    <3>1. {t \in ExpTasks : life[t] # "none"} = {}
      BY <1>4
    <3> QED BY <3>1, FS_EmptySet
  <2> QED BY <2>1, <2>2, <2>3 DEF Shape
<1>6. GraphTypeOK
  <2>1. Graph!GraphInit
    BY <1>1 DEF GraphInit, Graph!GraphInit, NamesNone, Graph!NamesNone, NoDep, Graph!NoDep
  <2>2. Graph!GraphTypeOK
    BY <2>1, Graph!TypeInit
  <2> QED BY <2>2 DEF GraphTypeOK, Graph!GraphTypeOK, Clauses, Graph!Clauses, DepTypes,
             Graph!DepTypes, NoDep, Graph!NoDep
<1>7. LabelsEnd
  <2>1. \A t \in Tasks : label[t] \in Seq(Owners \X Nat)
    <3>1. <<>> \in Seq(Owners \X Nat)
      OBVIOUS
    <3> QED BY <3>1, <1>3, <1>4 DEF Tasks
  <2>2. label \in [Tasks -> Seq(Owners \X Nat)]
    BY <1>1, <2>1
  <2>3. ASSUME NEW t \in Tasks PROVE LabelEnds(t)
    <3>1. CASE t \in Members
      <4>1. t \notin ExpTasks
        BY <3>1, <1>0
      <4>2. label[t][2][1] = t
        BY <3>1, <1>3
      <4> QED BY <3>1, <4>1, <4>2, <1>3 DEF LabelEnds
    <3>2. CASE t \in ExpTasks
      BY <3>2, <1>2, <1>4 DEF LabelEnds
    <3> QED BY <3>1, <3>2 DEF Tasks
  <2> QED BY <2>2, <2>3 DEF LabelsEnd
<1>8. Places
  <2>1. ASSUME NEW t \in Tasks PROVE PlaceOK(t)
    <3>1. CASE t \in Members
      <4>1. label[t][1][2] = 1 /\ at[t] = "runs" /\ Exists(t) /\ t \notin ExpTasks
        BY <3>1, <1>0, <1>3
      <4>2. work[t] = (IF program.construct = "none" THEN "after" ELSE "before")
        BY <3>1, <1>1
      <4> QED BY <3>1, <4>1, <4>2 DEF PlaceOK
    <3>2. CASE t \in ExpTasks
      BY <3>2, <1>4 DEF PlaceOK
    <3> QED BY <3>1, <3>2 DEF Tasks
  <2>2. turn = Cardinality(OrderedOver)
    <3>1. OrderedOver = {}
      BY <1>1 DEF OrderedOver
    <3> QED BY <1>1, <3>1, FS_EmptySet
  <2> QED BY <2>1, <2>2 DEF Places
<1>9. Nesting
  <2> SUFFICES ASSUME NEW t \in Tasks PROVE NestingOK(t)
    BY DEF Nesting
  <2>1. Len(groups[t]) = 0 /\ children[t] = {} /\ at[t] \in {"runs", "none"}
    BY <1>1, EmptySeq
  <2>2. CASE t \in Members
    BY <2>1, <2>2, <1>2, <1>3 DEF NestingOK
  <2>3. CASE t \in ExpTasks
    BY <2>1, <2>3, <1>4 DEF NestingOK
  <2> QED BY <2>2, <2>3 DEF Tasks
<1>10. Recorded
  <2>1. \A m \in Members : MarkOK(m)
    BY <1>3 DEF MarkOK
  <2>2. ~ (Len(hist) = 3)
    BY <1>1, EmptySeq
  <2> QED BY <1>1, <2>1, <2>2 DEF Recorded
<1>11. Structure
  BY <1>1, <1>2, <1>5, <1>6, <1>7, <1>8, <1>9, <1>10 DEF Structure, Heap
<1>12. ASSUME NEW x \in InUse PROVE \E m \in Members : x = label[m] /\ Len(x) = 2
  <2>1. PICK t \in Tasks : Live(t) /\ x = label[t]
    BY <1>1 DEF InUse
  <2>2. t \in Members
    BY <2>1, <1>4 DEF Tasks
  <2> QED BY <2>1, <2>2, <1>3
<1>13. PartsShow
  <2> SUFFICES ASSUME NEW x \in InUse, NEW y \in InUse, NEW i \in 1..Len(x)-1, x[i] # y[i]
               PROVE  FALSE
    BY DEF PartsShow
  <2>1. Len(x) = 2 /\ x[1] = <<Root, 1>> /\ y[1] = <<Root, 1>>
    BY <1>3, <1>12, SMTT(30)
  <2>2. i = 1
    BY <2>1
  <2> QED BY <2>1, <2>2
<1>14. DescendantsAreBelowOlder
  <2> SUFFICES ASSUME NEW t \in Tasks, Acting(t), NEW x \in InUse, Len(label[t]) < Len(x)
               PROVE  FALSE
    BY DEF DescendantsAreBelowOlder
  <2>1. Len(x) = 2
    BY <1>12
  <2>2. t \in Members
    BY <1>4 DEF Tasks, Acting
  <2>3. Len(label[t]) = 2
    BY <2>2, <1>3
  <2> QED BY <2>1, <2>3
<1>15. EndsDiffer
  <2> SUFFICES ASSUME NEW t \in Tasks, NEW u \in Tasks, Acting(t), Acting(u), t # u
               PROVE  ~ SameKind(Own(t), Own(u))
    BY DEF EndsDiffer
  <2>1. t \in Members /\ u \in Members
    BY <1>4 DEF Tasks, Acting
  <2>2. Own(t).offset = t[1] /\ Own(u).offset = u[1]
    BY <2>1, <1>2, <1>3
  <2>3. t[1] # u[1]
    BY <2>1, Names
  <2> QED BY <2>2, <2>3 DEF SameKind
<1>16. NoLabelIsAhead
  <2> SUFFICES ASSUME NEW x \in InUse PROVE x[1][2] <= label[x[2][1]][1][2]
    BY DEF NoLabelIsAhead
  <2>1. PICK m \in Members : x = label[m]
    BY <1>12
  <2>2. x[1][2] = 1 /\ x[2][1] = m /\ label[m][1][2] = 1
    BY <2>1, <1>3
  <2> QED BY <2>2
<1>17. PlaceHoldersAreNew
  BY <1>1 DEF PlaceHoldersAreNew
<1> QED BY <1>11, <1>13, <1>14, <1>15, <1>16, <1>17 DEF IInv, Ages

(* IInv holds in every state: the heap of segments only grows and is       *)
(* marked, labels are paths of it, and wherever two labels in use part     *)
(* above their ends the values of their segments tell.                     *)
THEOREM Invariance == Spec => []IInv
<1>1. IInv /\ [Next]_vars => IInv'
  <2> SUFFICES ASSUME IInv, [Next]_vars PROVE IInv'
    OBVIOUS
  <2>1. ASSUME NEW t \in Tasks, Step(t) PROVE IInv'
    <3>1. CASE Create(t) BY <3>1, CreateKeeps
    <3>2. CASE ReachTaskwait(t) BY <3>2, ReachTaskwaitKeeps
    <3>3. CASE TaskwaitEnd(t) BY <3>3, TaskwaitEndKeeps
    <3>4. CASE GroupBegin(t) BY <3>4, GroupBeginKeeps
    <3>5. CASE GroupEnd(t) BY <3>5, GroupEndKeeps
    <3>6. CASE SingleBegin(t) BY <3>6, SingleBeginKeeps
    <3>7. CASE SingleEnd(t) BY <3>7, SingleEndKeeps
    <3>8. CASE LoopBegin(t) BY <3>8, LoopBeginKeeps
    <3>9. CASE Dispatch(t) BY <3>9, DispatchKeeps
    <3>10. CASE OrderedAcquired(t) BY <3>10, OrderedAcquiredKeeps
    <3>11. CASE OrderedReleased(t) BY <3>11, OrderedReleasedKeeps
    <3>12. CASE LoopEnd(t) BY <3>12, LoopEndKeeps
    <3>13. CASE ReachBarrier(t) BY <3>13, ReachBarrierKeeps
    <3>14. CASE BarrierEnd(t) BY <3>14, BarrierEndKeeps
    <3>15. CASE Record(t) BY <3>15, RecordKeeps
    <3> QED BY <2>1, <3>1, <3>2, <3>3, <3>4, <3>5, <3>6, <3>7, <3>8, <3>9, <3>10, <3>11,
               <3>12, <3>13, <3>14, <3>15 DEF Step
  <2>2. ASSUME NEW t \in ExpTasks, ExpStep(t) PROVE IInv'
    <3>1. CASE RegisterDependences(t) BY <3>1, RegisterDependencesKeeps
    <3>2. CASE Begin(t) BY <3>2, BeginKeeps
    <3>3. CASE Finish(t) BY <3>3, FinishKeeps
    <3> QED BY <2>2, <3>1, <3>2, <3>3 DEF ExpStep
  <2>3. CASE OpenBarrier
    BY <2>3, OpenBarrierKeeps
  <2>4. CASE UNCHANGED vars
    BY <2>4, StutterKeeps
  <2> QED BY <2>1, <2>2, <2>3, <2>4 DEF Next
<1> QED BY <1>1, InitIInv, PTL DEF Spec

(* TypeOK in every state: the level of taskgroups that a label carries is  *)
(* the number of taskgroups the task is in, exactly the tasks that exist   *)
(* have a label, and the counts stay within the bounds of the program.     *)
THEOREM TypeCorrectness == Spec => []TypeOK
<1>1. IInv => TypeOK
  <2> SUFFICES ASSUME IInv PROVE TypeOK
    OBVIOUS
  <2>1. Structure /\ Shape /\ Heap /\ Places /\ Nesting /\ LabelsEnd
    BY DEF IInv, Structure
  <2>2. program \in Programs /\ GraphTypeOK
    BY <2>1 DEF Structure
  <2>3. program.groups \in Nat /\ program.waits \in Nat
    BY <2>2, ProgramsAssumption, WidthAssumption DEF Bounds
  <2>4. ASSUME NEW t \in Tasks, NEW n \in DOMAIN segs[t]
        PROVE  /\ segs[t][n].taskGroupLevel \in 0..program.groups
               /\ segs[t][n].taskwait \in 0..program.waits
    <3>1. t \in Owners
      BY DEF Owners
    <3>2. segs[t][n] \in SegmentType /\ CountsOK(segs[t][n])
      BY <2>1, <3>1, HeapObject DEF Heap, HeapOK
    <3>3. /\ segs[t][n].taskGroupLevel \in Nat /\ segs[t][n].taskGroupId \in Nat
          /\ segs[t][n].taskwait \in Nat
      BY <3>2 DEF SegmentType
    <3>4. PICK begun \in 0..program.groups :
            segs[t][n].taskGroupId + segs[t][n].taskGroupLevel = 2 * begun
      BY <3>2 DEF CountsOK
    <3>5. segs[t][n].taskwait <= program.waits /\ segs[t][n].taskGroupLevel <= segs[t][n].taskGroupId
      BY <3>2 DEF CountsOK
    <3> QED BY <2>3, <3>3, <3>4, <3>5
  <2>5. ASSUME NEW t \in Tasks
        PROVE  Len(groups[t]) = (IF at[t] \in {"none", "done"} THEN 0 ELSE Own(t).taskGroupLevel)
    <3>1. Len(groups[t]) = (IF Live(t) THEN Own(t).taskGroupLevel ELSE 0) /\ PlaceOK(t)
      BY <2>1 DEF Nesting, NestingOK, Places
    <3>2. at[t] = "none" => Len(groups[t]) = 0
      BY <2>1, EmptySeq DEF Nesting, NestingOK
    <3>3. at[t] \notin {"none", "done"} => Live(t)
      BY <3>1 DEF PlaceOK, Live, Tasks
    <3> QED BY <3>1, <3>2, <3>3 DEF Live
  <2>6. \A t \in ExpTasks : label[t] = <<>> <=> life[t] = "none"
    BY <2>1 DEF Places, PlaceOK, Exists, Tasks
  <2>7. turn = Cardinality({m \in Members : work[m] \in {"past", "after"} /\ program.construct = "ordered"})
    BY <2>1 DEF Places, OrderedOver
  <2> QED BY <2>1, <2>2, <2>4, <2>5, <2>6, <2>7 DEF TypeOK, Shape
<1> QED BY <1>1, Invariance, PTL

-----------------------------------------------------------------------------
(* Marks keep order                                                        *)

\* The value that a label has after the step.
DerefNext(refs) == [k \in DOMAIN refs |-> ObjectAt(segs', refs[k])]

(* A step only marks the segments of a label.                              *)
LEMMA LabelIsMarked ==
  ASSUME Heap, Grows(segs, segs'), NEW x, LabelOK(segs, x)
  PROVE  /\ MarkedLabel(Deref(x), DerefNext(x))
         /\ Len(x) \in Nat /\ Len(x) >= 2 /\ DOMAIN x = 1..Len(x)
         /\ Deref(x) \in Seq(SegmentType) /\ DerefNext(x) \in Seq(SegmentType)
         /\ Len(Deref(x)) = Len(x) /\ Len(DerefNext(x)) = Len(x)
         /\ \A k \in 1..Len(x) : /\ Deref(x)[k] = Obj(x[k])
                                 /\ DerefNext(x)[k] = ObjectAt(segs', x[k])
                                 /\ MarkedOnly(Obj(x[k]), ObjectAt(segs', x[k]))
<1>1. Len(x) \in Nat /\ DOMAIN x = 1..Len(x) /\ Len(x) >= 2
  BY LabelRefs DEF Heap, LabelOK
<1>2. \A k \in 1..Len(x) : MarkedOnly(Obj(x[k]), ObjectAt(segs', x[k]))
  BY ObjectStays
<1>3. \A k \in 1..Len(x) : Deref(x)[k] = Obj(x[k]) /\ DerefNext(x)[k] = ObjectAt(segs', x[k])
  BY <1>1 DEF Deref, DerefNext
<1>4. Deref(x) \in [1..Len(x) -> SegmentType] /\ DerefNext(x) \in [1..Len(x) -> SegmentType]
  BY <1>1, <1>2 DEF Deref, DerefNext, MarkedOnly
<1>5. /\ Deref(x) \in Seq(SegmentType) /\ DerefNext(x) \in Seq(SegmentType)
      /\ Len(Deref(x)) = Len(x) /\ Len(DerefNext(x)) = Len(x)
  BY <1>1, <1>4
<1>6. MarkedLabel(Deref(x), DerefNext(x))
  BY <1>2, <1>3, <1>5 DEF MarkedLabel
<1> QED BY <1>1, <1>2, <1>3, <1>5, <1>6

(* Kind and age are part of the value of a segment.                        *)
LEMMA AgeIsSeen ==
  ASSUME NEW left \in SegmentType, NEW right \in SegmentType, SameSegment(left, right)
  PROVE  SameKind(left, right) /\ Age(left) = Age(right) /\ left.workShareId = right.workShareId
<1>1. Value(left) = Value(right)
  BY DEF SameSegment
<1>2. \A seg \in SegmentType :
        /\ Value(seg).type = seg.type /\ Value(seg).offset = seg.offset
        /\ Value(seg).taskcreate = seg.taskcreate /\ Value(seg).taskwait = seg.taskwait
        /\ Value(seg).phase = seg.phase /\ Value(seg).loopCount = seg.loopCount
        /\ Value(seg).workShareId = seg.workShareId
  BY DEF Value, SegmentType
<1> QED BY <1>1, <1>2 DEF SameKind, Age

(* Two labels with the same references in front of a place, where one of   *)
(* kind and age tells them apart: what was ordered stays so.               *)
LEMMA OrderStaysAt ==
  ASSUME Heap, Grows(segs, segs'), NEW x, LabelOK(segs, x), NEW y, LabelOK(segs, y),
         NEW i \in 1..Len(x), i <= Len(y), AgreeBelow(x, y, i),
         ~ SameKind(Obj(x[i]), Obj(y[i])) \/ Age(Obj(x[i])) # Age(Obj(y[i])),
         HB(Deref(x), Deref(y)) = Before
  PROVE  HB(DerefNext(x), DerefNext(y)) = Before
<1> DEFINE h == Deref(x)
           c == Deref(y)
           g == DerefNext(x)
           d == DerefNext(y)
<1>1. /\ MarkedLabel(h, g) /\ h \in Seq(SegmentType) /\ g \in Seq(SegmentType)
      /\ Len(h) = Len(x) /\ Len(g) = Len(x) /\ Len(x) \in Nat
      /\ \A k \in 1..Len(x) : /\ h[k] = Obj(x[k]) /\ g[k] = ObjectAt(segs', x[k])
                              /\ MarkedOnly(Obj(x[k]), ObjectAt(segs', x[k]))
  BY LabelIsMarked
<1>2. /\ MarkedLabel(c, d) /\ c \in Seq(SegmentType) /\ d \in Seq(SegmentType)
      /\ Len(c) = Len(y) /\ Len(d) = Len(y) /\ Len(y) \in Nat
      /\ \A k \in 1..Len(y) : /\ c[k] = Obj(y[k]) /\ d[k] = ObjectAt(segs', y[k])
                              /\ MarkedOnly(Obj(y[k]), ObjectAt(segs', y[k]))
  BY LabelIsMarked
<1> HIDE DEF h, c, g, d
<1>3. i \in 1..Len(y) /\ \A k \in 1..i-1 : k \in 1..Len(x) /\ k \in 1..Len(y) /\ x[k] = y[k]
  BY <1>1, <1>2 DEF AgreeBelow
<1>4. \A k \in 1..i-1 : SameSegment(h[k], c[k]) /\ SameSegment(g[k], d[k])
  BY <1>1, <1>2, <1>3 DEF SameSegment
<1>5. MarkedOnly(h[i], g[i]) /\ MarkedOnly(c[i], d[i])
  BY <1>1, <1>2, <1>3
<1>6. ~ SameKind(h[i], c[i]) \/ Age(h[i]) # Age(c[i])
  BY <1>1, <1>2, <1>3
<1>7. ~ SameKind(g[i], d[i]) \/ Age(g[i]) # Age(d[i])
  BY <1>5, <1>6 DEF MarkedOnly, SameKind, Age
<1>8. ~ SameSegment(h[i], c[i]) /\ ~ SameSegment(g[i], d[i])
  BY <1>5, <1>6, <1>7, AgeIsSeen DEF MarkedOnly
<1>9. HB(h, c) = AnalyzeAt(h, c, i)
  BY <1>1, <1>2, <1>4, <1>8, VerdictAtDifference
<1>10. AnalyzeAt(h, c, i) = Before
  BY <1>9 DEF h, c
<1>11. AnalyzeAt(g, d, i) = Before
  BY <1>1, <1>2, <1>10, VerdictStaysAt
<1>12. HB(g, d) = AnalyzeAt(g, d, i)
  BY <1>1, <1>2, <1>4, <1>8, VerdictAtDifference
<1> QED BY <1>11, <1>12 DEF g, d

(* The same where the recorded access is in the segment in that place: the *)
(* values may be equal before the step, after it or both.                  *)
LEMMA OrderStaysAtEnd ==
  ASSUME Heap, Grows(segs, segs'), NEW x, LabelOK(segs, x), NEW y, LabelOK(segs, y),
         Len(x) <= Len(y), AgreeBelow(x, y, Len(x)),
         \/ Obj(x[Len(x)]).type = "implicit" /\ Obj(x[Len(x)]).span # 1
         \/ Obj(x[Len(x)]).type = "explicit"
         \/ /\ Obj(x[Len(x)]).type = "workshare"
            /\ Obj(x[Len(x)]).workShareId = SingleExec
               \/ Obj(y[Len(x)]).type # "workshare"
               \/ Obj(y[Len(x)]).workShareId # Obj(x[Len(x)]).workShareId,
         HB(Deref(x), Deref(y)) = Before
  PROVE  HB(DerefNext(x), DerefNext(y)) = Before
<1> DEFINE h == Deref(x)
           c == Deref(y)
           g == DerefNext(x)
           d == DerefNext(y)
           n == Len(x)
<1>1. /\ MarkedLabel(h, g) /\ h \in Seq(SegmentType) /\ g \in Seq(SegmentType)
      /\ Len(h) = n /\ Len(g) = n /\ n \in Nat /\ n >= 2
      /\ \A k \in 1..n : /\ h[k] = Obj(x[k]) /\ g[k] = ObjectAt(segs', x[k])
                         /\ MarkedOnly(Obj(x[k]), ObjectAt(segs', x[k]))
  BY LabelIsMarked
<1>2. /\ MarkedLabel(c, d) /\ c \in Seq(SegmentType) /\ d \in Seq(SegmentType)
      /\ Len(c) = Len(y) /\ Len(d) = Len(y) /\ Len(y) \in Nat
      /\ \A k \in 1..Len(y) : /\ c[k] = Obj(y[k]) /\ d[k] = ObjectAt(segs', y[k])
                              /\ MarkedOnly(Obj(y[k]), ObjectAt(segs', y[k]))
  BY LabelIsMarked
<1>3. /\ n <= Len(y) /\ n \in 1..n /\ n \in 1..Len(y)
      /\ \A k \in 1..n-1 : k \in 1..n /\ k \in 1..Len(y) /\ x[k] = y[k]
  BY <1>1, <1>2 DEF AgreeBelow
<1>a. \/ Obj(x[n]).type = "implicit" /\ Obj(x[n]).span # 1
      \/ Obj(x[n]).type = "explicit"
      \/ /\ Obj(x[n]).type = "workshare"
         /\ Obj(x[n]).workShareId = SingleExec
            \/ Obj(y[n]).type # "workshare"
            \/ Obj(y[n]).workShareId # Obj(x[n]).workShareId
  OBVIOUS
<1> HIDE DEF h, c, g, d, n
<1>4. \A k \in 1..n-1 : SameSegment(h[k], c[k]) /\ SameSegment(g[k], d[k])
  BY <1>1, <1>2, <1>3 DEF SameSegment
<1>5. /\ MarkedOnly(h[n], g[n]) /\ MarkedOnly(c[n], d[n])
      /\ h[n] = Obj(x[n]) /\ c[n] = Obj(y[n])
  BY <1>1, <1>2, <1>3
<1>6. CASE SameSegment(g[n], d[n])
  <2>1. \A k \in 1..Len(g) : k <= Len(d) => SameSegment(g[k], d[k])
    <3>1. \A k \in 1..n : k \in 1..n-1 \/ k = n
      BY <1>1
    <3> QED BY <3>1, <1>1, <1>4, <1>6
  <2>2. HB(g, d) = IF Len(g) <= Len(d) THEN Before ELSE Fatal
    BY <1>1, <1>2, <2>1, VerdictWithoutDifference
  <2> QED BY <1>1, <1>2, <1>3, <2>2 DEF g, d
<1>7. CASE ~ SameSegment(g[n], d[n])
  <2>1. HB(g, d) = AnalyzeAt(g, d, n)
    BY <1>1, <1>2, <1>3, <1>4, <1>7, VerdictAtDifference
  <2>2. CASE ~ SameSegment(h[n], c[n])
    <3>1. HB(h, c) = AnalyzeAt(h, c, n)
      BY <1>1, <1>2, <1>3, <1>4, <2>2, VerdictAtDifference
    <3>2. AnalyzeAt(h, c, n) = Before
      BY <3>1 DEF h, c
    <3>3. AnalyzeAt(g, d, n) = Before
      BY <1>1, <1>2, <1>3, <3>2, VerdictStaysAt
    <3> QED BY <2>1, <3>3 DEF g, d
  <2>3. CASE SameSegment(h[n], c[n])
    <3>1. SameKind(h[n], c[n]) /\ h[n].workShareId = c[n].workShareId
      BY <1>5, <2>3, AgeIsSeen DEF MarkedOnly
    <3>2. \/ h[n].type = "implicit" /\ h[n].span # 1
          \/ h[n].type = "explicit"
          \/ h[n].type = "workshare" /\ h[n].workShareId = SingleExec
      BY <1>a, <1>5, <3>1 DEF SameKind
    <3>3. AnalyzeAt(g, d, Len(h)) = Before
      <4>1. Len(h) >= 1 /\ Len(h) <= Len(c)
        BY <1>1, <1>2, <1>3
      <4>2. /\ SameSegment(h[Len(h)], c[Len(h)])
            /\ \/ h[Len(h)].type = "implicit" /\ h[Len(h)].span # 1
               \/ h[Len(h)].type = "explicit"
               \/ h[Len(h)].type = "workshare" /\ h[Len(h)].workShareId = SingleExec
        BY <1>1, <2>3, <3>2
      <4> QED BY <1>1, <1>2, <4>1, <4>2, EqualEndsAreOrdered
    <3> QED BY <1>1, <2>1, <3>3 DEF g, d
  <2> QED BY <2>2, <2>3
<1> QED BY <1>6, <1>7

(* What the invariant says of the end of a label in the history.           *)
LEMMA RecordedEnd ==
  ASSUME Structure, hist # <<>>, NEW y, LabelOK(segs, y), Len(hist) <= Len(y),
         ~ (IterationOf(hist) >= 0 /\ IterationOf(hist) = IterationOf(y))
  PROVE  \/ Obj(hist[Len(hist)]).type = "implicit" /\ Obj(hist[Len(hist)]).span # 1
         \/ Obj(hist[Len(hist)]).type = "explicit"
         \/ /\ Obj(hist[Len(hist)]).type = "workshare"
            /\ Obj(hist[Len(hist)]).workShareId = SingleExec
               \/ Obj(y[Len(hist)]).type # "workshare"
               \/ Obj(y[Len(hist)]).workShareId # Obj(hist[Len(hist)]).workShareId
<1> DEFINE n == Len(hist)
           s == hist[n][1]
           seg == Obj(hist[n])
<1>1. /\ LabelOK(segs, hist) /\ HeapOK(segs)
      /\ Len(hist) = 3 /\ hist[3][1] \in Members =>
           Obj(hist[3]).workShareId \in Nat \cup {SingleExec}
  BY DEF Structure, Recorded, Heap
<1>2. n \in Nat /\ n >= 2 /\ n \in 1..n /\ Len(y) \in Nat /\ n <= Len(y)
  <2>1. n \in Nat /\ n >= 2 /\ Len(y) \in Nat /\ n <= Len(y)
    BY <1>1, LabelRefs DEF LabelOK
  <2> QED BY <2>1
<1>3. seg \in SegmentType /\ ObjectOK(s, hist[n][2], seg)
  BY <1>1, <1>2, LabelRefs DEF Obj
<1>4. s \in Members \/ s \in ExpTasks
  <2>0. \A j \in Nat : j >= 2 => j = 2 \/ j \in 3..j
    OBVIOUS
  <2>1. n = 2 \/ n \in 3..n
    BY <1>2, <2>0
  <2>2. CASE n = 2
    BY <1>1, <2>2 DEF LabelOK
  <2>3. CASE n \in 3..n
    BY <1>1, <2>3 DEF LabelOK
  <2> QED BY <2>1, <2>2, <2>3
<1>5. s # Root /\ TeamSize # 1
  BY <1>4, Names, TeamAssumption
<1>6. s \in Members /\ seg.type = "workshare" => n = 3
  <2> HAVE s \in Members /\ seg.type = "workshare"
  <2>0. s \notin ExpTasks /\ \A j \in Nat : j >= 2 => j = 2 \/ j \in 3..j
    BY Names
  <2>1. ~ (n = 2)
    BY <1>1 DEF LabelOK, Obj
  <2>2. n \in 3..n
    BY <1>2, <2>0, <2>1
  <2> QED BY <1>1, <2>0, <2>2 DEF LabelOK
<1>7. CASE s \in Members /\ seg.type = "workshare"
  <2>1. n = 3 /\ seg.workShareId \in Nat \cup {SingleExec}
    BY <1>1, <1>6, <1>7
  <2>2. CASE seg.workShareId \in Nat /\ Obj(y[n]).type = "workshare"
             /\ Obj(y[n]).workShareId = seg.workShareId
    <3>1. Deref(hist)[3] = seg /\ Deref(y)[3] = Obj(y[n])
      <4>1. 3 \in DOMAIN hist /\ 3 \in DOMAIN y
        BY <1>1, <1>2, <2>1, LabelRefs
      <4> QED BY <2>1, <4>1 DEF Deref
    <3>2. InIteration(hist) /\ InIteration(y)
      BY <1>2, <1>7, <2>1, <2>2, <3>1 DEF InIteration
    <3>3. IterationOf(hist) = seg.workShareId /\ IterationOf(y) = seg.workShareId
      BY <2>2, <3>1, <3>2 DEF IterationOf
    <3> QED BY <2>2, <3>3
  <2> QED BY <1>7, <2>1, <2>2
<1> QED BY <1>3, <1>4, <1>5, <1>7, Names DEF ObjectOK

(* One step never takes an order away from two accesses of different       *)
(* iterations: the labels part in front of the end of the recorded one,    *)
(* where kind and age tell and are never marked, or not before its end.    *)
LEMMA StepKeepsOrder ==
  ASSUME IInv, Grows(segs, segs'), hist # <<>>, NEW t \in Tasks, Runs(t),
         Verdict(t) = Before, ~ SameIteration(t)
  PROVE  HB(DerefNext(hist), DerefNext(label[t])) = Before
<1> DEFINE x == hist
           y == label[t]
<1>1. Structure /\ Ages /\ Heap /\ LabelsEnd /\ Recorded
  BY DEF IInv, Structure
<1>2. Live(t) /\ Acting(t)
  BY <1>1, RunningTask DEF Runs
<1>3. LabelOK(segs, x) /\ LabelOK(segs, y) /\ x \in InUse /\ y \in InUse
  BY <1>1, <1>2, OwnSegment DEF Recorded, InUse
<1>4. /\ Len(x) \in Nat /\ Len(x) >= 2 /\ Len(y) \in Nat /\ Len(y) >= 2
      /\ DOMAIN x = 1..Len(x) /\ DOMAIN y = 1..Len(y)
  BY <1>1, <1>3, LabelIsMarked
<1>5. HB(Deref(x), Deref(y)) = Before /\ ~ (IterationOf(x) >= 0 /\ IterationOf(x) = IterationOf(y))
  BY DEF Verdict, SameIteration
<1>6. Own(t) = Obj(y[Len(y)])
  BY DEF Own, Last
<1> SUFFICES HB(DerefNext(x), DerefNext(y)) = Before
  OBVIOUS
<1>7. Len(x) <= Len(y) =>
        \/ Obj(x[Len(x)]).type = "implicit" /\ Obj(x[Len(x)]).span # 1
        \/ Obj(x[Len(x)]).type = "explicit"
        \/ /\ Obj(x[Len(x)]).type = "workshare"
           /\ Obj(x[Len(x)]).workShareId = SingleExec
              \/ Obj(y[Len(x)]).type # "workshare"
              \/ Obj(y[Len(x)]).workShareId # Obj(x[Len(x)]).workShareId
  BY <1>1, <1>3, <1>5, RecordedEnd
<1>8. /\ \A i \in 1..Len(x)-1 : i < Len(y) /\ AgreeBelow(x, y, i) /\ x[i] # y[i]
           => ~ SameKind(Obj(x[i]), Obj(y[i])) \/ Age(Obj(x[i])) # Age(Obj(y[i]))
      /\ Len(y) < Len(x) /\ AgreeBelow(x, y, Len(y))
           => \/ ~ SameKind(Obj(x[Len(y)]), Own(t))
              \/ Age(Obj(x[Len(y)])) < Age(Own(t))
  BY <1>1, <1>2, <1>3 DEF Ages, PartsShow, DescendantsAreBelowOlder
<1> HIDE DEF x, y
<1>9. CASE \E i \in 1..Len(x) : i <= Len(y) /\ x[i] # y[i]
  <2> DEFINE T == {i \in 1..Len(x) : i <= Len(y) /\ x[i] # y[i]}
  <2>1. T \in SUBSET Nat /\ T # {}
    BY <1>4, <1>9
  <2> HIDE DEF T
  <2>2. PICK i \in T : \A j \in T : i <= j
    BY <2>1, Least
  <2>3. i \in 1..Len(x) /\ i <= Len(y) /\ x[i] # y[i] /\ i \in 1..Len(y)
    BY <1>4, <2>2 DEF T
  <2>4. AgreeBelow(x, y, i)
    <3> SUFFICES ASSUME NEW k \in 1..i-1, x[k] # y[k] PROVE FALSE
      BY DEF AgreeBelow
    <3>1. k \in 1..Len(x) /\ k <= Len(y) /\ ~ (i <= k)
      BY <1>4, <2>3
    <3> QED BY <3>1, <2>2 DEF T
  <2>5. CASE i = Len(x)
    <3>1. Len(x) <= Len(y) /\ AgreeBelow(x, y, Len(x))
      BY <2>3, <2>4, <2>5
    <3> QED BY <1>1, <1>3, <1>5, <1>7, <3>1, OrderStaysAtEnd
  <2>6. CASE i # Len(x)
    <3>0. i < Len(x)
      <4>1. \A n \in Nat : \A k \in 1..n : k # n => k < n
        OBVIOUS
      <4> QED BY <4>1, <1>4, <2>3, <2>6
    <3>1. ~ SameKind(Obj(x[i]), Obj(y[i])) \/ Age(Obj(x[i])) # Age(Obj(y[i]))
      <4>1. CASE i < Len(y)
        <5>1. i \in 1..Len(x)-1
          BY <1>4, <2>3, <3>0
        <5> QED BY <1>8, <2>3, <2>4, <4>1, <5>1
      <4>2. CASE i = Len(y)
        <5>1. Len(y) < Len(x) /\ AgreeBelow(x, y, Len(y))
          BY <2>4, <3>0, <4>2
        <5>2. \/ ~ SameKind(Obj(x[i]), Obj(y[i]))
              \/ Age(Obj(x[i])) < Age(Obj(y[i]))
          BY <1>6, <1>8, <4>2, <5>1
        <5>3. Age(Obj(x[i])) \in Nat /\ Age(Obj(y[i])) \in Nat
          BY <1>1, <1>3, <2>3, UsedObjects
        <5> QED BY <5>2, <5>3
      <4>3. i < Len(y) \/ i = Len(y)
        <5>1. \A n \in Nat : \A k \in 1..n : k < n \/ k = n
          OBVIOUS
        <5> QED BY <5>1, <1>4, <2>3
      <4> QED BY <4>1, <4>2, <4>3
    <3> QED BY <1>1, <1>3, <1>5, <2>3, <2>4, <3>1, OrderStaysAt
  <2> QED BY <2>5, <2>6
<1>10. CASE \A i \in 1..Len(x) : i <= Len(y) => x[i] = y[i]
  <2>1. CASE Len(x) <= Len(y)
    <3>1. AgreeBelow(x, y, Len(x))
      BY <1>4, <1>10, <2>1 DEF AgreeBelow
    <3> QED BY <1>1, <1>3, <1>5, <1>7, <2>1, <3>1, OrderStaysAtEnd
  <2>2. CASE Len(y) < Len(x)
    <3> DEFINE h == Deref(x)
               c == Deref(y)
    <3>1. /\ h \in Seq(SegmentType) /\ Len(h) = Len(x)
          /\ c \in Seq(SegmentType) /\ Len(c) = Len(y)
          /\ \A k \in 1..Len(x) : h[k] = Obj(x[k])
          /\ \A k \in 1..Len(y) : c[k] = Obj(y[k])
      BY <1>1, <1>3, LabelIsMarked
    <3>2. HB(h, c) = Before
      BY <1>5
    <3> HIDE DEF h, c
    <3>3. \A k \in 1..Len(h) : k <= Len(c) => SameSegment(h[k], c[k])
      <4> SUFFICES ASSUME NEW k \in 1..Len(x), k <= Len(y) PROVE SameSegment(h[k], c[k])
        BY <3>1
      <4>1. x[k] = y[k] /\ k \in 1..Len(y)
        BY <1>4, <1>10
      <4> QED BY <3>1, <4>1 DEF SameSegment
    <3>4. HB(h, c) = IF Len(h) <= Len(c) THEN Before ELSE Fatal
      BY <3>1, <3>3, VerdictWithoutDifference
    <3>5. ~ (Len(h) <= Len(c))
      BY <1>4, <2>2, <3>1
    <3> QED BY <3>2, <3>4, <3>5 DEF Before, Fatal
  <2> QED BY <1>4, <2>1, <2>2
<1> QED BY <1>9, <1>10

(* A step that changes the heap only adds to it and marks it.              *)
LEMMA HeapOnlyGrows ==
  ASSUME IInv, [Next]_vars, segs' # segs
  PROVE  Grows(segs, segs')
<1>1. ASSUME NEW t \in Tasks, Step(t) PROVE Grows(segs, segs')
  <2>1. ~ Record(t)
    BY DEF Record, taskVars
  <2> QED BY <1>1, <2>1, CreateKeeps, ReachTaskwaitKeeps, TaskwaitEndKeeps, GroupBeginKeeps,
             GroupEndKeeps, SingleBeginKeeps, SingleEndKeeps, LoopBeginKeeps, DispatchKeeps,
             OrderedAcquiredKeeps, OrderedReleasedKeeps, LoopEndKeeps, ReachBarrierKeeps,
             BarrierEndKeeps DEF Step
<1>2. ASSUME NEW t \in ExpTasks, ExpStep(t) PROVE Grows(segs, segs')
  BY <1>2, RegisterDependencesKeeps, BeginKeeps, FinishKeeps DEF ExpStep
<1> QED BY <1>1, <1>2, OpenBarrierKeeps, StutterKeeps DEF Next

(* MarksKeepOrder: marks are set in segments that labels share while other *)
(* tasks compare them, and no step of the team ever turns a pair of labels *)
(* that was called ordered into one that is called concurrent or ends the  *)
(* program, but for two accesses of one iteration of a loop.               *)
THEOREM OrderIsKept == Spec => MarksKeepOrder
<1>1. IInv /\ [Next]_vars => [OrderStays]_vars
  <2> SUFFICES ASSUME IInv, [Next]_vars, hist # <<>>, hist' = hist, segs' # segs,
                      NEW t \in Tasks, Runs(t), label'[t] = label[t],
                      Verdict(t) = Before, ~ SameIteration(t)
               PROVE  Verdict(t)' = Before
    BY DEF OrderStays
  <2>1. HB(DerefNext(hist), DerefNext(label[t])) = Before
    BY HeapOnlyGrows, StepKeepsOrder
  <2>2. Deref(hist)' = DerefNext(hist) /\ Deref(label[t])' = DerefNext(label[t])
    BY DEF Deref, DerefNext, Obj
  <2>3. Verdict(t)' = HB(Deref(hist)', Deref(label[t])')
    BY DEF Verdict, HB, AnalyzeLoneTask, AnalyzeTeam, CompareLabels
  <2> QED BY <2>1, <2>2, <2>3
<1> QED BY <1>1, Invariance, PTL DEF MarksKeepOrder, Spec
-----------------------------------------------------------------------------
(* Fatal verdicts: why the assertions of Core.cpp hold                     *)

\* The tasks along the label of a task are those above it, each below its creator.
Lineage ==
  \A t \in ExpTasks : Live(t) => \A k \in 3..Len(label[t]) :
    label[t][k][1] \in ExpTasks =>
      IsPrefixOf(label[t][k][1], t) /\ Creator[label[t][k][1]] = label[t][k-1][1]

\* One task or construct stands below the same segments.
OneIsBelow ==
  \A x, y \in InUse : \A k \in 3..Len(x) :
    k <= Len(y) /\ AgreeBelow(x, y, k) => x[k][1] = y[k][1]

\* No segment of its task, of the same type, has more taskwaits.
IsNewest(heap, ref) ==
  \A n \in DOMAIN heap[ref[1]] :
    heap[ref[1]][n].type = ObjectAt(heap, ref).type
    => heap[ref[1]][n].taskwait <= ObjectAt(heap, ref).taskwait

\* A task goes on with its newest segment.
NewestIsOwn ==
  /\ \A t \in Tasks : Live(t) => IsNewest(segs, label[t][Len(label[t])])
  /\ \A m \in Members :
       /\ IsNewest(segs, label[m][2])
       /\ work[m] = "before" => \A n \in DOMAIN segs[m] : segs[m][n].type = "implicit"

\* A task has not waited since it made one that goes on, and a member not left
\* the construct in which it made one.
NoWaitSince ==
  \A t \in ExpTasks : Live(t) =>
    /\ \A k \in 2..Len(label[t])-1 :
         \/ label[t][k+1][1] \in ExpTasks /\ Complete(label[t][k+1][1])
         \/ IsNewest(segs, label[t][k])
    /\ label[t][3][1] \in Members =>
         InConstruct(label[t][3][1]) \/ at[label[t][3][1]] = "barrier"

\* The barriers that have opened for m are those of the team, and of its tasks.
Opened(m) == label[m][1][2] + (IF at[m] = "released" THEN 1 ELSE 0)
OneTime ==
  \A m \in Members :
    /\ \A u \in Members : Opened(u) = Opened(m)
    /\ \A t \in ExpTasks : Live(t) => label[t][1][2] = Opened(m)

Lines == Lineage /\ OneIsBelow /\ NewestIsOwn /\ NoWaitSince /\ OneTime

(* What is above the creator of a task is above the task.                  *)
LEMMA PrefixBelow ==
  ASSUME NEW s \in Seq(Nat), NEW u \in ExpTasks, IsPrefixOf(s, Creator[u])
  PROVE  IsPrefixOf(s, u)
<1>1. u \in Seq(Nat) /\ Len(u) \in Nat /\ Len(u) >= 1
  BY Names DEF Tasks
<1>2. /\ Creator[u] = Front(u) /\ Front(u) \in Seq(Nat) /\ Len(Front(u)) = Len(u) - 1
      /\ \A k \in 1..Len(u)-1 : Front(u)[k] = u[k]
  BY <1>1, Fronts DEF Creator
<1>3. Len(s) <= Len(Front(u)) /\ SubSeq(Front(u), 1, Len(s)) = s /\ Len(s) \in Nat
  BY <1>2 DEF IsPrefixOf
<1>4. SubSeq(Front(u), 1, Len(s)) = [k \in 1..Len(s) |-> Front(u)[k]]
  BY <1>3
<1>5. SubSeq(u, 1, Len(s)) = [k \in 1..Len(s) |-> u[k]]
  BY <1>3
<1>6. ASSUME NEW k \in 1..Len(s) PROVE u[k] = Front(u)[k]
  <2>1. k \in 1..Len(u)-1
    BY <1>1, <1>2, <1>3
  <2> QED BY <1>2, <2>1
<1>7. SubSeq(u, 1, Len(s)) = s
  <2>1. [k \in 1..Len(s) |-> u[k]] = [k \in 1..Len(s) |-> Front(u)[k]]
    BY <1>6, Zenon
  <2> QED BY <1>3, <1>4, <1>5, <2>1
<1>8. Len(s) <= Len(u)
  BY <1>1, <1>2, <1>3
<1> QED BY <1>7, <1>8 DEF IsPrefixOf

(* The age of a segment is a number.                                       *)
LEMMA AgeIsNat ==
  ASSUME NEW seg \in SegmentType
  PROVE  Age(seg) \in Nat
<1>1. seg.taskcreate \in Nat /\ seg.taskwait \in Nat /\ seg.phase \in Nat /\ seg.loopCount \in Nat
  BY DEF SegmentType
<1> QED BY <1>1 DEF Age

(* The values of a label.                                                  *)
LEMMA LabelValues ==
  ASSUME Heap, NEW x, LabelOK(segs, x)
  PROVE  /\ Len(x) \in Nat /\ Len(x) >= 2
         /\ Deref(x) \in Seq(SegmentType) /\ Len(Deref(x)) = Len(x)
         /\ \A k \in 1..Len(x) :
              Deref(x)[k] = Obj(x[k]) /\ Obj(x[k]) \in SegmentType /\ Obj(x[k]).taskwait \in Nat
<1>1. Len(x) \in Nat /\ DOMAIN x = 1..Len(x) /\ Len(x) >= 2
  BY LabelRefs DEF Heap, LabelOK
<1>2. \A k \in 1..Len(x) : Obj(x[k]) \in SegmentType
  BY LabelRefs DEF Heap, Obj
<1>3. \A k \in 1..Len(x) : Deref(x)[k] = Obj(x[k])
  BY <1>1 DEF Deref
<1>4. Deref(x) \in [1..Len(x) -> SegmentType]
  BY <1>1, <1>2 DEF Deref
<1>5. Deref(x) \in Seq(SegmentType) /\ Len(Deref(x)) = Len(x)
  BY <1>1, <1>4
<1>6. \A k \in 1..Len(x) : Obj(x[k]).taskwait \in Nat
  BY <1>2 DEF SegmentType
<1> QED BY <1>1, <1>2, <1>3, <1>5, <1>6

(* What stands below a member in a label.                                  *)
LEMMA LowerSegments ==
  ASSUME Heap, NEW x, LabelOK(segs, x), NEW k \in 3..Len(x)
  PROVE  /\ Obj(x[k]).span = 1 /\ Obj(x[k]).offset = 0
         /\ \/ x[k][1] \in ExpTasks /\ Obj(x[k]).type = "explicit"
            \/ k = 3 /\ x[3][1] = x[2][1] /\ x[k][1] \in Members /\ Obj(x[k]).type = "workshare"
<1>1. k \in 1..Len(x)
  BY LabelValues
<1>2. ObjectOK(x[k][1], x[k][2], Obj(x[k]))
  BY <1>1, LabelRefs DEF Heap, Obj
<1>3. \/ x[k][1] \in ExpTasks
      \/ k = 3 /\ x[3][1] = x[2][1] /\ Obj(x[3]).type = "workshare" /\ x[2][1] \in Members
  BY DEF LabelOK, Obj
<1> QED BY <1>2, <1>3, Names DEF ObjectOK

(* A task that runs goes down its label along the newest segments, when    *)
(* none of the tasks above it is complete.                                 *)
LEMMA OwnLine ==
  ASSUME IInv, Lines, NEW t \in Tasks, Runs(t), ~ Orphan(t), NEW k \in 2..Len(label[t])
  PROVE  IsNewest(segs, label[t][k])
<1> DEFINE y == label[t]
<1>1. Structure /\ Heap /\ LabelsEnd
  BY DEF IInv, Structure
<1>2. Live(t) /\ PlaceOK(t) /\ LabelEnds(t) /\ at[t] = "runs"
  BY <1>1, RunningTask DEF Runs
<1>3. LabelOK(segs, y) /\ Len(y) \in Nat
  BY <1>1, <1>2, OwnSegment
<1>4. /\ IsNewest(segs, y[Len(y)])
      /\ t \in Members => IsNewest(segs, y[2])
  BY <1>2 DEF Lines, NewestIsOwn
<1>5. CASE k = Len(y)
  BY <1>4, <1>5
<1>6. CASE k # Len(y) /\ t \in Members
  <2>1. Len(y) \in {2, 3}
    BY <1>2, <1>6 DEF LabelEnds
  <2>2. \A n \in {2, 3} : \A j \in 2..n : j # n => j = 2
    OBVIOUS
  <2>3. k = 2
    BY <1>6, <2>1, <2>2
  <2> QED BY <1>4, <1>6, <2>3
<1>7. CASE k # Len(y) /\ t \in ExpTasks
  <2>1. k \in 2..Len(y)-1 /\ k+1 \in 3..Len(y)
    BY <1>3, <1>7
  <2>2. ASSUME y[k+1][1] \in ExpTasks, Complete(y[k+1][1]) PROVE FALSE
    <3>1. IsPrefixOf(y[k+1][1], t)
      BY <1>2, <1>7, <2>1, <2>2 DEF Lines, Lineage
    <3>2. ~ Complete(t)
      BY <1>2, <1>7 DEF PlaceOK, Complete
    <3> QED BY <2>2, <3>1, <3>2 DEF Orphan
  <2> QED BY <1>2, <1>7, <2>1, <2>2 DEF Lines, NoWaitSince
<1> QED BY <1>5, <1>6, <1>7 DEF Tasks

(* One task at two points in time, where the later has waited as often.    *)
LEMMA SameTaskIsNotFatal ==
  ASSUME Heap, NEW x, LabelOK(segs, x), NEW y, LabelOK(segs, y), NEW i \in 2..Len(x), i <= Len(y),
         x[i][1] = y[i][1], Obj(x[i]).type = Obj(y[i]).type, IsNewest(segs, y[i])
  PROVE  AnalyzeSameTask(Deref(x), Deref(y), i) # Fatal
<1> DEFINE h == Deref(x)
           c == Deref(y)
<1>1. /\ Len(x) \in Nat /\ Len(h) = Len(x) /\ \A k \in 1..Len(x) : h[k] = Obj(x[k])
  BY LabelValues
<1>2. /\ Len(y) \in Nat /\ Len(c) = Len(y) /\ \A k \in 1..Len(y) : c[k] = Obj(y[k])
  BY LabelValues
<1>3. /\ i \in 1..Len(x) /\ i \in 1..Len(y)
      /\ h[i] = Obj(x[i]) /\ c[i] = Obj(y[i])
      /\ h[i].taskwait \in Nat /\ c[i].taskwait \in Nat
  BY <1>1, <1>2, LabelValues
<1>4. h[i].taskwait <= c[i].taskwait
  <2>1. x[i][1] \in Owners /\ x[i][2] \in 1..Len(segs[x[i][1]])
    BY <1>3, LabelRefs DEF Heap
  <2>2. x[i][2] \in DOMAIN segs[y[i][1]]
    BY <2>1, HeapObject DEF Heap
  <2> QED BY <1>3, <2>2 DEF IsNewest, ObjectAt, Obj
<1>5. ASSUME ~ IsLeaf(h, i)
      PROVE  h[i+1].type \in {"explicit", "workshare"}
  <2>1. i+1 \in 3..Len(x) /\ i+1 \in 1..Len(x)
    BY <1>1, <1>5 DEF IsLeaf
  <2> QED BY <1>1, <2>1, LowerSegments
<1> HIDE DEF h, c
<1>6. ~ IsLeaf(h, i) => AnalyzeAncestor(h, c, i) # Fatal
  BY <1>3, <1>4, <1>5 DEF AnalyzeAncestor, Require, Claim, Fatal, Before, Concurrent
<1>7. DispatchAnalysis(h, c, i) # Fatal
  BY <1>3, <1>4 DEF DispatchAnalysis, AnalyzeNextExpExp, Require, Claim, Fatal, Before, Concurrent
<1>8. AnalyzeSameTask(h, c, i) # Fatal
  BY <1>5, <1>6, <1>7 DEF AnalyzeSameTask, Require, Fatal, Before
<1> QED BY <1>8 DEF h, c

(* Two iterations, and what is below them.                                 *)
LEMMA SectionIsNotFatal ==
  ASSUME Heap, NEW x, LabelOK(segs, x), NEW y, NEW i \in 3..Len(x)
  PROVE  AnalyzeOrderedSection(Deref(x), Deref(y), i) # Fatal
<1> DEFINE h == Deref(x)
           c == Deref(y)
<1>1. /\ Len(x) \in Nat /\ Len(h) = Len(x) /\ \A k \in 1..Len(x) : h[k] = Obj(x[k])
  BY LabelValues
<1>2. ASSUME ~ IsLeaf(h, i) PROVE h[i+1].type = "explicit"
  <2>1. i+1 \in 3..Len(x) /\ i+1 \in 1..Len(x) /\ i+1 # 3
    BY <1>1, <1>2 DEF IsLeaf
  <2> QED BY <1>1, <2>1, LowerSegments
<1> HIDE DEF h, c
<1>3. AnalyzeOrderedSection(h, c, i) # Fatal
  BY <1>2 DEF AnalyzeOrderedSection, AnalyzeOrderedDescendents, Claim, Fatal, Before, Concurrent
<1> QED BY <1>3 DEF h, c

(* With Lines, only an orphan meets a pair of labels that the checks of    *)
(* the analysis rule out.                                                  *)
LEMMA OrphansOnly ==
  ASSUME IInv, Lines, NEW t \in Tasks, hist # <<>>, Runs(t), ~ Orphan(t)
  PROVE  Verdict(t) # Fatal
<1> DEFINE x == hist
           y == label[t]
           h == Deref(x)
           c == Deref(y)
<1>1. Structure /\ Ages /\ Heap /\ HeapOK(segs) /\ LabelsEnd /\ Recorded
  BY DEF IInv, Structure, Heap
<1>2. Live(t) /\ Acting(t) /\ PlaceOK(t) /\ at[t] = "runs"
  BY <1>1, RunningTask DEF Runs
<1>3. LabelOK(segs, x) /\ LabelOK(segs, y) /\ x \in InUse /\ y \in InUse
  BY <1>1, <1>2, OwnSegment DEF Recorded, InUse
<1>4. /\ Len(x) \in Nat /\ Len(x) >= 2 /\ Len(y) \in Nat /\ Len(y) >= 2
      /\ h \in Seq(SegmentType) /\ Len(h) = Len(x)
      /\ c \in Seq(SegmentType) /\ Len(c) = Len(y)
      /\ \A k \in 1..Len(x) : h[k] = Obj(x[k]) /\ h[k] \in SegmentType
      /\ \A k \in 1..Len(y) : c[k] = Obj(y[k]) /\ c[k] \in SegmentType
  <2>1. /\ LabelOK(segs, x) /\ LabelOK(segs, y)
    BY <1>3
  <2> QED BY <1>1, <2>1, LabelValues
<1>5. Own(t) = Obj(y[Len(y)])
  BY DEF Own, Last
<1>6. /\ \A i \in 1..Len(x)-1 : i < Len(y) /\ AgreeBelow(x, y, i) /\ x[i] # y[i]
           => ~ SameKind(Obj(x[i]), Obj(y[i])) \/ Age(Obj(x[i])) # Age(Obj(y[i]))
      /\ Len(y) < Len(x) /\ AgreeBelow(x, y, Len(y))
           => \/ ~ SameKind(Obj(x[Len(y)]), Own(t))
              \/ Age(Obj(x[Len(y)])) < Age(Own(t))
  BY <1>1, <1>2, <1>3 DEF Ages, PartsShow, DescendantsAreBelowOlder
<1> HIDE DEF x, y, h, c
<1>7. \A k \in 2..Len(y) : IsNewest(segs, y[k])
  BY OwnLine DEF y
<1>8. \A i \in 3..Len(x) : i <= Len(y) /\ AgreeBelow(x, y, i) => x[i][1] = y[i][1]
  BY <1>3 DEF Lines, OneIsBelow
<1>9. x[1][2] <= y[1][2]
  <2>1. x[2][1] \in Members /\ x[1][2] \in Nat
    BY <1>1, <1>3, LabelTop
  <2>2. LabelEnds(x[2][1]) /\ Live(x[2][1])
    <3>1. x[2][1] \in Tasks
      BY <2>1 DEF Tasks
    <3>2. LabelEnds(x[2][1]) /\ PlaceOK(x[2][1])
      BY <1>1, <3>1 DEF LabelsEnd, Structure, Places
    <3> QED BY <2>1, <3>2 DEF PlaceOK, Live
  <2>3. label[x[2][1]][1][2] \in Nat
    BY <1>1, <2>2, LabelTop DEF LabelEnds, Live
  <2>4. x[1][2] <= label[x[2][1]][1][2]
    BY <1>1, <1>3 DEF Ages, NoLabelIsAhead, IInv
  <2>5. x[1][2] <= Opened(x[2][1]) /\ Opened(x[2][1]) \in Nat
    BY <2>1, <2>3, <2>4 DEF Opened
  <2>6. y[1][2] = Opened(x[2][1])
    <3>1. CASE t \in Members
      <4>1. Opened(t) = y[1][2] + 0
        BY <1>2 DEF Opened, y
      <4>2. y[1][2] \in Nat
        BY <1>1, <1>3, LabelTop
      <4> QED BY <2>1, <3>1, <4>1, <4>2 DEF Lines, OneTime
    <3>2. CASE t \in ExpTasks
      BY <1>2, <2>1, <3>2 DEF Lines, OneTime, y
    <3> QED BY <3>1, <3>2 DEF Tasks
  <2> QED BY <2>5, <2>6
<1>10. ASSUME NEW i \in 1..Len(x), i <= Len(y),
              \A k \in 1..i-1 : SameSegment(h[k], c[k])
       PROVE  AgreeBelow(x, y, i)
  <2> DEFINE T == {j \in 1..i-1 : x[j] # y[j]}
  <2>1. CASE T = {}
    BY <2>1 DEF AgreeBelow
  <2>2. CASE T # {}
    <3>1. T \in SUBSET Nat
      OBVIOUS
    <3> HIDE DEF T
    <3>2. PICK j \in T : \A l \in T : j <= l
      BY <2>2, <3>1, Least
    <3>3. j \in 1..i-1 /\ x[j] # y[j]
      BY <3>2 DEF T
    <3>4. j \in 1..Len(x)-1 /\ j < Len(y) /\ j \in 1..Len(x) /\ j \in 1..Len(y)
      BY <1>4, <1>10, <3>3
    <3>5. AgreeBelow(x, y, j)
      <4> SUFFICES ASSUME NEW k \in 1..j-1, x[k] # y[k] PROVE FALSE
        BY DEF AgreeBelow
      <4>1. k \in 1..i-1 /\ ~ (j <= k)
        BY <1>4, <1>10, <3>3
      <4> QED BY <4>1, <3>2 DEF T
    <3>6. SameSegment(Obj(x[j]), Obj(y[j]))
      BY <1>4, <1>10, <3>3, <3>4
    <3> QED BY <1>4, <1>6, <3>3, <3>4, <3>5, <3>6, AgeIsSeen
  <2> QED BY <2>1, <2>2
<1>11. ASSUME \A k \in 1..Len(x) : k <= Len(y) => SameSegment(h[k], c[k])
       PROVE  HB(h, c) # Fatal
  <2>1. Len(x) <= Len(y)
    <3> SUFFICES ASSUME Len(y) < Len(x) PROVE FALSE
      BY <1>4
    <3>1. Len(y) \in 1..Len(x) /\ Len(y) <= Len(y) /\ Len(y) \in 1..Len(y)
      BY <1>4
    <3>2. \A k \in 1..Len(y)-1 : k \in 1..Len(x) /\ k <= Len(y)
      BY <1>4, <3>1
    <3>3. AgreeBelow(x, y, Len(y))
      BY <1>10, <1>11, <3>1, <3>2
    <3>4. SameSegment(Obj(x[Len(y)]), Own(t))
      BY <1>4, <1>5, <1>11, <3>1
    <3>5. Obj(x[Len(y)]) \in SegmentType /\ Own(t) \in SegmentType
      BY <1>4, <1>5, <3>1
    <3>6. /\ SameKind(Obj(x[Len(y)]), Own(t)) /\ Age(Obj(x[Len(y)])) = Age(Own(t))
      BY <3>4, <3>5, AgeIsSeen
    <3>7. Age(Own(t)) \in Nat
      BY <3>5, AgeIsNat
    <3> QED BY <1>6, <3>3, <3>6, <3>7
  <2>2. HB(h, c) = IF Len(h) <= Len(c) THEN Before ELSE Fatal
    BY <1>4, <1>11, VerdictWithoutDifference
  <2> QED BY <1>4, <2>1, <2>2 DEF Before, Fatal
<1>12. ASSUME NEW i \in 1..Len(x), i <= Len(y),
              \A k \in 1..i-1 : SameSegment(h[k], c[k]), ~ SameSegment(h[i], c[i])
       PROVE  HB(h, c) # Fatal
  <2>1. HB(h, c) = AnalyzeAt(h, c, i)
    BY <1>4, <1>12, VerdictAtDifference
  <2>2. /\ AgreeBelow(x, y, i) /\ i \in 1..Len(y)
        /\ h[i] = Obj(x[i]) /\ c[i] = Obj(y[i]) /\ x[i] # y[i]
    <3>1. AgreeBelow(x, y, i) /\ i \in 1..Len(y) /\ h[i] = Obj(x[i]) /\ c[i] = Obj(y[i])
      <4>1. i \in 1..Len(y) /\ h[i] = Obj(x[i]) /\ c[i] = Obj(y[i])
        BY <1>4, <1>12
      <4>2. AgreeBelow(x, y, i)
        BY <1>10, <1>12, <4>1
      <4> QED BY <4>1, <4>2
    <3> QED BY <1>12, <3>1 DEF SameSegment
  <2>3. /\ ObjectOK(x[i][1], x[i][2], h[i]) /\ ObjectOK(y[i][1], y[i][2], c[i])
        /\ h[i] \in SegmentType /\ c[i] \in SegmentType
    BY <1>1, <1>3, <1>12, <2>2, LabelRefs DEF Obj
  <2>4. CASE i = 1
    <3>1. /\ x[1] = <<Root, x[1][2]>> /\ y[1] = <<Root, y[1][2]>>
          /\ x[1][2] \in Nat /\ y[1][2] \in Nat
          /\ h[1].type = "implicit" /\ h[1].offset = x[1][2] - 1
          /\ c[1].type = "implicit" /\ c[1].offset = y[1][2] - 1
      BY <1>1, <1>3, <2>2, <2>4, LabelTop
    <3>2. h[1].span = 1 /\ c[1].span = 1
      BY <2>3, <2>4, <3>1, Names DEF ObjectOK, LabelOK
    <3>3. x[1][2] # y[1][2]
      BY <2>2, <2>4, <3>1
    <3>4. h[1].offset < c[1].offset
      BY <1>9, <3>1, <3>3
    <3> QED BY <2>1, <2>4, <3>1, <3>2, <3>4 DEF AnalyzeAt, AnalyzeLoneTask, Require, Fatal, Before
  <2>5. CASE i = 2
    <3>1. /\ x[2][1] \in Members /\ y[2][1] \in Members
          /\ h[2].type = "implicit" /\ h[2].offset = x[2][1][1]
          /\ c[2].type = "implicit" /\ c[2].offset = y[2][1][1]
      BY <1>1, <1>3, <2>2, <2>5, LabelTop
    <3>2. h[2].span = TeamSize /\ c[2].span = TeamSize /\ TeamSize # 1
      BY <2>3, <2>5, <3>1, Names, TeamAssumption DEF ObjectOK
    <3>3. AnalyzeAt(h, c, 2) = AnalyzeTeam(h, c, 2)
      BY <3>2 DEF AnalyzeAt, Require
    <3>4. CASE x[2][1] = y[2][1]
      <4>1. IsNewest(segs, y[2]) /\ 2 \in 2..Len(x) /\ 2 <= Len(y)
        BY <1>4, <1>7
      <4>2. AnalyzeSameTask(h, c, 2) # Fatal
        BY <1>1, <1>3, <2>2, <2>5, <3>1, <3>4, <4>1, SameTaskIsNotFatal DEF h, c
      <4>3. AnalyzeTeam(h, c, 2) = AnalyzeSameTask(h, c, 2)
        BY <3>1, <3>4 DEF AnalyzeTeam
      <4> QED BY <2>1, <2>5, <3>3, <4>2, <4>3
    <3>5. CASE x[2][1] # y[2][1]
      <4>1. /\ x[2][1][1] \in Nat /\ x[2][1][1] < TeamSize
            /\ y[2][1][1] \in Nat /\ y[2][1][1] < TeamSize
            /\ x[2][1][1] # y[2][1][1]
        BY <3>1, <3>5, Names
      <4>2. TeamSize \in Nat
        BY TeamAssumption
      <4>3. \A n \in Nat : n < TeamSize => n % TeamSize = n
        BY <4>2
      <4>4. AnalyzeTeam(h, c, 2) = AnalyzeSiblingImpTask(h, c, 2)
        BY <3>1, <3>2, <4>1, <4>3 DEF AnalyzeTeam
      <4>5. ~ IsLeaf(h, 2) => AnalyzeOrderedSection(h, c, 3) # Fatal
        <5> HAVE ~ IsLeaf(h, 2)
        <5>1. 3 \in 3..Len(x)
          BY <1>4 DEF IsLeaf
        <5> QED BY <1>1, <1>3, <5>1, SectionIsNotFatal DEF h, c
      <4>6. AnalyzeSiblingImpTask(h, c, 2) # Fatal
        BY <4>5 DEF AnalyzeSiblingImpTask, Concurrent, Fatal
      <4> QED BY <2>1, <2>5, <3>3, <4>4, <4>6
    <3> QED BY <3>4, <3>5
  <2>6. CASE i \notin {1, 2}
    <3>1. i \in 3..Len(x) /\ i \in 3..Len(y) /\ i \in 2..Len(x) /\ i \in 2..Len(y)
      BY <1>4, <1>12, <2>6
    <3>2. x[i][1] = y[i][1]
      BY <1>8, <2>2, <3>1
    <3>3. /\ h[i].span = 1 /\ c[i].span = 1 /\ h[i].type = c[i].type
          /\ h[i].type \in {"explicit", "workshare"}
      BY <1>1, <1>3, <2>2, <3>1, <3>2, LowerSegments, Names
    <3>4. AnalyzeSameTask(h, c, i) # Fatal
      <4>1. IsNewest(segs, y[i])
        BY <1>7, <3>1
      <4> QED BY <1>1, <1>3, <1>12, <2>2, <3>1, <3>2, <3>3, <4>1, SameTaskIsNotFatal DEF h, c
    <3>5. AnalyzeOrderedSection(h, c, i) # Fatal
      BY <1>1, <1>3, <3>1, SectionIsNotFatal DEF h, c
    <3> QED BY <2>1, <3>3, <3>4, <3>5 DEF AnalyzeAt, AnalyzeLoneTask, Require
  <2> QED BY <2>4, <2>5, <2>6
<1>13. HB(h, c) # Fatal
  <2> DEFINE T == {i \in 1..Len(x) : i <= Len(y) /\ ~ SameSegment(h[i], c[i])}
  <2>1. CASE T = {}
    BY <1>11, <2>1
  <2>2. CASE T # {}
    <3>1. T \in SUBSET Nat
      BY <1>4
    <3> HIDE DEF T
    <3>2. PICK i \in T : \A j \in T : i <= j
      BY <2>2, <3>1, Least
    <3>3. i \in 1..Len(x) /\ i <= Len(y) /\ ~ SameSegment(h[i], c[i])
      BY <3>2 DEF T
    <3>4. ASSUME NEW k \in 1..i-1 PROVE SameSegment(h[k], c[k])
      <4>1. k \in 1..Len(x) /\ k <= Len(y) /\ ~ (i <= k)
        BY <1>4, <3>3
      <4> QED BY <4>1, <3>2 DEF T
    <3> QED BY <1>12, <3>3, <3>4
  <2> QED BY <2>1, <2>2
<1> QED BY <1>13 DEF Verdict, x, y, h, c

(* The label of a task that replaces its own segment.                      *)
LEMMA RenewedRefs ==
  ASSUME Heap, LabelsEnd, NEW t \in Tasks, Live(t), label'[t] = ReplaceLast(label[t], NextRef(t))
  PROVE  /\ Len(label[t]) \in Nat /\ Len(label[t]) >= 2
         /\ Len(label'[t]) = Len(label[t]) /\ label'[t][Len(label[t])] = NextRef(t)
         /\ \A k \in 1..Len(label[t])-1 : label'[t][k] = label[t][k]
<1> DEFINE S == Owners \X Nat
           x == label[t]
           e == NextRef(t)
<1>1. x \in Seq(S) /\ Len(x) \in Nat /\ Len(x) >= 2 /\ Len(x) >= 1
  BY OwnSegment
<1>2. e \in S
  <2>1. t \in Owners
    BY DEF Owners
  <2> QED BY <2>1, HeapObject DEF NextRef, Heap
<1> HIDE DEF S, x, e
<1>3. /\ Len(ReplaceLast(x, e)) = Len(x) /\ ReplaceLast(x, e)[Len(x)] = e
      /\ \A k \in 1..Len(x)-1 : ReplaceLast(x, e)[k] = x[k]
  BY <1>1, <1>2, LastReplaced
<1> QED BY <1>1, <1>3 DEF x, e

\* A task goes on with a segment of the same place in its label.
Renews(y, x) ==
  Len(y) = Len(x) /\ \A k \in 1..Len(x) : (k < Len(x) => y[k] = x[k]) /\ y[k][1] = x[k][1]

(* The labels of the tasks after a step: c is the task, if any, that goes  *)
(* down from the label of p.                                               *)
LEMMA LabelStep ==
  ASSUME IInv, IInv', [Next]_vars
  PROVE  \E p, c \in Tasks : \A u \in Tasks : Live(u)' =>
           \/ Live(u) /\ Renews(label'[u], label[u])
           \/ /\ u \in Members /\ Len(label'[u]) = 2
              /\ label'[u][1] = label[u][1] \/ BarrierEnd(u)
           \/ u = c /\ Acting(p) /\ Extends(label'[u], label[p]) /\ (p # u => Create(p))
<1>1. /\ Structure /\ Heap /\ LabelsEnd /\ HeapOK(segs) /\ Shape
      /\ Structure' /\ Heap' /\ LabelsEnd'
  BY DEF IInv, Structure, Heap
<1>2. ASSUME NEW u \in Tasks, Live(u)
      PROVE  /\ label[u] \in Seq(Owners \X Nat) /\ Len(label[u]) \in Nat /\ Len(label[u]) >= 2
             /\ label[u][Len(label[u])][1] = u
  BY <1>1, <1>2, OwnSegment
<1>3. ASSUME NEW u \in Tasks, Live(u), label'[u] = label[u]
      PROVE  Renews(label'[u], label[u])
  BY <1>3 DEF Renews
<1>4. ASSUME NEW u \in Tasks, Live(u), label'[u] = ReplaceLast(label[u], NextRef(u))
      PROVE  Renews(label'[u], label[u])
  <2>2. NextRef(u)[1] = u
    BY DEF NextRef
  <2>4. /\ Len(label'[u]) = Len(label[u]) /\ label'[u][Len(label[u])] = NextRef(u)
        /\ \A k \in 1..Len(label[u])-1 : label'[u][k] = label[u][k]
    BY <1>1, <1>4, RenewedRefs
  <2>5. \A k \in 1..Len(label[u]) : k \in 1..Len(label[u])-1 \/ k = Len(label[u])
    BY <1>2, <1>4
  <2> QED BY <1>2, <1>4, <2>2, <2>4, <2>5 DEF Renews
<1> DEFINE Said(u, p, c) ==
             \/ Live(u) /\ Renews(label'[u], label[u])
             \/ /\ u \in Members /\ Len(label'[u]) = 2
                /\ label'[u][1] = label[u][1] \/ BarrierEnd(u)
             \/ u = c /\ Acting(p) /\ Extends(label'[u], label[p]) /\ (p # u => Create(p))
<1>5. ASSUME NEW t \in Tasks, \A u \in Tasks : Live(u)' => Live(u) /\ label'[u] = label[u]
      PROVE  \A u \in Tasks : Live(u)' => Said(u, t, t)
  BY <1>3, <1>5
<1>6. ASSUME NEW t \in Tasks, NEW y, label' = [label EXCEPT ![t] = y],
             \A u \in Tasks : u # t => at'[u] = at[u],
             NEW p \in Tasks, NEW c \in Tasks, Live(t)' => Said(t, p, c)
      PROVE  \A u \in Tasks : Live(u)' => Said(u, p, c)
  <2> SUFFICES ASSUME NEW u \in Tasks, Live(u)', u # t PROVE Said(u, p, c)
    BY <1>6
  <2>1. label'[u] = label[u]
    BY <1>1, <1>6 DEF LabelsEnd
  <2>2. Live(u)
    BY <1>6, <2>1 DEF Live, Exists
  <2> QED BY <1>3, <2>1, <2>2
<1>7. ASSUME NEW t \in Tasks, Live(t), label' = [label EXCEPT ![t] = ReplaceLast(@, NextRef(t))],
             \A u \in Tasks : u # t => at'[u] = at[u]
      PROVE  \A u \in Tasks : Live(u)' => Said(u, t, t)
  <2>1. label'[t] = ReplaceLast(label[t], NextRef(t))
    BY <1>1, <1>7 DEF LabelsEnd
  <2>2. Said(t, t, t)
    BY <1>4, <1>7, <2>1
  <2> HIDE DEF Said
  <2> QED BY <1>6, <1>7, <2>1, <2>2
<1>8. ASSUME NEW t \in Tasks, t \in Members, NEW y, Len(y) = 2, label' = [label EXCEPT ![t] = y],
             y[1] = label[t][1] \/ BarrierEnd(t),
             \A u \in Tasks : u # t => at'[u] = at[u]
      PROVE  \A u \in Tasks : Live(u)' => Said(u, t, t)
  <2>1. label'[t] = y
    BY <1>1, <1>8 DEF LabelsEnd
  <2>2. Said(t, t, t)
    BY <1>8, <2>1
  <2> HIDE DEF Said
  <2> QED BY <1>6, <1>8, <2>2
<1>9. ASSUME NEW t \in Tasks, at[t] = "runs", label' = [label EXCEPT ![t] = Append(@, NextRef(t))],
             \A u \in Tasks : u # t => at'[u] = at[u]
      PROVE  \A u \in Tasks : Live(u)' => Said(u, t, t)
  <2>1. label'[t] = Append(label[t], NextRef(t))
    BY <1>1, <1>9 DEF LabelsEnd
  <2>2. Acting(t) /\ Live(t)
    BY <1>1, <1>9, RunningTask
  <2>3. NextRef(t) \in Owners \X Nat
    BY <1>1, HeapObject DEF NextRef, Owners
  <2>4. Extends(label'[t], label[t])
    BY <1>2, <2>1, <2>2, <2>3, Ends DEF Extends
  <2>5. Said(t, t, t)
    BY <2>2, <2>4
  <2> HIDE DEF Said
  <2> QED BY <1>6, <1>9, <2>5
<1>10. ASSUME NEW t \in Tasks, Create(t)
       PROVE  \E c \in Tasks : \A u \in Tasks : Live(u)' => Said(u, t, c)
  <2> DEFINE c == Append(t, Made(t) + 1)
  <2>1. /\ at[t] = "runs" /\ c \in ExpTasks /\ c \in Tasks /\ at' = at
        /\ label' = [label EXCEPT ![c] = Append(label[t], <<c, 1>>),
                                  ![t] = ReplaceLast(@, NextRef(t))]
    BY <1>10 DEF Create, Runs, Tasks
  <2>2. c # t
    BY <1>1, <1>10, <2>1, MadeIsCount, CreatorOf
  <2> HIDE DEF c
  <2>3. /\ label'[t] = ReplaceLast(label[t], NextRef(t)) /\ label'[c] = Append(label[t], <<c, 1>>)
        /\ \A u \in Tasks : u \notin {t, c} => label'[u] = label[u]
    BY <1>1, <2>1, <2>2 DEF LabelsEnd
  <2>4. Acting(t) /\ Live(t)
    BY <1>1, <2>1, RunningTask
  <2>5. Extends(label'[c], label[t])
    <3>1. <<c, 1>> \in Owners \X Nat
      BY <2>1 DEF Owners
    <3> QED BY <1>2, <2>3, <2>4, <3>1, Ends DEF Extends
  <2>6. Said(c, t, c) /\ Said(t, t, c)
    BY <1>4, <1>10, <2>3, <2>4, <2>5
  <2>7. ASSUME NEW u \in Tasks, u \notin {t, c}, Live(u)' PROVE Said(u, t, c)
    <3>1. label'[u] = label[u] /\ Live(u)
      BY <2>1, <2>3, <2>7 DEF Live, Exists
    <3> QED BY <1>3, <3>1
  <2> HIDE DEF Said
  <2> QED BY <2>1, <2>6, <2>7
<1> SUFFICES \E p, c \in Tasks : \A u \in Tasks : Live(u)' => Said(u, p, c)
  OBVIOUS
<1> HIDE DEF Said
<1>11. ASSUME NEW t \in Tasks, label' = label, \A u \in Tasks : u # t => at'[u] = at[u],
              at[t] # "done"
       PROVE  \A u \in Tasks : Live(u)' => Said(u, t, t)
  <2>1. \A u \in Tasks : Live(u)' => Live(u) /\ label'[u] = label[u]
    BY <1>11 DEF Live, Exists
  <2> QED BY <1>5, <2>1
<1>12. ASSUME NEW t \in Tasks, Step(t)
       PROVE  \E p, c \in Tasks : \A u \in Tasks : Live(u)' => Said(u, p, c)
  <2>1. CASE Create(t)
    BY <1>10, <2>1
  <2>2. CASE ReachTaskwait(t) \/ ReachBarrier(t) \/ Record(t)
    <3>1. label' = label /\ at[t] # "done" /\ \A u \in Tasks : u # t => at'[u] = at[u]
      BY <1>1, <2>2 DEF ReachTaskwait, ReachBarrier, Record, Runs, Go, taskVars, Shape
    <3> QED BY <1>11, <3>1
  <2>3. CASE \/ TaskwaitEnd(t) \/ GroupBegin(t) \/ GroupEnd(t)
             \/ Dispatch(t) \/ OrderedAcquired(t) \/ OrderedReleased(t)
    <3>1. /\ label' = [label EXCEPT ![t] = ReplaceLast(@, NextRef(t))]
          /\ \A u \in Tasks : u # t => at'[u] = at[u]
      BY <1>1, <2>3 DEF TaskwaitEnd, GroupBegin, GroupEnd, Dispatch, OrderedAcquired,
                        OrderedReleased, MutateLast, Go, Shape
    <3>2. at[t] \in {"runs", "taskwait", "passes"}
      <4>1. CASE Dispatch(t)
        BY <1>1, <4>1 DEF Dispatch, Structure, Places, PlaceOK
      <4> QED BY <2>3, <4>1 DEF TaskwaitEnd, GroupBegin, GroupEnd, OrderedAcquired,
                                OrderedReleased, Runs
    <3> QED BY <1>1, <1>7, <3>1, <3>2, RunningTask
  <2>4. CASE SingleBegin(t) \/ LoopBegin(t)
    <3>1. /\ label' = [label EXCEPT ![t] = Append(@, NextRef(t))] /\ at[t] = "runs"
          /\ \A u \in Tasks : u # t => at'[u] = at[u]
      BY <1>1, <2>4 DEF SingleBegin, LoopBegin, Runs, Go, Shape
    <3> QED BY <1>9, <3>1
  <2>5. CASE SingleEnd(t)
    <3>1. t \in Members /\ InConstruct(t)
      BY <2>5 DEF SingleEnd, InConstruct
    <3>2. Len(Front(label[t])) = 2 /\ Front(label[t])[1] = label[t][1]
      BY <1>1, <3>1, PoppedLabel
    <3>3. /\ label' = [label EXCEPT ![t] = Front(label[t])]
          /\ \A u \in Tasks : u # t => at'[u] = at[u]
      BY <1>1, <2>5 DEF SingleEnd, Go, Shape
    <3> QED BY <1>8, <3>1, <3>2, <3>3
  <2>6. CASE LoopEnd(t)
    <3>1. t \in Members /\ InConstruct(t)
      BY <2>6 DEF LoopEnd, InConstruct
    <3>2. Len(label'[t]) = 2
      <4>1. work'[t] = "after"
        BY <1>1, <2>6, <3>1 DEF LoopEnd, Shape
      <4>2. ~ InConstruct(t)' /\ LabelEnds(t)'
        BY <1>1, <4>1 DEF InConstruct, LabelsEnd
      <4> QED BY <3>1, <4>2 DEF LabelEnds
    <3>3. /\ label' = [label EXCEPT ![t] = label'[t]]
          /\ label'[t] = ReplaceLast(Front(label[t]), NextRef(t))
          /\ \A u \in Tasks : u # t => at'[u] = at[u]
      BY <1>1, <2>6 DEF LoopEnd, Go, Shape, LabelsEnd
    <3>4. label'[t][1] = label[t][1]
      <4> DEFINE S == Owners \X Nat
                 x == Front(label[t])
                 e == NextRef(t)
      <4>1. x \in Seq(S) /\ Len(x) >= 1 /\ e \in S
        BY <1>1, <3>1, PoppedLabel, HeapObject DEF NextRef, Owners
      <4>2. Len(x) = 2 /\ x[1] = label[t][1]
        BY <1>1, <3>1, PoppedLabel
      <4> HIDE DEF S, x, e
      <4>3. /\ Len(ReplaceLast(x, e)) = Len(x) /\ ReplaceLast(x, e)[Len(x)] = e
            /\ \A k \in 1..Len(x)-1 : ReplaceLast(x, e)[k] = x[k]
        BY <4>1, LastReplaced
      <4>4. ReplaceLast(x, e)[1] = x[1]
        BY <4>2, <4>3
      <4> QED BY <3>3, <4>2, <4>4 DEF x, e
    <3> QED BY <1>8, <3>1, <3>2, <3>3, <3>4
  <2>7. CASE BarrierEnd(t)
    <3>1. t \in Members /\ ~ InConstruct(t)
      BY <1>1, <2>7 DEF BarrierEnd, Structure, Places, PlaceOK, InConstruct, Tasks
    <3>2. Len(label'[t]) = 2
      BY <1>1, <2>7, <3>1 DEF BarrierEnd, LabelsEnd, LabelEnds, InConstruct, teamVars
    <3>3. /\ label' = [label EXCEPT ![t] = label'[t]]
          /\ \A u \in Tasks : u # t => at'[u] = at[u]
      BY <1>1, <2>7 DEF BarrierEnd, Go, Shape, LabelsEnd
    <3> QED BY <1>8, <2>7, <3>1, <3>2, <3>3
  <2> QED BY <1>12, <2>1, <2>2, <2>3, <2>4, <2>5, <2>6, <2>7 DEF Step
<1>13. ASSUME NEW t \in ExpTasks, ExpStep(t)
       PROVE  \E p, c \in Tasks : \A u \in Tasks : Live(u)' => Said(u, p, c)
  <2>0. t \in Tasks /\ PlaceOK(t)
    BY <1>1 DEF Tasks, Structure, Places
  <2>1. CASE RegisterDependences(t)
    <3>1. label' = label /\ at[t] # "done" /\ at' = at
      BY <2>0, <2>1, <1>13 DEF RegisterDependences, Dependences, taskVars, PlaceOK
    <3> QED BY <1>11, <2>0, <3>1
  <2>2. CASE Begin(t)
    <3>1. label' = label /\ at[t] # "done" /\ \A u \in Tasks : u # t => at'[u] = at[u]
      BY <1>1, <2>0, <2>2, <1>13 DEF Begin, TaskBegin, taskVars, PlaceOK, Go, Shape
    <3> QED BY <1>11, <2>0, <3>1
  <2>3. CASE Finish(t)
    <3>1. /\ label' = [label EXCEPT ![t] = Front(label[t])] /\ ~ Live(t)'
          /\ \A u \in Tasks : u # t => at'[u] = at[u]
      BY <1>1, <2>0, <2>3 DEF Finish, Go, Shape, Live
    <3> QED BY <1>6, <2>0, <3>1
  <2> QED BY <1>13, <2>1, <2>2, <2>3 DEF ExpStep
<1>14. \E t : t \in Tasks
  <2>1. <<0>> \in Members
    BY TeamAssumption DEF Members
  <2> QED BY <2>1 DEF Tasks
<1>15. ASSUME \A u \in Tasks : Live(u)' => Live(u) /\ label'[u] = label[u]
       PROVE  \E p, c \in Tasks : \A u \in Tasks : Live(u)' => Said(u, p, c)
  BY <1>5, <1>14, <1>15
<1>16. CASE OpenBarrier
  <2>1. \A u \in Tasks : Live(u)' => Live(u) /\ label'[u] = label[u]
    BY <1>1, <1>16, Names DEF OpenBarrier, taskVars, Live, Exists, Shape, Tasks
  <2> QED BY <1>15, <2>1
<1>17. CASE UNCHANGED vars
  <2>1. \A u \in Tasks : Live(u)' => Live(u) /\ label'[u] = label[u]
    BY <1>17 DEF vars, taskVars, Live, Exists
  <2> QED BY <1>15, <2>1
<1> QED BY <1>12, <1>13, <1>16, <1>17 DEF Next

(* The lengths of labels in use after a step.                              *)
LEMMA UsedLengths ==
  ASSUME Heap', LabelsEnd', Recorded', NEW x \in InUse'
  PROVE  Len(x) \in Nat
<1>1. ASSUME NEW t \in Tasks, Live(t)', x = label'[t] PROVE Len(x) \in Nat
  BY <1>1 DEF LabelsEnd
<1>2. x = hist' /\ hist' # <<>> => Len(x) \in Nat
  BY DEF Recorded, LabelOK
<1> QED BY <1>1, <1>2 DEF InUse

(* The age of a segment of a label in use is a number.                     *)
LEMMA UsedAge ==
  ASSUME Heap, LabelsEnd, Recorded, NEW x \in InUse, NEW k \in 1..Len(x)
  PROVE  Age(Obj(x[k])) \in Nat
<1>1. Obj(x[k]) \in SegmentType
  BY UsedLabels, LabelValues
<1> QED BY <1>1, AgeIsNat

(* Only an access writes the history.                                      *)
LEMMA OnlyRecordWrites ==
  ASSUME [Next]_vars, hist' # hist
  PROVE  \E t \in Tasks : Record(t)
<1>1. ASSUME NEW t \in Tasks, Step(t) PROVE Record(t)
  BY <1>1 DEF Step, Create, ReachTaskwait, TaskwaitEnd, GroupBegin, GroupEnd, SingleBegin, SingleEnd,
              LoopBegin, Dispatch, OrderedAcquired, OrderedReleased, LoopEnd, ReachBarrier, BarrierEnd
<1>2. ASSUME NEW t \in ExpTasks, ExpStep(t) PROVE FALSE
  BY <1>2 DEF ExpStep, RegisterDependences, Begin, Finish
<1> QED BY <1>1, <1>2 DEF Next, OpenBarrier, vars

(* The tasks along labels stay those above.                                *)
LEMMA LineageStep ==
  ASSUME IInv, IInv', Lines, [Next]_vars
  PROVE  Lineage'
<1>1. /\ Structure /\ Heap /\ LabelsEnd /\ Structure' /\ Heap' /\ LabelsEnd'
  BY DEF IInv, Structure
<1>2. PICK p \in Tasks, c \in Tasks : \A u \in Tasks : Live(u)' =>
           \/ Live(u) /\ Renews(label'[u], label[u])
           \/ /\ u \in Members /\ Len(label'[u]) = 2
              /\ label'[u][1] = label[u][1] \/ BarrierEnd(u)
           \/ u = c /\ Acting(p) /\ Extends(label'[u], label[p]) /\ (p # u => Create(p))
  BY LabelStep
<1> SUFFICES ASSUME NEW u \in ExpTasks, Live(u)', NEW k \in 3..Len(label'[u]),
                    label'[u][k][1] \in ExpTasks
             PROVE  /\ IsPrefixOf(label'[u][k][1], u)
                    /\ Creator[label'[u][k][1]] = label'[u][k-1][1]
  BY DEF Lineage
<1>3. u \in Tasks /\ u \notin Members /\ u \in Seq(Nat)
  BY Names DEF Tasks
<1>4. /\ Len(label'[u]) \in Nat /\ Len(label'[u]) >= 3 /\ Last(label'[u])[1] = u
      /\ Last(label'[u]) = label'[u][Len(label'[u])]
      /\ label'[u][Len(label'[u]) - 1][1] = Creator[u]
  BY <1>1, <1>3, LabelValues DEF LabelsEnd, LabelEnds, Live, Last
<1>5. CASE k = Len(label'[u])
  <2>1. label'[u][k][1] = u /\ label'[u][k-1][1] = Creator[u]
    BY <1>4, <1>5
  <2>2. IsPrefixOf(u, u)
    BY <1>3 DEF IsPrefixOf
  <2> QED BY <2>1, <2>2
<1>6. CASE k # Len(label'[u]) /\ Live(u) /\ Renews(label'[u], label[u])
  <2>1. k \in 3..Len(label[u]) /\ label'[u][k] = label[u][k] /\ label'[u][k-1] = label[u][k-1]
    <3>1. \A n \in Nat : \A j \in 3..n : j # n => j \in 1..n /\ j-1 \in 1..n /\ j < n /\ j-1 < n
      OBVIOUS
    <3>2. Len(label'[u]) = Len(label[u])
      BY <1>6 DEF Renews
    <3> QED BY <1>4, <1>6, <3>1, <3>2 DEF Renews
  <2> QED BY <1>6, <2>1 DEF Lines, Lineage
<1>7. CASE k # Len(label'[u]) /\ Acting(p) /\ Extends(label'[u], label[p])
  <2>1. /\ Live(p) /\ LabelEnds(p) /\ Len(label[p]) \in Nat /\ Len(label[p]) >= 2
        /\ label[p][Len(label[p])][1] = p
    BY <1>1, <1>7, OwnSegment DEF Acting, LabelsEnd
  <2>2. k \in 3..Len(label[p]) /\ label'[u][k] = label[p][k] /\ label'[u][k-1] = label[p][k-1]
    <3>1. \A n \in Nat : \A j \in 3..n+1 : j # n+1 => j \in 1..n /\ j-1 \in 1..n /\ j \in 3..n
      OBVIOUS
    <3>2. Len(label'[u]) = Len(label[p]) + 1
      BY <1>7 DEF Extends
    <3> QED BY <1>7, <2>1, <3>1, <3>2 DEF Extends
  <2>3. p \in ExpTasks
    <3> SUFFICES ASSUME p \in Members PROVE FALSE
      BY DEF Tasks
    <3>1. InConstruct(p) /\ Len(label[p]) = 3 /\ label[p][3][1] = p
      <4>1. Len(label[p]) # 2
        BY <2>2
      <4>2. /\ Len(label[p]) = (IF InConstruct(p) THEN 3 ELSE 2)
            /\ InConstruct(p) => label[p][3][1] = p
        <5>1. LabelEnds(p) /\ p \in Members
          BY <2>1
        <5> QED BY <5>1, Zenon DEF LabelEnds
      <4> QED BY <4>1, <4>2
    <3>2. k = 3
      BY <2>2, <3>1
    <3> QED BY <2>2, <3>1, <3>2, Names
  <2>4. IsPrefixOf(label[p][k][1], p) /\ Creator[label[p][k][1]] = label[p][k-1][1]
    BY <2>1, <2>2, <2>3 DEF Lines, Lineage
  <2>5. Creator[u] = p
    <3>1. Len(label'[u]) - 1 = Len(label[p]) /\ Len(label[p]) \in 1..Len(label[p])
      BY <1>7, <2>1 DEF Extends
    <3> QED BY <1>4, <1>7, <2>1, <3>1 DEF Extends
  <2>6. IsPrefixOf(label[p][k][1], u)
    <3>1. label[p][k][1] \in Seq(Nat) /\ p \in Seq(Nat)
      BY <2>2, Names DEF Tasks
    <3> QED BY <2>4, <2>5, <3>1, PrefixBelow
  <2> QED BY <2>2, <2>4, <2>6
<1> QED BY <1>2, <1>3, <1>5, <1>6, <1>7

(* One thing stands below the same segments.                               *)
LEMMA OneIsBelowStep ==
  ASSUME IInv, IInv', Lines, [Next]_vars
  PROVE  OneIsBelow'
<1>1. /\ Structure /\ Heap /\ LabelsEnd /\ Recorded /\ Ages
      /\ Structure' /\ Heap' /\ LabelsEnd' /\ Recorded' /\ HeapOK(segs)
  BY DEF IInv, Structure, Heap
<1>2. PICK p \in Tasks, c \in Tasks : \A u \in Tasks : Live(u)' =>
           \/ Live(u) /\ Renews(label'[u], label[u])
           \/ /\ u \in Members /\ Len(label'[u]) = 2
              /\ label'[u][1] = label[u][1] \/ BarrierEnd(u)
           \/ u = c /\ Acting(p) /\ Extends(label'[u], label[p]) /\ (p # u => Create(p))
  BY LabelStep
<1>3. ASSUME NEW x \in InUse PROVE Len(x) \in Nat /\ Renews(x, x)
  BY <1>1, <1>3, UsedLabels, LabelValues DEF Renews
<1>4. ASSUME NEW x \in InUse'
      PROVE  \/ \E z \in InUse : Renews(x, z)
             \/ Len(x) = 2
             \/ x = label'[c] /\ Acting(p) /\ Extends(x, label[p])
  <2>1. CASE x = hist' /\ hist' # <<>>
    <3>1. x \in InUse
      <4>1. CASE hist' = hist
        BY <2>1, <4>1 DEF InUse
      <4>2. CASE hist' # hist
        <5>1. PICK t \in Tasks : Record(t)
          BY <4>2, OnlyRecordWrites
        <5>2. hist' = label[t] /\ at[t] = "runs"
          BY <5>1 DEF Record, Runs
        <5>3. Live(t)
          BY <1>1, <5>2, RunningTask
        <5> QED BY <2>1, <5>2, <5>3 DEF InUse
      <4> QED BY <4>1, <4>2
    <3> QED BY <1>3, <3>1
  <2>2. ASSUME NEW u \in Tasks, Live(u)', x = label'[u]
        PROVE  \/ \E z \in InUse : Renews(x, z)
               \/ Len(x) = 2
               \/ x = label'[c] /\ Acting(p) /\ Extends(x, label[p])
    <3>1. Live(u) => label[u] \in InUse
      BY DEF InUse
    <3> QED BY <1>2, <2>2, <3>1
  <2> QED BY <2>1, <2>2 DEF InUse
<1>5. ASSUME NEW x \in InUse', NEW y \in InUse', NEW k \in 3..Len(x), k <= Len(y),
             AgreeBelow(x, y, k), NEW z \in InUse, Renews(x, z), NEW w \in InUse, Renews(y, w)
      PROVE  x[k][1] = y[k][1]
  <2>1. Len(z) = Len(x) /\ Len(w) = Len(y) /\ Len(x) \in Nat /\ Len(y) \in Nat
    BY <1>3, <1>5 DEF Renews
  <2>2. k \in 1..Len(z) /\ k \in 1..Len(w) /\ k \in 3..Len(z) /\ k <= Len(w)
    BY <1>5, <2>1
  <2>3. x[k][1] = z[k][1] /\ y[k][1] = w[k][1]
    BY <1>5, <2>2 DEF Renews
  <2>4. AgreeBelow(z, w, k)
    <3> SUFFICES ASSUME NEW j \in 1..k-1 PROVE z[j] = w[j]
      BY DEF AgreeBelow
    <3>1. j \in 1..Len(z) /\ j < Len(z) /\ j \in 1..Len(w) /\ j < Len(w)
      BY <1>5, <2>1, <2>2
    <3>2. x[j] = z[j] /\ y[j] = w[j]
      BY <1>5, <3>1 DEF Renews
    <3> QED BY <1>5, <3>2 DEF AgreeBelow
  <2> QED BY <2>2, <2>3, <2>4 DEF Lines, OneIsBelow
<1>6. ASSUME NEW y, NEW w \in InUse, Renews(y, w), Acting(p), Extends(label'[c], label[p]),
             NEW k \in 3..Len(label'[c]), k <= Len(y), AgreeBelow(label'[c], y, k)
      PROVE  label'[c][k][1] = y[k][1]
  <2> DEFINE n == Len(label[p])
  <2>1. label[p] \in InUse /\ n \in Nat /\ n >= 2 /\ Len(label'[c]) = n + 1
    BY <1>1, <1>6, OwnSegment DEF Acting, InUse, Extends
  <2>2. Len(w) = Len(y) /\ Len(w) \in Nat /\ k \in 1..Len(w)
    BY <1>3, <1>6, <2>1 DEF Renews
  <2>3. AgreeBelow(w, label[p], k)
    <3> SUFFICES ASSUME NEW j \in 1..k-1 PROVE w[j] = label[p][j]
      BY DEF AgreeBelow
    <3>1. j \in 1..n /\ j \in 1..Len(w) /\ j < Len(w)
      BY <1>6, <2>1, <2>2
    <3>2. y[j] = w[j] /\ label'[c][j] = label[p][j] /\ label'[c][j] = y[j]
      BY <1>6, <3>1 DEF Renews, Extends, AgreeBelow
    <3> QED BY <3>2
  <2>4. CASE k = n + 1
    <3>1. n < Len(w) /\ AgreeBelow(w, label[p], n) /\ w[n] = label[p][n] /\ n \in 1..Len(w)
      <4>1. n \in 1..k-1 /\ \A j \in 1..n-1 : j \in 1..k-1
        BY <2>1, <2>4
      <4>2. n < Len(w) /\ n \in 1..Len(w)
        BY <2>1, <2>2, <2>4
      <4> QED BY <2>3, <4>1, <4>2 DEF AgreeBelow
    <3>2. Own(p) = Obj(w[n])
      BY <1>6, <3>1, <1>1, OwnSegment DEF Obj, Acting
    <3>3. ~ SameKind(Obj(w[n]), Own(p)) \/ Age(Obj(w[n])) < Age(Own(p))
      BY <1>1, <1>6, <3>1 DEF Ages, DescendantsAreBelowOlder
    <3>4. Age(Own(p)) \in Nat
      BY <1>1, <3>1, <3>2, GrowsReflexive, UsedAge
    <3> QED BY <3>2, <3>3, <3>4 DEF SameKind
  <2>5. CASE k # n + 1
    <3>1. k \in 3..n /\ k \in 1..n /\ k <= Len(w)
      BY <1>6, <2>1, <2>2, <2>5
    <3>2. AgreeBelow(label[p], w, k)
      BY <2>3 DEF AgreeBelow
    <3>3. label[p][k][1] = w[k][1]
      BY <2>1, <3>1, <3>2 DEF Lines, OneIsBelow
    <3>4. label'[c][k] = label[p][k] /\ y[k][1] = w[k][1]
      BY <1>6, <2>2, <3>1 DEF Extends, Renews
    <3> QED BY <3>3, <3>4
  <2> QED BY <2>4, <2>5
<1> SUFFICES ASSUME NEW x \in InUse', NEW y \in InUse', NEW k \in 3..Len(x), k <= Len(y),
                    AgreeBelow(x, y, k)
             PROVE  x[k][1] = y[k][1]
  BY DEF OneIsBelow, AgreeBelow
<1>7. Len(x) # 2 /\ Len(y) # 2 /\ AgreeBelow(y, x, k)
  <2>1. Len(x) \in Nat /\ Len(y) \in Nat
    BY <1>1, UsedLengths
  <2>2. \A n, l \in Nat : \A j \in 3..n : j <= l => n # 2 /\ l # 2
    OBVIOUS
  <2>2a. Len(x) # 2 /\ Len(y) # 2
    BY <2>1, <2>2
  <2>3. AgreeBelow(y, x, k)
    BY DEF AgreeBelow
  <2> QED BY <2>2a, <2>3
<1>8. CASE \E z \in InUse : Renews(x, z)
  <2>1. CASE \E w \in InUse : Renews(y, w)
    BY <1>5, <1>8, <2>1
  <2>2. CASE y = label'[c] /\ Acting(p) /\ Extends(y, label[p])
    <3>1. k \in 3..Len(y) /\ k <= Len(x)
      BY <1>1, UsedLengths
    <3> QED BY <1>6, <1>7, <1>8, <2>2, <3>1
  <2> QED BY <1>4, <1>7, <2>1, <2>2
<1>9. CASE x = label'[c] /\ Acting(p) /\ Extends(x, label[p])
  <2>1. CASE \E w \in InUse : Renews(y, w)
    BY <1>6, <1>9, <2>1
  <2>2. CASE y = label'[c]
    BY <1>9, <2>2
  <2> QED BY <1>4, <1>7, <2>1, <2>2
<1> QED BY <1>4, <1>7, <1>8, <1>9

-----------------------------------------------------------------------------
\* The counts of waits of two segments, or none.
SameWaits(new, old) == new.type = old.type /\ new.taskwait = old.taskwait

\* t gets one more object, which waits as seg, and the others wait as before.
Gains(heap, new, t, seg) ==
  /\ \A s \in Owners : \A n \in DOMAIN heap[s] :
       n \in DOMAIN new[s] /\ SameWaits(new[s][n], heap[s][n])
  /\ Len(heap[t]) + 1 \in DOMAIN new[t] /\ SameWaits(new[t][Len(heap[t]) + 1], seg)
  /\ \A s \in Owners : \A n \in DOMAIN new[s] :
       n \in DOMAIN heap[s] \/ (s = t /\ n = Len(heap[t]) + 1)

(* An object that waits no longer leaves the newest where they are.        *)
LEMMA NewestStays ==
  ASSUME NEW heap, NEW new, NEW t, NEW seg, Gains(heap, new, t, seg),
         NEW ref, IsObject(heap, ref), IsNewest(heap, ref),
         ref[1] = t /\ seg.type = ObjectAt(heap, ref).type
         => seg.taskwait <= ObjectAt(heap, ref).taskwait
  PROVE  /\ IsNewest(new, ref) /\ IsObject(new, ref)
         /\ SameWaits(ObjectAt(new, ref), ObjectAt(heap, ref))
<1> DEFINE s == ref[1]
           old == ObjectAt(heap, ref)
<1>1. s \in Owners /\ ref[2] \in DOMAIN heap[s]
  BY DEF IsObject
<1>2. SameWaits(ObjectAt(new, ref), old)
  BY <1>1 DEF Gains, ObjectAt
<1>3. \A n \in DOMAIN heap[s] : heap[s][n].type = old.type => heap[s][n].taskwait <= old.taskwait
  BY DEF IsNewest
<1>4. \A n \in DOMAIN heap[s] : SameWaits(new[s][n], heap[s][n])
  BY <1>1 DEF Gains
<1>5. \A n \in DOMAIN new[s] : n \in DOMAIN heap[s] \/ (s = t /\ SameWaits(new[s][n], seg))
  BY <1>1 DEF Gains
<1>6. s = t /\ seg.type = old.type => seg.taskwait <= old.taskwait
  OBVIOUS
<1> HIDE DEF s, old
<1>7. ASSUME NEW n \in DOMAIN new[s], new[s][n].type = old.type
      PROVE  new[s][n].taskwait <= old.taskwait
  <2>1. CASE n \in DOMAIN heap[s]
    BY <1>3, <1>4, <1>7, <2>1 DEF SameWaits
  <2>2. CASE s = t /\ SameWaits(new[s][n], seg)
    BY <1>6, <1>7, <2>2 DEF SameWaits
  <2> QED BY <1>5, <2>1, <2>2
<1>8. \A n \in DOMAIN new[ref[1]] : new[ref[1]][n].type = ObjectAt(new, ref).type
        => new[ref[1]][n].taskwait <= ObjectAt(new, ref).taskwait
  BY <1>2, <1>7 DEF SameWaits, s
<1>9. IsObject(new, ref)
  BY <1>1 DEF Gains, IsObject, s
<1> QED BY <1>2, <1>8, <1>9 DEF IsNewest, old

(* The object that is added, when it waits as long as any of its type.     *)
LEMMA TopIsNewest ==
  ASSUME NEW heap, NEW new, NEW t \in Owners, NEW seg \in SegmentType, Gains(heap, new, t, seg),
         \A n \in DOMAIN heap[t] : heap[t][n].type = seg.type => heap[t][n].taskwait <= seg.taskwait
  PROVE  IsNewest(new, <<t, Len(heap[t]) + 1>>)
<1> DEFINE ref == <<t, Len(heap[t]) + 1>>
<1>1. ref[1] = t /\ SameWaits(ObjectAt(new, ref), seg)
  BY DEF Gains, ObjectAt
<1>2. \A n \in DOMAIN new[t] : \/ n \in DOMAIN heap[t] /\ SameWaits(new[t][n], heap[t][n])
                               \/ SameWaits(new[t][n], seg)
  BY DEF Gains
<1>3. seg.taskwait <= seg.taskwait
  BY DEF SegmentType
<1> HIDE DEF ref
<1>4. ASSUME NEW n \in DOMAIN new[t], new[t][n].type = seg.type
      PROVE  new[t][n].taskwait <= seg.taskwait
  BY <1>2, <1>3, <1>4 DEF SameWaits
<1>5. IsNewest(new, ref)
  BY <1>1, <1>4 DEF IsNewest, SameWaits
<1> QED BY <1>5 DEF ref

(* Added adds one object.                                                  *)
LEMMA AddedGains ==
  ASSUME NEW heap \in [Owners -> Seq(SegmentType)], NEW t \in Owners, NEW seg \in SegmentType
  PROVE  /\ Gains(heap, Added(heap, t, seg), t, seg)
         /\ Added(heap, t, seg) \in [Owners -> Seq(SegmentType)]
<1> DEFINE new == Added(heap, t, seg)
<1>2. Append(heap[t], seg) \in Seq(SegmentType)
  BY Ends
<1>3. /\ new \in [Owners -> Seq(SegmentType)] /\ new[t] = Append(heap[t], seg)
      /\ \A s \in Owners : s # t => new[s] = heap[s]
  BY <1>2 DEF Added
<1> HIDE DEF new
<1>4. /\ Len(heap[t]) \in Nat /\ DOMAIN heap[t] = 1..Len(heap[t])
      /\ Len(new[t]) = Len(heap[t]) + 1 /\ DOMAIN new[t] = 1..Len(new[t])
      /\ new[t][Len(heap[t]) + 1] = seg /\ \A n \in 1..Len(heap[t]) : new[t][n] = heap[t][n]
  BY <1>3, Ends
<1>5. ASSUME NEW n \in DOMAIN new[t] PROVE n \in DOMAIN heap[t] \/ n = Len(heap[t]) + 1
  BY <1>4
<1>6. ASSUME NEW s \in Owners, NEW n \in DOMAIN heap[s]
      PROVE  n \in DOMAIN new[s] /\ SameWaits(new[s][n], heap[s][n])
  <2>1. CASE s = t
    <3>1. n \in 1..Len(heap[t]) /\ n \in 1..Len(heap[t]) + 1
      BY <1>4, <1>6, <2>1
    <3> QED BY <1>4, <2>1, <3>1 DEF SameWaits
  <2> QED BY <1>3, <1>6, <2>1 DEF SameWaits
<1>7. Len(heap[t]) + 1 \in DOMAIN new[t] /\ SameWaits(new[t][Len(heap[t]) + 1], seg)
  BY <1>4 DEF SameWaits
<1>8. \A s \in Owners : \A n \in DOMAIN new[s] :
        n \in DOMAIN heap[s] \/ (s = t /\ n = Len(heap[t]) + 1)
  BY <1>3, <1>5
<1>9. Gains(heap, new, t, seg)
  BY <1>6, <1>7, <1>8 DEF Gains
<1> QED BY <1>3, <1>9 DEF new

(* Marks do not change how long a segment has waited.                      *)
LEMMA MarkedGains ==
  ASSUME NEW heap, NEW mid \in [Owners -> Seq(SegmentType)], NEW t \in Owners, NEW seg,
         Gains(heap, mid, t, seg), NEW marks, NEW phase
  PROVE  /\ Gains(heap, MarkWaited(mid, marks, phase), t, seg)
         /\ Gains(heap, MarkGroupSync(mid, marks), t, seg)
<1>1. ASSUME NEW new, \A s \in Owners : /\ DOMAIN new[s] = DOMAIN mid[s]
                                        /\ \A n \in DOMAIN mid[s] : SameWaits(new[s][n], mid[s][n])
      PROVE  Gains(heap, new, t, seg)
  BY <1>1 DEF Gains, SameWaits
<1>2. \A s \in Owners : \A n \in DOMAIN mid[s] : mid[s][n] \in SegmentType
  BY ElementOfSeq, LenProperties
<1>3. \A old \in SegmentType : SameWaits(Waited(old, phase), old) /\ SameWaits(old, old)
  BY DEF SameWaits, Waited, SegmentType
<1>4. Gains(heap, MarkWaited(mid, marks, phase), t, seg)
  <2> DEFINE new == MarkWaited(mid, marks, phase)
  <2>1. \A s \in Owners : new[s] = [n \in DOMAIN mid[s] |->
           IF <<s, n>> \in marks THEN Waited(mid[s][n], phase) ELSE mid[s][n]]
    BY DEF MarkWaited
  <2> HIDE DEF new
  <2>2. \A s \in Owners : /\ DOMAIN new[s] = DOMAIN mid[s]
                          /\ \A n \in DOMAIN mid[s] : SameWaits(new[s][n], mid[s][n])
    BY <1>2, <1>3, <2>1
  <2>3. Gains(heap, new, t, seg)
    BY <1>1, <2>2
  <2> QED BY <2>3 DEF new
<1>5. Gains(heap, MarkGroupSync(mid, marks), t, seg)
  <2> DEFINE new == MarkGroupSync(mid, marks)
  <2>1. \A s \in Owners : new[s] = [n \in DOMAIN mid[s] |->
           [mid[s][n] EXCEPT !.taskGroupSync = @ \/ <<s, n>> \in marks]]
    BY DEF MarkGroupSync
  <2> HIDE DEF new
  <2>2. ASSUME NEW s \in Owners, NEW n \in DOMAIN mid[s] PROVE SameWaits(new[s][n], mid[s][n])
    <3> DEFINE b == mid[s][n].taskGroupSync \/ <<s, n>> \in marks
               old == mid[s][n]
    <3>1. new[s][n] = [old EXCEPT !.taskGroupSync = b] /\ old \in SegmentType
      BY <1>2, <2>1
    <3> HIDE DEF b, old
    <3>2. SameWaits(new[s][n], old)
      BY <3>1 DEF SameWaits, SegmentType
    <3> QED BY <3>2 DEF old
  <2>3. \A s \in Owners : /\ DOMAIN new[s] = DOMAIN mid[s]
                          /\ \A n \in DOMAIN mid[s] : SameWaits(new[s][n], mid[s][n])
    BY <2>1, <2>2
  <2>4. Gains(heap, new, t, seg)
    BY <1>1, <2>3
  <2> QED BY <2>4 DEF new
<1> QED BY <1>4, <1>5

\* What a step other than task_create does to the heap and to the label of the
\* task t that it is a step of: the label goes on with the new object.
RenewsOwn(t, seg) ==
  /\ label' = [label EXCEPT ![t] = ReplaceLast(@, NextRef(t))]
  /\ seg.type = Own(t).type
  /\ seg.taskwait = Own(t).taskwait \/ (TaskwaitEnd(t) /\ seg.taskwait = Own(t).taskwait + 1)
  /\ t \in Members => work'[t] = work[t] \/ (InConstruct(t) /\ InConstruct(t)')
EntersConstruct(t, seg) ==
  /\ t \in Members /\ (SingleBegin(t) \/ LoopBegin(t))
  /\ seg.type = "workshare" /\ seg.taskwait = 0
LeavesLoop(t, seg) ==
  /\ t \in Members /\ LoopEnd(t) /\ seg.type = "implicit" /\ InConstruct(t)
  /\ seg.taskwait = Obj(label[t][2]).taskwait

MakesNothing ==
  /\ segs' = segs
  /\ \A u \in Tasks : Live(u)' =>
       /\ Live(u) /\ label'[u][2] = label[u][2]
       /\ \/ SingleEnd(u) /\ Len(label'[u]) = 2
          \/ Len(label'[u]) = Len(label[u]) /\ label'[u][Len(label[u])] = label[u][Len(label[u])]
  /\ \A m \in Members : work'[m] \in {work[m], "after"}

(* What the steps do to the heap.                                          *)
LEMMA HeapStep ==
  ASSUME IInv, [Next]_vars
  PROVE  \/ MakesNothing
         \/ \E t \in Tasks : Create(t)
         \/ \E t \in Tasks : \E seg \in SegmentType :
              /\ Gains(segs, segs', t, seg) /\ Live(t) /\ at[t] \in {"runs", "taskwait", "passes"}
              /\ \A u \in Tasks : u # t => at'[u] = at[u] /\ (u \in Members => work'[u] = work[u])
              /\ RenewsOwn(t, seg) \/ EntersConstruct(t, seg) \/ LeavesLoop(t, seg)
<1>1. /\ Structure /\ Heap /\ HeapOK(segs) /\ LabelsEnd /\ Shape /\ Ages
      /\ segs \in [Owners -> Seq(SegmentType)]
  BY DEF IInv, Structure, Heap, HeapOK
<1> DEFINE Goal(t, seg) ==
              /\ Gains(segs, segs', t, seg) /\ Live(t) /\ at[t] \in {"runs", "taskwait", "passes"}
              /\ \A u \in Tasks : u # t => at'[u] = at[u] /\ (u \in Members => work'[u] = work[u])
              /\ RenewsOwn(t, seg) \/ EntersConstruct(t, seg) \/ LeavesLoop(t, seg)
<1>2. ASSUME NEW t \in Tasks, at[t] \in {"runs", "taskwait", "passes"}
      PROVE  /\ Live(t) /\ Own(t) \in SegmentType /\ PlaceOK(t)
             /\ t \in Owners /\ Own(t).taskwait \in Nat
  <2>1. Live(t) /\ Own(t) \in SegmentType /\ PlaceOK(t)
    BY <1>1, <1>2, RunningTask
  <2> QED BY <2>1 DEF SegmentType, Owners
<1>3. \A seg \in SegmentType :
        /\ TaskWaited(seg) \in SegmentType /\ SameWaits(GroupBegun(seg), seg)
        /\ GroupBegun(seg) \in SegmentType /\ TaskWaited(seg).type = seg.type
        /\ TaskWaited(seg).taskwait = seg.taskwait + 1
        /\ SameWaits(GroupEnded(seg), seg)
        /\ seg.taskGroupLevel > 0 => GroupEnded(seg) \in SegmentType
        /\ NextPhase(seg) \in SegmentType /\ SameWaits(NextPhase(seg), seg)
        /\ LoopCounted(seg) \in SegmentType /\ SameWaits(LoopCounted(seg), seg)
  <2> SUFFICES ASSUME NEW seg \in SegmentType
               PROVE /\ TaskWaited(seg) \in SegmentType /\ SameWaits(GroupBegun(seg), seg)
                     /\ GroupBegun(seg) \in SegmentType /\ TaskWaited(seg).type = seg.type
                     /\ TaskWaited(seg).taskwait = seg.taskwait + 1
                     /\ SameWaits(GroupEnded(seg), seg)
                     /\ seg.taskGroupLevel > 0 => GroupEnded(seg) \in SegmentType
                     /\ NextPhase(seg) \in SegmentType /\ SameWaits(NextPhase(seg), seg)
                     /\ LoopCounted(seg) \in SegmentType /\ SameWaits(LoopCounted(seg), seg)
    OBVIOUS
  <2>1. TaskWaited(seg) \in SegmentType /\ TaskWaited(seg).type = seg.type
        /\ TaskWaited(seg).taskwait = seg.taskwait + 1
    BY DEF TaskWaited, SegmentType
  <2>2. GroupBegun(seg) \in SegmentType /\ SameWaits(GroupBegun(seg), seg)
    <3>1. seg.taskGroupLevel + 1 \in Nat /\ seg.taskGroupId + 1 \in Nat
      BY DEF SegmentType
    <3>2. GroupBegun(seg) \in SegmentType
      BY <3>1 DEF GroupBegun, SegmentType
    <3>3. SameWaits(GroupBegun(seg), seg)
      BY DEF GroupBegun, SegmentType, SameWaits
    <3> QED BY <3>2, <3>3
  <2>3. /\ SameWaits(GroupEnded(seg), seg)
        /\ seg.taskGroupLevel > 0 => GroupEnded(seg) \in SegmentType
    <3>1. SameWaits(GroupEnded(seg), seg)
      BY DEF GroupEnded, SegmentType, SameWaits
    <3>2. ASSUME seg.taskGroupLevel > 0 PROVE GroupEnded(seg) \in SegmentType
      <4>1. seg.taskGroupLevel - 1 \in Nat /\ seg.taskGroupId + 1 \in Nat
        BY <3>2 DEF SegmentType
      <4> QED BY <4>1 DEF GroupEnded, SegmentType
    <3> QED BY <3>1, <3>2
  <2>4. NextPhase(seg) \in SegmentType /\ SameWaits(NextPhase(seg), seg)
    BY DEF NextPhase, SegmentType, SameWaits
  <2>5. LoopCounted(seg) \in SegmentType /\ SameWaits(LoopCounted(seg), seg)
    BY DEF LoopCounted, SegmentType, SameWaits
  <2> QED BY <2>1, <2>2, <2>3, <2>4, <2>5
<1>3a. ASSUME segs' = segs, label' = label, \A u \in Tasks : at'[u] = "done" \/ at[u] # "done",
               work' = work
       PROVE  MakesNothing
  BY <1>3a DEF MakesNothing, Live, Exists
<1>3b. ASSUME NEW t \in Tasks, ReachTaskwait(t) \/ ReachBarrier(t) \/ Record(t) PROVE MakesNothing
  <2>1. /\ segs' = segs /\ label' = label /\ work' = work /\ at[t] # "done"
        /\ \A u \in Tasks : u # t => at'[u] = at[u]
    BY <1>1, <1>3b DEF ReachTaskwait, ReachBarrier, Record, Runs, Go, taskVars, teamVars, Shape
  <2> QED BY <1>3a, <2>1
<1>3c. ASSUME NEW t \in Tasks, SingleEnd(t) PROVE MakesNothing
  <2>1. /\ t \in Members /\ InConstruct(t) /\ segs' = segs
        /\ label' = [label EXCEPT ![t] = Front(@)]
        /\ work' = [work EXCEPT ![t] = "after"] /\ \A u \in Tasks : u # t => at'[u] = at[u]
    BY <1>1, <1>3c DEF SingleEnd, InConstruct, Go, Shape
  <2>2. Len(Front(label[t])) = 2 /\ Front(label[t])[2] = label[t][2] /\ Live(t)
    BY <1>1, <2>1, PoppedLabel, ConstructSegment
  <2>3. label'[t] = Front(label[t]) /\ \A u \in Tasks : u # t => label'[u] = label[u]
    BY <1>1, <2>1 DEF LabelsEnd
  <2>4. ASSUME NEW u \in Tasks, u # t, Live(u)' PROVE Live(u)
    BY <2>1, <2>3, <2>4 DEF Live, Exists
  <2>5. \A m \in Members : work'[m] \in {work[m], "after"}
    BY <1>1, <2>1 DEF Shape
  <2> QED BY <1>3c, <2>1, <2>2, <2>3, <2>4, <2>5 DEF MakesNothing
<1>3d. ASSUME NEW t \in Tasks, BarrierEnd(t) PROVE MakesNothing
  <2>1. /\ segs' = segs /\ work' = work /\ label' = [label EXCEPT ![t][1] = <<Root, @[2] + 1>>]
        /\ at[t] # "done" /\ \A u \in Tasks : u # t => at'[u] = at[u]
    BY <1>1, <1>3d DEF BarrierEnd, Go, teamVars, Shape
  <2>2. Exists(t)
    BY <1>1, <1>3d DEF BarrierEnd, Structure, Places, PlaceOK, Tasks
  <2>3. label[t] \in Seq(Owners \X Nat) /\ Len(label[t]) \in Nat /\ Len(label[t]) >= 2
    BY <1>1, <2>1, <2>2, OwnSegment DEF Live
  <2>4. /\ label'[t] = [label[t] EXCEPT ![1] = <<Root, @[2] + 1>>]
        /\ \A u \in Tasks : u # t => label'[u] = label[u]
    BY <1>1, <2>1 DEF LabelsEnd
  <2>5. /\ Len(label'[t]) = Len(label[t]) /\ label'[t][2] = label[t][2]
        /\ label'[t][Len(label[t])] = label[t][Len(label[t])]
    BY <2>3, <2>4
  <2>6. ASSUME NEW u \in Tasks, u # t, Live(u)' PROVE Live(u)
    BY <2>1, <2>4, <2>6 DEF Live, Exists
  <2> QED BY <2>1, <2>2, <2>4, <2>5, <2>6 DEF MakesNothing, Live
<1>3e. ASSUME NEW t \in ExpTasks, ExpStep(t) PROVE MakesNothing
  <2>0. t \in Tasks /\ PlaceOK(t)
    BY <1>1 DEF Tasks, Structure, Places
  <2>1. CASE RegisterDependences(t) \/ Begin(t)
    <3>1. /\ label' = label /\ segs' = segs /\ work' = work
          /\ \A u \in Tasks : u # t => at'[u] = at[u]
      BY <1>1, <2>1 DEF RegisterDependences, Begin, taskVars, teamVars, Go, Shape
    <3>2. at[t] # "done"
      BY <2>0, <2>1, <1>3e DEF RegisterDependences, Dependences, Begin, TaskBegin, PlaceOK
    <3> QED BY <1>3a, <2>0, <3>1, <3>2
  <2>2. CASE Finish(t)
    <3>1. /\ segs' = segs /\ work' = work /\ at'[t] = "done"
          /\ \A u \in Tasks : u # t => label'[u] = label[u] /\ at'[u] = at[u]
      BY <1>1, <2>0, <2>2 DEF Finish, Go, Shape, teamVars, LabelsEnd
    <3> QED BY <3>1 DEF MakesNothing, Live, Exists
  <2> QED BY <1>3e, <2>1, <2>2 DEF ExpStep
<1>3f. ASSUME OpenBarrier PROVE MakesNothing
  <2>1. /\ label' = label /\ segs' = segs /\ work' = work
        /\ \A u \in Tasks : at'[u] = at[u] \/ at[u] = "barrier"
    BY <1>1, <1>3f DEF OpenBarrier, taskVars, teamVars, Shape, Tasks
  <2> QED BY <1>3a, <2>1
<1>3g. ASSUME UNCHANGED vars PROVE MakesNothing
  BY <1>3a, <1>3g DEF vars, taskVars, teamVars
<1> SUFFICES ASSUME ~ MakesNothing, ~ \E t \in Tasks : Create(t)
             PROVE  \E t \in Tasks : \E seg \in SegmentType : Goal(t, seg)
  OBVIOUS
<1>4. PICK t \in Tasks : Step(t)
  BY <1>3e, <1>3f, <1>3g DEF Next
<1>4a. \/ TaskwaitEnd(t) \/ GroupBegin(t) \/ GroupEnd(t) \/ SingleBegin(t)
       \/ LoopBegin(t) \/ Dispatch(t) \/ OrderedAcquired(t)
       \/ OrderedReleased(t) \/ LoopEnd(t)
  BY <1>3b, <1>3c, <1>3d, <1>4 DEF Step
<1>5. ASSUME at[t] \in {"runs", "taskwait", "passes"}, NEW seg \in SegmentType,
             segs' = Added(segs, t, seg)
      PROVE  Gains(segs, segs', t, seg)
  BY <1>1, <1>2, <1>5, AddedGains
<1>6. CASE TaskwaitEnd(t)
  <2> DEFINE seg == TaskWaited(Own(t))
  <2>1. /\ at[t] = "taskwait" /\ segs' = MarkWaited(Added(segs, t, seg), WaitMarks(t), Own(t).phase)
        /\ label' = [label EXCEPT ![t] = ReplaceLast(@, NextRef(t))] /\ work' = work
        /\ \A u \in Tasks : u # t => at'[u] = at[u]
    BY <1>1, <1>6 DEF TaskwaitEnd, Added, Go, Shape, teamVars
  <2>2. seg \in SegmentType /\ seg.type = Own(t).type /\ seg.taskwait = Own(t).taskwait + 1
    BY <1>2, <1>3, <2>1
  <2> HIDE DEF seg
  <2>3. Gains(segs, segs', t, seg)
    <3>1. /\ Gains(segs, Added(segs, t, seg), t, seg) /\ t \in Owners
          /\ Added(segs, t, seg) \in [Owners -> Seq(SegmentType)]
      BY <1>1, <1>2, <2>1, <2>2, AddedGains
    <3> QED BY <2>1, <3>1, MarkedGains
  <2>4. RenewsOwn(t, seg)
    BY <1>6, <2>1, <2>2 DEF RenewsOwn
  <2> QED BY <1>2, <2>1, <2>2, <2>3, <2>4
<1>7. CASE GroupEnd(t)
  <2> DEFINE seg == GroupEnded(Own(t))
  <2>1. /\ at[t] = "runs" /\ label' = [label EXCEPT ![t] = ReplaceLast(@, NextRef(t))]
        /\ segs' = MarkGroupSync(Added(segs, t, seg), {Last(label[c]) : c \in GroupSynced(t)})
        /\ work' = work /\ at' = at
    BY <1>7 DEF GroupEnd, Added, Runs, teamVars
  <2>2. seg \in SegmentType /\ SameWaits(seg, Own(t))
    <3>1. Len(groups[t]) = Own(t).taskGroupLevel /\ groups[t] # <<>>
      BY <1>1, <1>7, <2>1, RunningTask DEF GroupEnd
    <3>2. Own(t).taskGroupLevel > 0
      BY <1>1, <3>1, EmptySeq, LenProperties DEF Shape
    <3> QED BY <1>2, <1>3, <2>1, <3>2
  <2> HIDE DEF seg
  <2>3. Gains(segs, segs', t, seg)
    <3>1. /\ Gains(segs, Added(segs, t, seg), t, seg) /\ t \in Owners
          /\ Added(segs, t, seg) \in [Owners -> Seq(SegmentType)]
      BY <1>1, <1>2, <2>1, <2>2, AddedGains
    <3> QED BY <2>1, <3>1, MarkedGains
  <2>4. RenewsOwn(t, seg)
    BY <2>1, <2>2 DEF RenewsOwn, SameWaits
  <2> QED BY <1>2, <2>1, <2>2, <2>3, <2>4
<1>8. ASSUME NEW seg \in SegmentType, MutateLast(t, seg), SameWaits(seg, Own(t)),
             at[t] \in {"runs", "passes"}, \A u \in Tasks : u # t => at'[u] = at[u],
             \A u \in Members : u # t => work'[u] = work[u],
             t \in Members => work'[t] = work[t] \/ (InConstruct(t) /\ InConstruct(t)')
      PROVE  Goal(t, seg)
  <2>1. Gains(segs, segs', t, seg)
    BY <1>5, <1>8 DEF MutateLast, Added
  <2>2. RenewsOwn(t, seg)
    BY <1>8 DEF RenewsOwn, SameWaits, MutateLast
  <2> QED BY <1>2, <1>8, <2>1, <2>2
<1>9. CASE GroupBegin(t)
  <2>1. /\ at[t] = "runs" /\ MutateLast(t, GroupBegun(Own(t))) /\ work' = work /\ at' = at
    BY <1>9 DEF GroupBegin, Runs, teamVars
  <2>2. GroupBegun(Own(t)) \in SegmentType /\ SameWaits(GroupBegun(Own(t)), Own(t))
    BY <1>2, <1>3, <2>1
  <2> HIDE DEF Goal
  <2> QED BY <1>8, <2>1, <2>2
<1>10. CASE OrderedAcquired(t) \/ OrderedReleased(t)
  <2>1. /\ at[t] = "runs" /\ MutateLast(t, NextPhase(Own(t))) /\ at' = at /\ t \in Members
        /\ \A u \in Members : u # t => work'[u] = work[u]
        /\ work[t] \in {"iterates", "ordered"} /\ work'[t] \in {"ordered", "past"}
    BY <1>1, <1>10 DEF OrderedAcquired, OrderedReleased, Runs, Shape
  <2>2. NextPhase(Own(t)) \in SegmentType /\ SameWaits(NextPhase(Own(t)), Own(t))
    BY <1>2, <1>3, <2>1
  <2>3. InConstruct(t) /\ InConstruct(t)'
    BY <2>1 DEF InConstruct
  <2> HIDE DEF Goal
  <2> QED BY <1>8, <2>1, <2>2, <2>3
<1>11. CASE Dispatch(t)
  <2> DEFINE seg == IterationSegment(Cardinality(Dispatched))
  <2>1. /\ t \in Members /\ work[t] = "preamble" /\ MutateLast(t, seg) /\ work'[t] = "iterates"
        /\ \A u \in Members : u # t => work'[u] = work[u]
        /\ \A u \in Tasks : u # t => at'[u] = at[u]
    BY <1>1, <1>11 DEF Dispatch, Go, Shape
  <2>2. InConstruct(t) /\ InConstruct(t)' /\ at[t] = "passes"
    BY <1>1, <2>1 DEF InConstruct, Structure, Places, PlaceOK
  <2>3. Cardinality(Dispatched) \in Nat
    <3>1. Dispatched \subseteq Members
      BY DEF Dispatched
    <3> QED BY <3>1, TeamIsFinite, FS_Subset, FS_CardinalityType
  <2>4. seg \in SegmentType /\ seg.type = "workshare" /\ seg.taskwait = 0
    BY <2>3, ConstructsAreNew DEF IsNewConstruct
  <2>5. Own(t).type = "workshare" /\ Own(t).taskwait = 0
    <3>1. Own(t).type = "workshare" /\ Own(t) \in SegmentType /\ Own(t) = Obj(label[t][3])
      BY <1>1, <1>2, <2>1, <2>2, ConstructSegment
    <3>2. Age(Own(t)) = 0
      BY <1>1, <2>1, <3>1 DEF Ages, PlaceHoldersAreNew
    <3> QED BY <3>1, <3>2 DEF Age, SegmentType
  <2> HIDE DEF Goal, seg
  <2>6. SameWaits(seg, Own(t))
    BY <2>4, <2>5 DEF SameWaits
  <2> QED BY <1>8, <2>1, <2>2, <2>4, <2>6
<1>12. CASE SingleBegin(t) \/ LoopBegin(t)
  <2>1. PICK seg : IsNewConstruct(seg) /\ segs' = Added(segs, t, seg)
    <3>1. CASE LoopBegin(t)
      BY <3>1, ConstructsAreNew DEF LoopBegin, Added
    <3>2. CASE SingleBegin(t)
      BY <3>2, ConstructsAreNew DEF SingleBegin, Added
    <3> QED BY <1>12, <3>1, <3>2
  <2>2. /\ t \in Members /\ at[t] = "runs" /\ \A u \in Tasks : u # t => at'[u] = at[u]
        /\ \A u \in Members : u # t => work'[u] = work[u]
    BY <1>1, <1>12 DEF SingleBegin, LoopBegin, Runs, Go, Shape
  <2>3. seg \in SegmentType /\ seg.type = "workshare" /\ seg.taskwait = 0
    BY <2>1 DEF IsNewConstruct
  <2>4. Gains(segs, segs', t, seg)
    BY <1>5, <2>1, <2>2, <2>3
  <2>5. EntersConstruct(t, seg)
    BY <1>12, <2>2, <2>3 DEF EntersConstruct
  <2> QED BY <1>2, <2>2, <2>3, <2>4, <2>5
<1>13. CASE LoopEnd(t)
  <2> DEFINE old == Obj(label[t][2])
             seg == LoopCounted(old)
  <2>1. /\ t \in Members /\ work[t] = "past" /\ at[t] = "runs" /\ segs' = Added(segs, t, seg)
        /\ \A u \in Tasks : u # t => at'[u] = at[u]
        /\ \A u \in Members : u # t => work'[u] = work[u]
    BY <1>1, <1>13 DEF LoopEnd, Runs, Go, Added, Shape
  <2>2. InConstruct(t)
    BY <2>1 DEF InConstruct
  <2>3. old \in SegmentType /\ old.type = "implicit"
    <3>1. LabelOK(segs, label[t]) /\ 2 \in 1..Len(label[t])
      BY <1>1, <1>2, <2>1, OwnSegment
    <3> QED BY <1>1, <2>1, <2>2, <3>1, LabelValues, ConstructSegment
  <2>4. seg \in SegmentType /\ SameWaits(seg, old)
    BY <1>3, <2>3
  <2> HIDE DEF seg
  <2>5. Gains(segs, segs', t, seg)
    BY <1>5, <2>1, <2>4
  <2>6. LeavesLoop(t, seg)
    BY <1>13, <2>1, <2>2, <2>3, <2>4 DEF LeavesLoop, SameWaits
  <2> QED BY <1>2, <2>1, <2>4, <2>5, <2>6
<1> QED BY <1>4a, <1>6, <1>7, <1>9, <1>10, <1>11, <1>12, <1>13

(* A task goes on with an old object of its own, which waits as any.       *)
LEMMA OwnIsNewest ==
  ASSUME Heap, LabelsEnd, Lines, NEW t \in Tasks, Live(t)
  PROVE  /\ \E n \in DOMAIN segs[t] : Own(t) = segs[t][n]
         /\ \A n \in DOMAIN segs[t] :
              segs[t][n].type = Own(t).type => segs[t][n].taskwait <= Own(t).taskwait
<1> DEFINE ref == label[t][Len(label[t])]
<1>1. /\ LabelOK(segs, label[t]) /\ Len(label[t]) \in 1..Len(label[t])
      /\ ref[1] = t /\ Own(t) = ObjectAt(segs, ref)
  BY OwnSegment
<1>2. ref[2] \in DOMAIN segs[ref[1]]
  BY <1>1, LabelRefs, HeapObject DEF Heap
<1>3. IsNewest(segs, ref)
  BY DEF Lines, NewestIsOwn
<1> HIDE DEF ref
<1> QED BY <1>1, <1>2, <1>3 DEF IsNewest, ObjectAt

(* What task_create does to the heap, in two steps.                        *)
LEMMA CreatedHeap ==
  ASSUME IInv, NEW p \in Tasks, Create(p)
  PROVE  \E c \in ExpTasks : \E heap \in [Owners -> Seq(SegmentType)] :
         \E first, seg \in SegmentType :
           /\ c # p /\ c \in Tasks /\ segs[c] = <<>> /\ Live(p) /\ at[p] = "runs"
           /\ Gains(segs, heap, c, first) /\ Gains(heap, segs', p, seg) /\ heap[p] = segs[p]
           /\ SameWaits(seg, Own(p)) /\ UNCHANGED <<at, work>>
           /\ label'[p] = ReplaceLast(label[p], NextRef(p))
           /\ label'[c] = Append(label[p], <<c, 1>>)
           /\ \A u \in Tasks \ {p, c} : label'[u] = label[u]
<1>0. PICK c : c = Append(p, Made(p) + 1)
  OBVIOUS
<1> DEFINE seg == TaskCreated(Own(p))
           first == Segment("explicit", 0, 1)
           heap == Added(segs, c, first)
<1>1. /\ Structure /\ Shape /\ Heap /\ HeapOK(segs) /\ segs \in [Owners -> Seq(SegmentType)]
      /\ LabelsEnd /\ \A u \in ExpTasks : u \in Tasks
  BY DEF IInv, Structure, Heap, HeapOK, Tasks
<1>2. /\ at[p] = "runs" /\ c \in ExpTasks /\ life[c] = "none"
      /\ segs' = [segs EXCEPT ![c] = <<first>>, ![p] = Append(@, seg)]
      /\ label' = [label EXCEPT ![c] = Append(label[p], <<c, 1>>),
                                ![p] = ReplaceLast(@, NextRef(p))]
      /\ UNCHANGED <<at, work>>
  BY <1>0 DEF Create, Runs, TaskCreate, teamVars
<1>3. c # p /\ c \in Tasks
  <2>1. Made(p) + 1 \in Nat
    BY <1>1, MadeIsCount
  <2> QED BY <1>0, <1>1, <1>2, <2>1, CreatorOf
<1>4. Live(p) /\ Own(p) \in SegmentType
  BY <1>1, <1>2, RunningTask
<1>5. seg \in SegmentType /\ SameWaits(seg, Own(p))
  BY <1>4 DEF TaskCreated, SegmentType, SameWaits
<1>6. segs[c] = <<>>
  <2>1. PlaceOK(c) /\ LabelEnds(c)
    BY <1>1, <1>3 DEF Structure, Places, LabelsEnd
  <2>2. Len(segs[c]) = 0 /\ c \in Owners
    BY <1>2, <1>3, <2>1 DEF PlaceOK, LabelEnds, Owners
  <2>3. segs[c] \in Seq(SegmentType)
    BY <1>1, <2>2
  <2> QED BY <2>2, <2>3, EmptySeq
<1>7. first \in SegmentType /\ p \in Owners /\ c \in Owners
  BY <1>3 DEF Segment, SegmentType, Owners
<1> HIDE DEF seg, first
<1>8. Gains(segs, heap, c, first) /\ heap \in [Owners -> Seq(SegmentType)]
  BY <1>1, <1>7, AddedGains
<1>9. segs' = Added(heap, p, seg) /\ heap[p] = segs[p]
  <2>1. Append(segs[c], first) = <<first>>
    BY <1>6
  <2>2. DOMAIN segs = Owners /\ segs = [s \in Owners |-> segs[s]]
    BY <1>1
  <2>3. heap = [s \in Owners |-> IF s = c THEN <<first>> ELSE segs[s]]
    BY <2>1, <2>2 DEF Added
  <2>4. segs' = [s \in Owners |-> IF s = p THEN Append(segs[p], seg)
                                  ELSE IF s = c THEN <<first>> ELSE segs[s]]
    BY <1>2, <1>3, <2>2
  <2> HIDE DEF heap
  <2> QED BY <1>3, <1>7, <2>2, <2>3, <2>4 DEF Added
<1> HIDE DEF heap
<1>10. Gains(heap, segs', p, seg)
  BY <1>5, <1>7, <1>8, <1>9, AddedGains
<1>11. /\ label'[p] = ReplaceLast(label[p], NextRef(p)) /\ label'[c] = Append(label[p], <<c, 1>>)
       /\ \A u \in Tasks \ {p, c} : label'[u] = label[u]
  BY <1>1, <1>2, <1>3 DEF LabelsEnd
<1> QED BY <1>2, <1>3, <1>4, <1>5, <1>6, <1>7, <1>8, <1>9, <1>10, <1>11

(* task_create leaves the newest where they are.                           *)
LEMMA CreateKeepsNewest ==
  ASSUME IInv, Lines, NEW p \in Tasks, Create(p),
         NEW ref, IsObject(segs, ref), IsNewest(segs, ref)
  PROVE  IsNewest(segs', ref)
<1>1. Heap /\ LabelsEnd
  BY DEF IInv, Structure
<1>2. PICK c \in ExpTasks, heap \in [Owners -> Seq(SegmentType)], first \in SegmentType,
           seg \in SegmentType :
           /\ segs[c] = <<>> /\ Live(p)
           /\ Gains(segs, heap, c, first) /\ Gains(heap, segs', p, seg) /\ SameWaits(seg, Own(p))
  BY CreatedHeap
<1>3. ref[1] # c
  BY <1>2 DEF IsObject
<1>4. /\ IsNewest(heap, ref) /\ IsObject(heap, ref)
      /\ SameWaits(ObjectAt(heap, ref), ObjectAt(segs, ref))
  BY <1>2, <1>3, NewestStays
<1>5. ASSUME ref[1] = p, seg.type = ObjectAt(heap, ref).type
      PROVE  seg.taskwait <= ObjectAt(heap, ref).taskwait
  <2>1. PICK n \in DOMAIN segs[p] : Own(p) = segs[p][n]
    BY <1>1, <1>2, OwnIsNewest
  <2>2. segs[p][n].type = ObjectAt(segs, ref).type
        => segs[p][n].taskwait <= ObjectAt(segs, ref).taskwait
    BY <1>5, <2>1 DEF IsNewest
  <2> QED BY <1>2, <1>4, <1>5, <2>1, <2>2 DEF SameWaits
<1> QED BY <1>2, <1>4, <1>5, NewestStays

(* The newest stay the newest, but when their task has waited.             *)
LEMMA NewestKept ==
  ASSUME IInv, Lines, [Next]_vars, NEW ref, IsObject(segs, ref), IsNewest(segs, ref)
  PROVE  \/ IsNewest(segs', ref)
         \/ ref[1] \in Tasks /\ TaskwaitEnd(ref[1]) /\ Own(ref[1]).type = Obj(ref).type
<1>1. Structure /\ Heap /\ LabelsEnd
  BY DEF IInv, Structure
<1>2. CASE MakesNothing
  BY <1>2 DEF MakesNothing, IsNewest, ObjectAt
<1>3. CASE \E t \in Tasks : Create(t)
  BY <1>3, CreateKeepsNewest
<1>4. ASSUME NEW t \in Tasks, NEW seg \in SegmentType, Gains(segs, segs', t, seg), Live(t),
             RenewsOwn(t, seg) \/ EntersConstruct(t, seg) \/ LeavesLoop(t, seg),
             ref[1] = t, seg.type = Obj(ref).type, ~ (TaskwaitEnd(t) /\ Own(t).type = Obj(ref).type)
      PROVE  seg.taskwait <= Obj(ref).taskwait
  <2>0. \A n \in DOMAIN segs[t] :
          segs[t][n].type = Obj(ref).type => segs[t][n].taskwait <= Obj(ref).taskwait
    BY <1>4 DEF IsNewest, Obj
  <2>1. CASE RenewsOwn(t, seg)
    <3>1. PICK n \in DOMAIN segs[t] : Own(t) = segs[t][n]
      BY <1>1, <1>4, OwnIsNewest
    <3>2. seg.type = Own(t).type /\ seg.taskwait = Own(t).taskwait
      BY <1>4, <2>1 DEF RenewsOwn
    <3> QED BY <1>4, <2>0, <3>1, <3>2
  <2>2. CASE EntersConstruct(t, seg)
    <3>1. t \in Members /\ work[t] = "before" /\ seg.type = "workshare"
      BY <2>2 DEF EntersConstruct, SingleBegin, LoopBegin
    <3>2. ref[2] \in DOMAIN segs[t] /\ Obj(ref) = segs[t][ref[2]]
      BY <1>4 DEF IsObject, Obj, ObjectAt
    <3>3. Obj(ref).type = "implicit"
      BY <3>1, <3>2 DEF Lines, NewestIsOwn
    <3> QED BY <1>4, <3>1, <3>3
  <2>3. CASE LeavesLoop(t, seg)
    <3>1. /\ t \in Members /\ InConstruct(t) /\ seg.type = "implicit"
          /\ seg.taskwait = Obj(label[t][2]).taskwait
      BY <2>3 DEF LeavesLoop
    <3>2. /\ LabelOK(segs, label[t]) /\ 2 \in 1..Len(label[t])
          /\ label[t][2][1] = t /\ Obj(label[t][2]).type = "implicit"
      BY <1>1, <1>4, <3>1, OwnSegment, ConstructSegment
    <3>3. label[t][2][2] \in DOMAIN segs[t] /\ Obj(label[t][2]) = segs[t][label[t][2][2]]
      <4>1. IsObject(segs, label[t][2])
        BY <1>1, <3>2, LabelRefs DEF Heap, LabelOK
      <4> QED BY <3>2, <4>1 DEF IsObject, Obj, ObjectAt
    <3> QED BY <1>4, <2>0, <3>1, <3>2, <3>3
  <2> QED BY <1>4, <2>1, <2>2, <2>3
<1>5. ASSUME NEW t \in Tasks, NEW seg \in SegmentType, Gains(segs, segs', t, seg), Live(t),
             RenewsOwn(t, seg) \/ EntersConstruct(t, seg) \/ LeavesLoop(t, seg)
      PROVE  \/ IsNewest(segs', ref)
             \/ ref[1] \in Tasks /\ TaskwaitEnd(ref[1]) /\ Own(ref[1]).type = Obj(ref).type
  <2> SUFFICES ASSUME ~ (/\ ref[1] \in Tasks /\ TaskwaitEnd(ref[1])
                         /\ Own(ref[1]).type = Obj(ref).type)
               PROVE  IsNewest(segs', ref)
    OBVIOUS
  <2>1. ref[1] = t /\ seg.type = Obj(ref).type => seg.taskwait <= Obj(ref).taskwait
    BY <1>4, <1>5
  <2> QED BY <1>5, <2>1, NewestStays DEF Obj
<1> QED BY <1>2, <1>3, <1>5, HeapStep

(* Objects that are all implicit stay so when an implicit one is added.    *)
LEMMA ImplicitStays ==
  ASSUME NEW heap, NEW new, NEW t, NEW seg, Gains(heap, new, t, seg), NEW s \in Owners,
         \A n \in DOMAIN heap[s] : heap[s][n].type = "implicit", s = t => seg.type = "implicit"
  PROVE  \A n \in DOMAIN new[s] : new[s][n].type = "implicit"
<1> SUFFICES ASSUME NEW n \in DOMAIN new[s] PROVE new[s][n].type = "implicit"
  OBVIOUS
<1>1. \/ n \in DOMAIN heap[s] /\ SameWaits(new[s][n], heap[s][n])
      \/ s = t /\ SameWaits(new[s][n], seg)
  BY DEF Gains
<1> QED BY <1>1 DEF SameWaits

(* The objects that tasks and members go on with stay the newest.          *)
LEMMA NewestStep ==
  ASSUME IInv, IInv', Lines, [Next]_vars
  PROVE  NewestIsOwn'
<1>1. /\ Structure /\ Heap /\ HeapOK(segs) /\ LabelsEnd /\ Structure' /\ Heap' /\ LabelsEnd'
      /\ segs \in [Owners -> Seq(SegmentType)] /\ Shape
  BY DEF IInv, Structure, Heap, HeapOK
<1>2. ASSUME NEW u \in Tasks, Live(u)
      PROVE  /\ u \in Owners /\ Len(label[u]) \in Nat /\ Len(label[u]) >= 2
             /\ label[u][Len(label[u])][1] = u /\ IsObject(segs, label[u][Len(label[u])])
             /\ IsNewest(segs, label[u][Len(label[u])])
             /\ IsObject(segs, label[u][2])
  <2>1. /\ LabelOK(segs, label[u]) /\ Len(label[u]) \in 1..Len(label[u]) /\ 2 \in 1..Len(label[u])
        /\ u \in Owners /\ Len(label[u]) \in Nat /\ Len(label[u]) >= 2
        /\ label[u][Len(label[u])][1] = u
    BY <1>1, <1>2, OwnSegment
  <2>2. \A k \in 1..Len(label[u]) : IsObject(segs, label[u][k])
    BY <1>1, <2>1, LabelRefs DEF LabelOK
  <2> QED BY <1>2, <2>1, <2>2 DEF Lines, NewestIsOwn
<1>3. ASSUME NEW m \in Members
      PROVE  /\ m \in Tasks /\ Live(m) /\ Live(m)' /\ label[m][2][1] = m
             /\ IsNewest(segs, label[m][2])
             /\ Len(label[m]) = (IF InConstruct(m) THEN 3 ELSE 2)
             /\ work[m] = "before" => \A n \in DOMAIN segs[m] : segs[m][n].type = "implicit"
  <2>1. m \in Tasks
    BY DEF Tasks
  <2>2. Live(m) /\ Live(m)'
    BY <1>1, <2>1 DEF Structure, Places, PlaceOK, Live
  <2>3. label[m][2][1] = m /\ Len(label[m]) = (IF InConstruct(m) THEN 3 ELSE 2)
    BY <1>1, <2>1 DEF LabelsEnd, LabelEnds
  <2> QED BY <2>1, <2>2, <2>3 DEF Lines, NewestIsOwn
<1> DEFINE EndIsNewest(u) == IsNewest(segs', label'[u][Len(label'[u])])
           WaitsAreOwn(m) ==
             /\ IsNewest(segs', label'[m][2])
             /\ work'[m] = "before" => \A n \in DOMAIN segs'[m] : segs'[m][n].type = "implicit"
<1> SUFFICES /\ \A u \in Tasks : Live(u)' => EndIsNewest(u)
             /\ \A m \in Members : WaitsAreOwn(m)
  BY DEF NewestIsOwn, IsNewest, ObjectAt
<1>4. CASE MakesNothing
  <2>1. ASSUME NEW m \in Members PROVE WaitsAreOwn(m)
    <3>1. segs' = segs /\ label'[m][2] = label[m][2] /\ work'[m] \in {work[m], "after"}
      BY <1>3, <1>4 DEF MakesNothing
    <3> QED BY <1>3, <3>1
  <2>2. ASSUME NEW u \in Tasks, Live(u)' PROVE EndIsNewest(u)
    <3>1. /\ segs' = segs /\ Live(u)
          /\ \/ SingleEnd(u) /\ Len(label'[u]) = 2
             \/ Len(label'[u]) = Len(label[u]) /\ label'[u][Len(label[u])] = label[u][Len(label[u])]
      BY <1>4, <2>2 DEF MakesNothing
    <3>2. CASE SingleEnd(u) /\ Len(label'[u]) = 2
      BY <2>1, <3>2 DEF SingleEnd
    <3>3. CASE Len(label'[u]) = Len(label[u]) /\ label'[u][Len(label[u])] = label[u][Len(label[u])]
      BY <1>2, <3>1, <3>3
    <3> QED BY <3>1, <3>2, <3>3
  <2> QED BY <2>1, <2>2
<1>5. ASSUME NEW t \in Tasks, Live(t), label'[t] = ReplaceLast(label[t], NextRef(t)),
             IsNewest(segs', NextRef(t))
      PROVE  /\ EndIsNewest(t)
             /\ t \in Members => \/ IsNewest(segs', label'[t][2])
                                 \/ InConstruct(t) /\ label'[t][2] = label[t][2]
  <2>1. /\ Len(label'[t]) = Len(label[t]) /\ label'[t][Len(label[t])] = NextRef(t)
        /\ \A k \in 1..Len(label[t])-1 : label'[t][k] = label[t][k]
    BY <1>1, <1>5, RenewedRefs
  <2>2. ASSUME t \in Members, InConstruct(t) PROVE label'[t][2] = label[t][2]
    <3>1. Len(label[t]) = 3
      BY <1>3, <2>2
    <3> QED BY <2>1, <3>1
  <2>3. ASSUME t \in Members, ~ InConstruct(t) PROVE IsNewest(segs', label'[t][2])
    BY <1>3, <1>5, <2>1, <2>3
  <2> QED BY <1>5, <2>1, <2>2, <2>3
<1>6. ASSUME NEW p \in Tasks, Create(p)
      PROVE  /\ \A u \in Tasks : Live(u)' => EndIsNewest(u)
             /\ \A m \in Members : WaitsAreOwn(m)
  <2>1. PICK c \in ExpTasks, heap \in [Owners -> Seq(SegmentType)], first \in SegmentType,
             seg \in SegmentType :
           /\ c # p /\ c \in Tasks /\ segs[c] = <<>> /\ Live(p) /\ at[p] = "runs"
           /\ Gains(segs, heap, c, first) /\ Gains(heap, segs', p, seg) /\ heap[p] = segs[p]
           /\ SameWaits(seg, Own(p)) /\ UNCHANGED <<at, work>>
           /\ label'[p] = ReplaceLast(label[p], NextRef(p))
           /\ label'[c] = Append(label[p], <<c, 1>>)
           /\ \A u \in Tasks \ {p, c} : label'[u] = label[u]
    BY <1>6, CreatedHeap
  <2>2. p \in Owners /\ c \in Owners /\ c \notin Members
    BY <2>1, Names DEF Owners
  <2>3. IsNewest(segs', NextRef(p))
    <3>1. \A n \in DOMAIN heap[p] :
            heap[p][n].type = seg.type => heap[p][n].taskwait <= seg.taskwait
      BY <1>1, <2>1, OwnIsNewest DEF SameWaits
    <3> QED BY <2>1, <2>2, <3>1, TopIsNewest DEF NextRef
  <2>4. IsNewest(segs', <<c, 1>>)
    <3>1. Len(segs[c]) + 1 = 1 /\ DOMAIN segs[c] = {}
      BY <2>1
    <3>2. IsNewest(heap, <<c, Len(segs[c]) + 1>>)
      BY <2>1, <2>2, <3>1, TopIsNewest
    <3>3. IsObject(heap, <<c, 1>>) /\ IsNewest(heap, <<c, 1>>)
      BY <2>1, <2>2, <3>1, <3>2 DEF Gains, IsObject
    <3> QED BY <2>1, <3>3, NewestStays
  <2>5. ASSUME NEW ref, IsObject(segs, ref), IsNewest(segs, ref) PROVE IsNewest(segs', ref)
    BY <1>6, <2>5, CreateKeepsNewest
  <2>6. EndIsNewest(c)
    <3>1. Len(label[p]) \in Nat /\ label[p] \in Seq(Owners \X Nat)
      BY <1>1, <2>1, OwnSegment
    <3>2. label'[c][Len(label'[c])] = <<c, 1>>
      BY <2>1, <2>2, <3>1, Ends
    <3> QED BY <2>4, <3>2
  <2>7. ASSUME NEW u \in Tasks, Live(u)' PROVE EndIsNewest(u)
    <3>1. CASE u \notin {p, c}
      <4>1. label'[u] = label[u] /\ Live(u)
        BY <2>1, <2>7, <3>1 DEF Live, Exists
      <4> QED BY <1>2, <2>5, <4>1
    <3> QED BY <1>5, <2>1, <2>3, <2>6, <3>1
  <2>8. ASSUME NEW m \in Members PROVE IsNewest(segs', label'[m][2])
    <3>1. IsNewest(segs', label[m][2])
      BY <1>2, <1>3, <2>5
    <3>2. CASE m = p
      BY <1>5, <2>1, <2>3, <3>1, <3>2
    <3>3. CASE m # p
      BY <1>3, <2>1, <2>2, <3>1, <3>3
    <3> QED BY <3>2, <3>3
  <2>9. ASSUME NEW m \in Members, work'[m] = "before"
        PROVE  \A n \in DOMAIN segs'[m] : segs'[m][n].type = "implicit"
    <3>1. m \in Owners /\ m # c /\ \A n \in DOMAIN segs[m] : segs[m][n].type = "implicit"
      BY <1>2, <1>3, <2>1, <2>2, <2>9
    <3>2. \A n \in DOMAIN heap[m] : heap[m][n].type = "implicit"
      <4>1. Gains(segs, heap, c, first)
        BY <2>1
      <4> QED BY <3>1, <4>1, ImplicitStays
    <3>3. ASSUME m = p PROVE seg.type = "implicit"
      <4>1. PICK n \in DOMAIN segs[p] : Own(p) = segs[p][n]
        BY <1>1, <2>1, OwnIsNewest
      <4> QED BY <2>1, <3>1, <3>3, <4>1 DEF SameWaits
    <3>4. Gains(heap, segs', p, seg)
      BY <2>1
    <3> QED BY <3>1, <3>2, <3>3, <3>4, ImplicitStays
  <2> QED BY <2>7, <2>8, <2>9
<1>7. ASSUME NEW t \in Tasks, NEW seg \in SegmentType, Gains(segs, segs', t, seg), Live(t),
             \A u \in Tasks : u # t => at'[u] = at[u] /\ (u \in Members => work'[u] = work[u]),
             RenewsOwn(t, seg) \/ EntersConstruct(t, seg) \/ LeavesLoop(t, seg)
      PROVE  /\ \A u \in Tasks : Live(u)' => EndIsNewest(u)
             /\ \A m \in Members : WaitsAreOwn(m)
  <2>1. \A u \in Tasks : u # t => label'[u] = label[u]
    BY <1>1, <1>7 DEF RenewsOwn, EntersConstruct, SingleBegin, LoopBegin, LeavesLoop, LoopEnd,
                      LabelsEnd
  <2>2. ASSUME NEW ref, IsObject(segs, ref), IsNewest(segs, ref),
               ref[1] # t \/ seg.type # ObjectAt(segs, ref).type
        PROVE  IsNewest(segs', ref)
    BY <1>7, <2>2, NewestStays
  <2>3. ASSUME NEW u \in Tasks, Live(u)', u # t PROVE EndIsNewest(u)
    <3>1. label'[u] = label[u] /\ Live(u)
      BY <1>7, <2>1, <2>3 DEF Live, Exists
    <3> QED BY <1>2, <2>2, <2>3, <3>1
  <2>4. ASSUME NEW m \in Members, m # t PROVE WaitsAreOwn(m)
    <3>1. label'[m] = label[m] /\ work'[m] = work[m] /\ m \in Owners
      BY <1>2, <1>3, <1>7, <2>1, <2>4
    <3>2. IsNewest(segs', label'[m][2])
      BY <1>2, <1>3, <2>2, <2>4, <3>1
    <3> QED BY <1>3, <1>7, <2>4, <3>1, <3>2, ImplicitStays
  <2>5. ASSUME \A n \in DOMAIN segs[t] :
                 segs[t][n].type = seg.type => segs[t][n].taskwait <= seg.taskwait
        PROVE  IsNewest(segs', NextRef(t))
    BY <1>2, <1>7, <2>5, TopIsNewest DEF NextRef
  <2>6. CASE RenewsOwn(t, seg)
    <3>1. /\ seg.type = Own(t).type /\ label'[t] = ReplaceLast(label[t], NextRef(t))
          /\ seg.taskwait = Own(t).taskwait \/ seg.taskwait = Own(t).taskwait + 1
          /\ t \in Members => work'[t] = work[t] \/ (InConstruct(t) /\ InConstruct(t)')
      BY <1>1, <2>6 DEF RenewsOwn, LabelsEnd
    <3>2. Own(t) \in SegmentType
      BY <1>1, <1>7, OwnSegment
    <3>3. IsNewest(segs', NextRef(t))
      <4>1. ASSUME NEW n \in DOMAIN segs[t], segs[t][n].type = seg.type
            PROVE  segs[t][n].taskwait <= seg.taskwait
        <5>1. segs[t][n].taskwait <= Own(t).taskwait
          BY <1>1, <1>7, <3>1, <4>1, OwnIsNewest
        <5>2. segs[t][n].taskwait \in Nat /\ Own(t).taskwait \in Nat
          <6>1. segs[t][n] \in SegmentType
            BY <1>1, <1>2, <1>7, <4>1, ElementOfSeq, LenProperties
          <6> QED BY <3>2, <6>1 DEF SegmentType
        <5> QED BY <3>1, <5>1, <5>2
      <4> QED BY <2>5, <4>1
    <3>4. /\ EndIsNewest(t)
          /\ t \in Members => \/ IsNewest(segs', label'[t][2])
                              \/ InConstruct(t) /\ label'[t][2] = label[t][2]
      BY <1>5, <1>7, <3>1, <3>3
    <3>5. ASSUME t \in Members, InConstruct(t) PROVE IsNewest(segs', label[t][2])
      <4>1. Own(t).type = "workshare" /\ Obj(label[t][2]).type = "implicit"
        BY <1>1, <3>5, ConstructSegment
      <4> QED BY <1>2, <1>3, <2>2, <3>1, <3>5, <4>1 DEF Obj
    <3>6. ASSUME t \in Members, work'[t] = "before"
          PROVE  \A n \in DOMAIN segs'[t] : segs'[t][n].type = "implicit"
      <4>1. work[t] = "before"
        BY <3>1, <3>6 DEF InConstruct
      <4>2. /\ t \in Owners /\ \A n \in DOMAIN segs[t] : segs[t][n].type = "implicit"
            /\ seg.type = "implicit"
        BY <1>1, <1>2, <1>3, <1>7, <3>1, <3>6, <4>1, OwnIsNewest
      <4> QED BY <1>7, <4>2, ImplicitStays
    <3> QED BY <2>3, <2>4, <3>4, <3>5, <3>6
  <2>7. CASE EntersConstruct(t, seg)
    <3>1. /\ t \in Members /\ work[t] = "before" /\ seg.type = "workshare"
          /\ label' = [label EXCEPT ![t] = Append(@, NextRef(t))]
          /\ work'[t] # "before"
      BY <1>1, <2>7 DEF EntersConstruct, SingleBegin, LoopBegin, Shape
    <3>2. IsNewest(segs', NextRef(t))
      BY <1>3, <2>5, <3>1
    <3>3. Len(label[t]) = 2 /\ label[t] \in Seq(Owners \X Nat)
      BY <1>1, <1>3, <1>7, <3>1, OwnSegment DEF InConstruct
    <3>4. label'[t] = Append(label[t], NextRef(t)) /\ NextRef(t) \in Owners \X Nat
      BY <1>1, <1>2, <1>7, <3>1, HeapObject DEF NextRef, LabelsEnd
    <3>5. label'[t][Len(label'[t])] = NextRef(t) /\ label'[t][2] = label[t][2]
      BY <3>3, <3>4, Ends
    <3>6. Obj(label[t][2]).type = "implicit"
      BY <1>1, <1>7, OwnSegment DEF LabelOK, Obj
    <3>7. IsNewest(segs', label[t][2])
      BY <1>2, <1>3, <1>7, <2>2, <3>1, <3>6 DEF Obj
    <3> QED BY <2>3, <2>4, <3>1, <3>2, <3>5, <3>7
  <2>8. CASE LeavesLoop(t, seg)
    <3>1. /\ t \in Members /\ InConstruct(t) /\ seg.type = "implicit"
          /\ seg.taskwait = Obj(label[t][2]).taskwait /\ work'[t] = "after"
          /\ label'[t] = ReplaceLast(Front(label[t]), NextRef(t))
      BY <1>1, <2>8 DEF LeavesLoop, LoopEnd, Shape, LabelsEnd
    <3>2. IsNewest(segs', NextRef(t))
      <4>1. Obj(label[t][2]).type = "implicit"
        BY <1>1, <3>1, ConstructSegment
      <4>2. \A n \in DOMAIN segs[t] :
              segs[t][n].type = seg.type => segs[t][n].taskwait <= seg.taskwait
        BY <1>3, <3>1, <4>1 DEF IsNewest, Obj
      <4> QED BY <2>5, <4>2
    <3>3. Len(label'[t]) = 2 /\ label'[t][2] = NextRef(t)
      <4> DEFINE S == Owners \X Nat
                 x == Front(label[t])
                 e == NextRef(t)
      <4>1. x \in Seq(S) /\ Len(x) >= 1 /\ e \in S
        BY <1>1, <1>2, <1>7, <3>1, PoppedLabel, HeapObject DEF NextRef
      <4>2. Len(x) = 2
        BY <1>1, <3>1, PoppedLabel
      <4> HIDE DEF S, x, e
      <4>3. Len(ReplaceLast(x, e)) = Len(x) /\ ReplaceLast(x, e)[Len(x)] = e
        BY <4>1, LastReplaced
      <4> QED BY <3>1, <4>2, <4>3 DEF x, e
    <3> QED BY <2>3, <2>4, <3>1, <3>2, <3>3
  <2> QED BY <1>7, <2>6, <2>7, <2>8
<1> QED BY <1>4, <1>6, <1>7, HeapStep

(* A task that is complete stays complete, and task_create is no end of a  *)
(* taskwait.                                                               *)
LEMMA CompleteStays ==
  ASSUME program \in Programs, GraphTypeOK, [Next]_vars, NEW s \in ExpTasks, Complete(s)
  PROVE  life'[s] = "complete"
<1>1. ASSUME NEW t \in ExpTasks, NEW clauses, TaskCreate(t, clauses) PROVE life'[s] = "complete"
  BY <1>1 DEF TaskCreate, Complete, GraphTypeOK
<1>2. ASSUME NEW t \in ExpTasks, Dependences(t) \/ TaskBegin(t) \/ TaskComplete(t)
      PROVE  life'[s] = "complete"
  BY <1>2 DEF Dependences, TaskBegin, TaskComplete, Complete, GraphTypeOK
<1>3. ASSUME life' = life PROVE life'[s] = "complete"
  BY <1>3 DEF Complete
<1>4. ASSUME NEW t \in Tasks, Step(t) PROVE life'[s] = "complete"
  <2>1. CASE Create(t)
    BY <1>1, <2>1 DEF Create
  <2> QED BY <1>3, <1>4, <2>1 DEF Step, ReachTaskwait, TaskwaitEnd, GroupBegin, GroupEnd, SingleBegin,
             SingleEnd, LoopBegin, Dispatch, OrderedAcquired, OrderedReleased, LoopEnd, ReachBarrier,
             BarrierEnd, Record, depVars
<1>5. ASSUME NEW t \in ExpTasks, ExpStep(t) PROVE life'[s] = "complete"
  BY <1>2, <1>5 DEF ExpStep, RegisterDependences, Begin, Finish
<1> QED BY <1>3, <1>4, <1>5 DEF Next, OpenBarrier, vars, depVars

StaysInside(m) == work'[m] \notin {"before", "after"} \/ at'[m] = "barrier"

(* A member leaves a construct for a barrier, and that with the team.      *)
LEMMA ConstructStays ==
  ASSUME IInv, [Next]_vars, NEW m \in Members, InConstruct(m) \/ at[m] = "barrier"
  PROVE  OpenBarrier \/ StaysInside(m)
<1>1. Shape /\ m \in Tasks /\ PlaceOK(m) /\ Structure
  BY DEF IInv, Structure, Places, Tasks
<1>2. ASSUME at'[m] = at[m], work'[m] = work[m] PROVE StaysInside(m)
  BY <1>2 DEF InConstruct, StaysInside
<1>3. ASSUME NEW t \in Tasks, Step(t) PROVE StaysInside(m)
  <2>1. CASE t # m
    <3>1. at'[m] = at[m]
      BY <1>1, <1>3, <2>1 DEF Step, Create, ReachTaskwait, TaskwaitEnd, GroupBegin, GroupEnd,
         SingleBegin, SingleEnd, LoopBegin, Dispatch, OrderedAcquired, OrderedReleased, LoopEnd,
         ReachBarrier, BarrierEnd, Record, Go, Shape
    <3>2. work'[m] = work[m]
      BY <1>1, <1>3, <2>1 DEF Step, Create, ReachTaskwait, TaskwaitEnd, GroupBegin, GroupEnd,
         SingleBegin, SingleEnd, LoopBegin, Dispatch, OrderedAcquired, OrderedReleased, LoopEnd,
         ReachBarrier, BarrierEnd, Record, teamVars, Shape
    <3> QED BY <1>2, <3>1, <3>2
  <2>2. CASE t = m
    <3>1. CASE Create(m) \/ GroupBegin(m) \/ GroupEnd(m) \/ Record(m)
      BY <1>2, <3>1 DEF Create, GroupBegin, GroupEnd, Record, teamVars
    <3>2. CASE ReachTaskwait(m) \/ TaskwaitEnd(m)
      <4>1. work' = work /\ at[m] # "barrier"
        BY <3>2 DEF ReachTaskwait, TaskwaitEnd, Runs, teamVars
      <4> QED BY <4>1 DEF InConstruct, StaysInside
    <3>3. CASE SingleEnd(m) \/ LoopEnd(m) \/ ReachBarrier(m)
      BY <1>1, <3>3 DEF SingleEnd, LoopEnd, ReachBarrier, Go, Shape, StaysInside
    <3>4. CASE SingleBegin(m) \/ LoopBegin(m) \/ Dispatch(m) \/ OrderedAcquired(m) \/ OrderedReleased(m)
      <4>1. work'[m] \in {"executes", "passes", "preamble", "iterates", "ordered", "past"}
        BY <1>1, <3>4 DEF SingleBegin, LoopBegin, Dispatch, OrderedAcquired, OrderedReleased, Shape
      <4> QED BY <4>1 DEF StaysInside
    <3>5. CASE BarrierEnd(m)
      <4>1. at[m] = "released"
        BY <3>5 DEF BarrierEnd
      <4>2. ~ InConstruct(m)
        BY <1>1, <4>1 DEF PlaceOK, InConstruct
      <4> QED BY <4>1, <4>2
    <3> QED BY <1>3, <2>2, <3>1, <3>2, <3>3, <3>4, <3>5 DEF Step
  <2> QED BY <2>1, <2>2
<1>4. ASSUME NEW t \in ExpTasks, ExpStep(t) PROVE StaysInside(m)
  <2>1. t # m
    BY Names
  <2>2. at'[m] = at[m] /\ work'[m] = work[m]
    BY <1>1, <1>4, <2>1 DEF ExpStep, RegisterDependences, Begin, Finish, Go, teamVars, Shape
  <2> QED BY <1>2, <2>2
<1> QED BY <1>2, <1>3, <1>4 DEF Next, vars, teamVars

(* No live explicit task meets the opening of a barrier.                   *)
LEMMA BarrierIsLast ==
  ASSUME Structure, OpenBarrier, NEW t \in ExpTasks
  PROVE  ~ Live(t)
<1>1. PlaceOK(t)
  BY DEF Structure, Places, Tasks
<1> QED BY <1>1 DEF OpenBarrier, Complete, PlaceOK, Live

(* What a task makes has not waited since.                                 *)
LEMMA NoWaitStep ==
  ASSUME IInv, IInv', Lines, [Next]_vars
  PROVE  NoWaitSince'
<1>1. /\ Structure /\ Heap /\ HeapOK(segs) /\ LabelsEnd /\ program \in Programs /\ GraphTypeOK
      /\ Structure' /\ Heap' /\ LabelsEnd'
  BY DEF IInv, Structure, Heap
<1>2. PICK p \in Tasks, c \in Tasks : \A u \in Tasks : Live(u)' =>
           \/ Live(u) /\ Renews(label'[u], label[u])
           \/ /\ u \in Members /\ Len(label'[u]) = 2
              /\ label'[u][1] = label[u][1] \/ BarrierEnd(u)
           \/ u = c /\ Acting(p) /\ Extends(label'[u], label[p]) /\ (p # u => Create(p))
  BY LabelStep
<1>3. ASSUME NEW u \in Tasks, Live(u)
      PROVE  /\ Len(label[u]) \in Nat /\ Len(label[u]) >= 2
             /\ LabelOK(segs, label[u]) /\ LabelEnds(u)
             /\ label[u][Len(label[u])][1] = u
             /\ \A k \in 1..Len(label[u]) : IsObject(segs, label[u][k])
  <2>1. /\ LabelOK(segs, label[u]) /\ Len(label[u]) \in Nat /\ Len(label[u]) >= 2
        /\ label[u][Len(label[u])][1] = u
    BY <1>1, <1>3, OwnSegment
  <2>2. \A k \in 1..Len(label[u]) : IsObject(segs, label[u][k])
    BY <1>1, <2>1, LabelRefs DEF LabelOK
  <2> QED BY <1>1, <2>1, <2>2 DEF LabelsEnd
\* The objects in the label of a live explicit task.
<1>4. ASSUME NEW t \in ExpTasks, Live(t), NEW k \in 2..Len(label[t])-1
      PROVE  \/ label[t][k+1][1] \in ExpTasks /\ life'[label[t][k+1][1]] = "complete"
             \/ IsNewest(segs', label[t][k])
  <2>0. t \in Tasks
    BY DEF Tasks
  <2>1. CASE label[t][k+1][1] \in ExpTasks /\ Complete(label[t][k+1][1])
    BY <1>1, <2>1, CompleteStays
  <2>2. CASE IsNewest(segs, label[t][k])
    <3> DEFINE s == label[t][k][1]
               d == label[t][k+1][1]
    <3>1. /\ k \in 1..Len(label[t]) /\ k+1 \in 3..Len(label[t])
          /\ k+1 \in 1..Len(label[t]) /\ k+1-1 = k
      BY <1>3, <1>4, <2>0
    <3>2. IsObject(segs, label[t][k]) /\ IsObject(segs, label[t][k+1])
      BY <1>3, <1>4, <2>0, <3>1
    <3> SUFFICES ASSUME s \in Tasks, TaskwaitEnd(s), Own(s).type = Obj(label[t][k]).type
                 PROVE  d \in ExpTasks /\ life'[d] = "complete"
      BY <2>2, <3>2, NewestKept
    <3>3. CASE d \in ExpTasks
      <4>1. Creator[d] = s
        BY <1>4, <3>1, <3>3 DEF Lines, Lineage
      <4>2. life[d] # "none"
        <5>1. d \in Tasks /\ LabelEnds(d) /\ PlaceOK(d)
          BY <1>1, <3>3 DEF Tasks, LabelsEnd, Structure, Places
        <5>2. Len(segs[d]) # 0
          <6>1. d \in Owners
            BY <5>1 DEF Owners
          <6>2. DOMAIN segs[d] = 1..Len(segs[d]) /\ label[t][k+1][2] \in DOMAIN segs[d]
            BY <1>1, <3>2, <6>1, HeapObject DEF IsObject
          <6> QED BY <6>2
        <5> QED BY <3>3, <5>1, <5>2 DEF LabelEnds, PlaceOK
      <4>3. Complete(d)
        BY <3>3, <4>1, <4>2 DEF TaskwaitEnd
      <4> QED BY <1>1, <3>3, <4>3, CompleteStays
    <3>4. CASE d \notin ExpTasks
      <4>1. k+1 = 3 /\ label[t][3][1] = label[t][2][1] /\ label[t][2][1] \in Members
            /\ Obj(label[t][2]).type = "implicit"
        BY <1>3, <1>4, <2>0, <3>1, <3>4 DEF LabelOK, Obj
      <4>2. k = 2 /\ s \in Members /\ label[t][3][1] \in Members /\ label[t][3][1] = s
        BY <3>1, <4>1
      <4>3. InConstruct(s)
        BY <1>4, <4>2 DEF Lines, NoWaitSince, TaskwaitEnd
      <4>4. Own(s).type = "workshare"
        BY <1>1, <4>2, <4>3, ConstructSegment
      <4> QED BY <4>1, <4>2, <4>4
    <3> QED BY <3>3, <3>4
  <2> QED BY <1>4, <2>1, <2>2 DEF Lines, NoWaitSince
<1>5. ASSUME NEW m \in Members, InConstruct(m) \/ at[m] = "barrier", NEW t \in ExpTasks, Live(t)'
      PROVE  StaysInside(m)
  <2>1. ~ OpenBarrier
    <3> SUFFICES ASSUME OpenBarrier PROVE FALSE
      OBVIOUS
    <3>1. ~ Live(t)
      BY <1>1, BarrierIsLast
    <3>2. label' = label /\ at'[t] = at[t]
      BY Names DEF OpenBarrier, taskVars, Tasks
    <3> QED BY <1>5, <3>1, <3>2 DEF Live, Exists
  <2> QED BY <1>5, <2>1, ConstructStays
<1> SUFFICES ASSUME NEW u \in ExpTasks, Live(u)'
             PROVE  /\ \A k \in 2..Len(label'[u])-1 :
                         \/ label'[u][k+1][1] \in ExpTasks /\ life'[label'[u][k+1][1]] = "complete"
                         \/ IsNewest(segs', label'[u][k])
                    /\ label'[u][3][1] \in Members => StaysInside(label'[u][3][1])
  BY DEF NoWaitSince, IsNewest, ObjectAt, Complete, InConstruct, StaysInside
<1>6. u \in Tasks /\ u \notin Members
  BY Names DEF Tasks
<1>7. /\ Len(label'[u]) \in Nat /\ Len(label'[u]) >= 3
      /\ label'[u][Len(label'[u])][1] = u /\ label'[u][Len(label'[u]) - 1][1] = Creator[u]
  BY <1>1, <1>6, LabelValues DEF LabelsEnd, LabelEnds, Live, Last
<1>8. CASE Live(u) /\ Renews(label'[u], label[u])
  <2>1. Len(label'[u]) = Len(label[u]) /\ Len(label[u]) \in Nat /\ 3 \in 1..Len(label[u])
    BY <1>7, <1>8 DEF Renews
  <2>2. ASSUME NEW k \in 2..Len(label'[u])-1
        PROVE  \/ label'[u][k+1][1] \in ExpTasks /\ life'[label'[u][k+1][1]] = "complete"
               \/ IsNewest(segs', label'[u][k])
    <3>1. k \in 2..Len(label[u])-1 /\ k \in 1..Len(label[u]) /\ k < Len(label[u])
          /\ k+1 \in 1..Len(label[u])
      BY <2>1, <2>2
    <3>2. label'[u][k] = label[u][k] /\ label'[u][k+1][1] = label[u][k+1][1]
      BY <1>8, <3>1 DEF Renews
    <3> QED BY <1>4, <1>8, <3>1, <3>2
  <2>3. ASSUME label'[u][3][1] \in Members
        PROVE  StaysInside(label'[u][3][1])
    <3>1. label'[u][3][1] = label[u][3][1]
      BY <1>8, <2>1 DEF Renews
    <3>2. InConstruct(label'[u][3][1]) \/ at[label'[u][3][1]] = "barrier"
      BY <1>8, <2>3, <3>1 DEF Lines, NoWaitSince
    <3> QED BY <1>5, <2>3, <3>2
  <2> QED BY <2>2, <2>3
<1>9. CASE Acting(p) /\ Extends(label'[u], label[p]) /\ (p # u => Create(p))
  <2> DEFINE n == Len(label[p])
  <2>1. /\ Live(p) /\ n \in Nat /\ n >= 2 /\ LabelEnds(p) /\ label[p][n][1] = p
        /\ n \in 1..n /\ Len(label'[u]) = n + 1
        /\ \A k \in 1..n : label'[u][k] = label[p][k]
    BY <1>3, <1>9 DEF Acting, Extends
  <2>2. Creator[u] = p /\ Create(p)
    <3>1. Creator[u] = p
      BY <1>7, <2>1
    <3>2. Creator[u] # u
      <4>1. u \in Seq(Nat) /\ Len(u) >= 1
        BY <1>6, Names
      <4>2. Len(Front(u)) = Len(u) - 1 /\ Len(u) \in Nat
        BY <4>1, Fronts
      <4> QED BY <4>2 DEF Creator
    <3> QED BY <1>9, <3>1, <3>2
  <2>3. at[p] = "runs"
    BY <2>2 DEF Create, Runs
  <2>4. ASSUME NEW ref, IsObject(segs, ref), IsNewest(segs, ref) PROVE IsNewest(segs', ref)
    BY <2>2, <2>4, CreateKeepsNewest
  <2>5. ASSUME NEW k \in 2..Len(label'[u])-1
        PROVE  \/ label'[u][k+1][1] \in ExpTasks /\ life'[label'[u][k+1][1]] = "complete"
               \/ IsNewest(segs', label'[u][k])
    <3>1. k \in 2..n /\ k \in 1..n /\ label'[u][k] = label[p][k]
      BY <2>1, <2>5
    <3>2. IsObject(segs, label[p][k])
      BY <1>3, <2>1, <3>1
    <3>3. CASE k = n
      BY <2>1, <2>4, <3>1, <3>2, <3>3 DEF Lines, NewestIsOwn
    <3>4. CASE k # n /\ p \in Members
      <4>1. n \in {2, 3}
        <5>1. n = (IF InConstruct(p) THEN 3 ELSE 2)
          BY <2>1, <3>4, Zenon DEF LabelEnds
        <5> QED BY <5>1
      <4>2. k = 2
        <5>1. \A l \in {2, 3} : \A j \in 2..l : j # l => j = 2
          OBVIOUS
        <5> QED BY <3>1, <3>4, <4>1, <5>1
      <4> QED BY <2>4, <3>1, <3>2, <3>4, <4>2 DEF Lines, NewestIsOwn
    <3>5. CASE k # n /\ p \in ExpTasks
      <4>1. k \in 2..n-1 /\ k+1 \in 1..n
        BY <2>1, <3>1, <3>5
      <4>2. label'[u][k+1] = label[p][k+1]
        BY <2>1, <4>1
      <4>3. \/ label[p][k+1][1] \in ExpTasks /\ life'[label[p][k+1][1]] = "complete"
            \/ IsNewest(segs', label[p][k])
        BY <1>4, <2>1, <3>5, <4>1
      <4> QED BY <3>1, <4>2, <4>3
    <3> QED BY <3>3, <3>4, <3>5 DEF Tasks
  <2>6. ASSUME label'[u][3][1] \in Members
        PROVE  StaysInside(label'[u][3][1])
    <3>1. n # 2
      <4>1. ASSUME n = 2 PROVE FALSE
        <5>1. Len(label'[u]) = 3
          BY <2>1, <4>1
        <5>2. label'[u][3][1] = u
          BY <1>7, <5>1
        <5> QED BY <1>6, <2>6, <5>2
      <4> QED BY <4>1
    <3>2. 3 \in 1..n /\ label'[u][3] = label[p][3]
      <4>1. \A j \in Nat : j >= 2 /\ j # 2 => 3 \in 1..j
        OBVIOUS
      <4>2. 3 \in 1..n
        BY <2>1, <3>1, <4>1
      <4> QED BY <2>1, <4>2
    <3>3. CASE p \in Members
      <4>1. InConstruct(p) /\ label[p][3][1] = p
        <5>1. /\ n = (IF InConstruct(p) THEN 3 ELSE 2)
              /\ InConstruct(p) => label[p][3][1] = p
          BY <2>1, <3>3, Zenon DEF LabelEnds
        <5> QED BY <3>1, <5>1
      <4> QED BY <1>5, <3>2, <3>3, <4>1
    <3>4. CASE p \in ExpTasks
      <4>1. InConstruct(label[p][3][1]) \/ at[label[p][3][1]] = "barrier"
        BY <2>1, <2>6, <3>2, <3>4 DEF Lines, NoWaitSince
      <4> QED BY <1>5, <2>6, <3>2, <4>1
    <3> QED BY <3>3, <3>4 DEF Tasks
  <2> QED BY <2>5, <2>6
<1> QED BY <1>2, <1>6, <1>8, <1>9

(* A member is released by the opening of a barrier, and goes on from there*)
(* with a label that counts it.                                            *)
LEMMA OpenedStep ==
  ASSUME IInv, IInv', [Next]_vars, NEW m \in Members
  PROVE  Opened(m)' = Opened(m) + (IF OpenBarrier THEN 1 ELSE 0)
<1>1. /\ Structure /\ Shape /\ Heap /\ LabelsEnd /\ Structure'
      /\ m \in Tasks /\ PlaceOK(m) /\ PlaceOK(m)'
  BY DEF IInv, Structure, Places, Tasks
<1>2. Live(m) /\ Live(m)'
  BY <1>1 DEF PlaceOK, Live
<1>3. /\ label[m] \in Seq(Owners \X Nat) /\ Len(label[m]) \in Nat /\ Len(label[m]) >= 2
      /\ label[m][1][2] \in Nat
  BY <1>1, <1>2, OwnSegment, LabelTop
<1>4. PICK p \in Tasks, c \in Tasks :
           \/ Live(m) /\ Renews(label'[m], label[m])
           \/ /\ m \in Members /\ Len(label'[m]) = 2
              /\ label'[m][1] = label[m][1] \/ BarrierEnd(m)
           \/ m = c /\ Acting(p) /\ Extends(label'[m], label[p]) /\ (p # m => Create(p))
  BY <1>1, <1>2, LabelStep
<1>5. CASE BarrierEnd(m)
  <2>1. /\ at[m] = "released" /\ at' = [at EXCEPT ![m] = "runs"]
        /\ label' = [label EXCEPT ![m][1] = <<Root, @[2] + 1>>]
    BY <1>5 DEF BarrierEnd, Go
  <2>2. at'[m] = "runs" /\ label'[m] = [label[m] EXCEPT ![1] = <<Root, label[m][1][2] + 1>>]
    BY <1>1, <2>1 DEF Shape, LabelsEnd
  <2>3. label'[m][1][2] = label[m][1][2] + 1
    <3>1. 1 \in DOMAIN label[m]
      BY <1>3
    <3> QED BY <2>2, <3>1
  <2>4. ~ OpenBarrier
    BY <2>1 DEF OpenBarrier
  <2> QED BY <1>3, <2>1, <2>2, <2>3, <2>4 DEF Opened
<1>6. CASE OpenBarrier
  <2>1. at[m] = "barrier" /\ at'[m] = "released" /\ label' = label
    BY <1>1, <1>6 DEF OpenBarrier, taskVars
  <2> QED BY <1>3, <1>6, <2>1 DEF Opened
<1>7. CASE ~ BarrierEnd(m) /\ ~ OpenBarrier
  <2>1. label'[m][1] = label[m][1]
    <3>1. CASE Renews(label'[m], label[m])
      <4>1. 1 \in 1..Len(label[m]) /\ 1 < Len(label[m])
        BY <1>3
      <4> QED BY <3>1, <4>1 DEF Renews
    <3>2. CASE Acting(p) /\ Extends(label'[m], label[p]) /\ (p # m => Create(p))
      <4>1. Len(label[p]) \in Nat /\ Len(label[p]) >= 2 /\ label[p][Len(label[p])][1] = p
        BY <1>1, <3>2, OwnSegment DEF Acting
      <4>2. /\ label'[m][1] = label[p][1] /\ label'[m][2] = label[p][2]
            /\ Len(label'[m]) = Len(label[p]) + 1
        BY <3>2, <4>1 DEF Extends
      <4>3. label'[m][2][1] = m /\ Len(label'[m]) \in {2, 3}
        <5>1. LabelEnds(m)'
          BY <1>1 DEF Structure, LabelsEnd
        <5>2. label'[m][2][1] = m /\ Len(label'[m]) = (IF InConstruct(m)' THEN 3 ELSE 2)
          BY <5>1, Zenon DEF LabelEnds
        <5> QED BY <5>2
      <4>4. p = m
        <5>1. Len(label[p]) = 2
          <6>1. \A n \in Nat : \A l \in {2, 3} : n >= 2 /\ l = n + 1 => n = 2
            OBVIOUS
          <6> QED BY <4>1, <4>2, <4>3, <6>1
        <5> QED BY <4>1, <4>2, <4>3, <5>1
      <4> QED BY <4>2, <4>4
    <3> QED BY <1>4, <1>7, <3>1, <3>2
  <2>2. at'[m] = "released" <=> at[m] = "released"
    <3>1. ASSUME NEW t \in Tasks, Step(t) PROVE at'[m] = "released" <=> at[m] = "released"
      <4>1. CASE t # m
        BY <1>1, <3>1, <4>1 DEF Step, Create, ReachTaskwait, TaskwaitEnd, GroupBegin, GroupEnd,
           SingleBegin, SingleEnd, LoopBegin, Dispatch, OrderedAcquired, OrderedReleased, LoopEnd,
           ReachBarrier, BarrierEnd, Record, Go, Shape
      <4>2. CASE t = m
        <5>1. at[m] # "released"
          BY <1>1, <1>7, <3>1, <4>2 DEF Step, Create, ReachTaskwait, TaskwaitEnd, GroupBegin, GroupEnd,
             SingleBegin, SingleEnd, LoopBegin, Dispatch, OrderedAcquired, OrderedReleased, LoopEnd,
             ReachBarrier, Record, Runs, PlaceOK
        <5>2. at'[m] # "released"
          BY <1>1, <1>7, <3>1, <4>2, <5>1 DEF Step, Create, ReachTaskwait, TaskwaitEnd, GroupBegin,
             GroupEnd, SingleBegin, SingleEnd, LoopBegin, Dispatch, OrderedAcquired, OrderedReleased,
             LoopEnd, ReachBarrier, Record, Go, Shape
        <5> QED BY <5>1, <5>2
      <4> QED BY <4>1, <4>2
    <3>2. ASSUME NEW t \in ExpTasks, ExpStep(t) PROVE at'[m] = at[m]
      <4>1. t # m
        BY Names
      <4> QED BY <1>1, <3>2, <4>1 DEF ExpStep, RegisterDependences, Begin, Finish, Go, Shape
    <3> QED BY <1>7, <3>1, <3>2 DEF Next, vars
  <2> QED BY <1>3, <1>7, <2>1, <2>2 DEF Opened
<1> QED BY <1>5, <1>6, <1>7

(* All labels count the same barriers.                                     *)
LEMMA OneTimeStep ==
  ASSUME IInv, IInv', Lines, [Next]_vars
  PROVE  OneTime'
<1>1. /\ Structure /\ Heap /\ LabelsEnd /\ Structure' /\ Heap' /\ LabelsEnd'
  BY DEF IInv, Structure
<1>2. PICK p \in Tasks, c \in Tasks : \A u \in Tasks : Live(u)' =>
           \/ Live(u) /\ Renews(label'[u], label[u])
           \/ /\ u \in Members /\ Len(label'[u]) = 2
              /\ label'[u][1] = label[u][1] \/ BarrierEnd(u)
           \/ u = c /\ Acting(p) /\ Extends(label'[u], label[p]) /\ (p # u => Create(p))
  BY LabelStep
<1>3. ASSUME NEW m \in Members, NEW u \in Members PROVE Opened(u)' = Opened(m)'
  <2>1. Opened(u) = Opened(m)
    BY DEF Lines, OneTime
  <2> QED BY <2>1, OpenedStep
<1>4. ASSUME NEW m \in Members, NEW t \in ExpTasks, Live(t)' PROVE label'[t][1][2] = Opened(m)'
  <2>0. t \in Tasks /\ t \notin Members
    BY Names DEF Tasks
  <2>1. ~ OpenBarrier
    <3> SUFFICES ASSUME OpenBarrier PROVE FALSE
      OBVIOUS
    <3>1. ~ Live(t)
      BY <1>1, BarrierIsLast
    <3>2. label' = label /\ at'[t] = at[t]
      BY <2>0 DEF OpenBarrier, taskVars
    <3> QED BY <1>4, <3>1, <3>2 DEF Live, Exists
  <2>2. Opened(m)' = Opened(m)
    <3>1. Opened(m) \in Nat
      <4>1. m \in Tasks /\ Live(m)
        BY <1>1 DEF Structure, Places, PlaceOK, Live, Tasks
      <4>2. label[m][1][2] \in Nat
        BY <1>1, <4>1, OwnSegment, LabelTop
      <4> QED BY <4>2 DEF Opened
    <3> QED BY <2>1, <3>1, OpenedStep
  <2>3. CASE Live(t) /\ Renews(label'[t], label[t])
    <3>1. 1 \in 1..Len(label[t]) /\ 1 < Len(label[t])
      BY <1>1, <2>0, <2>3, OwnSegment
    <3>2. label'[t][1] = label[t][1]
      BY <2>3, <3>1 DEF Renews
    <3> QED BY <2>2, <2>3, <3>2 DEF Lines, OneTime
  <2>4. CASE Acting(p) /\ Extends(label'[t], label[p])
    <3>1. Live(p) /\ 1 \in 1..Len(label[p])
      BY <1>1, <2>4, OwnSegment DEF Acting
    <3>2. label'[t][1] = label[p][1]
      BY <2>4, <3>1 DEF Extends
    <3>3. CASE p \in ExpTasks
      BY <2>2, <3>1, <3>2, <3>3 DEF Lines, OneTime
    <3>4. CASE p \in Members
      <4>1. Opened(p) = label[p][1][2]
        <5>1. at[p] # "released"
          BY <2>4 DEF Acting
        <5>2. label[p][1][2] \in Nat
          BY <1>1, <3>1, OwnSegment, LabelTop
        <5> QED BY <5>1, <5>2 DEF Opened
      <4>2. Opened(p) = Opened(m)
        BY <3>4 DEF Lines, OneTime
      <4> QED BY <2>2, <3>2, <4>1, <4>2
    <3> QED BY <3>3, <3>4 DEF Tasks
  <2> QED BY <1>2, <1>4, <2>0, <2>3, <2>4
<1> QED BY <1>3, <1>4 DEF OneTime, Opened, Live, Exists

(* In the first state no task is in the label of another.                  *)
LEMMA InitLines == Init => Lines
<1> SUFFICES ASSUME Init PROVE Lines
  OBVIOUS
<1>1. IInv /\ Structure /\ LabelsEnd /\ Heap /\ Places
  BY InitIInv DEF IInv, Structure
<1>2. ASSUME NEW t \in Tasks, Live(t)
      PROVE  t \in Members /\ label[t] = <<<<Root, 1>>, <<t, 1>>>> /\ Len(label[t]) = 2
  BY <1>2 DEF Init, Live, Exists
<1>3. ASSUME NEW m \in Members
      PROVE  /\ m \in Tasks /\ label[m] = <<<<Root, 1>>, <<m, 1>>>> /\ at[m] = "runs"
             /\ segs[m] = <<ImplicitSegment(m[1], TeamSize)>>
             /\ IsNewest(segs, <<m, 1>>) /\ \A n \in DOMAIN segs[m] : segs[m][n].type = "implicit"
  <2>1. /\ m \in Tasks /\ label[m] = <<<<Root, 1>>, <<m, 1>>>> /\ at[m] = "runs"
        /\ segs[m] = <<ImplicitSegment(m[1], TeamSize)>>
    BY Names DEF Init, Tasks
  <2>2. /\ ImplicitSegment(m[1], TeamSize).type = "implicit"
        /\ ImplicitSegment(m[1], TeamSize).taskwait = 0
    BY DEF ImplicitSegment, Segment
  <2>3. DOMAIN segs[m] = {1} /\ segs[m][1] = ImplicitSegment(m[1], TeamSize)
    BY <2>1
  <2> QED BY <2>1, <2>2, <2>3 DEF IsNewest, ObjectAt
<1>4. \A t \in ExpTasks : ~ Live(t)
  BY <1>2, Names DEF Tasks
<1>5. Lineage /\ NoWaitSince
  BY <1>4 DEF Lineage, NoWaitSince
<1>6. OneIsBelow
  <2>1. ASSUME NEW x \in InUse PROVE Len(x) = 2
    BY <1>2 DEF InUse, Init
  <2> QED BY <2>1 DEF OneIsBelow
<1>7. NewestIsOwn
  <2>1. ASSUME NEW m \in Members PROVE label[m][2] = <<m, 1>>
    <3>1. label[m] = <<<<Root, 1>>, <<m, 1>>>>
      BY <1>3
    <3>2. \A a, b : <<a, b>>[2] = b
      OBVIOUS
    <3> QED BY <3>1, <3>2
  <2>2. ASSUME NEW t \in Tasks, Live(t) PROVE IsNewest(segs, label[t][Len(label[t])])
    BY <1>2, <1>3, <2>1, <2>2
  <2> QED BY <1>3, <2>1, <2>2 DEF NewestIsOwn
<1>8. OneTime
  <2>1. ASSUME NEW m \in Members PROVE Opened(m) = 1
    <3>1. label[m] = <<<<Root, 1>>, <<m, 1>>>> /\ at[m] # "released"
      BY <1>3
    <3>2. \A a, b : <<a, b>>[1] = a /\ <<a, b>>[2] = b
      OBVIOUS
    <3>3. label[m][1] = <<Root, 1>>
      BY <3>1, <3>2
    <3> QED BY <3>1, <3>2, <3>3 DEF Opened
  <2> QED BY <1>4, <2>1 DEF OneTime
<1> QED BY <1>5, <1>6, <1>7, <1>8 DEF Lines

(* A task that runs goes on below the newest segments of those above it.   *)
LEMMA LinesHold == Spec => [](IInv /\ Lines)
<1>1. IInv /\ IInv' /\ Lines /\ [Next]_vars => Lines'
  BY LineageStep, OneIsBelowStep, NewestStep, NoWaitStep, OneTimeStep DEF Lines
<1> QED BY <1>1, InitLines, Invariance, PTL DEF Spec

(* The analysis meets a pair of labels that its checks rule out only when  *)
(* the current task has outlived the task that created it, or one above.   *)
THEOREM OrphansAlone == Spec => []OnlyOrphansAreFatal
<1>1. IInv /\ Lines => OnlyOrphansAreFatal
  BY OrphansOnly DEF OnlyOrphansAreFatal, Checks
<1> QED BY <1>1, LinesHold, PTL
=============================================================================
