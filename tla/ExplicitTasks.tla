---------------------------- MODULE ExplicitTasks ----------------------------
(***************************************************************************)
(* Explicit tasks: the callbacks of RompLib/src/Callbacks.cpp for tasks    *)
(* that are created, complete, wait for their children (taskwait) and for  *)
(* their descendants (taskgroup), and one access whose label stays in the  *)
(* access history, in a region whose members meet barriers and a single    *)
(* construct or an ordered loop.  TaskGraph is the part that deals with    *)
(* depend clauses.                                                         *)
(*                                                                         *)
(* taskwait and taskgroup write a mark into a segment that other labels    *)
(* share, so a label is a sequence of references here: <<t, n>> is the n-th*)
(* segment object of task t.  A mutation makes a new object, a mark        *)
(* changes an old one.                                                     *)
(*                                                                         *)
(* A task is named by its path: Root is the initial task, <<i>> a member   *)
(* of the team, Append(t, n) the n-th explicit task that t creates.  As in *)
(* LabelledTeams the module keeps the truth beside the labels.             *)
(***************************************************************************)
EXTENDS HappensBefore, FiniteSets, Functions

CONSTANTS TeamSize,  \* the size of the team
          Creators,  \* the members that create tasks and wait for them
          MaxTasks,  \* bound: explicit tasks, and so their nesting
          Programs,  \* what the program may do: bounds, see Bounds
          Variables  \* the storage locations of depend clauses

Root == <<>>
Members == {<<i>> : i \in 0..TeamSize-1}
\* To name Append(t, n) takes n tasks.
Takes(path) == FoldSeq(LAMBDA x, y : x + y, 0, path)
Paths == {p \in UNION {[1..n -> 1..MaxTasks] : n \in 1..MaxTasks} : Takes(p) <= MaxTasks}
ExpTasks == {m \o p : m \in Creators, p \in Paths}
Tasks == Members \cup ExpTasks
Creator == [t \in ExpTasks |-> Front(t)]

IsPrefixOf(s, t) == Len(s) <= Len(t) /\ SubSeq(t, 1, Len(s)) = s
Descendants(t) == {d \in ExpTasks : d # t /\ IsPrefixOf(t, d)}

ASSUME TeamAssumption == TeamSize \in Nat \ {0, 1} /\ Creators \subseteq Members
ASSUME MaxTasksAssumption == MaxTasks \in Nat \ {0}

VARIABLES
  program,   \* the program that runs
  expTaskCount, expLocalId, deps, graph, life, named, earlier, \* see TaskGraph
  segs,      \* segs[t]: the segment objects of t
  label,     \* label[t]: TaskData::label
  children,  \* children[t]: TaskData::childExpTaskData
  work,      \* work[m]: where m is in the construct of the team
  turn,      \* ordered regions that have ended
  at,        \* at[t]: what t does
  groups,    \* groups[t]: the taskgroups t is in, each as the children made before
  hist,      \* the label in the access history, <<>> while it is empty
  recorded,  \* its task
  \* The truth.
  knows,     \* knows[t]: the recorded access happened before what t does next
  seen,      \* seen[t]: ... by syncs that leave their trace in the labels
  grouped,   \* grouped[t]: ... and before the tasks that t creates, by a taskgroup
             \* that has ended
  chain      \* ... and before the end of the last ordered region

INSTANCE TaskGraph

\* Bounds on the explicit tasks of a program and their nesting, and on the
\* taskwaits and taskgroups of each task (of each segment of it) and the barriers
\* of the team; the depend clauses that children of a member may have; the construct
\* that ends with the first barrier, a single block or a loop of one iteration for
\* each member, with an ordered region in each.
Bounds == [tasks : 0..MaxTasks, nesting : 0..MaxTasks, waits : 0..CountLimit-1,
           groups : Nat, barriers : 0..OffsetLimit-1, clauses : SUBSET Clauses,
           construct : {"none", "single", "ordered"}]
ASSUME ProgramsAssumption ==
  \A p \in Programs : p \in Bounds /\ (p.construct # "none" => p.barriers > 0)

depVars == <<expTaskCount, expLocalId, deps, graph, life, named, earlier>>
taskVars == <<segs, label, children>>
truth == <<knows, seen, grouped, chain>>
teamVars == <<work, turn>>
vars == <<program, depVars, taskVars, teamVars, at, groups, hist, recorded, truth>>

Init ==
  /\ program \in Programs
  /\ GraphInit
  /\ segs = [t \in Tasks \cup {Root} |->
       IF t = Root THEN [n \in 1..program.barriers+1 |-> SetOffset(ImplicitSegment(0, 1), n - 1)]
       ELSE IF t \in Members THEN <<ImplicitSegment(t[1], TeamSize)>> ELSE <<>>]
  /\ label = [t \in Tasks |-> IF t \in Members THEN <<<<Root, 1>>, <<t, 1>>>> ELSE <<>>]
  /\ children = [t \in Tasks |-> {}]
  /\ work = [m \in Members |-> IF program.construct = "none" THEN "after" ELSE "before"]
  /\ turn = 0
  /\ at = [t \in Tasks |-> IF t \in Members THEN "runs" ELSE "none"]
  /\ groups = [t \in Tasks |-> <<>>]
  /\ hist = <<>> /\ recorded = Root
  /\ knows = [t \in Tasks |-> FALSE]
  /\ seen = [t \in Tasks |-> FALSE]
  /\ grouped = [t \in Tasks |-> FALSE]
  /\ chain = FALSE

\* The last segment of the label of t.
ObjectAt(heap, ref) == heap[ref[1]][ref[2]]
Obj(ref) == ObjectAt(segs, ref)
Own(t) == Obj(Last(label[t]))
Made(t) == Cardinality({c \in ExpTasks : Creator[c] = t /\ life[c] # "none"})
NextRef(t) == <<t, Len(segs[t]) + 1>>

\* The tool replaces the last segment of the label of t.
MutateLast(t, seg) ==
  /\ segs' = [segs EXCEPT ![t] = Append(@, seg)]
  /\ label' = [label EXCEPT ![t] = ReplaceLast(@, NextRef(t))]

Go(t, place) == at' = [at EXCEPT ![t] = place]

\* t is between task_create and dependences of a child.
InCreation(t) ==
  \E c \in ExpTasks : Creator[c] = t /\ life[c] = "created" /\ named[c] # NamesNone

Runs(t) == at[t] = "runs" /\ ~ InCreation(t)

MayWait(t) == t \in Creators \cup ExpTasks

\* The value of a label.
Deref(refs) == [k \in DOMAIN refs |-> Obj(refs[k])]

-----------------------------------------------------------------------------
(* The life of an explicit task: task_create, dependences, task_schedule *)

\* The taskgroup that has ended is found from the labels by what is created in no
\* taskgroup or in a single one: analyzeTaskGroupSync compares the levels.
Create(p) ==
  LET c == Append(p, Made(p) + 1)
  IN  /\ Runs(p) /\ c \in ExpTasks
      /\ expTaskCount < program.tasks /\ Len(p) <= program.nesting
      /\ \E clauses \in IF p \in Members THEN program.clauses ELSE {NamesNone} :
           TaskCreate(c, clauses)
      /\ segs' = [segs EXCEPT ![c] = <<Segment("explicit", 0, 1)>>,
                              ![p] = Append(@, TaskCreated(Own(p)))]
      /\ label' = [label EXCEPT ![c] = Append(label[p], <<c, 1>>),
                                ![p] = ReplaceLast(@, NextRef(p))]
      /\ children' = [children EXCEPT ![p] = @ \cup {c}]
      /\ knows' = [knows EXCEPT ![c] = knows[p]]
      /\ seen' = [seen EXCEPT ![c] = seen[p] \/ (grouped[p] /\ Len(groups[p]) <= 1)]
      /\ UNCHANGED <<program, teamVars, at, groups, hist, recorded, grouped, chain>>

RegisterDependences(t) ==
  /\ Dependences(t)
  /\ UNCHANGED <<program, taskVars, teamVars, at, groups, hist, recorded, truth>>

Begin(t) ==
  /\ TaskBegin(t)
  /\ Go(t, "runs")
  /\ knows' = [knows EXCEPT ![t] = @ \/ \E s \in earlier[t] : MustPrecede(s, t) /\ knows[s]]
  /\ UNCHANGED <<program, taskVars, teamVars, groups, hist, recorded, seen, grouped, chain>>

\* handleTaskComplete: the segment of the task is popped from its label.
Finish(t) ==
  /\ Runs(t) /\ groups[t] = <<>>
  /\ TaskComplete(t)
  /\ Go(t, "done")
  /\ label' = [label EXCEPT ![t] = Front(@)]
  /\ UNCHANGED <<program, segs, children, teamVars, groups, hist, recorded, truth>>

-----------------------------------------------------------------------------
(* taskwait: sync_region *)

ReachTaskwait(t) ==
  /\ MayWait(t) /\ Runs(t) /\ Own(t).taskwait < program.waits
  /\ Go(t, "taskwait")
  /\ UNCHANGED <<program, depVars, taskVars, teamVars, groups, hist, recorded, truth>>

\* The objects that markExpChildSyncTaskwait marks: the last segment of the label
\* that each child has by then.
WaitMarks(t) == {Last(label[c]) : c \in children[t]}

\* setTaskwaited, and setTaskwaitPhase: the phase is or-ed into the field, which is
\* 0 before.
Waited(seg, phase) == [seg EXCEPT !.taskwaited = TRUE, !.taskwaitPhase = phase]
MarkWaited(heap, marks, phase) ==
  [s \in DOMAIN heap |-> [n \in DOMAIN heap[s] |->
     IF <<s, n>> \in marks THEN Waited(heap[s][n], phase) ELSE heap[s][n]]]

\* A label of an iteration, or of a task below one.
InIteration(refs) == Len(refs) > 2 /\ Deref(refs)[3].type = "workshare"
\* The recorded access is one that an iteration made itself.
OfIteration(t) == t \in Members /\ Len(hist) = 3

\* The task of the recorded access was made in the construct that t is in.
MadeHere(t) == Len(hist) = Len(label[t]) + 1

TaskwaitEnd(t) ==
  /\ at[t] = "taskwait"
  /\ \A c \in ExpTasks : Creator[c] = t /\ life[c] # "none" => Complete(c)
  /\ segs' = MarkWaited([segs EXCEPT ![t] = Append(@, TaskWaited(Own(t)))],
                      WaitMarks(t), Own(t).phase)
  /\ label' = [label EXCEPT ![t] = ReplaceLast(@, NextRef(t))]
  /\ children' = [children EXCEPT ![t] = {}]
  /\ Go(t, "runs")
  /\ knows' = [knows EXCEPT ![t] = @ \/ \E c \in ExpTasks : Creator[c] = t /\ knows[c]]
  /\ seen' = [seen EXCEPT ![t] =
       @ \/ (recorded \in ExpTasks /\ Creator[recorded] = t /\ MadeHere(t))]
  /\ UNCHANGED <<program, depVars, teamVars, groups, hist, recorded, grouped, chain>>

-----------------------------------------------------------------------------
(* taskgroup: sync_region *)

GroupBegin(t) ==
  /\ MayWait(t) /\ Runs(t) /\ Own(t).taskGroupId + Own(t).taskGroupLevel < 2 * program.groups
  /\ MutateLast(t, GroupBegun(Own(t)))
  /\ groups' = [groups EXCEPT ![t] = Append(@, Made(t))]
  /\ UNCHANGED <<program, depVars, children, teamVars, at, hist, recorded, truth>>

\* The tasks made in the innermost taskgroup of t, and below them.
InGroup(t) ==
  {d \in Descendants(t) : life[d] # "none" /\ d[Len(t) + 1] > Last(groups[t])}

\* The children that markExpChildSyncTaskGroupEnd marks and forgets: their label
\* is no longer than that of t and ends with the number of the taskgroup.
GroupSynced(t) ==
  {c \in children[t] :
     /\ Len(label[c]) <= Len(label[t])
     /\ Last(Deref(label[c])).taskGroupId = Own(t).taskGroupId}

\* The objects that markExpChildSyncTaskGroupEnd marks.
MarkGroupSync(heap, marks) ==
  [s \in DOMAIN heap |-> [n \in DOMAIN heap[s] |->
     [heap[s][n] EXCEPT !.taskGroupSync = @ \/ <<s, n>> \in marks]]]

GroupEnd(t) ==
  /\ Runs(t) /\ groups[t] # <<>>
  /\ \A d \in InGroup(t) : Complete(d)
  /\ segs' = MarkGroupSync([segs EXCEPT ![t] = Append(@, GroupEnded(Own(t)))],
                           {Last(label[c]) : c \in GroupSynced(t)})
  /\ label' = [label EXCEPT ![t] = ReplaceLast(@, NextRef(t))]
  /\ children' = [children EXCEPT ![t] = @ \ GroupSynced(t)]
  /\ groups' = [groups EXCEPT ![t] = Front(@)]
  /\ knows' = [knows EXCEPT ![t] = @ \/ \E d \in InGroup(t) : knows[d]]
  /\ grouped' = [grouped EXCEPT ![t] = @ \/ recorded \in InGroup(t)]
  /\ UNCHANGED <<program, depVars, teamVars, at, hist, recorded, seen, chain>>

-----------------------------------------------------------------------------
(* A single construct with the barrier at its end: work *)

\* The first to arrive executes the block; call it a creator.
SingleBegin(m) ==
  /\ m \in Members /\ program.construct = "single"
  /\ Runs(m) /\ groups[m] = <<>> /\ work[m] = "before"
  /\ LET first == \A n \in Members : work[n] \notin {"executes", "after"}
         mark == IF first THEN SingleExec ELSE SingleOther
     IN  /\ first => m \in Creators
         /\ work' = [work EXCEPT ![m] = IF first THEN "executes" ELSE "passes"]
         /\ segs' = [segs EXCEPT ![m] = Append(@, SingleSegment(mark))]
         /\ Go(m, IF first THEN "runs" ELSE "passes")
  /\ label' = [label EXCEPT ![m] = Append(@, NextRef(m))]
  /\ UNCHANGED <<program, depVars, children, turn, groups, hist, recorded, truth>>

SingleEnd(m) ==
  /\ m \in Members /\ work[m] \in {"executes", "passes"}
  /\ at[m] = "passes" \/ (Runs(m) /\ groups[m] = <<>>)
  /\ label' = [label EXCEPT ![m] = Front(@)]
  /\ work' = [work EXCEPT ![m] = "after"]
  /\ Go(m, "barrier")
  /\ UNCHANGED <<program, depVars, segs, children, turn, groups, hist, recorded, truth>>

-----------------------------------------------------------------------------
(* An ordered loop with the barrier at its end, an iteration for each member:
   work, dispatch, and mutex_acquired and mutex_released of the ordered region *)

LoopBegin(m) ==
  /\ m \in Members /\ program.construct = "ordered"
  /\ Runs(m) /\ groups[m] = <<>> /\ work[m] = "before"
  /\ segs' = [segs EXCEPT ![m] = Append(@, PlaceHolderSegment)]
  /\ label' = [label EXCEPT ![m] = Append(@, NextRef(m))]
  /\ work' = [work EXCEPT ![m] = "preamble"]
  /\ Go(m, "passes")
  /\ UNCHANGED <<program, depVars, children, turn, groups, hist, recorded, truth>>

Dispatched == {m \in Members : work[m] \in {"iterates", "ordered", "past", "after"}}

Dispatch(m) ==
  /\ m \in Members /\ work[m] = "preamble"
  /\ MutateLast(m, IterationSegment(Cardinality(Dispatched)))
  /\ work' = [work EXCEPT ![m] = "iterates"]
  /\ Go(m, "runs")
  /\ UNCHANGED <<program, depVars, children, turn, groups, hist, recorded, truth>>

NextPhase(seg) == [seg EXCEPT !.phase = @ + 1]
LoopCounted(seg) == [seg EXCEPT !.loopCount = @ + 1]

\* No taskgroup is around an ordered region or a part of it.
OrderedAcquired(m) ==
  /\ m \in Members /\ Runs(m) /\ groups[m] = <<>> /\ work[m] = "iterates"
  /\ Own(m).workShareId = turn
  /\ MutateLast(m, NextPhase(Own(m)))
  /\ work' = [work EXCEPT ![m] = "ordered"]
  /\ knows' = [knows EXCEPT ![m] = @ \/ chain]
  /\ seen' = [seen EXCEPT ![m] = @ \/ (chain /\ OfIteration(recorded))]
  /\ UNCHANGED <<program, depVars, children, turn, at, groups, hist, recorded, grouped, chain>>

OrderedReleased(m) ==
  /\ m \in Members /\ Runs(m) /\ groups[m] = <<>> /\ work[m] = "ordered"
  /\ MutateLast(m, NextPhase(Own(m)))
  /\ work' = [work EXCEPT ![m] = "past"]
  /\ turn' = turn + 1
  /\ chain' = (chain \/ knows[m])
  /\ UNCHANGED <<program, depVars, children, at, groups, hist, recorded, knows, seen, grouped>>

LoopEnd(m) ==
  /\ m \in Members /\ Runs(m) /\ groups[m] = <<>> /\ work[m] = "past"
  /\ segs' = [segs EXCEPT ![m] = Append(@, LoopCounted(Obj(label[m][2])))]
  /\ label' = [label EXCEPT ![m] = ReplaceLast(Front(@), NextRef(m))]
  /\ work' = [work EXCEPT ![m] = "after"]
  /\ Go(m, "barrier")
  /\ UNCHANGED <<program, depVars, children, turn, groups, hist, recorded, truth>>

-----------------------------------------------------------------------------
(* The barrier of the team: sync_region *)

ReachBarrier(m) ==
  /\ m \in Members /\ Runs(m) /\ groups[m] = <<>> /\ work[m] = "after"
  /\ label[m][1][2] <= program.barriers
  /\ Go(m, "barrier")
  /\ UNCHANGED <<program, depVars, taskVars, teamVars, groups, hist, recorded, truth>>

\* The runtime opens the barrier when the team has arrived and no task is left.
OpenBarrier ==
  /\ \A m \in Members : at[m] = "barrier"
  /\ \A t \in ExpTasks : life[t] # "none" => Complete(t)
  /\ at' = [t \in Tasks |-> IF t \in Members THEN "released" ELSE at[t]]
  /\ knows' = [t \in Tasks |-> IF t \in Members THEN hist # <<>> ELSE knows[t]]
  /\ seen' = [t \in Tasks |-> IF t \in Members THEN hist # <<>> ELSE seen[t]]
  /\ UNCHANGED <<program, depVars, taskVars, teamVars, groups, hist, recorded, grouped, chain>>

BarrierEnd(m) ==
  /\ at[m] = "released"
  /\ label' = [label EXCEPT ![m][1] = <<Root, @[2] + 1>>]
  /\ Go(m, "runs")
  /\ UNCHANGED <<program, depVars, segs, children, teamVars, groups, hist, recorded, truth>>

-----------------------------------------------------------------------------
Record(t) ==
  /\ hist = <<>> /\ Runs(t)
  /\ hist' = label[t]
  /\ recorded' = t
  /\ knows' = [knows EXCEPT ![t] = TRUE]
  /\ seen' = [seen EXCEPT ![t] = TRUE]
  /\ UNCHANGED <<program, depVars, taskVars, teamVars, at, groups, grouped, chain>>

Step(t) ==
  \/ Create(t)
  \/ ReachTaskwait(t) \/ TaskwaitEnd(t)
  \/ GroupBegin(t) \/ GroupEnd(t)
  \/ SingleBegin(t) \/ SingleEnd(t)
  \/ LoopBegin(t) \/ Dispatch(t) \/ OrderedAcquired(t) \/ OrderedReleased(t) \/ LoopEnd(t)
  \/ ReachBarrier(t) \/ BarrierEnd(t)
  \/ Record(t)

ExpStep(t) == RegisterDependences(t) \/ Begin(t) \/ Finish(t)

\* The program may end when no explicit task is left.
ProgramEnds == \A t \in ExpTasks : life[t] # "none" => Complete(t)

Next ==
  \/ \E t \in Tasks : Step(t)
  \/ \E t \in ExpTasks : ExpStep(t)
  \/ OpenBarrier
  \/ ProgramEnds /\ UNCHANGED vars

Spec == Init /\ [][Next]_vars

-----------------------------------------------------------------------------
\* What the analysis says of the recorded access and the next access of t.
Verdict(t) == HB(Deref(hist), Deref(label[t]))
Checks(t) == hist # <<>> /\ Runs(t)

\* analyzeRaceCondition: dependences are asked for when the labels say no.
CalledOrdered(t) ==
  \/ Verdict(t) = Before
  \/ Verdict(t) = Concurrent /\ {recorded, t} \subseteq ExpTasks /\ HasPath(recorded, t)

(* Type invariant: the level of taskgroups in a label is the number of     *)
(* taskgroups the task is in, exactly the tasks that exist have a label,   *)
(* and the counts stay within the bounds of the program.                   *)
TypeOK ==
  /\ program \in Programs
  /\ GraphTypeOK
  /\ \A t \in Tasks : \A n \in DOMAIN segs[t] :
       segs[t][n].taskGroupLevel \in 0..program.groups /\ segs[t][n].taskwait \in 0..program.waits
  /\ \A t \in Tasks : Len(groups[t]) =
       (IF at[t] \in {"none", "done"} THEN 0 ELSE Own(t).taskGroupLevel)
  /\ \A t \in ExpTasks : label[t] = <<>> <=> life[t] = "none"
  /\ at \in [Tasks -> {"none", "runs", "taskwait", "passes", "barrier", "released", "done"}]
  /\ work \in [Members -> {"before", "executes", "passes", "preamble", "iterates", "ordered",
                          "past", "after"}]
  /\ turn = Cardinality({m \in Members : work[m] \in {"past", "after"} /\ program.construct = "ordered"})
  /\ {knows, seen, grouped} \subseteq [Tasks -> BOOLEAN] /\ chain \in BOOLEAN

\* The iterations that two labels of an ordered loop belong to, -1 without.
IterationOf(refs) == IF InIteration(refs) THEN Deref(refs)[3].workShareId ELSE -1
SameIteration(t) == IterationOf(hist) >= 0 /\ IterationOf(hist) = IterationOf(label[t])

(* An access that is called ordered after the recorded one, by the labels  *)
(* or by a path of dependences, has it in its past: no race is missed,     *)
(* whatever was created, waited for and marked in between.  Three things   *)
(* that break this in the code are set aside: taskgroups, an access of a   *)
(* task against those of the tasks that it created before, and iterations  *)
(* of an ordered loop against earlier ones.                                *)
OrderClaimsHold ==
  program.groups = 0 =>
    \A t \in Tasks :
      Checks(t) /\ CalledOrdered(t) /\ IterationOf(hist) <= IterationOf(label[t])
      => knows[t] \/ IsPrefixOf(recorded, t)

(* No race is missed at all: what the comments of analyzeSameTask and      *)
(* happensBefore promise, and the code does not keep.                      *)
NoMissedRace ==
  \A t \in Tasks : Checks(t) /\ CalledOrdered(t) => knows[t]

(* The orders that labels are to keep, those of creation, of a taskwait    *)
(* for a child, of a taskgroup for what is created after it, and of a      *)
(* barrier for everything before it, are found from the labels alone; so   *)
(* is that of ordered regions for accesses of the iterations themselves.   *)
(* Two accesses in one iteration of a loop are set aside: the code takes   *)
(* them for two iterations once a task was created between them.  So is    *)
(* what is created inside of two taskgroups, one in the other: there the   *)
(* code asks the taskgroup that has ended to be as deep (Create).          *)
TracedOrderIsSeen ==
  \A t \in Tasks :
    Checks(t) /\ seen[t] /\ ~ SameIteration(t) => Verdict(t) = Before

PhaseOf(refs) == Deref(refs)[3].phase

(* An iteration has several segments once it creates tasks or waits for    *)
(* them, and the code takes two of them for two iterations.  Its ordered   *)
(* region keeps them apart in the right way: an access of the iteration is *)
(* called ordered before what the iteration, and the tasks that it makes,  *)
(* do from another phase on exactly if it was made before that.            *)
RegionDividesIteration ==
  \A t \in Tasks :
    Checks(t) /\ Len(hist) = 3 /\ SameIteration(t) /\ PhaseOf(hist) # PhaseOf(label[t])
    => (Verdict(t) = Before <=> knows[t])

\* A step of other tasks leaves the order of a pair of labels as it is.
OrderStays ==
  hist # <<>> /\ hist' = hist /\ segs' # segs =>
    \A t \in Tasks :
      /\ Runs(t) /\ UNCHANGED <<label[t], at[t]>>
      /\ Verdict(t) = Before /\ ~ SameIteration(t)
      => Verdict(t)' = Before

(* Marks are set in segments that labels in histories share, while other   *)
(* tasks compare them: a step of another task never turns a pair of labels *)
(* that was called ordered into one that is called concurrent.  Again two  *)
(* accesses in one iteration are set aside: a mark in the segment of the   *)
(* iteration makes a copy of it look like that of another iteration.       *)
MarksKeepOrder == [][OrderStays]_vars

(* An access with the recorded one in its past is called ordered: the code *)
(* does not keep this for grandchildren and for most dependences.          *)
NoFalseAlarm ==
  \A t \in Tasks : Checks(t) /\ knows[t] => CalledOrdered(t)

\* The task that created t, or one above it, is complete.
Orphan(t) == \E s \in ExpTasks \ {t} : IsPrefixOf(s, t) /\ Complete(s)

(* The analysis meets a pair of labels that its checks rule out only when  *)
(* the current task has outlived the task that created it, or one above.   *)
OnlyOrphansAreFatal ==
  \A t \in Tasks : Checks(t) /\ Verdict(t) = Fatal => Orphan(t)

(* The analysis never meets such a pair: what the checks of                *)
(* analyzeNextExpExp say, and the code does not keep.                      *)
NeverFatal ==
  \A t \in Tasks : Checks(t) => Verdict(t) # Fatal
-----------------------------------------------------------------------------
(* What holds in every state: the inductive invariant behind TypeOK.       *)

Owners == Tasks \cup {Root}
IsObject(heap, ref) == ref[1] \in Owners /\ ref[2] \in DOMAIN heap[ref[1]]

\* What the n-th object of s is, whatever has been counted and marked in it.
ObjectOK(s, n, seg) ==
  \/ s = Root /\ seg.type = "implicit" /\ seg.offset = n - 1 /\ seg.span = 1
  \/ s \in Members /\ seg.type = "implicit" /\ seg.offset = s[1] /\ seg.span = TeamSize
  \/ s \in Members /\ seg.type = "workshare" /\ seg.offset = 0 /\ seg.span = 1
  \/ /\ s \in ExpTasks /\ seg.type = "explicit" /\ seg.offset = 0 /\ seg.span = 1
     /\ seg.phase = 0 /\ seg.taskwaitPhase = 0

\* Each taskgroup that begins or ends counts in the id, so the id and the level
\* add up to twice the number of those that have begun.
CountsOK(seg) ==
  /\ seg.taskwait <= program.waits
  /\ seg.taskGroupLevel <= seg.taskGroupId
  /\ \E begun \in 0..program.groups : seg.taskGroupId + seg.taskGroupLevel = 2 * begun

HeapOK(heap) ==
  /\ heap \in [Owners -> Seq(SegmentType)]
  /\ Len(heap[Root]) = program.barriers + 1
  /\ \A s \in Owners : \A n \in DOMAIN heap[s] :
       ObjectOK(s, n, heap[s][n]) /\ CountsOK(heap[s][n])
Heap == HeapOK(segs)

\* A label: the initial task, a member of the team, a construct that the member is
\* in, and explicit tasks below.
LabelOK(heap, refs) ==
  /\ refs \in Seq(Owners \X Nat) /\ Len(refs) >= 2
  /\ \A k \in DOMAIN refs : IsObject(heap, refs[k])
  /\ refs[1][1] = Root
  /\ refs[2][1] \in Members /\ ObjectAt(heap, refs[2]).type = "implicit"
  /\ \A k \in 3..Len(refs) :
       \/ refs[k][1] \in ExpTasks
       \/ k = 3 /\ refs[3][1] = refs[2][1] /\ ObjectAt(heap, refs[3]).type = "workshare"

Exists(t) == label[t] # <<>>
Live(t) == Exists(t) /\ at[t] # "done"
InConstruct(m) == work[m] \notin {"before", "after"}

\* The label of a task that is not done ends with a segment of its own.
LabelEnds(t) ==
  /\ IF Exists(t) THEN LabelOK(segs, label[t]) ELSE Len(segs[t]) = 0
  /\ t \in Members => /\ label[t][2][1] = t
                      /\ Len(label[t]) = (IF InConstruct(t) THEN 3 ELSE 2)
                      /\ InConstruct(t) => label[t][3][1] = t
  /\ t \in ExpTasks /\ Live(t) => /\ Len(label[t]) >= 3
                                 /\ Last(label[t])[1] = t
                                 /\ label[t][Len(label[t]) - 1][1] = Creator[t]
  /\ t \in ExpTasks /\ at[t] = "done" => Last(label[t])[1] = Creator[t]

LabelsEnd ==
  label \in [Tasks -> Seq(Owners \X Nat)] /\ \A t \in Tasks : LabelEnds(t)

\* What the other variables hold.
Shape ==
  /\ at \in [Tasks -> {"none", "runs", "taskwait", "passes", "barrier", "released", "done"}]
  /\ work \in [Members -> {"before", "executes", "passes", "preamble", "iterates", "ordered",
                          "past", "after"}]
  /\ groups \in [Tasks -> Seq(Nat)] /\ children \in [Tasks -> SUBSET ExpTasks]
  /\ recorded \in Owners /\ turn \in Nat
  /\ knows \in [Tasks -> BOOLEAN] /\ seen \in [Tasks -> BOOLEAN]
  /\ grouped \in [Tasks -> BOOLEAN] /\ chain \in BOOLEAN
  /\ IsFiniteSet({t \in ExpTasks : life[t] # "none"})

\* Where a task is, by what the runtime knows of it.
PlaceOK(t) ==
  /\ t \in Members =>
       /\ Exists(t) /\ at[t] \notin {"none", "done"}
       /\ at[t] = "passes" <=> work[t] \in {"passes", "preamble"}
       /\ at[t] \in {"barrier", "released"} => work[t] = "after" /\ label[t][1][2] <= program.barriers
       /\ work[t] # "after" => label[t][1][2] = 1 /\ program.construct # "none"
       /\ work[t] \in {"executes", "passes"} => program.construct = "single"
       /\ work[t] \in {"preamble", "iterates", "ordered", "past"} => program.construct = "ordered"
  /\ t \in ExpTasks =>
       /\ Exists(t) <=> life[t] # "none"
       /\ at[t] = "none" <=> life[t] \notin {"started", "complete"}
       /\ at[t] = "done" <=> life[t] = "complete"
       /\ at[t] \in {"none", "runs", "taskwait", "done"}
       /\ life[t] # "none" => Creator[t] \in Tasks /\ Exists(Creator[t])

OrderedOver == {m \in Members : work[m] \in {"past", "after"} /\ program.construct = "ordered"}

Places == (\A t \in Tasks : PlaceOK(t)) /\ turn = Cardinality(OrderedOver)

\* The taskgroups that a task is in, and the waits and children it has.
NestingOK(t) ==
  /\ Len(groups[t]) = (IF Live(t) THEN Own(t).taskGroupLevel ELSE 0)
  /\ at[t] = "taskwait" => Own(t).taskwait < program.waits
  /\ at[t] \in {"none", "passes"} => groups[t] = <<>>
  /\ \A c \in children[t] : Creator[c] = t /\ life[c] # "none"
  /\ t \in Members /\ InConstruct(t) => Obj(label[t][2]).taskGroupLevel = 0

Nesting == \A t \in Tasks : NestingOK(t)

\* A member that executes a single block or an iteration, and so may record.
MarkOK(m) ==
  InConstruct(m) /\ at[m] # "passes" => Obj(label[m][3]).workShareId \in Nat \cup {SingleExec}

Recorded ==
  /\ hist # <<>> => LabelOK(segs, hist)
  /\ \A m \in Members : MarkOK(m)
  /\ Len(hist) = 3 /\ hist[3][1] \in Members =>
       Obj(hist[3]).workShareId \in Nat \cup {SingleExec}

Structure ==
  /\ program \in Programs /\ GraphTypeOK /\ Shape
  /\ Heap /\ LabelsEnd /\ Places /\ Nesting /\ Recorded

\* The labels that are compared: those of the tasks, and the one in the history.
InUse == {label[t] : t \in {u \in Tasks : Live(u)}} \cup ({hist} \ {<<>>})
\* A task that makes new objects; a member at a barrier does so only after it.
Acting(t) == Live(t) /\ at[t] \notin {"barrier", "released"}

AgreeBelow(x, y, i) == \A k \in 1..i-1 : x[k] = y[k]
SameKind(left, right) == left.type = right.type /\ left.offset = right.offset
\* Grows whenever a task counts something before it makes another segment below.
Age(seg) == seg.taskcreate + seg.taskwait + seg.phase + seg.loopCount

\* Where two labels part above their ends, the values of the segments differ.
PartsShow ==
  \A x, y \in InUse : \A i \in 1..Len(x)-1 :
    i < Len(y) /\ AgreeBelow(x, y, i) /\ x[i] # y[i]
    => ~ SameKind(Obj(x[i]), Obj(y[i])) \/ Age(Obj(x[i])) # Age(Obj(y[i]))

\* What was created below a task stands below an older segment of it.
DescendantsAreBelowOlder ==
  \A t \in Tasks : Acting(t) =>
    \A x \in InUse : LET i == Len(label[t]) IN
      i < Len(x) /\ AgreeBelow(x, label[t], i)
      => ~ SameKind(Obj(x[i]), Own(t)) \/ Age(Obj(x[i])) < Age(Own(t))

\* Two tasks do not end in segments of one kind below the same ones.
EndsDiffer ==
  \A t, u \in Tasks : Acting(t) /\ Acting(u) /\ t # u /\ Len(label[t]) = Len(label[u])
    /\ AgreeBelow(label[t], label[u], Len(label[t]))
    => ~ SameKind(Own(t), Own(u))

\* No label is ahead of the member it is below in barriers.
NoLabelIsAhead ==
  \A x \in InUse : x[1][2] <= label[x[2][1]][1][2]

\* Nothing has been counted in a place holder.
PlaceHoldersAreNew ==
  \A m \in Members : work[m] = "preamble" => Age(Obj(label[m][3])) = 0

Ages ==
  /\ PartsShow /\ DescendantsAreBelowOlder /\ EndsDiffer
  /\ NoLabelIsAhead /\ PlaceHoldersAreNew
IInv == Structure /\ Ages
=============================================================================
