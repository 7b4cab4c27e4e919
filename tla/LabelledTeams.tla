---------------------------- MODULE LabelledTeams ----------------------------
(***************************************************************************)
(* Labels at work: teams of implicit tasks that fork, join, meet barriers  *)
(* and share work, the OMPT callbacks of RompLib/src/Callbacks.cpp that    *)
(* keep their labels, and one access whose label stays in the access       *)
(* history.  Beside the labels the module keeps the truth they encode: who *)
(* has the recorded access in its past, by the happens-before relation of  *)
(* OpenMP (a fork precedes the team, a team precedes its join, everything  *)
(* before a barrier precedes everything after it, ordered regions follow   *)
(* each other, and an iteration is a task of its own that joins at the     *)
(* next barrier).  The analysis of HappensBefore must find that truth.     *)
(*                                                                         *)
(* A task is named by its path: <<>> is the initial task, Append(t, i) the *)
(* implicit task with index i of the team that t forked, and a team is     *)
(* named by the task that forked it.  The members of a team meet the same  *)
(* constructs, those of script[team]; the first to arrive chooses.         *)
(***************************************************************************)
EXTENDS HappensBefore, FiniteSets

CONSTANTS TeamSizes,  \* the size of a team at each depth of nesting
          Programs    \* what the program may do: a set of Bounds, see below

\* "nowait" marks a construct without the barrier at its end.
StaticLoops  == {"static", "static nowait"}      \* no dispatch callback
DynamicLoops == {"dynamic", "dynamic nowait"}    \* one dispatch per iteration
OrderedLoops == {"ordered", "ordered nowait"}    \* ... each with an ordered region
Sections     == {"sections", "sections nowait"}
Singles      == {"single", "single nowait"}
NoWait       == {"static nowait", "dynamic nowait", "ordered nowait",
                 "sections nowait", "single nowait"}
AllConstructs == {"barrier"} \cup StaticLoops \cup DynamicLoops \cup OrderedLoops
                             \cup Sections \cup Singles

\* Where a task is.  In CodePlaces it runs the program's code.
WorkPlaces == {"work", "ordered", "past"}   \* an iteration: before, in, after `ordered`
CodePlaces == {"free", "chunk", "single"} \cup WorkPlaces
Places == CodePlaces \cup {"none", "starting", "preamble", "other", "barrier", "released", "ending"}

Root == <<>>
Depth == Len(TeamSizes)
Indices(d) == 0..TeamSizes[d]-1
MembersOf(r) == {Append(r, i) : i \in Indices(Len(r) + 1)}
Outer == MembersOf(Root)
Tasks == IF Depth = 1 THEN {Root} \cup Outer
                      ELSE {Root} \cup Outer \cup UNION {MembersOf(t) : t \in Outer}
Teams == {t \in Tasks : Len(t) < Depth}
TeamOf(t) == Front(t)

\* The span of a segment, the size of its team, has a field of its own.
ASSUME TeamSizesAssumption ==
  Depth \in {1, 2} /\ \A d \in 1..Depth : TeamSizes[d] \in 1..OffsetLimit-1

\* The constructs that a program uses, bounds on those that a team meets before it
\* ends, on the regions that a task forks one after the other and on the iterations
\* of a loop or sections of a construct, the iterations that an ordered loop hands out
\* at a time (other loops: one), and the places where a task forks.
Bounds == [constructs : SUBSET AllConstructs, length : Nat, regions : Nat,
           iterations : Nat, chunk : Nat \ {0}, forkPlaces : SUBSET CodePlaces]
ASSUME ProgramsAssumption == \A p \in Programs : p \in Bounds

VARIABLES
  program, \* the program that runs
  label,   \* label[t]: TaskData::label, <<>> when there is no such task
  at,      \* at[t]: where t is
  open,    \* open[r]: r is inside the parallel region it forked
  forks,   \* forks[r]: regions r has forked
  script,  \* script[r]: the constructs the team of r has met
  step,    \* step[t]: how many of them t has reached
  taken,   \* taken[r][k]: chunks of construct k handed out, or `single` claimed
  turn,    \* turn[r][k]: ordered regions of construct k that have ended
  iter,    \* iter[t]: the iteration t executes
  hist,    \* the label in the access history, <<>> while it is empty
  aborted, \* a count did not fit in its field
  \* The truth.  The recorded access happened before ...
  knows,   \* knows[t]: ... the next thing t does outside of an iteration
  inWork,  \* inWork[t]: ... the next thing t does in its iteration
  loose,   \* loose[t]: ... the end of an iteration of t that no barrier followed
  chain    \* chain[r][k]: ... the end of the last ordered region of construct k

truth == <<knows, inWork, loose, chain>>
teamVars == <<script, taken, turn>>
vars == <<program, label, at, open, forks, step, iter, hist, aborted, teamVars, truth>>

PerConstruct(v) == [k \in 1..(program.length+1) |-> v]

Init ==
  /\ program \in Programs
  /\ label = [t \in Tasks |-> IF t = Root THEN GenInitTaskLabel ELSE <<>>]
  /\ at = [t \in Tasks |-> IF t = Root THEN "free" ELSE "none"]
  /\ open = [r \in Teams |-> FALSE]
  /\ forks = [r \in Teams |-> 0]
  /\ script = [r \in Teams |-> <<>>]
  /\ step = [t \in Tasks |-> 0]
  /\ taken = [r \in Teams |-> PerConstruct(0)]
  /\ turn = [r \in Teams |-> PerConstruct(0)]
  /\ iter = [t \in Tasks |-> 0]
  /\ hist = <<>>
  /\ aborted = FALSE
  /\ knows = [t \in Tasks |-> FALSE]
  /\ inWork = [t \in Tasks |-> FALSE]
  /\ loose = [t \in Tasks |-> FALSE]
  /\ chain = [r \in Teams |-> PerConstruct(FALSE)]

Forked(t) == t \in Teams /\ open[t]
Runs(t) == at[t] \in CodePlaces /\ ~ Forked(t)

Relabel(t, new) == label' = [label EXCEPT ![t] = new]
Go(t, place) == at' = [at EXCEPT ![t] = place]
Construct(t) == script[TeamOf(t)][step[t]]

\* The recorded access is in the past of what t does next.
Knows(t) == IF at[t] \in WorkPlaces THEN inWork[t] ELSE knows[t]

-----------------------------------------------------------------------------
(* The start of a region: parallel_begin, then implicit_task for each member *)

Fork(r) ==
  /\ Runs(r)
  /\ r = Root \/ at[r] \in program.forkPlaces
  /\ forks[r] < program.regions
  /\ \A t \in MembersOf(r) : at[t] = "none"
  /\ open' = [open EXCEPT ![r] = TRUE]
  /\ forks' = [forks EXCEPT ![r] = @ + 1]
  /\ at' = [t \in Tasks |-> IF t \in MembersOf(r) THEN "starting" ELSE at[t]]
  /\ script' = [script EXCEPT ![r] = <<>>]
  /\ taken' = [taken EXCEPT ![r] = PerConstruct(0)]
  /\ turn' = [turn EXCEPT ![r] = PerConstruct(0)]
  /\ chain' = [chain EXCEPT ![r] = PerConstruct(FALSE)]
  /\ UNCHANGED <<program, label, step, iter, hist, aborted, knows, inWork, loose>>

ImplicitTaskBegin(t) ==
  /\ at[t] = "starting"
  /\ Relabel(t, GenImpTaskLabel(label[TeamOf(t)], Last(t), TeamSizes[Len(t)]))
  /\ Go(t, "free")
  /\ knows' = [knows EXCEPT ![t] = Knows(TeamOf(t))]
  /\ UNCHANGED <<program, open, forks, step, iter, hist, aborted, teamVars, inWork, loose, chain>>

-----------------------------------------------------------------------------
(* Reaching a construct: work (begin), or sync_region for a barrier *)

\* t reaches construct c: the one its team met there, or a new one.
Reaches(t, c) ==
  LET r == TeamOf(t)
      k == step[t] + 1
  IN  /\ t # Root /\ at[t] = "free" /\ Runs(t)
      /\ \/ k <= Len(script[r]) /\ script[r][k] = c /\ UNCHANGED script
         \/ /\ k > Len(script[r])
            /\ c = "end" \/ Len(script[r]) < program.length
            /\ script' = [script EXCEPT ![r] = Append(@, c)]
      /\ step' = [step EXCEPT ![t] = k]
      /\ UNCHANGED <<program, open, forks, hist, aborted, turn, truth>>

BeginLoop(t) ==
  \E c \in program.constructs \cap (StaticLoops \cup DynamicLoops \cup OrderedLoops) :
    /\ Reaches(t, c)
    /\ Relabel(t, MutateLoopBegin(label[t]))
    /\ Go(t, IF c \in StaticLoops THEN "chunk" ELSE "preamble")
    /\ UNCHANGED <<taken, iter>>

BeginSections(t) ==
  \E c \in program.constructs \cap Sections :
    /\ Reaches(t, c)
    /\ Relabel(t, MutateSectionBegin(label[t]))
    /\ Go(t, "preamble")
    /\ UNCHANGED <<taken, iter>>

\* The first to arrive executes the block.
BeginSingleExecutor(t) ==
  \E c \in program.constructs \cap Singles :
    /\ Reaches(t, c)
    /\ taken[TeamOf(t)][step[t] + 1] = 0
    /\ taken' = [taken EXCEPT ![TeamOf(t)][step[t] + 1] = 1]
    /\ Relabel(t, MutateSingleExecBegin(label[t]))
    /\ Go(t, "single")
    /\ UNCHANGED iter

BeginSingleOther(t) ==
  \E c \in program.constructs \cap Singles :
    /\ Reaches(t, c)
    /\ taken[TeamOf(t)][step[t] + 1] = 1
    /\ Relabel(t, MutateSingleOtherBegin(label[t]))
    /\ Go(t, "other")
    /\ UNCHANGED <<taken, iter>>

\* A barrier of the program, or the one that ends the region.
ReachBarrier(t) ==
  \E c \in (program.constructs \cap {"barrier"}) \cup {"end"} :
    /\ Reaches(t, c)
    /\ Go(t, "barrier")
    /\ UNCHANGED <<label, taken, iter>>

-----------------------------------------------------------------------------
(* Inside a worksharing construct: dispatch, mutex_acquired and mutex_released
   of an ordered region, work (end) *)

\* t is done with what it executes of the construct.
Idles(t) ==
  \/ at[t] \in {"preamble", "past", "chunk"}
  \/ at[t] = "work" /\ Construct(t) \notin OrderedLoops

ChunkOf(c) == IF c \in OrderedLoops THEN program.chunk ELSE 1

\* An iteration that ends is concurrent with all that follows up to a barrier.
Loosen(t) == loose' = [loose EXCEPT ![t] = @ \/ inWork[t]]

Dispatch(t) ==
  LET r == TeamOf(t)
      k == step[t]
      id == taken[r][k] * ChunkOf(Construct(t))
  IN  /\ at[t] \in {"preamble"} \cup WorkPlaces /\ Idles(t) /\ ~ Forked(t)
      /\ id < program.iterations
      /\ taken' = [taken EXCEPT ![r][k] = @ + 1]
      /\ iter' = [iter EXCEPT ![t] = id]
      /\ Relabel(t, IF Construct(t) \in Sections
                    THEN MutateSectionDispatch(label[t], id)
                    ELSE MutateIterDispatch(label[t], id))
      /\ Go(t, "work")
      /\ Loosen(t)
      /\ inWork' = [inWork EXCEPT ![t] = knows[t]]
      /\ UNCHANGED <<program, open, forks, script, step, turn, hist, aborted, knows, chain>>

\* An ordered region begins when those of all earlier iterations have ended.
OrderedAcquired(t) ==
  LET r == TeamOf(t)
      k == step[t]
  IN  /\ at[t] = "work" /\ Construct(t) \in OrderedLoops /\ ~ Forked(t)
      /\ turn[r][k] = iter[t]
      /\ aborted' = ~ PhaseFits(label[t])
      /\ Relabel(t, MutateOrderSection(label[t]))
      /\ Go(t, "ordered")
      /\ inWork' = [inWork EXCEPT ![t] = @ \/ chain[r][k]]
      /\ UNCHANGED <<program, open, forks, teamVars, step, iter, hist, knows, loose, chain>>

\* t goes on with the next iteration of its chunk, if there is one.
OrderedReleased(t) ==
  LET r == TeamOf(t)
      k == step[t]
      next == iter[t] + 1
      more == next % program.chunk # 0 /\ next < program.iterations
  IN  /\ at[t] = "ordered" /\ ~ Forked(t)
      /\ turn' = [turn EXCEPT ![r][k] = @ + 1]
      /\ aborted' = ~ PhaseFits(label[t])
      /\ Relabel(t, MutateOrderSection(label[t]))
      /\ Go(t, IF more THEN "work" ELSE "past")
      /\ iter' = [iter EXCEPT ![t] = IF more THEN next ELSE @]
      /\ chain' = [chain EXCEPT ![r][k] = @ \/ inWork[t]]
      /\ UNCHANGED <<program, open, forks, script, taken, step, hist, knows, inWork, loose>>

AfterConstruct(t) == IF Construct(t) \in NoWait THEN "free" ELSE "barrier"

EndLoop(t) ==
  /\ Idles(t) /\ ~ Forked(t)
  /\ Construct(t) \notin Sections
  /\ aborted' = ~ LoopCountFits(label[t])
  /\ Relabel(t, MutateLoopEnd(label[t]))
  /\ Go(t, AfterConstruct(t))
  /\ iter' = [iter EXCEPT ![t] = 0]
  /\ Loosen(t)
  /\ inWork' = [inWork EXCEPT ![t] = FALSE]
  /\ UNCHANGED <<program, open, forks, teamVars, step, hist, knows, chain>>

EndSections(t) ==
  /\ Idles(t) /\ ~ Forked(t)
  /\ Construct(t) \in Sections
  /\ aborted' = ~ LoopCountFits(label[t])
  /\ Relabel(t, MutateSectionEnd(label[t]))
  /\ Go(t, AfterConstruct(t))
  /\ iter' = [iter EXCEPT ![t] = 0]
  /\ Loosen(t)
  /\ inWork' = [inWork EXCEPT ![t] = FALSE]
  /\ UNCHANGED <<program, open, forks, teamVars, step, hist, knows, chain>>

EndSingle(t) ==
  /\ at[t] \in {"single", "other"} /\ ~ Forked(t)
  /\ Relabel(t, MutateSingleEnd(label[t]))
  /\ Go(t, AfterConstruct(t))
  /\ UNCHANGED <<program, open, forks, teamVars, step, iter, hist, aborted, truth>>

-----------------------------------------------------------------------------
(* The end of a barrier and of a region: sync_region, implicit_task *)

\* The runtime opens the barrier once every member has reached it.
OpenBarrier(r) ==
  /\ open[r]
  /\ \A t \in MembersOf(r) : at[t] = "barrier"
  /\ at' = [t \in Tasks |-> IF t \in MembersOf(r) THEN "released" ELSE at[t]]
  /\ LET past == \E t \in MembersOf(r) : knows[t] \/ loose[t]
     IN  knows' = [t \in Tasks |-> IF t \in MembersOf(r) THEN past ELSE knows[t]]
  /\ loose' = [t \in Tasks |-> IF t \in MembersOf(r) THEN FALSE ELSE loose[t]]
  /\ UNCHANGED <<program, label, open, forks, teamVars, step, iter, hist, aborted, inWork, chain>>

\* Each member is told when it gets going again.
BarrierEnd(t) ==
  /\ at[t] = "released"
  /\ Relabel(t, MutateBarrierEnd(label[t]))
  /\ Go(t, IF Construct(t) = "end" THEN "ending" ELSE "free")
  /\ UNCHANGED <<program, open, forks, teamVars, step, iter, hist, aborted, truth>>

\* The task is gone: its TaskData is deleted.
Vanishes(t) ==
  /\ Go(t, "none")
  /\ step' = [step EXCEPT ![t] = 0]

\* The member with index 0 relabels the task that forked and resumes it.
ImplicitTaskEndMaster(t) ==
  LET r == TeamOf(t)
  IN  /\ at[t] = "ending" /\ Last(t) = 0
      /\ label' = [label EXCEPT ![r] = MutateParentImpEnd(label[t]), ![t] = <<>>]
      /\ Vanishes(t)
      /\ open' = [open EXCEPT ![r] = FALSE]
      /\ IF at[r] \in WorkPlaces
         THEN /\ inWork' = [inWork EXCEPT ![r] = @ \/ knows[t]]
              /\ knows' = [knows EXCEPT ![t] = FALSE]
         ELSE /\ knows' = [knows EXCEPT ![r] = @ \/ knows[t], ![t] = FALSE]
              /\ UNCHANGED inWork
      /\ UNCHANGED <<program, forks, teamVars, iter, hist, aborted, loose, chain>>

\* Seeded fault: the label outlives the task.
WorkerKeepsLabel(t) ==
  /\ at[t] = "ending" /\ Last(t) # 0
  /\ Vanishes(t)
  /\ knows' = [knows EXCEPT ![t] = FALSE]
  /\ UNCHANGED <<program, label, open, forks, teamVars, iter, hist, aborted, inWork, loose, chain>>

ImplicitTaskEndWorker(t) ==
  /\ at[t] = "ending" /\ Last(t) # 0
  /\ Relabel(t, <<>>)
  /\ Vanishes(t)
  /\ knows' = [knows EXCEPT ![t] = FALSE]
  /\ UNCHANGED <<program, open, forks, teamVars, iter, hist, aborted, inWork, loose, chain>>

-----------------------------------------------------------------------------
\* An access of an implicit task (checkAccess skips the initial task) is recorded.
Record(t) ==
  /\ hist = <<>> /\ t # Root /\ Runs(t)
  /\ hist' = label[t]
  /\ IF at[t] \in WorkPlaces
     THEN inWork' = [inWork EXCEPT ![t] = TRUE] /\ UNCHANGED knows
     ELSE knows' = [knows EXCEPT ![t] = TRUE] /\ UNCHANGED inWork
  /\ UNCHANGED <<program, label, at, open, forks, teamVars, step, iter, aborted, loose, chain>>

\* The program ends when the initial task has no region left to fork.
ProgramEnds == at[Root] = "free" /\ ~ open[Root] /\ forks[Root] = program.regions

Step(t) ==
  \/ ImplicitTaskBegin(t)
  \/ BeginLoop(t) \/ BeginSections(t) \/ BeginSingleExecutor(t) \/ BeginSingleOther(t)
  \/ ReachBarrier(t)
  \/ Dispatch(t) \/ OrderedAcquired(t) \/ OrderedReleased(t)
  \/ EndLoop(t) \/ EndSections(t) \/ EndSingle(t)
  \/ BarrierEnd(t) \/ ImplicitTaskEndMaster(t) \/ ImplicitTaskEndWorker(t)
  \/ Record(t)

Next ==
  \/ \E t \in Tasks : ~ aborted /\ Step(t)
  \/ \E r \in Teams : ~ aborted /\ (Fork(r) \/ OpenBarrier(r))
  \/ (aborted \/ ProgramEnds) /\ UNCHANGED vars

Spec == Init /\ [][Next]_vars

-----------------------------------------------------------------------------
(* Type invariant: every task is somewhere, its label is a sequence of     *)
(* segments whose counts fit their fields, and exactly the tasks that      *)
(* exist have a label.                                                     *)
SegmentOK(seg) ==
  /\ seg.type \in {"implicit", "explicit", "workshare"}
  /\ seg.offset \in 0..OffsetLimit-1 /\ seg.span \in 1..OffsetLimit-1
  /\ seg.phase \in 0..CountLimit-1 /\ seg.loopCount \in 0..CountLimit-1

TypeOK ==
  /\ program \in Programs
  /\ at \in [Tasks -> Places]
  /\ open \in [Teams -> BOOLEAN]
  /\ forks \in [Teams -> 0..program.regions]
  /\ \A r \in Teams : script[r] \in Seq(AllConstructs \cup {"end"})
  /\ \A t \in Tasks :
       /\ step[t] \in 0..program.length+1 /\ iter[t] \in 0..program.iterations
       /\ label[t] = <<>> <=> at[t] \in {"none", "starting"}
       /\ ~ aborted => \A k \in DOMAIN label[t] : SegmentOK(label[t][k])
  /\ {knows, inWork, loose} \subseteq [Tasks -> BOOLEAN]

\* What the analysis says of the recorded access and the next access of t.
Verdict(t) == HB(hist, label[t])
Checks(t) == hist # <<>> /\ t # Root /\ Runs(t)

(* An access that the analysis calls ordered after the recorded one has it *)
(* in its past: no race between members of teams is missed.                *)
NoMissedRace ==
  \A t \in Tasks : Checks(t) /\ Verdict(t) = Before => Knows(t)

(* An access with the recorded one in its past is called ordered: no race  *)
(* is reported between ordered accesses.                                   *)
NoFalseAlarm ==
  \A t \in Tasks : Checks(t) /\ Knows(t) => Verdict(t) = Before

(* An ordered region that the recorded access precedes is seen: when the   *)
(* access was recorded in an iteration, an iteration that has it in its    *)
(* past by a chain of ordered regions is called ordered after it.  The code *)
(* keeps this for loops that hand out their iterations one by one.         *)
OrderedRegionsSeen ==
  program.chunk = 1 =>
  \A t \in Tasks :
    Checks(t) /\ Last(hist).type = "workshare" /\ Knows(t) => Verdict(t) = Before

(* A claim that ordered regions put the recorded access before the current *)
(* one is true when the recorded iteration is the earlier one.             *)
OrderedClaimsHold ==
  \A t \in Tasks :
    /\ Checks(t) /\ Last(hist).workShareId < Last(label[t]).workShareId
    /\ Verdict(t) = Before
    => Knows(t)

(* The analysis never meets a pair of labels that its checks rule out.     *)
NeverFatal ==
  \A t \in Tasks : Checks(t) => Verdict(t) # Fatal

\* The programs for which NoMissedRace, NoFalseAlarm and NeverFatal are proved.  Each
\* condition sets aside a case in which a task or a time leaves no trace in the labels.
Tame(p) ==
  \* The phase ranks ordered regions within one chunk only; a section bears the bit of a
  \* place holder; a single block is not told from what its task does after it; static
  \* loops without a barrier are work that no callback tells apart.
  /\ p.constructs \cap (OrderedLoops \cup {"static nowait", "sections nowait", "single nowait"}) = {}
  \* The barriers of a forked region count as barriers of the team of who forked it.
  /\ Depth = 2 => p.constructs \cap NoWait = {}
  \* ... and give an iteration or a block that forks a segment like that of another one.
  /\ p.forkPlaces \subseteq {"free"}
  \* The member of a team of one is taken for the initial task.
  /\ \A d \in 1..Depth : TeamSizes[d] > 1
  \* The offsets of the initial task, and of a member that forks, do not wrap around.
  /\ p.regions * (p.length + 1) < OffsetLimit
  /\ Depth = 2 => TeamSizes[1] * (p.regions * (p.length + 1) + 1) <= OffsetLimit

\* Loops and sections that t has met, and ordered regions of its chunk that it has
\* entered and left.
Loops(t) == Cardinality({k \in 1..step[t] :
                           script[TeamOf(t)][k] \notin Singles \cup {"barrier", "end"}})
Phases(t) ==
  2 * (iter[t] % program.chunk) + (CASE at[t] = "ordered" -> 1 [] at[t] = "past" -> 2 [] OTHER -> 0)

(* A count that does not fit ends the program, and that happens only to a  *)
(* task that has met as many loops and sections in one region, or ordered  *)
(* regions of one chunk, as the counter has values.                        *)
AbortsOnlyAtTheLimit ==
  aborted => \E t \in Tasks \ {Root} : Loops(t) >= CountLimit \/ Phases(t) >= CountLimit

(* No count outgrows its field, which would end the program: a region may  *)
(* hold as many worksharing constructs as its program likes.               *)
NeverAborts == ~ aborted
-----------------------------------------------------------------------------
(* The inductive invariant behind TypeOK and AbortsOnlyAtTheLimit.         *)

StateTypes ==
  /\ label \in [Tasks -> Seq(SegmentType)]
  /\ step \in [Tasks -> Nat] /\ iter \in [Tasks -> Nat]
  /\ script \in [Teams -> Seq(AllConstructs \cup {"end"})]
  /\ {taken, turn} \subseteq [Teams -> [1..program.length+1 -> Nat]]
  /\ chain \in [Teams -> [1..program.length+1 -> BOOLEAN]]
  /\ aborted \in BOOLEAN

Exists(t) == at[t] \notin {"none", "starting"}
InLoop(t) == at[t] \in {"preamble", "chunk"} \cup WorkPlaces
InSingle(t) == at[t] \in {"single", "other"}

\* A task is where its current construct leads it.
PlacesFit ==
  /\ at[Root] = "free" /\ step[Root] = 0
  /\ \A t \in Tasks \ {Root} :
       /\ step[t] <= Len(script[TeamOf(t)])
       /\ ~ Exists(t) => step[t] = 0
       /\ Exists(t) /\ at[t] # "free" => step[t] > 0
       /\ at[t] = "free" /\ step[t] > 0 => Construct(t) # "end"
       /\ at[t] \in {"barrier", "released"} => Construct(t) \notin NoWait
       /\ at[t] = "ending" => Construct(t) = "end"
       /\ InSingle(t) => Construct(t) \in Singles
       /\ InLoop(t) => Construct(t) \notin Singles \cup {"barrier", "end"}

\* A script ends with "end", and only with it is it longer than the program says.
ScriptsEnd ==
  \A r \in Teams :
    /\ Len(script[r]) <= program.length + 1
    /\ \A k \in 1..Len(script[r]) :
         /\ script[r][k] = "end" => k = Len(script[r])
         /\ k > program.length => script[r][k] = "end"

\* The task that forked runs the program's code; its team starts with it, and the
\* member with index 0 ends the region.
OpenRegions ==
  /\ \A r \in Teams : open[r] => at[r] \in CodePlaces
  /\ \A t \in Tasks \ {Root} :
       /\ at[t] = "starting" => open[TeamOf(t)]
       /\ Last(t) = 0 => (at[t] # "none" <=> open[TeamOf(t)])

(* No member of a team is past a barrier that another one has not reached. *)
Passed(t, k) == k < step[t] \/ (k = step[t] /\ at[t] \in {"released", "free", "ending"})
BarriersHold ==
  \A r \in Teams : \A t, u \in MembersOf(r) :
    /\ \A k \in 1..Len(script[r]) :
         script[r][k] \notin NoWait /\ Passed(t, k) => Passed(u, k) \/ at[u] = "none"
    /\ at[u] = "none" /\ at[t] # "none" =>
         at[t] \in {"released", "ending"} /\ Construct(t) = "end"

\* A member's label is that of the task that forked, an implicit segment and, in
\* a construct, one more; only offsets of the shared part have moved.
ConstructDepth(t) == IF InLoop(t) \/ InSingle(t) THEN 1 ELSE 0
OwnPlace(t) == Len(label[t]) - ConstructDepth(t)
SameCounts(seg, other) == seg.loopCount = other.loopCount /\ seg.phase = other.phase
LabelsNest ==
  \A t \in Tasks \ {Root} : Exists(t) =>
    /\ OwnPlace(t) >= 2
    /\ open[TeamOf(t)] =>
         /\ OwnPlace(t) = Len(label[TeamOf(t)]) + 1
         /\ \A k \in 1..Len(label[TeamOf(t)]) : SameCounts(label[t][k], label[TeamOf(t)][k])

\* What the counts of a label count.
CountsAreTrue ==
  \A t \in Tasks \ {Root} : Exists(t) =>
    /\ label[t][OwnPlace(t)].loopCount = Loops(t) - (IF InLoop(t) THEN 1 ELSE 0)
    /\ at[t] \in WorkPlaces /\ Construct(t) \in OrderedLoops => Last(label[t]).phase = Phases(t)
    /\ at[t] = "ordered" => Construct(t) \in OrderedLoops

IInv ==
  /\ TypeOK /\ StateTypes
  /\ PlacesFit /\ ScriptsEnd /\ OpenRegions /\ BarriersHold
  /\ LabelsNest /\ CountsAreTrue /\ AbortsOnlyAtTheLimit
=============================================================================
