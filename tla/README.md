# TLA+ models of ROMP

ROMP finds data races in OpenMP programs while they run. A Dyninst client
(`src/InstrumentClient`) inserts a call of `checkAccess` before every memory
access of a binary; a library (`src/RompLib`) receives those calls and the OMPT
callbacks of the OpenMP runtime. It gives every task a *label*, keeps for every
byte of memory a history of recorded accesses with their labels, and decides
from two labels alone whether the recorded access happened before the current
one. If not, and if the accesses conflict and share no lock, it reports a race.

This directory holds TLA+ modules translated from that code, the configurations
that check them with TLC, and proofs checked by TLAPS. `PROJECT.json` lists the
runs, the seeded faults that show each property can fail, the map from
definitions to source lines, the hazards and the theorems.

## Inventory

| Component | State | Operations | Used by |
|---|---|---|---|
| Queueing lock, `McsLock.cpp` | the word `tail`; a node (`next`, `blocked`) on the stack of each caller | `mcsLock`, `mcsTryLock`, `mcsUnlock`, the guard `LockGuard` | access check, recycling, dependence graph |
| Shadow memory, `ShadowMemory.h` | a two-level page table per instance; two thread-local static caches of one page each | `getShadowMemorySlot`, the destructor | access check, recycling |
| Segments and labels, `Segment.cpp`, `Label.cpp` | 64-bit words of packed fields; a label is a vector of shared pointers to segments | `gen...Label`, `mutate...`, `compareLabels` | callbacks, analysis |
| Happens-before analysis, `Core.cpp` | none | `happensBefore` and what it calls; `analyzeRaceCondition`; `manageAccessRecord` | access check |
| Callbacks, `Callbacks.cpp` | `TaskData` of each task, `ParRegionData` of each region | `implicit_task`, `parallel_begin/end`, `sync_region`, `work`, `dispatch`, `mutex_acquired/released`, `task_create`, `task_schedule`, `dependences`, `thread_begin/end` | the OpenMP runtime |
| Access check, `RompLib.cpp`, `AccessHistory.cpp`, `Record.cpp` | an access history per slot: a flag word, a lock and a vector of records | `checkAccess`, `checkDataRace` | the instrumented program |
| Lock sets, `LockSet.cpp` | at most four lock identities | `addLock`, `removeLock`, `hasCommonLock`, `isSubset` | callbacks, access check |
| Task dependence graph, `TaskDepGraph.cpp` | edges between tasks of a region, for each variable the first task that named it | `addDeps`, `addEdge`, `hasPath` | callbacks, analysis |
| Data sharing, `DataSharing.cpp` | none (reads stack bounds) | `analyzeDataSharing`, `recycleMemRange`, `recycleTaskThreadStackMemory` | access check, callbacks |
| Runtime queries, `QueryFuncs.cpp` | none | wrappers of OMPT entry points | all |
| Start, `Initialize.h`, `ThreadData.h` | registered entry points | `omptInitialize` | the OpenMP runtime |
| Reporting, `CoreUtil.cpp` | none | prints a race with source lines | access check |
| Instrumentation, `InstrumentClient` | none | rewrites a binary | build time |

How they interact: the runtime calls the callbacks, each on the thread that
executes the task, and they replace that task's label. The program calls
`checkAccess`, which asks the shadow memory for the slot of each byte, takes the
queueing lock of that slot, compares the label of the current task with those of
the records, and drops, replaces or adds records. Labels in records share their
segments with labels that are still in use.

What is hard here:

* *Concurrency.* The lock and the shadow memory are lock-free code: every
  interleaving of their memory accesses counts.
* *Ordering.* Members of a team hear of a barrier one after the other; a label
  in a history is compared with labels of tasks that have, or have not yet,
  passed the same barrier.
* *An encoding that forgets.* A label is a summary of the past in a few bits. It
  has to tell apart all pairs of points in all programs; a unit test sees a
  handful.
* *Life time.* Nodes on stack frames that are gone, pages in caches, task data
  behind pointers in records.
* *Marks in place.* `taskwait` and `taskgroup` write into segments that labels in
  histories share, while other threads compare those labels.
* *Small fields.* Offsets of 16 bits, counts of 4 bits, four locks.

What makes each component correct:

* *Lock*: exclusive; first come, first served; no lost wake-up; no access to the
  node of a call that has returned.
* *Shadow memory*: one slot per granule, the same for all threads; no page lost,
  freed twice or used after free; a page from a cache is as good as a new one.
* *Labels and analysis*: `happensBefore` answers true exactly when the recorded
  access is in the past of the current one, and never meets a pair of labels
  that its assertions exclude; no count outgrows its field.
* *Access check*: the records left stand for all accesses they replaced; a race
  is reported exactly if there is one.
* *Lock sets*: a yes of `isSubset` or `hasCommonLock` is right, for at most four
  locks.
* *Dependence graph*: a path exactly when the dependences order two tasks.

`PROJECT.json` lists the hazards, each at its line. Where the code does not stand up
to one, no passing run can reach it; the program and the property that fails are
below, under "Disagreements between code and comments".

## Modules

| Module | Models | Uses |
|---|---|---|
| `FifoLock` | what a lock that serves in order of arrival promises | |
| `McsLock` | `McsLock.cpp`, one action per access to a shared word | refines `FifoLock` |
| `McsLock_proofs` | the theorems about `McsLock` | extends `McsLock` |
| `ShadowMemory` | `ShadowMemory.h` and its two callers | |
| `ShadowMemory_proofs` | the theorems about `ShadowMemory` | extends `ShadowMemory` |
| `Segments` | `Segment.cpp`: a segment as a record of its fields | |
| `Labels` | `Label.cpp`: generation, mutation and comparison of labels | extends `Segments` |
| `HappensBefore` | `happensBefore` of `Core.cpp` and all it calls | extends `Labels` |
| `HappensBefore_proofs` | lemmas about labels and verdicts, for labels of every length | extends `HappensBefore` |
| `LabelledTeams` | the callbacks of implicit tasks and worksharing, with the truth beside the labels | extends `HappensBefore` |
| `LabelledTeams_proofs` | the theorems about control, labels and counts in `LabelledTeams` | extends `LabelledTeams`, `HappensBefore_proofs` |
| `TeamVerdicts_proofs` | the theorems about the answers of the analysis in `LabelledTeams` | extends `LabelledTeams_proofs` |
| `TaskGraph` | `TaskDepGraph.cpp`: `addDeps`, `addEdge`, `hasPath`, with the life of the tasks | |
| `TaskGraph_proofs` | the theorems about `TaskGraph` | extends `TaskGraph` |
| `ExplicitTasks` | the callbacks of explicit tasks, with the truth beside the labels | extends `HappensBefore`, instantiates `TaskGraph` |
| `ExplicitTasks_proofs` | that `ExplicitTasks` implements `TaskGraph`, and the theorems about its labels | extends `ExplicitTasks`, `HappensBefore_proofs`, instantiates `TaskGraph_proofs` |
| `AccessHistory` | `checkDataRace`, `analyzeRaceCondition`, `manageAccessRecord`, `LockSet.cpp`: the records of one byte, with the truth beside them | |
| `AccessHistory_proofs` | the theorems about `AccessHistory` | extends `AccessHistory` |
| `MCMcsLock`, `MCShadowMemory`, `MCTeams`, `MCExplicitTasks`, `MCAccessHistory` | instances for TLC | |

### McsLock

A thread is its node, because the node of a call is a local variable of the code
that locks: `next[t]` and `blocked[t]` are the fields of the node of `t`, `tail`
is the lock, `pred[t]` and `succ[t]` are the locals `predecessor` and
`successor`. `CallLock` and `CallTryLock` begin with arbitrary contents of the
node, as the stack does. The other actions are the accesses in program order:

| Code | Actions |
|---|---|
| `mcsLock` | `CallLock`, `InitNext`, `SwapTail`, `SetBlocked`, `LinkBehind`, `StopSpinning` |
| `mcsTryLock` | `CallTryLock`, `TryInitNext`, `TryCasTail` |
| `mcsUnlock` | `CallUnlock`, `LoadNext`, `CasTail`, `AwaitNext`, `Signal` |

`queue` is a history variable: the order in which threads swapped into `tail`.
The memory model is sequentially consistent. The code uses acquire and release
orders; the model does not show what weaker orders would add. A model with
reordered stores is not planned: the code pairs each release with the acquire
that reads it.

### ShadowMemory

The table of an instance is `table[m]`, the first-level pages are functions in
`entries`, and `heap` says which pages are allocated. The shared instance of
`RompLib.cpp:25` is `Shared`; an instance that `recycleMemRange` makes on its
stack bears the name of the thread, and `Destroy` is its destructor. A call of
`getShadowMemorySlot` goes through `testL1`, `casL1`, `testL2`, `casL2`, `found`,
where each compare-and-swap is one action with two outcomes (`Publish...`,
`Save...`). Shifts and masks are divisions and remainders by constants. `calloc`
takes any free page; which one does not matter, so `Calloc` chooses. It never
fails: the page sets of the runs are large enough that its guard is never the
reason why nothing happens.

### Segments, Labels, HappensBefore

A segment is a record with one field per bit field. Bits that the code uses
twice stay one field: `bit2` is both the mark of a place holder and that of a
section (`Segment.cpp:278-301` and `327-336`). The getters read what the code
reads: `TaskGroupPhase` returns the upper half of `_taskGroup`.
The widths of the fields are constants: `OffsetLimit` is 65536 in the code
(`setOffsetSpan` masks), `CountLimit` is 16 (the setters of taskwait, phase and
loop count end the program). With smaller values a run meets the limits. `SameSegment`
ignores what `operator==` ignores. The analysis has one operator per function
and returns `Before`, `Concurrent` or `Fatal`; `Fatal` stands for a fatal log
message or a failed check, which both end the program.

### LabelledTeams

A team is named by the task that forked it and a task by its path. `Fork` is
`parallel_begin`; `ImplicitTaskBegin`, `ImplicitTaskEndMaster` and
`ImplicitTaskEndWorker` are `implicit_task`; `BeginLoop`, `EndLoop` and their
likes are `work`; `Dispatch` is `dispatch`; `OrderedAcquired` and
`OrderedReleased` are `mutex_acquired` and `mutex_released`; `BarrierEnd` is
`sync_region` at the end of a barrier. `OpenBarrier` is the runtime: it opens a
barrier when every member has reached it, and the members are told one by one.
The members of a team meet the same constructs in the same order, as OpenMP
demands; the first to arrive chooses which. Iterations are handed out one by one
to whoever asks, those of an ordered loop also in chunks of `program.chunk`, which
have one `dispatch` and one segment; an ordered region begins when the one before
has ended, and every iteration has one ordered region. `Programs` is the set of
programs of a run, each a record of bounds: the constructs it uses, how many a team
meets, how often a task forks and where, iterations, and chunk.

One access is recorded (`Record`), at any point of any task. Beside the labels
the module keeps the truth: `knows[t]` says that the recorded access is in the
past of what `t` does next, `inWork[t]` the same for the iteration that `t`
executes, `loose[t]` that it is in an iteration of `t` which no barrier has
followed yet, `chain[r][k]` that it precedes the end of the last ordered region
of construct `k`. The rules are those of the OpenMP task graph as the comments
of `Core.cpp` read it: a fork precedes the team, the team precedes what follows
its join, everything before a barrier precedes everything after it, an ordered
region precedes the next one, and an iteration is a task of its own which is
concurrent with other iterations and with what its task does afterwards, up to
the next barrier (`Core.cpp:428-433`, `598-639`), whichever thread executes
them.

Static loops have no `dispatch` callback: the runtime tells of nothing inside of
them, so they are one chunk of work whose label is a place holder, in order with
what the same thread does around it. Two static loops without a barrier in
between, where the text of the comments and the schedule of the runtime pull in
different directions, are not in a passing run.

### TaskGraph

A task that names variables in `depend` clauses is given to `addDeps` by
`on_ompt_callback_dependences`, under the lock of the region; `Dependences` is that
callback, one step. `deps[v]` is the vector that `_deps` keeps for a variable, of
which the code fills only the first place, `graph[t]` the successors of `t`.
`HasPath` says what the search of `hasPath` computes: the target is in every set of
tasks that holds the source and is closed under edges. `TaskCreate` numbers the
tasks of the region (`expTaskCount`). The life of the tasks is that of the runtime:
a task starts when the earlier siblings that its clauses name are complete
(`MustPrecede`), and mutually exclusive siblings do not run at the same time.

### ExplicitTasks

`ExplicitTasks` instantiates `TaskGraph` on its own variables and adds labels and
the other callbacks. A task is named by its path; `Creators` are the members of the
team that create tasks.

Unlike the labels of `LabelledTeams`, which are values, a label is a sequence of
references here, because the code shares segments between labels and marks them in
place. `segs[t]` holds the segment objects of task `t`; a mutation clones, so
`MutateLast` appends a new object, and `TaskwaitEnd` and `GroupEnd` change old ones
(`MarkWaited`, `MarkGroupSync`). `Deref` reads a label. `children[t]` is
`childExpTaskData`.

| Code | Actions |
|---|---|
| `task_create`, `dependences` | `Create`, `RegisterDependences` |
| the runtime starts a task | `Begin` |
| `task_schedule` with a complete task | `Finish`, which pops the task's segment off its label |
| `sync_region`, taskwait | `ReachTaskwait` (the runtime's part), `TaskwaitEnd` |
| `sync_region`, taskgroup | `GroupBegin`, `GroupEnd` |
| `work` for single | `SingleBegin`, `SingleEnd` |
| `work` for a loop, `dispatch`, `mutex_acquired/released` | `LoopBegin`, `Dispatch`, `OrderedAcquired`, `OrderedReleased`, `LoopEnd` |
| `sync_region`, barrier | `ReachBarrier`, `OpenBarrier` (the runtime's part), `BarrierEnd` |
| `checkAccess` with an empty history | `Record` |

A barrier replaces the segment of the initial task in the label of every member;
all of them get the same new value, so `Init` lists those segments and `BarrierEnd`
takes the next one.

The truth: `knows[t]` says that the recorded access is in the past of what `t` does
next, by creation, depend clauses, taskwait, taskgroup, barriers and ordered regions;
`seen[t]` says the same of those orders that leave a trace in the labels. Depend
clauses leave none (their order is in the graph), nor does a taskwait for the
children of a child, nor a taskgroup for what its own task does next.

A program is a record of bounds again: tasks, how deep they nest, taskwaits,
taskgroups and barriers, the clauses, and the construct that ends with the first
barrier. The ordered loop has one iteration for each member. A program has fewer
barriers than the offset has values: each barrier moves the offset of the initial
task by one, and where it wraps two barriers look like one.

`MarksKeepOrder` sets aside two accesses of one iteration, as `TracedOrderIsSeen`
does: their labels differ in the segment of the iteration, and a mark in the older
one can change what the code makes of that (see the disagreements).

### AccessHistory

`records`, `raceFound` are the fields of the history of one byte; `cur`, `at`,
`isBefore`, `sameLabel` (`diffIndex == eSameLabel`) and `skipAddCur` the
variables of the call of `checkDataRace` that holds its lock. `CheckAfterRace`,
`CheckFirst` and `BeginWalk` are the ways into the call, `ExamineOrder` and
`ExamineExcused` the loop body, one record each, `EndWalk` its end. The loop is
split because its variables live longer than one turn: `ExamineExcused` is the
turn in which `analyzeRaceCondition` returns at `Core.cpp:32-40`, before it sets
`isHistBeforeCurrent` and `diffIndex`, and `manageAccessRecord` works with what
the turn before left there. What other tasks do in between is interleaved with
the turns. That one call at a time walks the records is
`McsLock!MutualExclusion`.

Labels are abstract here. A label is a task and a number that grows when the
task synchronises, and `past[t]` holds the labels that precede what `t` does.
`Synchronise(u, t)` puts all that `u` has done before what `t` does next: forks,
joins, barriers and ordered regions are made of it. How far the real labels
answer `Precedes` is the subject of `LabelledTeams` and `ExplicitTasks`; the
dependences of explicit tasks, which `analyzeRaceCondition` consults after the
labels, are part of the same order. Whether a task is in a reduction is an input of each check.

Two variables are read before they are set: `diffIndex` (`RompLib.cpp:76`), when
the first record is excused, and the second bit of `Record::_state`, which the
constructor does not initialise and `setHasHwLock` would set if it were called
(`Record.h:16-24`). `Garbage` says what tests of them may answer. Beside the
records the module keeps the accesses, `raced` for two of them that race, and
`blind` for a step that the code takes on grounds that are not about the record
at hand: a record dropped or an access skipped by the turn's predecessor's
verdict, or a race excused by uninitialised bits.

`IsSubset` says what the loops of `LockSet.cpp:100-108` compute: they compare
every lock of one set with every lock of the other, so two equal sets of two
locks are not subsets of each other. That keeps more records than needed and
loses none (`IsSubsetIsSound`). An access by an atomic instruction, or to memory
of one thread, returns before it reaches the records and is not modelled; the
flag of recycled memory is never set in a history that accesses are checked
against (run `recycle_unmarked`).

## Runs

Passing runs:

| Run | Question | Bounds |
|---|---|---|
| `lock` | Is the lock exclusive and first come, first served, does it leave the nodes of returned calls alone, and does every call return? | 3 threads |
| `shadow_race` | Do threads that race for the pages of an address agree on its slot, without losing pages? | 3 threads, 2 addresses, tables of 2 by 2 |
| `shadow_recycle` | Does it stay so while a thread makes, fills and destroys shadow memories of its own on the same caches? | 2 threads, 3 addresses |
| `teams_worksharing` | Does the analysis find exactly what happened before, with barriers, loops, sections and single, and does only a full loop counter end the program? | a team of 3; 2 constructs of any kind, or 3 with 1 iteration, so that the loop count reaches its limit of 3; an offset of at most 4 |
| `teams_ordered` | Does it see chains of ordered regions, and only those, and does only a full phase end the program? | a team of 3; 2 ordered loops of 3 iterations, or a loop with 2 chunks of 2 iterations or 1 chunk of 3, which reaches the limit of 5 |
| `teams_nested` | Does it tell inner teams apart and see their joins, and that a region follows another? | 2 by 2 members, with a loop, or with 2 regions each; an offset of at most 5 |
| `tasks` | Are the claims that marked labels and paths of dependences make about explicit tasks true, and are the orders seen that labels keep? | 2 members, the first creates tasks; 7 programs, below |
| `history` | Do the records that are left find a race exactly if there is one? | 2 tasks, 1 lock, 1 synchronisation, 3 accesses |

Why the bounds are enough:

* *Lock.* Two threads meet as unlocker and late successor; the third is the one
  that arrives in between, or that already waits behind the second. A fourth
  thread only makes the queue longer, and the proofs cover every number.
* *Shadow memory.* A page is raced for by two threads while a third comes later
  and finds it, or starts from a cache that an earlier race has filled. Two
  entries at each level give addresses that share both pages, one page and none;
  address 13 lies beyond the table, as a non-canonical address does. The second
  run has ranges that cross a shadow page, and a cache that holds a page from
  another instance.
* *Teams.* A pair of labels has a recorded and a current task; a third member is
  the one that arrives before, between or after both at each barrier. Two
  constructs in a row give every construct a predecessor and a successor of every
  kind. Two levels of nesting give a task a sibling, a child, a nephew and a
  grandparent. Ordered loops have three iterations so that some member takes two
  of them and a chain of length two exists, and two loops so that iterations of
  different loops are compared.
* *Widths.* The loop count, the phase and the offset are as narrow as each run
  fills: one value less and a property fails (`LoopCountFitsLess`,
  `PhaseFitsLess`, `SetOffsetTooNarrow` are seeded faults). The real widths differ
  in nothing but the number of constructs it takes.
* *Explicit tasks.* The programs of `MCExplicitTasks`: `Waits` has 3 tasks nested
  to any depth, with a taskwait in each, so that a child and a grandchild are
  waited for or not and a sibling is made before and after; `Barriers` and `Single`
  have 2 tasks around a barrier and a single block; `Groups` has 2 tasks and a
  taskgroup in each task; `Depends` has 3 siblings with clauses of every type on
  one variable and inout on another, the fewest for a path of length two and for a
  variable that a third task names; `Loop` has a task and taskwaits in the
  iterations of an ordered loop, `LoopTree` a task and its child. Only one member
  creates tasks, as the graph of dependences mixes up creators (see the
  disagreements); the other one is who compares labels in the meantime.
* *History.* Dropping a record loses a race only with a third access, so three
  are needed and suffice to lose one; one synchronisation orders any two of
  them; one lock makes lock sets that are null, empty, equal, included and
  disjoint. The proofs cover every number of tasks, locks, synchronisations and
  accesses, a third task among them, for which TLC needs minutes.
* In `AccessHistory`, `MaxSyncs` and `MaxAccesses` bound the program that runs;
  they appear in the guards of `Synchronise`, `Observe` and `Runs`. A fifth lock
  ends the program, so `MutexAcquired` is not enabled for it.
* In `LabelledTeams` and `ExplicitTasks`, the fields of a program bound what it
  does; they appear in the guards of `Reaches`, `Fork`, `Dispatch`, `Create`,
  `ReachTaskwait`, `GroupBegin` and `ReachBarrier`.

`NoMissedRace` and `NoFalseAlarm` are the two halves of "the analysis finds what
happened before". `OrderedRegionsSeen` and `OrderedClaimsHold` are the parts of
them that hold with ordered loops, where the full halves do not (see below).
`NeverFatal` says that the assertions of `Core.cpp` hold,
`AbortsOnlyAtTheLimit` that a setter ends the program only when a count is full.
For explicit tasks, `OrderClaimsHold` is the part of `NoMissedRace` that the code
keeps, `TracedOrderIsSeen` the part of `NoFalseAlarm`, `OnlyOrphansAreFatal` the
part of `NeverFatal`; `RegionDividesIteration` is the part of both that is left of
two accesses of one iteration, those on different sides of its ordered region;
`MarksKeepOrder` is about threads that compare labels while another one marks them; `PathsAreOrdered` and `FirstTaskIsFound` are about the
graph of dependences.
`RacesAreFoundUnlessBlind` and `FoundRacesAreReal` are the two halves of "a race
is reported exactly if there is one"; `RecordsStandForAccesses` is why the first
holds although records are dropped.

`PROJECT.json` lists for every property of these runs a seeded fault, an
operator marked "Seeded fault" in the modules, under which TLC finds it violated.

### Fairness

Only `McsLock` states fairness: weak fairness of every thread's next step inside
a call. The code spins, so it depends on the operating system to schedule every
thread in the end, and on nothing else. The critical sections under the lock
(`RompLib.cpp`, `DataSharing.cpp`, `Callbacks.cpp:570`) are bounded loops. The lock
of a region may be taken under the lock of a slot (`Core.cpp:54`), never the other
way round, so no thread waits for a lock that waits for it, and `CallUnlock` is
among the fair steps. Nobody has to call. The other modules state safety only. Label
mutations and the analysis are not shared state: each runs to its end on one
thread, or under the lock of the slot.

`CHECK_DEADLOCK` is on everywhere. In `LabelledTeams` and
`ExplicitTasks` the program may end (`ProgramEnds`), or be ended by a failed check,
and stays so; in `AccessHistory`
it ends after its last access (`Done`).

## Disagreements between code and comments

Four runs end in a violation on purpose; `PROJECT.json` quotes the comments.

| Run | What it shows |
|---|---|
| `sections_nowait` | A place holder and a section share a bit (`Segment.cpp:278-301`, `327-336`), so accesses in a section and what its task does after a nowait are called ordered |
| `recycle_unmarked` | `recycleMemRange` sets its marks in a temporary shadow memory (`DataSharing.cpp:76`) |
| `tasks_creator` | An access that a task makes after it has created a child is called ordered before the accesses of the child, which runs at the same time (`Core.cpp:390`) |
| `stale_verdict` | A record that shares a lock with the access is dropped on the verdict about the record before it (`Core.cpp:32-40`, `RompLib.cpp:96`), and a later race with its access is missed |

With `Garbage = {FALSE, TRUE}`, `RacesAreFound` fails of `AccessHistory` after two
accesses: their uninitialised bits make them count as atomic, and different
locks exclude each other (`Record.h:20`, `Core.cpp:79`). The reporting of a race
does not stop the walk, so one access may report several races, where the comment
in `RompLib.cpp:44-50` speaks of one per location.

More come out of `LabelledTeams` with other constants, one at a time. The widths
are those of the code; a program is given as its arguments of `Program` in
`MCTeams`: constructs, number of them, regions, iterations, places to fork.

| Team sizes, program | Property that fails | Reason |
|---|---|---|
| 2, `{"single nowait"}, 1, 1, 1, {}` | `NeverFatal` | a single construct without a barrier leaves no trace: the label of the task afterwards is a prefix of the label recorded in the block, and the later access is taken for the earlier one (`Core.cpp:106`) |
| 2, `{"ordered"}, 1, 1, 2, {}` | `NoMissedRace` | `analyzeOrderedSection` never compares the iteration numbers it reads: an iteration that has not reached its ordered region counts as before an earlier one that has (`Core.cpp:241-247`) |
| the same | `NoFalseAlarm` | an access that a member made before the loop is never found before an ordered region (`Core.cpp:194`) |
| 3, `{"ordered nowait"}, 1, 1, 4, {}` in chunks of 2 | `OrderedRegionsSeen` without its hypothesis | the phase counts the regions of one chunk, so the first region of the second chunk has a lower rank than the last of the first chunk, and the two are called concurrent (`Core.cpp:247`) |
| 1, `{"ordered"}, 1, 1, 8, {}` in chunks of 8 | `NeverAborts` | the phase of a chunk of eight iterations reaches 16 (`Segment.cpp:221`) |
| 2 by 2, `{"dynamic"}, 1, 1, 1, {"work"}` | `NoFalseAlarm` | the barriers of a region forked in an iteration move the segment of the iteration, which is then taken for another iteration (`Core.cpp:143`) |
| 2 by 2, `{"single"}, 1, 1, 1, {"single"}` | `NeverFatal` | the same for the block of a single construct, where a check fails (`Core.cpp:402`) |
| 2 by 2, `{"dynamic nowait"}, 1, 1, 1, {"free"}` | `NoMissedRace` | the barriers of a forked region move the segment of the forking task as a barrier of its own team would, and hide that its iteration has not joined (`Core.cpp:160`) |
| 1, `{"static"}, 16, 1, 0, {}` | `NeverAborts` | nothing resets the loop count within a region, and its field has four bits (`Segment.cpp:233`) |
| 1, `{"dynamic nowait"}, 1, 1, 2, {}` | `NeverFatal` | a member of a team of one has span 1 and is taken for the initial task (`Core.cpp:135`) |

These cases are why the passing runs of `LabelledTeams` leave out nowait after
sections and single, forks inside worksharing constructs, nowait together with
nested regions, and teams of one. `Tame` of `LabelledTeams` says of a program that
it stays outside of them, and the proofs show that nothing else goes wrong: of a
tame program every answer is right (see "Verdicts on teams").

What `ExplicitTasks` shows with other programs of `MCExplicitTasks`, or without
what a property sets aside:

| Program | Property that fails | Reason |
|---|---|---|
| `Orphans` | `NeverFatal` | a task whose creator is complete accesses memory after the grandparent has waited and created another task: the counts in the labels run backwards (`Core.cpp:558`) |
| `Orphans` | `NoFalseAlarm` | a child that has completed has lost its segment, so its parent's taskwait marks a segment further up, and the grandchildren are not found waited for (`Callbacks.cpp:112-114`) |
| `Depends` | `EveryDependenceIsFound` | `_deps` keeps only the first task that named a variable, where the comment speaks of all pairs in the vector (`TaskDepGraph.cpp:13-16`) |
| `Depends`, two creators | `PathsAreOrdered` without its hypothesis | the graph belongs to the region, so tasks of different creators get edges, which OpenMP does not order |
| `Groups` | `OrderClaimsHold` without its hypothesis | a taskgroup that began after a task was made counts as having waited for it: `analyzeTaskGroupSync` finds a lower number and the same level before and after (`Core.cpp:579`) |
| `Single` | `NoFalseAlarm` | a taskwait inside of the block is counted in the segment of the block, so tasks created before the construct are not found waited for |
| `Loop` | `TracedOrderIsSeen` for two accesses of one iteration, in one phase | creating a task gives the iteration a new segment, and the two are compared as two iterations (`Core.cpp:143`) |
| `Groups` with three taskgroups | `TracedOrderIsSeen` for a task made inside of two taskgroups, one in the other | `analyzeTaskGroupSync` asks the taskgroup that has ended to be as deep as the current ones, so a task made in a first taskgroup is not found to precede one made in a second and third (`Core.cpp:579`) |
| `Loop` | `OrderClaimsHold` for a later iteration | as in the second row of the table above |
| `Loop` with two tasks, two levels | `OrderClaimsHold` | a child waits for a child of its own that has completed and so lost its segment: the mark lands in the segment of the waiting task, which then looks waited for by the iteration (`Callbacks.cpp:112-114`, `Core.cpp:319`) |
| `Loop` with two tasks, two levels and a taskgroup | `MarksKeepOrder` for two accesses of one iteration | the taskgroup gives the iteration a new segment, and a mark in the old one makes the two look like two iterations (`Callbacks.cpp:113`, `Core.cpp:143`) |

Also seen while modelling: `isMutexTask` is set and never read; `taskloop` and any
kind of construct that `on_ompt_callback_work` does not know leave the task without
a label (`Callbacks.cpp:413-416`), and the next task it creates ends the program
(`Callbacks.cpp:467`).

## Proofs

### The lock

`McsLock_proofs` proves, for every set of threads:

| Theorem | Statement |
|---|---|
| `Invariance` | `Spec => []IInv` |
| `TypeCorrectness` | `Spec => []TypeOK` |
| `Exclusion` | `Spec => []MutualExclusion` |
| `NodesOfReturnedCallsAreLeftAlone` | `Spec => NodeUntouchedAfterReturn` |
| `Refinement` | `Spec => ImplementsFifoLock` |
| `QueueShape` | `Spec => []QueueInvariant` |

The only assumption is `NilAssumption`: the null pointer is no thread. `Threads`
need not be finite.

Mutual exclusion is not inductive: nothing in it says why a spinning thread
still finds its flag set. `IInv` is `TypeOK` and `QueueInvariant`, whose parts tie
the words of the lock to the history variable `queue`: its members are exactly
the threads between swap and hand-over, once each (`QueueIsMembers`); `tail` is
its last, whose `next` is still null (`TailIsLast`); every member but the first
waits behind its predecessor, with its flag set and the predecessor's `next`
pointing to it once it has linked (`OthersWait`); the first owns the lock or has
been signalled (`FirstMayRun`); and an unlocker past its compare-and-swap has a
second behind it, which is the one it signals (`SuccessorIsSecond`).
`TypeOKStep` and `QueueInvariantStep` show that each action keeps `IInv`, action
by action and part by part. An owner is the first of the queue (`OwnerIsFirst`),
which gives exclusion. A write to a node goes to the second of the queue or to a
predecessor in it, and members of the queue are not idle, which gives
`NodesOfReturnedCallsAreLeftAlone`. For the refinement, `owners` of `FifoLock` is
the set of threads between the return of `mcsLock` and the hand-over: a swap
arrives, the end of a spin admits, a hand-over leaves, all else stutters.

### The access history

`AccessHistory_proofs` proves, for all sets of tasks, every finite set of locks,
and any numbers of synchronisations and accesses:

| Theorem | Statement |
|---|---|
| `Invariance` | `Spec => []IInv` |
| `TypeCorrectness` | `Spec => []TypeOK` |
| `Pruning` | `Spec => []RecordsStandForAccesses` |
| `Completeness` | `Spec => []RacesAreFoundUnlessBlind` |
| `Soundness` | `Spec => []FoundRacesAreReal` |

The assumptions are those of the module: the locks are finitely many and the null
pointer is no set of locks (`LocksAssumption`), a test of an uninitialised
variable has an answer (`GarbageAssumption`), the bounds are numbers
(`HistoryBoundsAssumption`), and "no call" is no access (`NoAccessAssumption`).

A record *stands for* an access if whatever races with the access, now or later,
races with the record (`StandsFor`): it is a write if the access is, its locks
are among those of the access, and it precedes only what the access precedes.
That records stand for all accesses is not inductive during a walk. `IInv` adds
that an access is skipped only for a record which the iterator has passed
(`SkippedIsStoodFor`), that a race not yet reported is one with a record still
ahead of the iterator (`RaceIsAhead`), that the walk knows every race of its
access (`RacesAreObserved`), that records are made of accesses, and that no access
bears a label its task has not reached (`LabelsAreReached`). The argument: the
access that is checked stands for a record which `manageAccessRecord` drops
(`CurrentStandsForDeleted`), because no other task can be after it yet; a record
that lets the access be skipped stands for it (`SkipperStandsForCurrent`);
standing for is transitive, and synchronisation keeps it, because it treats all
labels of the past alike (`StandsForAfterSynchronise`). `WalkStep` says what
`erase` does to the records on both sides of the iterator. `ExamineStep` joins
these for one turn of the loop, and asks of the turn only that it be not blind.

### The dependence graph

`TaskGraph_proofs` proves, for every set of tasks and variables and every
combination of clauses:

| Theorem | Statement |
|---|---|
| `Invariance` | `GraphSpec => []IInv` |
| `TypeCorrectness` | `GraphSpec => []GraphTypeOK` |
| `PathsOrder` | `GraphSpec => []PathsAreOrdered` |
| `FirstIsFound` | `GraphSpec => []FirstTaskIsFound` |

No assumption is needed. That paths are orders does not follow from itself: `IInv`
adds that numbers follow the order of creation (`IdsFollowCreation`), that an entry
of `_deps` is a task that named the variable in that way (`EntriesAreTasks`), that a
registered task has an edge from every entry its clause asks for
(`EntriesHaveEdges`), and that an edge between siblings leads from an earlier task
to a later one that must wait for it (`EdgesAreDependences`). `HasEdgeIsOrder` shows
that the table of clause types in `addDeps` is exactly the order of OpenMP.
`PathsFollowEdges` takes a source that is not complete: the source and the tasks
that have not started are closed under edges, because every successor waits for its
predecessor, so a path from the source ends at a task that has not started.

`ExplicitTasks_proofs` proves for the composed system, with any programs and teams:

| Theorem | Statement |
|---|---|
| `ImplementsGraph` | `Spec => Graph!GraphSpec` |
| `PathsOrder` | `Spec => []PathsAreOrdered` |
| `FirstIsFound` | `Spec => []FirstTaskIsFound` |

`GraphStep` shows that each callback is a step of the graph or leaves it alone; it
needs that a program uses clauses on the given variables (`ProgramsAssumption`). The
other two follow through the refinement. `SameSteps` is there because the prover
does not see that the operators of two instances of one module are the same.

### The shadow memory

`ShadowMemory_proofs` proves, for every set of threads, addresses and pages and for
tables and pages of every size:

| Theorem | Statement |
|---|---|
| `Invariance` | `Spec => []IInv` |
| `TypeCorrectness` | `Spec => []TypeOK` |
| `CacheEmptiness` | `Spec => []CacheIsEmptyWhenSaving` |
| `SlotsAreGranules` | `Spec => []OneSlotPerGranule` |
| `SparePagesBlank` | `Spec => []SparePagesAreBlank` |
| `PagesHaveOneHome` | `Spec => []EachPageHasOneHome` |

The assumptions are those of the module: sizes are positive (`SizesAssumption`), a
page holds a whole number of slots (`GranularityAssumption`), addresses are numbers
(`AddressesAssumption`), and names of threads, instances and pages are distinct
(`NamesAssumption`).

That each page has one home counts places, and says nothing about who may move a
page where. `PagesInvariant` says it with holders: no page is in two table entries
(`TablesAreApart`), in two hands or caches (`SparesAreApart`, `HandIsNotCache`), or
in a table and a hand (`SparesAreInNoTable`), and a page is allocated exactly if
something holds it. Each step moves at most one page from one holder to
another (`L1PageAllocated`, `L1PagePublished`, their likes for shadow pages,
`PagesStep`), but for the destructor, which frees all that hangs on one table and
nothing that hangs on another (`PagesDestroyed`).

`OneSlotPerGranule` speaks of calls that returned at different times. `FoundSlotsStay`
ties every slot ever returned to what the table holds now; it is kept because an
entry of a shared table never changes once it is set, since the compare-and-swap
expects the null pointer. Two addresses then have one slot if they agree in the two
indices and the index into the page, which are the digits of the number of the
granule (`IndicesAreDigits`, `GranuleIsIndices`), so equal digits are equal granules.

### Teams and their labels

`LabelledTeams_proofs` proves, for teams of every size, one or two levels of them, and
every program:

| Theorem | Statement |
|---|---|
| `Invariance` | `Spec => []IInv` |
| `TypeCorrectness` | `Spec => []TypeOK` |
| `AbortsOnlyAtLimits` | `Spec => []AbortsOnlyAtTheLimit` |
| `LabelsAreNested` | `Spec => []LabelsNest` |
| `CountsCount` | `Spec => []CountsAreTrue` |
| `BarriersKeepTeams` | `Spec => []BarriersHold` |

It assumes that a team has a member and its size fits the field of the span
(`TeamSizesAssumption`), that programs are bounds (`ProgramsAssumption`), and that the
widths are positive (`WidthAssumption`). With `OffsetLimit = 65536` and `CountLimit = 16`
these are the widths of the code.

That the counts of a label fit their fields depends on what they count, and this
on where the task is in the constructs of its team. The proof has four layers, each
kept by every step with the help of the ones before it. `Control` leaves the labels
out: a task is at a place that its construct has (`PlacesFit`), a script ends with
"end" (`ScriptsEnd`), a region is open while its master is in the code (`OpenRegions`),
and nobody is past a barrier that a team mate has not reached (`BarriersHold`), which
is what lets the last member to leave end the region. `Labelled` adds that a member's
label is that of the task that forked it, with equal counts in the shared part, and one or two
segments more (`LabelsNest`). `DataTypes` and `TruthTypes` are about the other
variables. `CountsAreTrue` says that the loop count of a task is the number of loops
and sections it has left, and the phase of an iteration twice the number of ordered
regions of its chunk that it has left, and one more inside of one. A setter that ends
the program then does so for a task that has met as many as the field has values.

### Verdicts on teams

`TeamVerdicts_proofs` proves, for teams of every size, one or two levels of them, and
every program:

| Theorem | Statement |
|---|---|
| `TimesAreTrue` | `Spec => []TameTruth`, the inductive invariant |
| `VerdictsAreTrue` | `Spec => [](Tame(program) => ...)`: the answer is `Before` if the recorded access is in the past, else `Concurrent` |
| `NoRaceIsMissed` | `Spec => [](Tame(program) => NoMissedRace)` |
| `NoAlarmIsFalse` | `Spec => [](Tame(program) => NoFalseAlarm)` |
| `NoPairIsFatal` | `Spec => [](Tame(program) => NeverFatal)` |

The assumptions are those of `LabelledTeams_proofs`. `Tame(program)` is a condition on
the program and the sizes of teams, and never on what happens in a run. It allows
barriers, static and dynamic loops, sections and single in any number and order,
dynamic loops with nowait where regions do not nest, and regions one after another and inside
of one another. What it excludes is what the first table of disagreements shows to
fail: ordered loops, nowait after sections and single or together with nested regions,
forks inside of constructs, and teams of one. Two conditions are of another kind. Static
loops with nowait are left out because the runtime tells nothing of their schedule (see
"LabelledTeams"). And a program has fewer barriers than the offset has values, with
`OffsetLimit = 65536` about 65536 in the life of the initial task, and 65536 divided by the size of
the team for a member that forks teams of its own; where an offset wraps, an old
access looks new (`Segment.cpp:94`). The programs of `teams_worksharing` and
`teams_nested` are tame, those of the second with an offset field that they fill.

None of the three properties is inductive, since they ask only what two labels say now.
The invariant says what labels say at all times, in two layers.

*The labels* (`Timed`). An offset, in units of its span, is a clock of the team: a
barrier turns the clock in the segment of the task that forked, in the label of each
member. `Spelling`: a label has a segment for each team around its task, whose offset
modulo its span is the member's index, and one more for what the task does in a construct.
`TeamsAgree`: the members of a team are at one time, if one counts a barrier from when
it opens and not from when the member hears of it (`Clock`); this time is that of
the task that forked, or later in the last part. `Counted`: an offset is at most the
barriers that the program allows, so no clock wraps. `Plain` says what a tame program
never does.

*The truth* (`Timely`). The place of the recorded label among the clocks decides who has the
access in the past. `Later(t)`: in some team that `t` and the recording task share,
through the same member, the clock of `t` has moved on since. `Around(t)`: `t` is where
the recording task was, or below, at the same time. `Knowing` says that `knows[t]` is
true where one of them holds and the access was not made inside of a construct, and for `Later` in
any case; `Marks` and `InWork` say what happens inside, where the loop count
separates constructs of one time, and the last segment iterations of one construct.
`NotEarlier`, `Joined` and `Unstarted` keep it inductive: nobody is at an earlier time than
the record unless it waits for its team, a task whose clock is that of the record has not
joined the team in which the record was made, and no member is yet to start there.
`CountsStay` keeps the loop counts of members comparable while they are at one time.

Most steps leave all clocks alone, and the lemmas on them (`QuietFrame`, `QuietSeen`)
need not know which step it was. Four kinds of steps turn clocks or copy them: the start
of a member, the opening of a barrier, and the end of a region for its master and for a
worker; each has an effect lemma and a lemma on what the tasks see afterwards
(`BeginSeen`, `OpenSeen`, `MasterSeen`, `WorkerSeen`). `PastMoves` is the heart of
the barrier: the runtime's step makes `knows` the union over the team, and the clocks
of all members pass the record at that moment if any of them had it. The record itself
is a step that makes the invariant true where nothing was to say before (`RecordSeen`).

`Judged` goes from clocks to verdicts. `Compared` says what `compareLabels` finds, a
first difference of which all that comes before is equal. If the difference is at
the place of a team, the clocks differ there, and `analyzeSyncChain` or the
indices decide (`JudgedApart`); if it is inside of the segments of one task, the counts and the
construct do (`JudgedMarked`); if there is none, one label is a prefix of the other,
and the record is above the current task (`JudgedWithin`).

TLC checked both layers on all states of `teams_worksharing` and `teams_nested` before
they were proved.

### Labels of explicit tasks

`ExplicitTasks_proofs` also proves, for teams of every size, any number of creators, any number
and depth of tasks, and every program:

| Theorem | Statement |
|---|---|
| `Invariance` | `Spec => []IInv` |
| `TypeCorrectness` | `Spec => []TypeOK` |
| `OrderIsKept` | `Spec => MarksKeepOrder` |
| `OrphansAlone` | `Spec => []OnlyOrphansAreFatal` |

It assumes that a team has at least two members (`TeamAssumption`; the code takes the
member of a team of one for the initial task, see the disagreements), that a program
is a record of bounds, with a barrier at the end of its construct and fewer waits and
barriers than the fields have values (`ProgramsAssumption`), and positive bounds and
widths (`MaxTasksAssumption`, `WidthAssumption`). `Invariance` uses that `ExplicitTasks`
keeps the types of the graph.

`IInv` has two parts; TLC checks both on the instance of run `tasks`, with the
types, in all of its 325 462 states. `Structure` says what the heap of segments and the labels
look like: which objects a task has (`ObjectOK`), that a taskgroup's begin and end
keep the number and the level in step (`CountsOK`), that a label names the initial
task, a member, perhaps its construct, and explicit tasks (`LabelOK`), and that the
label of a live task ends with a segment of its own below one of its creator
(`LabelEnds`). `Ages` says why labels do not get mixed up. A task that goes on after it
has made something below itself first counts it, in one of four counts of its
segment, whose sum is its `Age`: so what was made below a task stands below a younger
age of it than the one the task has now (`DescendantsAreBelowOlder`), and two labels
that part above their ends do so in segments of different kinds or ages (`PartsShow`).
Barriers replace the first segment of every label of the team one by one, so nobody may
have a label ahead of the member it is below (`NoLabelIsAhead`), and two tasks below the
same segments must differ in kind (`EndsDiffer`). Marks change neither kind nor age.

`MarksKeepOrder` is the property of a step that changes the segments under a pair of
labels while another thread holds them. Every step but `Record` that touches the heap
adds objects to it and marks some (`HeapOnlyGrows`); a mark changes at most the three
fields that taskwait and taskgroup set, and is never taken back (`MarkedOnly`). If the two labels part in a
segment of different kind or age, the first difference that `compareLabels` finds is
that segment or one in front of it, before and after the step alike, and the
analysis of a fixed place only gains from marks: `SyncChainStays`, `DescendentsStay`,
`OrderedSectionStays`, `SameTaskStays` and `VerdictStaysAt` of `HappensBefore_proofs`,
one for each function of `Core.cpp` that reads marks, and one for what `happensBefore`
does with a first difference that is given. If the recorded label ends where they part, the
difference is in the recorded segment itself, and may vanish or appear behind marks;
then the answer is "before" either way (`EqualEndsAreOrdered`), unless the segment is
an iteration, which the property sets aside and `RecordedEnd` singles out.

`OnlyOrphansAreFatal` says when the assertions of `Core.cpp` hold. `OrphansOnly` goes
through `happensBefore` for a recorded label and the label of a task that checks, as it is
when it looks the record up, and shows where an assertion can fail: the first difference
lies in two segments of one task or construct, and the later one waited less often
(`SameTaskIsNotFatal`, `SectionIsNotFatal`). The rest of the answers is excluded by `IInv`:
a current label that is a prefix of the recorded one, by `DescendantsAreBelowOlder`. What is
missing is an order on the segments of one task, and `Lines` supplies it:

| Part of `Lines` | What it says | Why it is needed |
|---|---|---|
| `Lineage` | the explicit tasks along a label are the creators of its task, one below the other | a complete task in a label makes its task an orphan |
| `OneIsBelow` | labels that agree up to a place go on there with the same task or construct | two segments that differ first belong to one task |
| `NewestIsOwn` | a task goes on with a segment that has waited as often as any of its own of that type | no record counts more taskwaits than its task does now |
| `NoWaitSince` | each segment in the label of a live task is as new, or the task below it is complete | a task waits for all that it made, so what is below an older count has ended; nobody leaves a construct in which its tasks are live |
| `OneTime` | all live labels count the same barriers, but for members that a barrier has released and that have not gone on | a barrier replaces the first segment of every label, one member at a time |

`Spec => [](IInv /\ Lines)` is `LinesHold`; TLC checked both on the instance of run `tasks`
before it was proved. `LabelStep` says once what any callback does to any label (it
renews the last segment, drops the label to a member's own, or extends the label of the
task that acts), and `HeapStep` what it does to the heap (it adds one segment to one task,
or none); the five parts go through these two. `NoWaitStep` is where the hypothesis comes from:
`TaskwaitEnd` needs complete children, so of the tasks that the waiting task made
only complete ones stay below its older segments, and what those made are the orphans.

### Only model-checked

* The liveness of the lock, and its refinement of `FifoLock` with fairness:
  temporal reasoning under fairness is out of the prover's reach.
* `OrderedRegionsSeen` and `OrderedClaimsHold` of `LabelledTeams`, and its
  `NeverFatal` in run `teams_ordered`: a program with ordered loops is not tame. The
  invariant would relate phases, iteration numbers and chunks to `chain`, through
  the halving and rounding of `analyzeOrderedSection`.
* `OrderClaimsHold`, `TracedOrderIsSeen` and `RegionDividesIteration` of
  `ExplicitTasks`. They relate what a task
  has waited for to marks that earlier waits left in shared segments; `Lines` says how the
  segments follow each other and not yet what their marks stand for.

## Not modelled

* Explicit tasks in sections and in loops without ordered regions, in nested
  regions, in an iteration of a member that has several, and from more than one
  member in the passing runs; tasks that are switched out, which changes no label; target
  tasks, which end the program.
* Taskgroups around parts of an iteration of an ordered loop: `OrderedAcquired` is
  not enabled inside of a taskgroup, so the branch of `analyzeOrderedDescendents`
  for them is translated and not driven.
* The classification of addresses in `DataSharing.cpp`, which compares numbers
  that the runtime supplies. It treats a local variable of a task as private, even
  while children of the task share it.
* Which accesses are in a reduction, an input of `AccessHistory`; `work` for `workshare`
  and `distribute`, which end the program, and for `taskloop`, which loses the label.
* The wrap-around of the offset: the fields of the runs are filled, not overrun.
* `QueryFuncs`, `Initialize.h`, `CoreUtil` and `InstrumentClient`: wrappers of
  outside interfaces without state that the other parts depend on. The test
  programs under `src/tests` are inputs of the detector.

## Plan

The order follows the dependence of each part on those below it, and within that
the weight of what can go wrong.

1. *Done.* The lock with its abstract specification, checked and proved; the
   shadow memory; the labels and their analysis, driven by teams of implicit
   tasks.
2. *Done.* `AccessHistory`: `checkDataRace` and what it calls, with the lock
   sets, over an abstract order; checked and proved.
3. *Done.* `TaskGraph`: `addDeps`, `addEdge`, `hasPath` against the order that the
   dependences define; checked and proved. `ExplicitTasks`, which implements it:
   explicit tasks with identities for the segments that taskwait and taskgroup mark
   in place; checked, the refinement proved.
4. *Done.* Widths as constants, and chunks of ordered iterations.
5. Local variables that tasks share, and the memory of frames that are gone: the
   classification of `DataSharing.cpp` on the stacks of threads.
6. Proofs. *Done.* `ShadowMemory`, all of its properties; `LabelledTeams`, what labels
   look like and what they count, and that the answers for tame programs are right; `ExplicitTasks`, types, the structure of the heap of segments and
   `MarksKeepOrder`; the lemmas on `HappensBefore` that these need.
7. *Done.* `OnlyOrphansAreFatal`, with the order on the segments of one task.
8. `OrderClaimsHold` and `TracedOrderIsSeen`, from 7 and from the history of what was
   waited for; lemmas on the rounding of phases in `AnalyzeOrderedSection`. A
   specification of what the access check promises, one flag per byte that rises with
   the first race, which `AccessHistory` implements when no step is blind.
