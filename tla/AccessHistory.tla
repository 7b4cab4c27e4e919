--------------------------- MODULE AccessHistory ---------------------------
(***************************************************************************)
(* The access history of one byte and the check of every access to it:     *)
(* checkDataRace of RompLib/src/RompLib.cpp with analyzeRaceCondition and  *)
(* manageAccessRecord of Core.cpp and the lock sets of LockSet.cpp.        *)
(*                                                                         *)
(* A call holds the lock of the history from start to end, so one call at  *)
(* a time walks the records (McsLock!MutualExclusion).  A walk takes one   *)
(* step per record, because the code carries its local variables from one  *)
(* record to the next.                                                     *)
(*                                                                         *)
(* Labels are abstract here.  A task gets a new label whenever it          *)
(* synchronises, and past[t] holds the labels that precede what t does:    *)
(* happensBefore(hist, cur) is then a question about that set.             *)
(* LabelledTeams is about how far the real labels answer it.               *)
(*                                                                         *)
(* Accesses of atomic instructions and of thread-private memory return     *)
(* before they touch the records, and memIsRecycled never holds of a       *)
(* history that checkAccess uses (ShadowMemory!RecycledMemoryIsMarked).    *)
(***************************************************************************)
EXTENDS Naturals, Sequences, FiniteSets, SequencesExt

CONSTANTS
  Tasks,
  Locks,
  NoLockSet,    \* the null lockSet of a task that has held no lock yet
  NoAccess,     \* there is no call under way
  Garbage,      \* what a test of an uninitialised variable may say: of diffIndex,
                \* and of the second bit of Record::_state, which nobody sets
  MaxSyncs,     \* bound: synchronisations
  MaxAccesses   \* bound: accesses that are checked

ASSUME LocksAssumption == IsFiniteSet(Locks) /\ \A s \in SUBSET Locks : s # NoLockSet
ASSUME GarbageAssumption == Garbage \subseteq BOOLEAN /\ Garbage # {}
ASSUME HistoryBoundsAssumption == MaxSyncs \in Nat /\ MaxAccesses \in Nat

LockLimit == 4  \* SmallLockSet::_locks; a fifth lock ends the program

VARIABLES
  stage,      \* stage[t]: how often t has synchronised
  past,       \* past[t]: the labels that precede what t does now
  lockSet,    \* lockSet[t]: TaskData::lockSet
  records,    \* AccessHistory::_records
  raceFound,  \* the flag eDataRaceFound
  cur,        \* the record of the access that is checked
  reducing,   \* TaskData::inReduction of its task
  at,         \* the place of the iterator in records
  isBefore,   \* the local isHistBeforeCurrent
  sameLabel,  \* the local diffIndex is eSameLabel
  skipAddCur, \* the local skipAddCur
  syncs,      \* history: how many synchronisations there were
  accesses,   \* history: the accesses so far (until a race is found)
  count,      \* history: how many there were
  raced,      \* history: two accesses so far race
  blind       \* history: a record was dropped, or an access skipped, on a
              \* verdict that the walk had reached on another record; or a
              \* race was excused by bits that nobody set

tasks == <<stage, past, syncs, lockSet>>
locals == <<cur, reducing, at, isBefore, sameLabel, skipAddCur>>
truth == <<accesses, count, raced, blind>>
vars == <<tasks, records, raceFound, locals, truth>>

Label(t) == <<t, stage[t]>>
AllLabels == Tasks \X (0..MaxSyncs)
LockSets == {NoLockSet} \cup SUBSET Locks
Accesses ==
  [label : AllLabels, isWrite : BOOLEAN, lockSet : LockSets, hasHwLock : BOOLEAN]
TaskOf(a) == a.label[1]

ASSUME NoAccessAssumption == \A a \in Accesses : a # NoAccess

Init ==
  /\ stage = [t \in Tasks |-> 0]
  /\ past = [t \in Tasks |-> {}]
  /\ syncs = 0
  /\ lockSet = [t \in Tasks |-> NoLockSet]
  /\ records = <<>>
  /\ raceFound = FALSE
  /\ cur = NoAccess /\ reducing = FALSE /\ at = 0
  /\ isBefore = FALSE /\ sameLabel = FALSE /\ skipAddCur = FALSE
  /\ accesses = {} /\ count = 0 /\ raced = FALSE /\ blind = FALSE

\* The task whose access is checked is in the check.  The program ends with the
\* last access.
Runs(t) ==
  /\ cur # NoAccess => TaskOf(cur) # t
  /\ count < MaxAccesses

-----------------------------------------------------------------------------
(* Lock sets: mutex_acquired, mutex_released, and their questions *)

Elements(s) == IF s = NoLockSet THEN {} ELSE s

MutexAcquired(t) ==
  \E l \in Locks :
    /\ Runs(t)
    /\ \A u \in Tasks : l \notin Elements(lockSet[u])
    /\ Cardinality(Elements(lockSet[t])) < LockLimit
    /\ lockSet' = [lockSet EXCEPT ![t] = Elements(@) \cup {l}]
    /\ UNCHANGED <<stage, past, syncs, records, raceFound, locals, truth>>

MutexReleased(t) ==
  \E l \in Elements(lockSet[t]) :
    /\ Runs(t)
    /\ lockSet' = [lockSet EXCEPT ![t] = @ \ {l}]
    /\ UNCHANGED <<stage, past, syncs, records, raceFound, locals, truth>>

HasCommonLock(s, other) == Elements(s) \cap Elements(other) # {}

\* Seeded fault: asked the other way round.
IsSubsetOfMe(me, other) == Elements(other) \subseteq Elements(me)

\* The loops return false at the first pair of locks that differ, so beyond one
\* lock the answer is no; and an empty set is no subset of a null one.
IsSubset(me, other) ==
  \/ me = NoLockSet
  \/ /\ other # NoLockSet
     /\ Cardinality(me) <= Cardinality(other)
     /\ \A l \in me, o \in other : l = o

-----------------------------------------------------------------------------
(* Synchronisation *)

\* All that u has done precedes all that t does from now on: a fork, a join, a
\* barrier or the next ordered region.  Both have new labels afterwards.
Synchronise(u, t) ==
  /\ u # t /\ Runs(u) /\ Runs(t)
  /\ syncs < MaxSyncs
  /\ syncs' = syncs + 1
  /\ stage' = [stage EXCEPT ![u] = @ + 1, ![t] = @ + 1]
  /\ past' = [past EXCEPT ![u] = @ \cup {Label(u)},
                          ![t] = @ \cup past[u] \cup {Label(u), Label(t)}]
  /\ UNCHANGED <<lockSet, records, raceFound, locals, truth>>

-----------------------------------------------------------------------------
(* The truth about two accesses: x was made before y, which t makes now *)

Precedes(x, t) == x.label = Label(t) \/ x.label \in past[t]

Race(x, y) ==
  /\ x.isWrite \/ y.isWrite
  /\ ~ Precedes(x, TaskOf(y))
  /\ ~ HasCommonLock(x.lockSet, y.lockSet)

-----------------------------------------------------------------------------
(* checkDataRace *)

\* setHasHwLock is never called.  The bit is not read of a record without locks.
HwLockBits(t) == IF lockSet[t] = NoLockSet THEN {FALSE} ELSE Garbage

\* The record of an access that t makes now.
Access(t, isWrite, hwLock) ==
  [label |-> Label(t), isWrite |-> isWrite, lockSet |-> lockSet[t],
   hasHwLock |-> hwLock]

\* An access in a reduction is trusted not to race with earlier ones (Core.cpp:37).
Observe(a, inReduction) ==
  /\ count < MaxAccesses
  /\ count' = count + 1
  /\ accesses' = accesses \cup {a}
  /\ raced' = (raced \/ (~ inReduction /\ \E x \in accesses : Race(x, a)))
  /\ UNCHANGED blind

\* A race was found here before: the records are dropped and the check ends.
\* Nothing is left to observe.
CheckAfterRace ==
  /\ cur = NoAccess /\ raceFound
  /\ records' = <<>>
  /\ UNCHANGED <<tasks, raceFound, locals, truth>>

CheckFirst(t) ==
  \E isWrite \in BOOLEAN, hwLock \in HwLockBits(t) :
    /\ cur = NoAccess /\ ~ raceFound /\ records = <<>>
    /\ Observe(Access(t, isWrite, hwLock), FALSE)
    /\ records' = <<Access(t, isWrite, hwLock)>>
    /\ UNCHANGED <<tasks, raceFound, locals>>

BeginWalk(t) ==
  \E isWrite, inReduction \in BOOLEAN, hwLock \in HwLockBits(t), garbage \in Garbage :
    /\ cur = NoAccess /\ ~ raceFound /\ records # <<>>
    /\ Observe(Access(t, isWrite, hwLock), inReduction)
    /\ cur' = Access(t, isWrite, hwLock)
    /\ reducing' = inReduction
    /\ at' = 1
    /\ isBefore' = FALSE
    /\ sameLabel' = garbage
    /\ skipAddCur' = FALSE
    /\ UNCHANGED <<tasks, records, raceFound>>

\* Seeded fault: locks do not excuse.
ExcusedByReduction(hist) == reducing

AnalyzeMutualExclusion(hist) ==
  /\ hist.lockSet # NoLockSet /\ cur.lockSet # NoLockSet
  /\ \/ HasCommonLock(hist.lockSet, cur.lockSet)
     \/ hist.hasHwLock /\ cur.hasHwLock

\* analyzeRaceCondition returns before it asks happensBefore.
Excused(hist) == AnalyzeMutualExclusion(hist) \/ reducing

\* Seeded fault: the lock sets do not matter.
DelHistWhateverLocks(hist, before) ==
  (hist.isWrite => cur.isWrite) /\ before

DelHist(hist, before) ==
  /\ hist.isWrite => cur.isWrite
  /\ before
  /\ IsSubset(cur.lockSet, hist.lockSet)

SkipAddCur(hist, before, same) ==
  /\ ~ DelHist(hist, before)
  /\ same
  /\ cur.isWrite => hist.isWrite
  /\ IsSubset(hist.lockSet, cur.lockSet)

\* Seeded fault: the iterator moves on after an erase, too.
ManageAndAdvance(hist, before, same) ==
  /\ isBefore' = before
  /\ sameLabel' = same
  /\ skipAddCur' = (skipAddCur \/ SkipAddCur(hist, before, same))
  /\ at' = at + 1
  /\ records' = IF DelHist(hist, before) THEN RemoveAt(records, at) ELSE records

\* manageAccessRecord and modifyAccessHistory.
Manage(hist, before, same) ==
  /\ isBefore' = before
  /\ sameLabel' = same
  /\ skipAddCur' = (skipAddCur \/ SkipAddCur(hist, before, same))
  /\ IF DelHist(hist, before)
     THEN records' = RemoveAt(records, at) /\ UNCHANGED at
     ELSE at' = at + 1 /\ UNCHANGED records

\* A record whose order with the current access is analysed.
ExamineOrder ==
  /\ cur # NoAccess /\ at <= Len(records)
  /\ LET hist == records[at]
         before == Precedes(hist, TaskOf(cur))
     IN  /\ ~ Excused(hist)
         /\ raceFound' = (raceFound \/ (~ before /\ (hist.isWrite \/ cur.isWrite)))
         /\ Manage(hist, before, hist.label = cur.label)
  /\ UNCHANGED <<tasks, cur, reducing, truth>>

\* A record that counts as excluded from it, or any record in a reduction: the
\* record is managed with what the locals still hold.
ExamineExcused ==
  /\ cur # NoAccess /\ at <= Len(records)
  /\ LET hist == records[at]
     IN  /\ Excused(hist)
         /\ Manage(hist, isBefore, sameLabel)
         /\ blind' = (blind \/ (~ reducing /\ Race(hist, cur))
                            \/ DelHist(hist, isBefore)
                            \/ SkipAddCur(hist, isBefore, sameLabel))
  /\ UNCHANGED <<tasks, raceFound, cur, reducing, accesses, count, raced>>

\* The locals go with the call.
EndWalk ==
  /\ cur # NoAccess /\ at > Len(records)
  /\ records' = IF skipAddCur THEN records ELSE Append(records, cur)
  /\ cur' = NoAccess
  /\ at' = 0 /\ reducing' = FALSE
  /\ isBefore' = FALSE /\ sameLabel' = FALSE /\ skipAddCur' = FALSE
  /\ UNCHANGED <<tasks, raceFound, truth>>

-----------------------------------------------------------------------------
Done == cur = NoAccess /\ count = MaxAccesses /\ UNCHANGED vars

Next ==
  \/ \E t \in Tasks : MutexAcquired(t) \/ MutexReleased(t)
  \/ \E u, t \in Tasks : Synchronise(u, t)
  \/ \E t \in Tasks : CheckFirst(t) \/ BeginWalk(t)
  \/ CheckAfterRace \/ ExamineOrder \/ ExamineExcused \/ EndWalk
  \/ Done

Spec == Init /\ [][Next]_vars

-----------------------------------------------------------------------------
(* Type invariant: the iterator stays inside of the records, and labels    *)
(* only ever name what has already happened.                               *)
TypeOK ==
  /\ syncs \in 0..MaxSyncs
  /\ stage \in [Tasks -> 0..syncs]
  /\ past \in [Tasks -> SUBSET AllLabels]
  /\ lockSet \in [Tasks -> LockSets]
  /\ records \in Seq(Accesses)
  /\ raceFound \in BOOLEAN
  /\ cur \in Accesses \cup {NoAccess}
  /\ at \in 0..Len(records)+1
  /\ at = 0 <=> cur = NoAccess
  /\ cur # NoAccess => cur.label = Label(TaskOf(cur))
  /\ {reducing, isBefore, sameLabel, skipAddCur} \subseteq BOOLEAN
  /\ accesses \subseteq Accesses
  /\ \A t, u \in Tasks, n \in 0..MaxSyncs : <<u, n>> \in past[t] => n < stage[u]

(* Two accesses that race are found: dropping records and skipping         *)
(* accesses loses none, whatever the order of the accesses and the locks.  *)
RacesAreFound == cur = NoAccess /\ raced => raceFound

(* The same, as long as every record was dropped, every access skipped and *)
(* every race excused for what is known of these two.                      *)
RacesAreFoundUnlessBlind == ~ blind => RacesAreFound

(* What is reported is a race: no record makes two accesses race that are  *)
(* ordered, or share a lock.                                               *)
FoundRacesAreReal == raceFound => raced

\* Whatever races with x races with r, for all accesses still to come.
StandsFor(r, x) ==
  /\ x.isWrite => r.isWrite
  /\ Elements(r.lockSet) \subseteq Elements(x.lockSet)
  /\ \A t \in Tasks : Precedes(r, t) => Precedes(x, t)

(* The records stand for all accesses, those that they replaced included:  *)
(* every access is represented by a record from which all later races with *)
(* it can be told (or by the access that is being checked).                *)
RecordsStandForAccesses ==
  ~ blind /\ ~ raceFound =>
    \A x \in accesses :
      \/ \E i \in 1..Len(records) : StandsFor(records[i], x)
      \/ cur # NoAccess /\ ~ skipAddCur /\ StandsFor(cur, x)
=============================================================================
