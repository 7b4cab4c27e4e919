------------------------ MODULE AccessHistory_proofs ------------------------
(***************************************************************************)
(* Proofs about AccessHistory for all sets of tasks and locks, any number  *)
(* of accesses and any order of synchronisation: as long as no record is   *)
(* dropped, and no access skipped, on a verdict about another record, and  *)
(* no race excused by bits that nobody set, the records that are left find *)
(* a race exactly if there is one.                                         *)
(***************************************************************************)
EXTENDS AccessHistory, FiniteSetTheorems, SequenceTheorems, TLAPS

-----------------------------------------------------------------------------
(* The inductive invariant: its parts besides TypeOK, FoundRacesAreReal    *)
(* and RecordsStandForAccesses.                                            *)

\* Records are made of accesses only.
RecordsAreAccesses ==
  /\ \A i \in 1..Len(records) : records[i] \in accesses
  /\ cur # NoAccess => cur \in accesses

\* No access bears a label that its task has not reached yet.
LabelsAreReached ==
  \A x \in accesses : x.label[2] <= stage[TaskOf(x)]

\* The walk knows what races with its access, unless it is told to trust it.
RacesAreObserved ==
  cur # NoAccess /\ ~ reducing => \A x \in accesses : Race(x, cur) => raced

\* A race that is not reported yet is one with a record still ahead.
RaceIsAhead ==
  ~ blind /\ ~ raceFound /\ raced =>
    /\ cur # NoAccess /\ ~ reducing
    /\ \E i \in at..Len(records) : Race(records[i], cur)

\* An access is skipped only for a record that stays.
SkippedIsStoodFor ==
  ~ blind /\ ~ raceFound /\ cur # NoAccess /\ skipAddCur =>
    \E j \in 1..at-1 : StandsFor(records[j], cur)

HistoryInvariant ==
  /\ RecordsAreAccesses
  /\ LabelsAreReached
  /\ RacesAreObserved
  /\ RaceIsAhead
  /\ FoundRacesAreReal
  /\ SkippedIsStoodFor
  /\ RecordsStandForAccesses

IInv == TypeOK /\ HistoryInvariant

-----------------------------------------------------------------------------
(* Lemmas about the operators *)

(* What erase leaves behind. *)
LEMMA RemoveAtProperties ==
  ASSUME NEW S, NEW s \in Seq(S), NEW i \in 1..Len(s)
  PROVE  /\ RemoveAt(s, i) \in Seq(S)
         /\ Len(RemoveAt(s, i)) = Len(s) - 1
         /\ \A j \in 1..Len(s)-1 :
              RemoveAt(s, i)[j] = IF j < i THEN s[j] ELSE s[j+1]
<1> DEFINE front == SubSeq(s, 1, i-1)
           back == SubSeq(s, i+1, Len(s))
<1>1. /\ front \in Seq(S) /\ Len(front) = i-1
      /\ \A j \in 1..i-1 : front[j] = s[j]
  BY SubSeqProperties, LenProperties
<1>2. /\ back \in Seq(S) /\ Len(back) = Len(s) - i
      /\ \A j \in 1..Len(s)-i : back[j] = s[i+j]
  BY SubSeqProperties, LenProperties
<1>3. /\ front \o back \in Seq(S)
      /\ Len(front \o back) = Len(front) + Len(back)
      /\ \A j \in 1..Len(front)+Len(back) :
           (front \o back)[j] = IF j <= Len(front) THEN front[j] ELSE back[j - Len(front)]
  BY <1>1, <1>2, ConcatProperties
<1>4. RemoveAt(s, i) = front \o back
  BY DEF RemoveAt
<1>5. Len(s) \in Nat /\ i \in Nat
  BY LenProperties
<1> HIDE DEF front, back
<1>6. ASSUME NEW j \in 1..Len(s)-1
      PROVE  (front \o back)[j] = IF j < i THEN s[j] ELSE s[j+1]
  <2>1. j \in 1..Len(front)+Len(back)
    BY <1>1, <1>2, <1>5
  <2>2. CASE j < i
    BY <1>1, <1>3, <1>5, <2>1, <2>2
  <2>3. CASE ~ (j < i)
    <3>1. j - (i-1) \in 1..Len(s)-i /\ i + (j - (i-1)) = j+1
      BY <1>5, <2>3
    <3> QED
      BY <1>1, <1>2, <1>3, <1>5, <2>1, <2>3, <3>1
  <2> QED
    BY <2>2, <2>3
<1>7. front \o back \in Seq(S) /\ Len(front \o back) = Len(s) - 1
  BY <1>1, <1>2, <1>3, <1>5
<1>8. \A j \in 1..Len(s)-1 : (front \o back)[j] = IF j < i THEN s[j] ELSE s[j+1]
  BY <1>6
<1> QED
  BY <1>4, <1>7, <1>8, Zenon

(* No set of locks is the null pointer, and sets of locks are finite. *)
LEMMA LockSetsAreFinite ==
  ASSUME NEW s \in LockSets, s # NoLockSet
  PROVE  IsFiniteSet(s) /\ Cardinality(s) \in Nat /\ Elements(s) = s
<1>1. s \in SUBSET Locks
  BY DEF LockSets
<1>2. IsFiniteSet(s)
  BY <1>1, LocksAssumption, FS_Subset
<1> QED
  BY <1>2, FS_CardinalityType DEF Elements

(* isSubset never says yes of what is not a subset, although it compares   *)
(* every lock of one with every lock of the other (LockSet.cpp:100-108).   *)
LEMMA IsSubsetIsSound ==
  ASSUME NEW me \in LockSets, NEW other \in LockSets, IsSubset(me, other)
  PROVE  Elements(me) \subseteq Elements(other)
<1>1. CASE me = NoLockSet
  BY <1>1 DEF Elements
<1>2. CASE me # NoLockSet
  <2>1. /\ other # NoLockSet
        /\ Cardinality(me) <= Cardinality(other)
        /\ \A l \in me, o \in other : l = o
    BY <1>2 DEF IsSubset
  <2>2. /\ Elements(me) = me /\ IsFiniteSet(me) /\ Cardinality(me) \in Nat
        /\ Elements(other) = other /\ IsFiniteSet(other) /\ Cardinality(other) \in Nat
    BY <1>2, <2>1, LockSetsAreFinite
  <2>3. ASSUME NEW l \in me PROVE l \in other
    <3>1. Cardinality(me) # 0
      BY <2>2, FS_EmptySet
    <3>2. Cardinality(other) # 0
      BY <2>1, <2>2, <3>1
    <3>3. PICK o \in other : TRUE
      BY <2>2, <3>2, FS_EmptySet
    <3> QED
      BY <2>1, <3>3
  <2> QED
    BY <2>2, <2>3
<1> QED
  BY <1>1, <1>2

(* The fields of an access. *)
LEMMA AccessFields ==
  ASSUME NEW a \in Accesses
  PROVE  /\ a.isWrite \in BOOLEAN
         /\ a.lockSet \in LockSets
         /\ TaskOf(a) \in Tasks
         /\ a.label[2] \in 0..MaxSyncs
         /\ a.label = <<TaskOf(a), a.label[2]>>
<1>1. a.label \in AllLabels /\ a.isWrite \in BOOLEAN /\ a.lockSet \in LockSets
  BY DEF Accesses
<1> QED
  BY <1>1 DEF AllLabels, TaskOf

(* Standing for an access is transitive. *)
LEMMA StandsForIsTransitive ==
  ASSUME NEW x, NEW y, NEW z, StandsFor(x, y), StandsFor(y, z)
  PROVE  StandsFor(x, z)
BY DEF StandsFor

(* What races with an access races with whatever stands for it. *)
LEMMA StandInRaces ==
  ASSUME NEW x, NEW r, NEW y \in Accesses, StandsFor(r, x), Race(x, y)
  PROVE  Race(r, y)
<1>1. TaskOf(y) \in Tasks
  BY AccessFields
<1>2. ~ Precedes(r, TaskOf(y))
  BY <1>1 DEF StandsFor, Race
<1>3. ~ HasCommonLock(r.lockSet, y.lockSet)
  BY DEF StandsFor, Race, HasCommonLock
<1> QED
  BY <1>2, <1>3 DEF StandsFor, Race

(* An access does not race with itself. *)
LEMMA NoRaceWithItself ==
  ASSUME TypeOK, cur # NoAccess
  PROVE  ~ Race(cur, cur)
BY DEF TypeOK, Race, Precedes

(* The access that is checked stands for the record it replaces: no other  *)
(* task can be after it yet.                                               *)
LEMMA CurrentStandsForDeleted ==
  ASSUME TypeOK, cur # NoAccess, NEW hist \in Accesses,
         DelHist(hist, Precedes(hist, TaskOf(cur)))
  PROVE  StandsFor(cur, hist)
<1> DEFINE me == TaskOf(cur)
<1>1. /\ cur \in Accesses /\ me \in Tasks
      /\ cur.label = <<me, stage[me]>> /\ stage[me] \in 0..MaxSyncs
  BY AccessFields DEF TypeOK, Label
<1>2. hist.isWrite => cur.isWrite
  BY DEF DelHist
<1>3. Elements(cur.lockSet) \subseteq Elements(hist.lockSet)
  <2>1. IsSubset(cur.lockSet, hist.lockSet)
    BY DEF DelHist
  <2> QED
    BY <1>1, <2>1, AccessFields, IsSubsetIsSound
<1>4. ASSUME NEW t \in Tasks, Precedes(cur, t) PROVE Precedes(hist, t)
  <2>1. CASE cur.label = <<t, stage[t]>>
    <3>1. t = me
      BY <1>1, <2>1
    <3> QED
      BY <3>1 DEF DelHist
  <2>2. CASE cur.label \in past[t]
    <3>1. <<me, stage[me]>> \in past[t]
      BY <1>1, <2>2
    <3>2. stage[me] < stage[me]
      BY <1>1, <3>1 DEF TypeOK
    <3> QED
      BY <1>1, <3>2
  <2> QED
    BY <1>4, <2>1, <2>2 DEF Precedes, Label
<1> QED
  BY <1>2, <1>3, <1>4 DEF StandsFor

(* A record that lets the access be skipped stands for it. *)
LEMMA SkipperStandsForCurrent ==
  ASSUME NEW hist \in Accesses, cur \in Accesses, NEW before,
         SkipAddCur(hist, before, hist.label = cur.label)
  PROVE  StandsFor(hist, cur)
<1>1. hist.label = cur.label /\ (cur.isWrite => hist.isWrite)
  BY DEF SkipAddCur
<1>2. Elements(hist.lockSet) \subseteq Elements(cur.lockSet)
  BY AccessFields, IsSubsetIsSound DEF SkipAddCur
<1> QED
  BY <1>1, <1>2 DEF StandsFor, Precedes

(* What synchronisation does to the order: t is after whatever it was      *)
(* after and whatever u is after, everyone else as before.                 *)
LEMMA OrderAfterSynchronise ==
  ASSUME TypeOK, LabelsAreReached, NEW u \in Tasks, NEW t \in Tasks,
         Synchronise(u, t), NEW x \in accesses, NEW w \in Tasks
  PROVE  Precedes(x, w)' <=> IF w = t THEN Precedes(x, u) \/ Precedes(x, t)
                                      ELSE Precedes(x, w)
<1> DEFINE v == TaskOf(x)
           n == x.label[2]
<1>1. /\ x \in Accesses /\ v \in Tasks /\ n \in 0..MaxSyncs /\ x.label = <<v, n>>
      /\ n <= stage[v]
  BY AccessFields DEF TypeOK, LabelsAreReached
<1>2. \A k \in Tasks : stage[k] \in 0..MaxSyncs
  BY HistoryBoundsAssumption DEF TypeOK
<1>3. \A k \in Tasks : stage'[k] = IF k \in {u, t} THEN stage[k] + 1 ELSE stage[k]
  BY <1>2 DEF Synchronise, TypeOK
<1>4. /\ past'[u] = past[u] \cup {Label(u)}
      /\ past'[t] = past[t] \cup past[u] \cup {Label(u), Label(t)}
      /\ \A k \in Tasks \ {u, t} : past'[k] = past[k]
  BY DEF Synchronise, TypeOK
<1>5. \A k \in {u, t} : x.label # <<k, stage'[k]>>
  BY <1>1, <1>2, <1>3
<1> HIDE DEF v, n
<1>6. CASE w = t
  BY <1>4, <1>5, <1>6 DEF Precedes, Label
<1>7. CASE w = u
  <2>1. u # t
    BY DEF Synchronise
  <2> QED
    BY <1>4, <1>5, <1>7, <2>1 DEF Precedes, Label
<1>8. CASE w \notin {u, t}
  <2>1. stage'[w] = stage[w] /\ past'[w] = past[w]
    BY <1>3, <1>4, <1>8
  <2> QED
    BY <1>8, <2>1 DEF Precedes, Label
<1> QED
  BY <1>6, <1>7, <1>8

(* An access goes on standing for another when tasks synchronise. *)
LEMMA StandsForAfterSynchronise ==
  ASSUME TypeOK, LabelsAreReached, NEW u \in Tasks, NEW t \in Tasks,
         Synchronise(u, t), NEW r \in accesses, NEW x \in accesses, StandsFor(r, x)
  PROVE  StandsFor(r, x)'
<1>1. ASSUME NEW w \in Tasks, Precedes(r, w)' PROVE Precedes(x, w)'
  <2>1. CASE w = t
    <3>1. Precedes(r, u) \/ Precedes(r, t)
      BY <1>1, <2>1, OrderAfterSynchronise
    <3>2. Precedes(x, u) \/ Precedes(x, t)
      BY <3>1 DEF StandsFor
    <3> QED
      BY <2>1, <3>2, OrderAfterSynchronise
  <2>2. CASE w # t
    <3>1. Precedes(r, w)
      BY <1>1, <2>2, OrderAfterSynchronise
    <3>2. Precedes(x, w)
      BY <3>1 DEF StandsFor
    <3> QED
      BY <2>2, <3>2, OrderAfterSynchronise
  <2> QED
    BY <2>1, <2>2
<1> QED
  BY <1>1 DEF StandsFor

-----------------------------------------------------------------------------
(* One record of the walk: those before it stay where they are, those      *)
(* after it stay ahead, and it is gone or behind.                          *)
LEMMA WalkStep ==
  ASSUME TypeOK, cur # NoAccess, at <= Len(records), NEW before, NEW same,
         Manage(records[at], before, same)
  PROVE  /\ at \in 1..Len(records) /\ records[at] \in Accesses
         /\ records' \in Seq(Accesses)
         /\ at' \in 1..Len(records')+1
         /\ \A i \in 1..at-1 : /\ i \in 1..at'-1 /\ i \in 1..Len(records')
                               /\ records'[i] = records[i]
         /\ \A i \in at+1..Len(records) :
              \E j \in at'..Len(records') : records'[j] = records[i]
         /\ \A j \in 1..Len(records') :
              \E i \in 1..Len(records) : records'[j] = records[i]
         /\ ~ DelHist(records[at], before) => at' = at + 1 /\ records' = records
<1>1. /\ at \in 1..Len(records) /\ records \in Seq(Accesses) /\ Len(records) \in Nat
      /\ records[at] \in Accesses
  BY LenProperties, ElementOfSeq DEF TypeOK
<1>2. CASE ~ DelHist(records[at], before)
  <2>1. at' = at + 1 /\ records' = records
    BY <1>2 DEF Manage
  <2> QED
    BY <1>1, <1>2, <2>1
<1>3. CASE DelHist(records[at], before)
  <2>1. at' = at /\ records' = RemoveAt(records, at)
    BY <1>3 DEF Manage
  <2>2. /\ records' \in Seq(Accesses) /\ Len(records') = Len(records) - 1
        /\ \A j \in 1..Len(records)-1 :
             records'[j] = IF j < at THEN records[j] ELSE records[j+1]
    BY <1>1, <2>1, RemoveAtProperties
  <2>3. \A i \in 1..at-1 : /\ i \in 1..at'-1 /\ i \in 1..Len(records')
                           /\ records'[i] = records[i]
    BY <1>1, <2>1, <2>2
  <2>4. ASSUME NEW i \in at+1..Len(records)
        PROVE  \E j \in at'..Len(records') : records'[j] = records[i]
    <3>1. i-1 \in at'..Len(records') /\ i-1 \in 1..Len(records)-1 /\ ~ (i-1 < at)
          /\ (i-1)+1 = i
      BY <1>1, <2>1, <2>2
    <3>2. records'[i-1] = records[i]
      BY <2>2, <3>1
    <3> QED
      BY <3>1, <3>2
  <2>5. ASSUME NEW j \in 1..Len(records')
        PROVE  \E i \in 1..Len(records) : records'[j] = records[i]
    <3>1. j \in 1..Len(records)-1 /\ j \in 1..Len(records) /\ j+1 \in 1..Len(records)
      BY <1>1, <2>2
    <3> QED
      BY <2>2, <3>1
  <2> QED
    BY <1>1, <1>3, <2>1, <2>2, <2>3, <2>4, <2>5
<1> QED
  BY <1>2, <1>3

(* An access of t, as a record. *)
LEMMA AccessIsTyped ==
  ASSUME TypeOK, NEW t \in Tasks, NEW isWrite \in BOOLEAN, NEW hwLock \in HwLockBits(t)
  PROVE  /\ Access(t, isWrite, hwLock) \in Accesses
         /\ Access(t, isWrite, hwLock) # NoAccess
         /\ Access(t, isWrite, hwLock).label = Label(t)
         /\ TaskOf(Access(t, isWrite, hwLock)) = t
<1>1. Label(t) \in AllLabels /\ Label(t)[1] = t
  BY HistoryBoundsAssumption DEF TypeOK, Label, AllLabels
<1>2. lockSet[t] \in LockSets
  BY DEF TypeOK
<1>3. hwLock \in BOOLEAN
  BY GarbageAssumption DEF HwLockBits
<1>4. Access(t, isWrite, hwLock) \in Accesses
  BY <1>1, <1>2, <1>3 DEF Access, Accesses
<1> QED
  BY <1>1, <1>4, NoAccessAssumption DEF Access, TaskOf

(* The initial state satisfies the invariant. *)
LEMMA InitIInv == Init => IInv
<1> SUFFICES ASSUME Init PROVE IInv
  OBVIOUS
<1>1. TypeOK
  <2>1. records \in Seq(Accesses) /\ Len(records) = 0
    BY EmptySeq DEF Init
  <2>2. lockSet \in [Tasks -> LockSets]
    BY DEF Init, LockSets
  <2>3. {reducing, isBefore, sameLabel, skipAddCur} \subseteq BOOLEAN
    BY DEF Init
  <2>4. at \in 0..Len(records)+1 /\ 0 \in 0..MaxSyncs
    BY <2>1, HistoryBoundsAssumption DEF Init
  <2>5. stage \in [Tasks -> 0..syncs] /\ past \in [Tasks -> SUBSET AllLabels]
    BY DEF Init
  <2>6. \A t, u \in Tasks, n \in 0..MaxSyncs : <<u, n>> \in past[t] => n < stage[u]
    BY DEF Init
  <2> QED
    BY <2>1, <2>2, <2>3, <2>4, <2>5, <2>6 DEF Init, TypeOK
<1>2. Len(records) = 0
  BY DEF Init
<1> QED
  BY <1>1, <1>2 DEF Init, IInv, HistoryInvariant, RecordsAreAccesses, LabelsAreReached,
     RacesAreObserved, RaceIsAhead, FoundRacesAreReal, SkippedIsStoodFor,
     RecordsStandForAccesses

(* Every step keeps the variables well typed. *)
LEMMA TypeOKStep ==
  ASSUME TypeOK, [Next]_vars
  PROVE  TypeOK'
<1>1. ASSUME NEW t \in Tasks, MutexAcquired(t) PROVE TypeOK'
  <2>1. PICK l \in Locks : lockSet' = [lockSet EXCEPT ![t] = Elements(@) \cup {l}]
    BY <1>1 DEF MutexAcquired
  <2>2. lockSet' \in [Tasks -> LockSets]
    <3>1. lockSet \in [Tasks -> LockSets]
      BY DEF TypeOK
    <3>2. Elements(lockSet[t]) \cup {l} \in LockSets
      BY <3>1 DEF Elements, LockSets
    <3> QED
      BY <2>1, <3>1, <3>2
  <2> QED
    BY <1>1, <2>2 DEF MutexAcquired, TypeOK, locals, truth, Label
<1>2. ASSUME NEW t \in Tasks, MutexReleased(t) PROVE TypeOK'
  <2>1. PICK l \in Elements(lockSet[t]) : lockSet' = [lockSet EXCEPT ![t] = @ \ {l}]
    BY <1>2 DEF MutexReleased
  <2>2. lockSet' \in [Tasks -> LockSets]
    <3>1. lockSet \in [Tasks -> LockSets]
      BY DEF TypeOK
    <3>2. lockSet[t] \ {l} \in LockSets
      BY <2>1, <3>1 DEF Elements, LockSets
    <3> QED
      BY <2>1, <3>1, <3>2
  <2> QED
    BY <1>2, <2>2 DEF MutexReleased, TypeOK, locals, truth, Label
<1>3. ASSUME NEW u \in Tasks, NEW t \in Tasks, Synchronise(u, t) PROVE TypeOK'
  <2>1. /\ u # t /\ syncs \in Nat /\ syncs < MaxSyncs /\ syncs' = syncs + 1
        /\ \A k \in Tasks : stage[k] \in 0..syncs
        /\ \A k \in Tasks : stage'[k] = IF k \in {u, t} THEN stage[k] + 1 ELSE stage[k]
    BY <1>3 DEF Synchronise, TypeOK
  <2>2. stage' \in [Tasks -> 0..syncs']
    <3>1. stage' \in [Tasks -> Nat]
      BY <1>3, <2>1 DEF Synchronise, TypeOK
    <3> QED
      BY <2>1, <3>1
  <2>3. Label(u) \in AllLabels /\ Label(t) \in AllLabels
    BY <2>1, HistoryBoundsAssumption DEF Label, AllLabels
  <2>4. /\ past \in [Tasks -> SUBSET AllLabels]
        /\ past'[u] = past[u] \cup {Label(u)}
        /\ past'[t] = past[t] \cup past[u] \cup {Label(u), Label(t)}
        /\ \A k \in Tasks \ {u, t} : past'[k] = past[k]
        /\ past' \in [Tasks -> SUBSET AllLabels]
    BY <1>3, <2>1, <2>3 DEF Synchronise, TypeOK
  <2>5. ASSUME NEW w \in Tasks, NEW v \in Tasks, NEW n \in 0..MaxSyncs,
               <<v, n>> \in past'[w]
        PROVE  n < stage'[v]
    <3>1. \/ \E k \in Tasks : <<v, n>> \in past[k]
          \/ \E k \in {u, t} : v = k /\ n = stage[k]
      BY <2>4, <2>5 DEF Label
    <3>2. CASE \E k \in Tasks : <<v, n>> \in past[k]
      <4>1. n < stage[v]
        BY <3>2 DEF TypeOK
      <4> QED
        BY <2>1, <4>1
    <3>3. CASE \E k \in {u, t} : v = k /\ n = stage[k]
      BY <2>1, <3>3
    <3> QED
      BY <3>1, <3>2, <3>3
  <2>6. cur' # NoAccess => cur'.label = Label(TaskOf(cur))'
    <3>1. cur' = cur
      BY <1>3 DEF Synchronise, locals
    <3>2. CASE cur # NoAccess
      <4>1. TaskOf(cur) \in Tasks /\ TaskOf(cur) \notin {u, t}
        BY <1>3, <3>2, AccessFields DEF Synchronise, Runs, TypeOK
      <4>2. stage'[TaskOf(cur)] = stage[TaskOf(cur)]
        BY <2>1, <4>1
      <4> QED
        BY <3>1, <3>2, <4>2 DEF TypeOK, Label, TaskOf
    <3> QED
      BY <3>1, <3>2
  <2>7. UNCHANGED <<lockSet, records, raceFound, locals, truth>>
    BY <1>3 DEF Synchronise
  <2>8. syncs' \in 0..MaxSyncs
    BY <2>1, HistoryBoundsAssumption
  <2> QED
    BY <2>2, <2>4, <2>5, <2>6, <2>7, <2>8 DEF TypeOK, locals, truth
<1>4. ASSUME NEW t \in Tasks, CheckFirst(t) PROVE TypeOK'
  <2>1. PICK isWrite \in BOOLEAN, hwLock \in HwLockBits(t) :
          /\ Observe(Access(t, isWrite, hwLock), FALSE)
          /\ records' = <<Access(t, isWrite, hwLock)>>
    BY <1>4 DEF CheckFirst
  <2>2. records' \in Seq(Accesses) /\ accesses' \subseteq Accesses
    BY <2>1, AccessIsTyped DEF Observe, TypeOK
  <2> QED
    BY <1>4, <2>2 DEF CheckFirst, TypeOK, tasks, locals, Label
<1>5. ASSUME NEW t \in Tasks, BeginWalk(t) PROVE TypeOK'
  <2>1. PICK isWrite \in BOOLEAN, inReduction \in BOOLEAN,
          hwLock \in HwLockBits(t), garbage \in Garbage :
          /\ Observe(Access(t, isWrite, hwLock), inReduction)
          /\ cur' = Access(t, isWrite, hwLock)
          /\ reducing' = inReduction /\ at' = 1
          /\ isBefore' = FALSE /\ sameLabel' = garbage /\ skipAddCur' = FALSE
    BY <1>5 DEF BeginWalk
  <2>2. /\ accesses' \subseteq Accesses /\ cur' \in Accesses /\ cur' # NoAccess
        /\ cur'.label = Label(t) /\ TaskOf(cur') = t
    BY <2>1, AccessIsTyped DEF Observe, TypeOK
  <2>3. Len(records) \in Nat
    BY LenProperties DEF TypeOK
  <2>4. sameLabel' \in BOOLEAN
    BY <2>1, GarbageAssumption
  <2>5. {reducing', isBefore', sameLabel', skipAddCur'} \subseteq BOOLEAN
    BY <2>1, <2>4
  <2>6. UNCHANGED <<tasks, records, raceFound>>
    BY <1>5 DEF BeginWalk
  <2>7. cur' # NoAccess => cur'.label = Label(TaskOf(cur))'
    BY <2>2, <2>6 DEF tasks, Label, TaskOf
  <2>8. at' \in 0..Len(records')+1 /\ (at' = 0 <=> cur' = NoAccess)
    BY <2>1, <2>2, <2>3, <2>6
  <2> QED
    BY <2>2, <2>5, <2>6, <2>7, <2>8 DEF TypeOK, tasks
<1>6. CASE CheckAfterRace
  <2>1. records' \in Seq(Accesses) /\ at = 0
    BY <1>6, EmptySeq DEF CheckAfterRace, TypeOK
  <2> QED
    BY <1>6, <2>1 DEF CheckAfterRace, TypeOK, tasks, locals, truth, Label
<1>7. CASE ExamineOrder
  <2> DEFINE before == Precedes(records[at], TaskOf(cur))
             same == records[at].label = cur.label
  <2>1. cur # NoAccess /\ at <= Len(records) /\ Manage(records[at], before, same)
    BY <1>7 DEF ExamineOrder
  <2>2. before \in BOOLEAN /\ same \in BOOLEAN
    BY DEF Precedes
  <2>3. records' \in Seq(Accesses) /\ at' \in 1..Len(records')+1
    BY <2>1, WalkStep
  <2>4. isBefore' = before /\ sameLabel' = same /\ skipAddCur' \in BOOLEAN
    BY <2>1 DEF Manage
  <2>5. raceFound' \in BOOLEAN
    BY <1>7 DEF ExamineOrder
  <2> HIDE DEF before, same
  <2> QED
    BY <1>7, <2>1, <2>2, <2>3, <2>4, <2>5 DEF ExamineOrder, TypeOK, tasks, truth, Label
<1>8. CASE ExamineExcused
  <2>1. /\ cur # NoAccess /\ at <= Len(records)
        /\ Manage(records[at], isBefore, sameLabel)
    BY <1>8 DEF ExamineExcused
  <2>2. records' \in Seq(Accesses) /\ at' \in 1..Len(records')+1
    BY <2>1, WalkStep
  <2>3. isBefore' = isBefore /\ sameLabel' = sameLabel /\ skipAddCur' \in BOOLEAN
    BY <2>1 DEF Manage
  <2> QED
    BY <1>8, <2>1, <2>2, <2>3 DEF ExamineExcused, TypeOK, tasks, Label
<1>9. CASE EndWalk
  <2>1. records' \in Seq(Accesses)
    BY <1>9, AppendProperties DEF EndWalk, TypeOK
  <2>2. Len(records') \in Nat
    BY <2>1, LenProperties
  <2>3. {reducing', isBefore', sameLabel', skipAddCur'} \subseteq BOOLEAN
    BY <1>9 DEF EndWalk
  <2>4. /\ UNCHANGED <<tasks, raceFound, truth>>
        /\ cur' = NoAccess /\ at' = 0
    BY <1>9 DEF EndWalk
  <2> QED
    BY <2>1, <2>2, <2>3, <2>4 DEF TypeOK, tasks, truth
<1>10. CASE Done \/ UNCHANGED vars
  BY <1>10 DEF Done, vars, TypeOK, tasks, locals, truth, Label
<1> QED
  BY <1>1, <1>2, <1>3, <1>4, <1>5, <1>6, <1>7, <1>8, <1>9, <1>10 DEF Next

-----------------------------------------------------------------------------
(* Every step keeps the invariant, action by action *)

(* Locks that are taken and released change no record and no order. *)
LEMMA QuietStep ==
  ASSUME IInv, UNCHANGED <<stage, past, records, raceFound, locals, truth>>
  PROVE  HistoryInvariant'
<1>1. \A x, t : Precedes(x, t)' = Precedes(x, t)
  BY DEF Precedes, Label
<1>2. \A x, y : Race(x, y)' = Race(x, y) /\ StandsFor(x, y)' = StandsFor(x, y)
  BY <1>1 DEF Race, StandsFor
<1> QED
  BY <1>2 DEF IInv, HistoryInvariant, RecordsAreAccesses, LabelsAreReached,
     RacesAreObserved, RaceIsAhead, FoundRacesAreReal, SkippedIsStoodFor,
     RecordsStandForAccesses, locals, truth

(* Synchronisation between other tasks than the one that is checked. *)
LEMMA SynchroniseStep ==
  ASSUME IInv, NEW u \in Tasks, NEW t \in Tasks, Synchronise(u, t)
  PROVE  HistoryInvariant'
<1> USE DEF IInv, HistoryInvariant
<1>1. UNCHANGED <<records, raceFound, cur, reducing, at, skipAddCur, accesses, raced, blind>>
  BY DEF Synchronise, locals, truth
<1>2. RecordsAreAccesses'
  BY <1>1 DEF RecordsAreAccesses
<1>3. LabelsAreReached'
  <2>1. ASSUME NEW x \in accesses PROVE x.label[2] <= stage'[TaskOf(x)]
    <3>1. TaskOf(x) \in Tasks /\ x.label[2] \in Nat
      BY AccessFields, HistoryBoundsAssumption DEF TypeOK
    <3>2. x.label[2] <= stage[TaskOf(x)] /\ stage[TaskOf(x)] \in Nat
      BY <3>1 DEF LabelsAreReached, TypeOK
    <3>3. stage'[TaskOf(x)] \in {stage[TaskOf(x)], stage[TaskOf(x)] + 1}
      BY <3>1 DEF Synchronise, TypeOK
    <3> QED
      BY <3>1, <3>2, <3>3
  <2> QED
    BY <1>1, <2>1 DEF LabelsAreReached, TaskOf
<1>4. ASSUME cur # NoAccess, NEW x \in accesses
      PROVE  Race(x, cur)' <=> Race(x, cur)
  <2>1. TaskOf(cur) \in Tasks \ {u, t}
    BY <1>4, AccessFields DEF TypeOK, Synchronise, Runs
  <2>2. stage'[TaskOf(cur)] = stage[TaskOf(cur)] /\ past'[TaskOf(cur)] = past[TaskOf(cur)]
    BY <2>1 DEF Synchronise, TypeOK
  <2> QED
    BY <1>1, <2>2 DEF Race, Precedes, Label, TaskOf
<1>5. \A r, x \in accesses : StandsFor(r, x) => StandsFor(r, x)'
  BY StandsForAfterSynchronise
<1>6. RacesAreObserved'
  BY <1>1, <1>4 DEF RacesAreObserved
<1>7. RaceIsAhead'
  <2> SUFFICES ASSUME ~ blind, ~ raceFound, raced
               PROVE  /\ cur # NoAccess /\ ~ reducing
                      /\ \E i \in at..Len(records) : Race(records[i], cur)'
    BY <1>1 DEF RaceIsAhead
  <2>1. /\ cur # NoAccess /\ ~ reducing
        /\ \E i \in at..Len(records) : Race(records[i], cur)
    BY DEF RaceIsAhead
  <2>2. PICK i \in at..Len(records) : Race(records[i], cur)
    BY <2>1
  <2>3. i \in 1..Len(records)
    BY <2>1 DEF TypeOK
  <2> QED
    BY <1>1, <1>4, <2>1, <2>2, <2>3 DEF RecordsAreAccesses
<1>8. FoundRacesAreReal'
  BY <1>1 DEF FoundRacesAreReal
<1>9. SkippedIsStoodFor'
  <2> SUFFICES ASSUME ~ blind, ~ raceFound, cur # NoAccess, skipAddCur
               PROVE  \E j \in 1..at-1 : StandsFor(records[j], cur)'
    BY <1>1 DEF SkippedIsStoodFor
  <2>1. PICK j \in 1..at-1 : StandsFor(records[j], cur)
    BY DEF SkippedIsStoodFor
  <2>2. j \in 1..Len(records)
    BY LenProperties DEF TypeOK
  <2> QED
    BY <1>1, <1>5, <2>1, <2>2 DEF RecordsAreAccesses
<1>10. RecordsStandForAccesses'
  BY <1>1, <1>5 DEF RecordsStandForAccesses, RecordsAreAccesses
<1> QED
  BY <1>2, <1>3, <1>6, <1>7, <1>8, <1>9, <1>10

(* A check after a race was reported. *)
LEMMA CheckAfterRaceStep ==
  ASSUME IInv, CheckAfterRace
  PROVE  HistoryInvariant'
<1>1. /\ UNCHANGED <<stage, past, raceFound, cur, accesses, raced>>
      /\ cur = NoAccess /\ raceFound /\ Len(records') = 0
  BY DEF CheckAfterRace, tasks, locals, truth
<1> QED
  BY <1>1 DEF IInv, HistoryInvariant, RecordsAreAccesses, LabelsAreReached,
     RacesAreObserved, RaceIsAhead, FoundRacesAreReal, SkippedIsStoodFor,
     RecordsStandForAccesses, TaskOf

(* The first access to a byte. *)
LEMMA CheckFirstStep ==
  ASSUME IInv, NEW t \in Tasks, CheckFirst(t)
  PROVE  HistoryInvariant'
<1> USE DEF IInv, HistoryInvariant
<1>1. PICK isWrite \in BOOLEAN, hwLock \in HwLockBits(t) :
        /\ cur = NoAccess /\ ~ raceFound /\ records = <<>>
        /\ Observe(Access(t, isWrite, hwLock), FALSE)
        /\ records' = <<Access(t, isWrite, hwLock)>>
        /\ UNCHANGED <<tasks, raceFound, locals>>
  BY DEF CheckFirst
<1> DEFINE a == Access(t, isWrite, hwLock)
<1>2. a \in Accesses /\ a.label = Label(t) /\ TaskOf(a) = t
  BY AccessIsTyped
<1> HIDE DEF a
<1>3. /\ Len(records') = 1 /\ records'[1] = a
      /\ accesses' = accesses \cup {a} /\ UNCHANGED <<stage, past, cur, raceFound, blind>>
      /\ cur = NoAccess /\ ~ raceFound /\ Len(records) = 0
  BY <1>1 DEF Observe, tasks, locals, a
<1>4. ~ blind => accesses = {} /\ ~ raced
  BY <1>3 DEF RecordsStandForAccesses, RaceIsAhead
<1>5. raced' = (raced \/ (~ FALSE /\ \E x \in accesses : Race(x, a)))
  BY <1>1 DEF Observe, a
<1>6. RecordsAreAccesses' /\ RacesAreObserved' /\ FoundRacesAreReal' /\ SkippedIsStoodFor'
  BY <1>3 DEF RecordsAreAccesses, RacesAreObserved, FoundRacesAreReal, SkippedIsStoodFor
<1>7. LabelsAreReached'
  <2>1. a.label[2] <= stage[TaskOf(a)]
    BY <1>2 DEF Label, TypeOK
  <2> QED
    BY <1>3, <2>1 DEF LabelsAreReached, TaskOf
<1>8. RaceIsAhead'
  BY <1>3, <1>4, <1>5 DEF RaceIsAhead
<1>9. RecordsStandForAccesses'
  <2>1. StandsFor(a, a)
    BY DEF StandsFor
  <2>2. \A x, y : StandsFor(x, y)' = StandsFor(x, y)
    BY <1>3 DEF StandsFor, Precedes, Label
  <2>3. 1 \in 1..Len(records')
    BY <1>3
  <2> QED
    BY <1>3, <1>4, <2>1, <2>2, <2>3 DEF RecordsStandForAccesses
<1> QED
  BY <1>6, <1>7, <1>8, <1>9

(* The walk over the records begins: a race of the new access is a race    *)
(* with some record.                                                       *)
LEMMA BeginWalkStep ==
  ASSUME IInv, NEW t \in Tasks, BeginWalk(t)
  PROVE  HistoryInvariant'
<1> USE DEF IInv, HistoryInvariant
<1>1. PICK isWrite \in BOOLEAN, inReduction \in BOOLEAN, hwLock \in HwLockBits(t) :
        /\ cur = NoAccess /\ ~ raceFound
        /\ Observe(Access(t, isWrite, hwLock), inReduction)
        /\ cur' = Access(t, isWrite, hwLock)
        /\ reducing' = inReduction /\ at' = 1 /\ skipAddCur' = FALSE
        /\ UNCHANGED <<tasks, records, raceFound>>
  BY DEF BeginWalk
<1> DEFINE a == Access(t, isWrite, hwLock)
<1>2. a \in Accesses /\ a # NoAccess /\ a.label = Label(t) /\ TaskOf(a) = t
  BY AccessIsTyped
<1>3. /\ cur = NoAccess /\ ~ raceFound
      /\ cur' = a /\ reducing' = inReduction /\ at' = 1 /\ skipAddCur' = FALSE
      /\ accesses' = accesses \cup {a} /\ UNCHANGED <<stage, past, records, raceFound, blind>>
      /\ raced' = (raced \/ (~ inReduction /\ \E x \in accesses : Race(x, a)))
  BY <1>1 DEF Observe, tasks
<1> HIDE DEF a
<1>4. \A x, y : Race(x, y)' = Race(x, y) /\ StandsFor(x, y)' = StandsFor(x, y)
  BY <1>3 DEF Race, StandsFor, Precedes, Label
<1>5. RecordsAreAccesses' /\ FoundRacesAreReal' /\ SkippedIsStoodFor'
  BY <1>3 DEF RecordsAreAccesses, FoundRacesAreReal, SkippedIsStoodFor
<1>6. LabelsAreReached'
  <2>1. a.label[2] <= stage[TaskOf(a)]
    BY <1>2 DEF Label, TypeOK
  <2> QED
    BY <1>3, <2>1 DEF LabelsAreReached, TaskOf
<1>7. RacesAreObserved'
  <2>1. ~ Race(a, a)
    BY <1>2 DEF Race, Precedes
  <2> QED
    BY <1>3, <1>4, <2>1 DEF RacesAreObserved
<1>8. RaceIsAhead'
  <2> SUFFICES ASSUME ~ blind, raced'
               PROVE  ~ inReduction /\ \E i \in 1..Len(records) : Race(records[i], a)
    BY <1>2, <1>3, <1>4 DEF RaceIsAhead
  <2>1. ~ raced
    BY <1>3 DEF RaceIsAhead
  <2>2. ~ inReduction /\ \E x \in accesses : Race(x, a)
    BY <1>3, <2>1
  <2>3. PICK x \in accesses : Race(x, a)
    BY <2>2
  <2>4. PICK i \in 1..Len(records) : StandsFor(records[i], x)
    BY <1>3 DEF RecordsStandForAccesses
  <2>5. Race(records[i], a)
    BY <1>2, <2>3, <2>4, StandInRaces
  <2> QED
    BY <2>2, <2>5
<1>9. RecordsStandForAccesses'
  <2>1. StandsFor(a, a)
    BY DEF StandsFor
  <2> QED
    BY <1>2, <1>3, <1>4, <2>1 DEF RecordsStandForAccesses
<1> QED
  BY <1>5, <1>6, <1>7, <1>8, <1>9

(* The end of a walk: no record is ahead, so a race would be reported. *)
LEMMA EndWalkStep ==
  ASSUME IInv, EndWalk
  PROVE  HistoryInvariant'
<1> USE DEF IInv, HistoryInvariant
<1>1. /\ cur # NoAccess /\ cur' = NoAccess
      /\ records' = IF skipAddCur THEN records ELSE Append(records, cur)
      /\ UNCHANGED <<stage, past, raceFound, accesses, raced, blind>>
  BY DEF EndWalk, tasks, truth
<1>2. at = Len(records) + 1 /\ Len(records) \in Nat
  BY LenProperties DEF EndWalk, TypeOK
<1>3. \A x, y : StandsFor(x, y)' = StandsFor(x, y)
  BY <1>1 DEF StandsFor, Precedes, Label
<1>4. /\ Len(records') = IF skipAddCur THEN Len(records) ELSE Len(records) + 1
      /\ \A i \in 1..Len(records) : records'[i] = records[i] /\ i \in 1..Len(records')
      /\ ~ skipAddCur => records'[Len(records)+1] = cur
  BY <1>1, <1>2, AppendProperties DEF TypeOK
<1>5. RecordsAreAccesses'
  BY <1>1, <1>2, <1>4 DEF RecordsAreAccesses
<1>6. LabelsAreReached' /\ RacesAreObserved' /\ FoundRacesAreReal' /\ SkippedIsStoodFor'
  BY <1>1 DEF LabelsAreReached, RacesAreObserved, FoundRacesAreReal, SkippedIsStoodFor, TaskOf
<1>7. RaceIsAhead'
  BY <1>1, <1>2 DEF RaceIsAhead
<1>8. RecordsStandForAccesses'
  <2> SUFFICES ASSUME ~ blind, ~ raceFound, NEW x \in accesses
               PROVE  \E i \in 1..Len(records') : StandsFor(records'[i], x)
    BY <1>1, <1>3 DEF RecordsStandForAccesses
  <2>1. CASE \E i \in 1..Len(records) : StandsFor(records[i], x)
    BY <1>4, <2>1
  <2>2. CASE ~ skipAddCur /\ StandsFor(cur, x)
    <3>1. Len(records) + 1 \in 1..Len(records')
      BY <1>2, <1>4, <2>2
    <3> QED
      BY <1>4, <2>2, <3>1
  <2> QED
    BY <2>1, <2>2 DEF RecordsStandForAccesses
<1> QED
  BY <1>5, <1>6, <1>7, <1>8

(* A record that is passed or dropped: what is ahead of the iterator stays *)
(* ahead, and whatever the record stood for has another stand-in, unless   *)
(* the step is blind.  It races with the access only if this is reported.  *)
LEMMA ExamineStep ==
  ASSUME IInv, cur # NoAccess, at <= Len(records), NEW before, NEW same,
         Manage(records[at], before, same),
         UNCHANGED <<tasks, cur, reducing, accesses, raced>>,
         ~ blind' => ~ blind, ~ raceFound' => ~ raceFound,
         ~ blind' /\ DelHist(records[at], before) => StandsFor(cur, records[at]),
         ~ blind' /\ SkipAddCur(records[at], before, same) => StandsFor(records[at], cur),
         ~ blind' /\ ~ raceFound' /\ ~ reducing => ~ Race(records[at], cur),
         raceFound' => raced
  PROVE  HistoryInvariant'
<1> USE DEF IInv, HistoryInvariant
<1>1. /\ at \in 1..Len(records)
      /\ \A i \in 1..at-1 : /\ i \in 1..at'-1 /\ i \in 1..Len(records')
                            /\ records'[i] = records[i]
      /\ \A i \in at+1..Len(records) :
           \E j \in at'..Len(records') : records'[j] = records[i]
      /\ \A j \in 1..Len(records') :
           \E i \in 1..Len(records) : records'[j] = records[i]
      /\ ~ DelHist(records[at], before) => at' = at + 1 /\ records' = records
      /\ at' \in 1..Len(records')+1 /\ records' \in Seq(Accesses)
  BY WalkStep
<1>2. Len(records) \in Nat /\ Len(records') \in Nat /\ at' \in 1..Len(records')+1
  BY <1>1, LenProperties DEF TypeOK
<1>3. UNCHANGED <<stage, past, cur, reducing, accesses, raced>>
  BY DEF tasks
<1>4. \A x, y : Race(x, y)' = Race(x, y) /\ StandsFor(x, y)' = StandsFor(x, y)
  BY <1>3 DEF Race, StandsFor, Precedes, Label
<1>5. skipAddCur' = (skipAddCur \/ SkipAddCur(records[at], before, same))
  BY DEF Manage
<1>6. SkipAddCur(records[at], before, same) => ~ DelHist(records[at], before)
  BY DEF SkipAddCur
<1>7. RecordsAreAccesses'
  BY <1>1, <1>3 DEF RecordsAreAccesses
<1>8. LabelsAreReached' /\ RacesAreObserved' /\ FoundRacesAreReal'
  BY <1>3, <1>4 DEF LabelsAreReached, RacesAreObserved, FoundRacesAreReal, TaskOf
<1>9. RaceIsAhead'
  <2> SUFFICES ASSUME ~ blind', ~ raceFound', raced
               PROVE  ~ reducing /\ \E j \in at'..Len(records') : Race(records'[j], cur)
    BY <1>3, <1>4 DEF RaceIsAhead
  <2>1. ~ reducing /\ \E i \in at..Len(records) : Race(records[i], cur)
    BY DEF RaceIsAhead
  <2>2. PICK i \in at..Len(records) : Race(records[i], cur)
    BY <2>1
  <2>3. i \in at+1..Len(records)
    BY <1>1, <1>2, <2>1, <2>2
  <2> QED
    BY <1>1, <2>1, <2>2, <2>3
<1>10. SkippedIsStoodFor'
  <2> SUFFICES ASSUME ~ blind', ~ raceFound', skipAddCur'
               PROVE  \E j \in 1..at'-1 : StandsFor(records'[j], cur)
    BY <1>3, <1>4 DEF SkippedIsStoodFor
  <2>1. CASE skipAddCur
    BY <1>1, <2>1 DEF SkippedIsStoodFor
  <2>2. CASE SkipAddCur(records[at], before, same)
    <3>1. at' = at + 1 /\ records' = records /\ StandsFor(records[at], cur)
      BY <1>1, <1>6, <2>2
    <3>2. at \in 1..at'-1
      BY <1>1, <1>2, <3>1
    <3> QED
      BY <3>1, <3>2
  <2> QED
    BY <1>5, <2>1, <2>2
<1>11. \A j \in 1..at'-1 : j \in 1..Len(records')
  <2>1. \A m, n \in Nat : m \in 1..n+1 => \A j \in 1..m-1 : j \in 1..n
    OBVIOUS
  <2>2. at' \in Nat
    BY <1>2
  <2> QED
    BY <1>2, <2>1, <2>2, Zenon
<1>12. RecordsStandForAccesses'
  <2> SUFFICES ASSUME ~ blind', ~ raceFound', NEW x \in accesses
               PROVE  \/ \E j \in 1..Len(records') : StandsFor(records'[j], x)
                      \/ ~ skipAddCur' /\ StandsFor(cur, x)
    BY <1>3, <1>4 DEF RecordsStandForAccesses
  <2>1. StandsFor(cur, x) =>
          \/ \E j \in 1..Len(records') : StandsFor(records'[j], x)
          \/ ~ skipAddCur' /\ StandsFor(cur, x)
    <3> SUFFICES ASSUME StandsFor(cur, x), skipAddCur'
                 PROVE  \E j \in 1..Len(records') : StandsFor(records'[j], x)
      OBVIOUS
    <3>1. PICK j \in 1..at'-1 : StandsFor(records'[j], cur)
      BY <1>3, <1>4, <1>10 DEF SkippedIsStoodFor
    <3>2. j \in 1..Len(records')
      BY <1>11
    <3>3. StandsFor(records'[j], x)
      BY <3>1, StandsForIsTransitive
    <3> QED
      BY <3>2, <3>3
  <2>2. ASSUME NEW i \in 1..Len(records), StandsFor(records[i], x)
        PROVE  \/ \E j \in 1..Len(records') : StandsFor(records'[j], x)
               \/ StandsFor(cur, x)
    <3>1. CASE i < at
      <4>1. i \in 1..at-1
        BY <1>1, <1>2, <3>1
      <4> QED
        BY <1>1, <2>2, <4>1
    <3>2. CASE i > at
      <4>1. i \in at+1..Len(records)
        BY <1>1, <1>2, <3>2
      <4>2. PICK j \in at'..Len(records') : records'[j] = records[i]
        BY <1>1, <4>1
      <4>3. j \in 1..Len(records')
        BY <1>1, <1>2
      <4> QED
        BY <2>2, <4>2, <4>3
    <3>3. CASE i = at /\ DelHist(records[at], before)
      BY <2>2, <3>3, StandsForIsTransitive
    <3>4. CASE i = at /\ ~ DelHist(records[at], before)
      BY <1>1, <2>2, <3>4
    <3> QED
      BY <1>1, <1>2, <3>1, <3>2, <3>3, <3>4
  <2> QED
    BY <2>1, <2>2 DEF RecordsStandForAccesses
<1> QED
  BY <1>7, <1>8, <1>9, <1>10, <1>12

(* A record whose order is analysed: the verdict is about this record. *)
LEMMA ExamineOrderStep ==
  ASSUME IInv, ExamineOrder
  PROVE  HistoryInvariant'
<1> DEFINE hist == records[at]
           before == Precedes(hist, TaskOf(cur))
           same == hist.label = cur.label
<1>1. /\ cur # NoAccess /\ at <= Len(records)
      /\ ~ Excused(hist)
      /\ raceFound' = (raceFound \/ (~ before /\ (hist.isWrite \/ cur.isWrite)))
      /\ Manage(hist, before, same)
      /\ UNCHANGED <<tasks, cur, reducing, accesses, raced, blind>>
  BY DEF ExamineOrder, truth
<1>2. TypeOK
  BY DEF IInv
<1>3. hist \in Accesses /\ cur \in Accesses /\ at \in 1..Len(records)
  BY <1>1, <1>2, WalkStep DEF TypeOK
<1>4. DelHist(hist, before) => StandsFor(cur, hist)
  BY <1>1, <1>2, <1>3, CurrentStandsForDeleted
<1>5. SkipAddCur(hist, before, same) => StandsFor(hist, cur)
  BY <1>3, SkipperStandsForCurrent
<1>6. ~ reducing /\ ~ HasCommonLock(hist.lockSet, cur.lockSet)
  <2>1. ~ reducing /\ ~ AnalyzeMutualExclusion(hist)
    BY <1>1 DEF Excused
  <2> QED
    BY <2>1 DEF AnalyzeMutualExclusion, HasCommonLock, Elements
<1>7. Race(hist, cur) <=> ~ before /\ (hist.isWrite \/ cur.isWrite)
  BY <1>6 DEF Race
<1>8. raceFound' => raced
  <2>1. CASE raceFound
    BY <2>1 DEF IInv, HistoryInvariant, FoundRacesAreReal
  <2>2. CASE Race(hist, cur)
    BY <1>1, <1>3, <1>6, <2>2
       DEF IInv, HistoryInvariant, RacesAreObserved, RecordsAreAccesses
  <2> QED
    BY <1>1, <1>7, <2>1, <2>2
<1> HIDE DEF before, same
<1>9. ~ raceFound' => ~ raceFound /\ ~ Race(hist, cur)
  BY <1>1, <1>7
<1> QED
  BY <1>1, <1>4, <1>5, <1>8, <1>9, ExamineStep

(* A record that is managed without an analysis of its own: unless the     *)
(* step is blind it does not race, and it is left alone.                   *)
LEMMA ExamineExcusedStep ==
  ASSUME IInv, ExamineExcused
  PROVE  HistoryInvariant'
<1> DEFINE hist == records[at]
<1>1. /\ cur # NoAccess /\ at <= Len(records)
      /\ Excused(hist)
      /\ Manage(hist, isBefore, sameLabel)
      /\ blind' = (blind \/ (~ reducing /\ Race(hist, cur))
                         \/ DelHist(hist, isBefore)
                         \/ SkipAddCur(hist, isBefore, sameLabel))
      /\ UNCHANGED <<tasks, raceFound, cur, reducing, accesses, raced>>
  BY DEF ExamineExcused
<1>2. ~ blind' /\ ~ reducing => ~ Race(hist, cur)
  BY <1>1
<1>3. raceFound' => raced
  BY <1>1 DEF IInv, HistoryInvariant, FoundRacesAreReal
<1>4. /\ ~ blind' => ~ blind
      /\ ~ blind' => ~ DelHist(hist, isBefore) /\ ~ SkipAddCur(hist, isBefore, sameLabel)
      /\ ~ raceFound' => ~ raceFound
  BY <1>1
<1> QED
  BY <1>1, <1>2, <1>3, <1>4, ExamineStep

-----------------------------------------------------------------------------
(* The theorems *)

(* The invariant holds in every reachable state. *)
THEOREM Invariance == Spec => []IInv
<1>1. Init => IInv
  BY InitIInv
<1>2. IInv /\ [Next]_vars => IInv'
  <2> SUFFICES ASSUME IInv, [Next]_vars PROVE IInv'
    OBVIOUS
  <2>1. TypeOK'
    BY TypeOKStep DEF IInv
  <2> SUFFICES HistoryInvariant'
    BY <2>1 DEF IInv
  <2>2. ASSUME NEW t \in Tasks, MutexAcquired(t) \/ MutexReleased(t)
        PROVE  HistoryInvariant'
    BY <2>2, QuietStep DEF MutexAcquired, MutexReleased
  <2>3. ASSUME NEW u \in Tasks, NEW t \in Tasks, Synchronise(u, t)
        PROVE  HistoryInvariant'
    BY <2>3, SynchroniseStep
  <2>4. ASSUME NEW t \in Tasks, CheckFirst(t) \/ BeginWalk(t)
        PROVE  HistoryInvariant'
    BY <2>4, CheckFirstStep, BeginWalkStep
  <2>5. CASE CheckAfterRace \/ EndWalk
    BY <2>5, CheckAfterRaceStep, EndWalkStep
  <2>6. CASE ExamineOrder \/ ExamineExcused
    BY <2>6, ExamineOrderStep, ExamineExcusedStep
  <2>7. CASE Done \/ UNCHANGED vars
    BY <2>7, QuietStep DEF Done, vars, tasks
  <2> QED
    BY <2>2, <2>3, <2>4, <2>5, <2>6, <2>7 DEF Next
<1> QED
  BY <1>1, <1>2, PTL DEF Spec

(* The variables are well typed: the iterator of the walk stays within the *)
(* records, whatever is erased under it (RompLib.cpp:77-102).              *)
THEOREM TypeCorrectness == Spec => []TypeOK
<1>1. IInv => TypeOK
  BY DEF IInv
<1> QED
  BY <1>1, Invariance, PTL

(* The records that are left stand for every access, dropped and skipped   *)
(* ones included (manageAccessRecord, Core.cpp:693-710).                   *)
THEOREM Pruning == Spec => []RecordsStandForAccesses
<1>1. IInv => RecordsStandForAccesses
  BY DEF IInv, HistoryInvariant
<1> QED
  BY <1>1, Invariance, PTL

(* A race is found by the end of the check of its second access, unless    *)
(* some record was managed for what is not known of it.                    *)
THEOREM Completeness == Spec => []RacesAreFoundUnlessBlind
<1>1. IInv => RacesAreFoundUnlessBlind
  BY DEF IInv, HistoryInvariant, RaceIsAhead, RacesAreFoundUnlessBlind, RacesAreFound
<1> QED
  BY <1>1, Invariance, PTL

(* A race that is found is one: two accesses without order or common lock. *)
THEOREM Soundness == Spec => []FoundRacesAreReal
<1>1. IInv => FoundRacesAreReal
  BY DEF IInv, HistoryInvariant
<1> QED
  BY <1>1, Invariance, PTL
=============================================================================
