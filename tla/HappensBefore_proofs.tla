------------------------ MODULE HappensBefore_proofs ------------------------
(***************************************************************************)
(* Lemmas about labels and about the analysis of HappensBefore, for labels *)
(* of every length: where compareLabels finds the first difference, and    *)
(* that marks set in the segments of two labels, with the difference in    *)
(* the same place, leave a yes of the analysis a yes.                      *)
(***************************************************************************)
EXTENDS HappensBefore, SequenceTheorems, WellFoundedInduction, TLAPS

-----------------------------------------------------------------------------
(* Sequences                                                               *)

(* What the end of a sequence is made of.                                  *)
LEMMA Ends ==
  ASSUME NEW S, NEW s \in Seq(S), NEW e \in S
  PROVE  /\ Append(s, e) \in Seq(S) /\ Len(Append(s, e)) = Len(s) + 1
         /\ Append(s, e)[Len(s) + 1] = e
         /\ \A k \in 1..Len(s) : Append(s, e)[k] = s[k]
         /\ Front(Append(s, e)) = s /\ Last(Append(s, e)) = e
<1>1. Front(Append(s, e)) = s
  BY DEF Front
<1> QED BY <1>1 DEF Last

(* What Front leaves.                                                      *)
LEMMA Fronts ==
  ASSUME NEW S, NEW s \in Seq(S), Len(s) >= 1
  PROVE  /\ Front(s) \in Seq(S) /\ Len(Front(s)) = Len(s) - 1
         /\ \A k \in 1..Len(s)-1 : Front(s)[k] = s[k]
         /\ Last(s) = s[Len(s)] /\ Last(s) \in S
<1>1. Len(s) \in 1..Len(s) /\ Len(s) - 1 \in Nat
  OBVIOUS
<1>2. s[Len(s)] \in S
  BY <1>1, ElementOfSeq
<1>3. Front(s) = [k \in 1..Len(s)-1 |-> s[k]]
  BY <1>1 DEF Front
<1>4. Front(s) \in Seq(S)
  BY <1>1 DEF Front
<1>5. Len(Front(s)) = Len(s) - 1
  BY <1>1, <1>3
<1> QED BY <1>2, <1>3, <1>4, <1>5 DEF Last

(* What ReplaceLast of Labels leaves.                                      *)
LEMMA LastReplaced ==
  ASSUME NEW S, NEW s \in Seq(S), Len(s) >= 1, NEW e \in S
  PROVE  /\ ReplaceLast(s, e) \in Seq(S) /\ Len(ReplaceLast(s, e)) = Len(s)
         /\ ReplaceLast(s, e)[Len(s)] = e
         /\ \A k \in 1..Len(s)-1 : ReplaceLast(s, e)[k] = s[k]
<1>1. Front(s) \in Seq(S) /\ Len(Front(s)) = Len(s) - 1
  BY Fronts
<1>2. \A k \in 1..Len(s)-1 : Front(s)[k] = s[k]
  BY Fronts
<1> HIDE DEF Front
<1> QED BY <1>1, <1>2, Ends DEF ReplaceLast

(* A set of numbers has a least one.                                       *)
LEMMA Least ==
  ASSUME NEW T \in SUBSET Nat, T # {}
  PROVE  \E k \in T : \A j \in T : k <= j
<1>1. PICK k \in T : \A j \in T : ~ (<<j, k>> \in OpToRel(<, Nat))
  BY NatLessThanWellFounded, WFMin
<1>2. \A j \in T : ~ (j < k)
  BY <1>1 DEF OpToRel
<1> QED BY <1>2

-----------------------------------------------------------------------------
(* compareLabels                                                           *)

(* The first difference is found.                                          *)
LEMMA FirstDifference ==
  ASSUME NEW S, NEW l \in Seq(S), NEW r \in Seq(S), NEW i \in 1..Len(l), i <= Len(r),
         \A k \in 1..i-1 : SameSegment(l[k], r[k]), ~ SameSegment(l[i], r[i])
  PROVE  CompareLabels(l, r) = i
<1> DEFINE differ == {k \in 1..(IF Len(l) < Len(r) THEN Len(l) ELSE Len(r)) :
                        ~ SameSegment(l[k], r[k])}
<1>1. i \in differ
  OBVIOUS
<1>2. \A k \in differ : k \in Nat /\ i <= k
  OBVIOUS
<1>3. \A k \in differ : (\A j \in differ : k <= j) => k = i
  <2> TAKE k \in differ
  <2> HAVE \A j \in differ : k <= j
  <2>1. k <= i /\ i <= k /\ k \in Nat
    BY <1>1, <1>2
  <2> QED BY <2>1
<1> HIDE DEF differ
<1>4. (CHOOSE k \in differ : \A j \in differ : k <= j) = i
  BY <1>1, <1>2, <1>3
<1> QED BY <1>1, <1>4 DEF CompareLabels, differ

(* No difference: one label is the other, or a part of it.                 *)
LEMMA NoDifference ==
  ASSUME NEW S, NEW l \in Seq(S), NEW r \in Seq(S),
         \A k \in 1..Len(l) : k <= Len(r) => SameSegment(l[k], r[k])
  PROVE  CompareLabels(l, r) = IF Len(l) = Len(r) THEN SameLabel
                               ELSE IF Len(l) < Len(r) THEN LeftIsPrefix ELSE RightIsPrefix
BY DEF CompareLabels

-----------------------------------------------------------------------------
(* Marks                                                                   *)

\* The marks that taskwait and taskgroup set are all that differs, and stay once set.
MarkedOnly(old, new) ==
  /\ old \in SegmentType /\ new \in SegmentType
  /\ new.type = old.type /\ new.offset = old.offset /\ new.span = old.span
  /\ new.taskwait = old.taskwait /\ new.phase = old.phase /\ new.loopCount = old.loopCount
  /\ new.taskcreate = old.taskcreate /\ new.bit2 = old.bit2
  /\ new.taskGroupId = old.taskGroupId /\ new.taskGroupLevel = old.taskGroupLevel
  /\ new.workShareId = old.workShareId
  /\ old.taskwaited => new.taskwaited
  /\ old.taskGroupSync => new.taskGroupSync
  /\ old.type = "explicit" => new.taskwaitPhase = old.taskwaitPhase

MarkedLabel(old, new) ==
  /\ old \in Seq(SegmentType) /\ new \in Seq(SegmentType) /\ Len(new) = Len(old)
  /\ \A k \in 1..Len(old) : MarkedOnly(old[k], new[k])

(* A task that is waited for stays so.                                     *)
LEMMA SyncChainStays ==
  ASSUME NEW h, NEW g, MarkedLabel(h, g), NEW s \in 1..Len(h), AnalyzeSyncChain(h, s)
  PROVE  AnalyzeSyncChain(g, s)
<1>1. /\ Len(g) = Len(h) /\ Len(h) \in Nat
      /\ \A k \in s..Len(h) : MarkedOnly(h[k], g[k])
  BY DEF MarkedLabel
<1>2. CASE IsLeaf(h, s)
  BY <1>1, <1>2 DEF AnalyzeSyncChain, IsLeaf
<1>3. CASE ~ IsLeaf(h, s)
  <2> SUFFICES ASSUME NEW k \in s..Len(h), g[k].type = "explicit", g[k].taskGroupLevel = 0,
                      ~ g[k].taskwaited
               PROVE  \E j \in s..k : \/ g[j].type = "implicit"
                                      \/ g[j].type = "explicit" /\ g[j].taskGroupLevel > 0
    BY <1>1 DEF AnalyzeSyncChain
  <2>1. h[k].type = "explicit" /\ h[k].taskGroupLevel = 0 /\ ~ h[k].taskwaited
    BY <1>1 DEF MarkedOnly
  <2>2. PICK j \in s..k : \/ h[j].type = "implicit"
                          \/ h[j].type = "explicit" /\ h[j].taskGroupLevel > 0
    BY <2>1, <1>3 DEF AnalyzeSyncChain
  <2>3. j \in s..Len(h)
    BY <1>1, <2>2
  <2>4. MarkedOnly(h[j], g[j])
    BY <2>3, <1>1
  <2> QED BY <2>2, <2>4 DEF MarkedOnly
<1> QED BY <1>2, <1>3

(* What is ordered inside of an ordered region stays so.                   *)
LEMMA DescendentsStay ==
  ASSUME NEW h, NEW g, MarkedLabel(h, g), NEW k \in 1..Len(h), k # Len(h), NEW p,
         AnalyzeOrderedDescendents(h, k, p) = Before
  PROVE  AnalyzeOrderedDescendents(g, k, p) = Before
<1>1. MarkedOnly(h[k], g[k]) /\ MarkedOnly(h[k+1], g[k+1]) /\ k + 1 \in 1..Len(h)
  BY DEF MarkedLabel
<1>2. AnalyzeSyncChain(h, k + 1) => AnalyzeSyncChain(g, k + 1)
  BY <1>1, SyncChainStays
<1>3. h[k+1].type \in {"implicit", "explicit", "workshare"} /\ g[k+1].type = h[k+1].type
  BY <1>1 DEF MarkedOnly, SegmentType
<1>4. CASE h[k+1].type = "implicit"
  BY <1>3, <1>4 DEF AnalyzeOrderedDescendents
<1>5. CASE h[k+1].type = "workshare"
  BY <1>5 DEF AnalyzeOrderedDescendents, Fatal, Before
<1>6. CASE h[k+1].type = "explicit"
  <2> DEFINE Group(x) == /\ x[k].taskGroupLevel > 0
                         /\ \/ x[k].phase % 2 = 1
                            \/ x[k+1].taskGroupSync /\ TaskGroupPhase(x[k+1]) <= p
             Wait(x) == /\ x[k+1].taskwaited /\ x[k+1].taskwaitPhase <= p
                        /\ AnalyzeSyncChain(x, k + 1)
  <2>1. Group(h) \/ Wait(h)
    BY <1>6 DEF AnalyzeOrderedDescendents, Claim, Before, Concurrent
  <2>2. Group(h) => Group(g)
    BY <1>1 DEF MarkedOnly, TaskGroupPhase
  <2>3. Wait(h) => Wait(g)
    BY <1>1, <1>2, <1>6 DEF MarkedOnly
  <2>4. g[k+1].type = "explicit"
    BY <1>3, <1>6
  <2> QED BY <2>1, <2>2, <2>3, <2>4 DEF AnalyzeOrderedDescendents, Claim
<1> QED BY <1>3, <1>4, <1>5, <1>6

(* ... and so what is ordered by ordered regions.                          *)
LEMMA OrderedSectionStays ==
  ASSUME NEW h, NEW g, NEW c, NEW d, MarkedLabel(h, g), MarkedLabel(c, d),
         NEW k \in 1..Len(h), k <= Len(c), AnalyzeOrderedSection(h, c, k) = Before
  PROVE  AnalyzeOrderedSection(g, d, k) = Before
<1>1. MarkedOnly(h[k], g[k]) /\ MarkedOnly(c[k], d[k]) /\ Len(g) = Len(h)
  BY DEF MarkedLabel
<1>2. g[k].phase = h[k].phase /\ d[k].phase = c[k].phase /\ g[k].bit2 = h[k].bit2 /\ d[k].bit2 = c[k].bit2
  BY <1>1 DEF MarkedOnly
<1>3. CASE k = Len(h)
  BY <1>1, <1>2, <1>3 DEF AnalyzeOrderedSection, IsPlaceHolder, IsLeaf, Before, Concurrent
<1>4. CASE k # Len(h)
  <2>1. AnalyzeOrderedDescendents(h, k, h[k].phase) = Before
    BY <1>4 DEF AnalyzeOrderedSection, IsLeaf, Before, Concurrent
  <2>2. AnalyzeOrderedDescendents(g, k, h[k].phase) = Before
    BY <1>4, <2>1, DescendentsStay
  <2>3. ~ (IsPlaceHolder(h[k]) \/ IsPlaceHolder(c[k])
           \/ ~ ComputeExitRank(h[k].phase) < ComputeEnterRank(c[k].phase))
    BY DEF AnalyzeOrderedSection, Before, Concurrent
  <2> QED BY <1>1, <1>2, <1>4, <2>2, <2>3 DEF AnalyzeOrderedSection, IsPlaceHolder, IsLeaf
<1> QED BY <1>3, <1>4

(* What is ordered because one task made both accesses, or what they are   *)
(* below, stays so.                                                        *)
LEMMA SameTaskStays ==
  ASSUME NEW h, NEW g, NEW c, NEW d, MarkedLabel(h, g), MarkedLabel(c, d),
         NEW k \in 1..Len(h), k <= Len(c), AnalyzeSameTask(h, c, k) = Before
  PROVE  AnalyzeSameTask(g, d, k) = Before
<1>1. /\ MarkedOnly(h[k], g[k]) /\ MarkedOnly(c[k], d[k])
      /\ Len(g) = Len(h) /\ Len(d) = Len(c) /\ Len(h) \in Nat /\ Len(c) \in Nat
  BY DEF MarkedLabel
<1>2. CASE k = Len(h)
  BY <1>1, <1>2 DEF AnalyzeSameTask, IsLeaf
<1>3. CASE k # Len(h)
  <2>1. k + 1 \in 1..Len(h) /\ MarkedOnly(h[k+1], g[k+1])
    BY <1>1, <1>3 DEF MarkedLabel
  <2>2. AnalyzeSyncChain(h, k + 1) => AnalyzeSyncChain(g, k + 1)
    BY <2>1, SyncChainStays
  <2>3. h[k+1].type \in {"implicit", "explicit", "workshare"} /\ g[k+1].type = h[k+1].type
    BY <2>1 DEF MarkedOnly, SegmentType
  <2>4. /\ g[k].taskwait = h[k].taskwait /\ d[k].taskwait = c[k].taskwait
        /\ g[k].taskGroupLevel = h[k].taskGroupLevel /\ d[k].taskGroupLevel = c[k].taskGroupLevel
        /\ g[k].taskGroupId = h[k].taskGroupId /\ d[k].taskGroupId = c[k].taskGroupId
        /\ g[k+1].bit2 = h[k+1].bit2 /\ (h[k+1].taskGroupSync => g[k+1].taskGroupSync)
    BY <1>1, <2>1 DEF MarkedOnly
  <2>5. CASE k = Len(c)
    <3>1. AnalyzeAncestor(h, c, k) = Before
      BY <1>3, <2>5 DEF AnalyzeSameTask, IsLeaf
    <3>2. AnalyzeAncestor(g, d, k) = Before
      <4>1. CASE h[k+1].type = "implicit"
        BY <3>1, <4>1 DEF AnalyzeAncestor, Before, Fatal
      <4>2. CASE h[k+1].type = "workshare"
        BY <3>1, <4>2, <2>3, <2>4 DEF AnalyzeAncestor, IsPlaceHolder
      <4>3. CASE h[k+1].type = "explicit"
        <5>1. /\ c[k].taskwait >= h[k].taskwait
              /\ IF c[k].taskwait = h[k].taskwait
                 THEN h[k].taskGroupLevel > 0 /\ h[k+1].taskGroupSync
                 ELSE AnalyzeSyncChain(h, k + 1)
          BY <3>1, <4>3 DEF AnalyzeAncestor, Require, Claim, Before, Concurrent, Fatal
        <5>2. /\ d[k].taskwait >= g[k].taskwait
              /\ IF d[k].taskwait = g[k].taskwait
                 THEN g[k].taskGroupLevel > 0 /\ g[k+1].taskGroupSync
                 ELSE AnalyzeSyncChain(g, k + 1)
          BY <5>1, <2>2, <2>4
        <5> QED BY <5>2, <4>3, <2>3 DEF AnalyzeAncestor, Require, Claim
      <4> QED BY <2>3, <4>1, <4>2, <4>3
    <3> QED BY <1>1, <1>3, <2>5, <3>2 DEF AnalyzeSameTask, IsLeaf
  <2>6. CASE k # Len(c)
    <3>1. k + 1 \in 1..Len(c) /\ MarkedOnly(c[k+1], d[k+1])
      BY <1>1, <2>6 DEF MarkedLabel
    <3>2. d[k+1].type = c[k+1].type
      BY <3>1 DEF MarkedOnly
    <3>3. /\ ~ (h[k+1].type = "implicit" /\ c[k+1].type = "implicit")
          /\ DispatchAnalysis(h, c, k) = Before
      BY <1>3, <2>6 DEF AnalyzeSameTask, IsLeaf, Require, Before, Fatal
    <3>4. /\ h[k+1].type = "explicit" /\ c[k+1].type \in {"explicit", "workshare"}
          /\ AnalyzeNextExpExp(h, c, k) = Before
      BY <3>3 DEF DispatchAnalysis, Before, Concurrent
    <3>5. AnalyzeTaskGroupSync(h, c, k) => AnalyzeTaskGroupSync(g, d, k)
      BY <2>4 DEF AnalyzeTaskGroupSync
    <3>6. \/ AnalyzeTaskGroupSync(h, c, k)
          \/ /\ h[k].taskwait # c[k].taskwait /\ h[k].taskwait < c[k].taskwait
             /\ AnalyzeSyncChain(h, k + 1)
      BY <3>4 DEF AnalyzeNextExpExp, Require, Claim, Before, Concurrent, Fatal
    <3>7. AnalyzeNextExpExp(g, d, k) = Before
      BY <3>5, <3>6, <2>2, <2>4 DEF AnalyzeNextExpExp, Require, Claim
    <3>8. DispatchAnalysis(g, d, k) = Before
      BY <3>4, <3>7, <3>2, <2>3 DEF DispatchAnalysis
    <3> QED BY <1>1, <1>3, <2>3, <2>6, <3>2, <3>3, <3>8 DEF AnalyzeSameTask, IsLeaf, Require
  <2> QED BY <2>5, <2>6
<1> QED BY <1>2, <1>3

\* What happensBefore does with the first difference.
AnalyzeAt(hist, cur, k) ==
  Require(hist[k].span = cur[k].span,
          IF hist[k].span = 1 THEN AnalyzeLoneTask(hist, cur, k) ELSE AnalyzeTeam(hist, cur, k))

(* With the first difference in one place, a yes stays a yes.              *)
LEMMA VerdictStaysAt ==
  ASSUME NEW h, NEW g, NEW c, NEW d, MarkedLabel(h, g), MarkedLabel(c, d),
         NEW k \in 1..Len(h), k <= Len(c), AnalyzeAt(h, c, k) = Before
  PROVE  AnalyzeAt(g, d, k) = Before
<1>1. /\ MarkedOnly(h[k], g[k]) /\ MarkedOnly(c[k], d[k])
      /\ Len(g) = Len(h) /\ Len(d) = Len(c) /\ Len(h) \in Nat /\ Len(c) \in Nat
  BY DEF MarkedLabel
<1>2. /\ g[k].span = h[k].span /\ d[k].span = c[k].span
      /\ g[k].type = h[k].type /\ d[k].type = c[k].type
      /\ g[k].offset = h[k].offset /\ d[k].offset = c[k].offset
      /\ g[k].workShareId = h[k].workShareId /\ d[k].workShareId = c[k].workShareId
      /\ g[k].loopCount = h[k].loopCount /\ d[k].loopCount = c[k].loopCount
  BY <1>1 DEF MarkedOnly
<1>3. h[k].type \in {"implicit", "explicit", "workshare"}
  BY <1>1 DEF MarkedOnly, SegmentType
<1>4. AnalyzeSameTask(h, c, k) = Before => AnalyzeSameTask(g, d, k) = Before
  BY SameTaskStays
<1>5. h[k].span = c[k].span
  BY DEF AnalyzeAt, Require, Before, Fatal
<1>6. CASE h[k].span = 1
  <2>1. AnalyzeLoneTask(h, c, k) = Before
    BY <1>5, <1>6 DEF AnalyzeAt, Require
  <2>2. h[k].type = c[k].type
    BY <2>1 DEF AnalyzeLoneTask, Require, Before, Fatal
  <2>3. AnalyzeLoneTask(g, d, k) = Before
    <3>1. CASE h[k].type = "implicit"
      BY <1>2, <2>1, <2>2, <3>1 DEF AnalyzeLoneTask, Require
    <3>2. CASE h[k].type = "explicit"
      BY <1>2, <1>4, <2>1, <2>2, <3>2 DEF AnalyzeLoneTask, Require
    <3>3. CASE h[k].type = "workshare"
      <4>1. AnalyzeOrderedSection(h, c, k) = Before => AnalyzeOrderedSection(g, d, k) = Before
        BY OrderedSectionStays
      <4> QED BY <1>2, <1>4, <2>1, <2>2, <3>3, <4>1 DEF AnalyzeLoneTask, Require, IsSingleExecutor
    <3> QED BY <1>3, <3>1, <3>2, <3>3
  <2> QED BY <1>2, <1>5, <1>6, <2>3 DEF AnalyzeAt, Require
<1>7. CASE h[k].span # 1
  <2>1. AnalyzeTeam(h, c, k) = Before
    BY <1>5, <1>7 DEF AnalyzeAt, Require
  <2>2. AnalyzeSiblingImpTask(h, c, k) = Before => AnalyzeSiblingImpTask(g, d, k) = Before
    <3> HAVE AnalyzeSiblingImpTask(h, c, k) = Before
    <3>1. /\ k # Len(h) /\ k # Len(c)
          /\ h[k+1].type = "workshare" /\ c[k+1].type = "workshare"
          /\ ~ IsSection(h[k+1]) /\ ~ IsSection(c[k+1])
          /\ h[k].loopCount = c[k].loopCount
          /\ AnalyzeOrderedSection(h, c, k + 1) = Before
      BY DEF AnalyzeSiblingImpTask, IsLeaf, Before, Concurrent
    <3>2. k + 1 \in 1..Len(h) /\ k + 1 <= Len(c) /\ k + 1 \in 1..Len(c)
      BY <1>1, <3>1
    <3>3. MarkedOnly(h[k+1], g[k+1]) /\ MarkedOnly(c[k+1], d[k+1])
      BY <3>2 DEF MarkedLabel
    <3>4. AnalyzeOrderedSection(g, d, k + 1) = Before
      BY <3>1, <3>2, OrderedSectionStays
    <3> QED BY <1>1, <1>2, <3>1, <3>3, <3>4 DEF AnalyzeSiblingImpTask, IsLeaf, MarkedOnly, IsSection
  <2>3. AnalyzeTeam(g, d, k) = Before
    BY <1>2, <1>4, <2>1, <2>2 DEF AnalyzeTeam
  <2> QED BY <1>2, <1>5, <1>7, <2>3 DEF AnalyzeAt, Require
<1> QED BY <1>6, <1>7

(* What happensBefore answers when there is a first difference ...         *)
LEMMA VerdictAtDifference ==
  ASSUME NEW h \in Seq(SegmentType), NEW c \in Seq(SegmentType), NEW i \in 1..Len(h), i <= Len(c),
         \A k \in 1..i-1 : SameSegment(h[k], c[k]), ~ SameSegment(h[i], c[i])
  PROVE  HB(h, c) = AnalyzeAt(h, c, i)
<1>1. CompareLabels(h, c) = i
  BY FirstDifference
<1>2. i \notin {SameLabel, LeftIsPrefix} /\ i # RightIsPrefix
  BY DEF SameLabel, LeftIsPrefix, RightIsPrefix
<1> QED BY <1>1, <1>2 DEF HB, AnalyzeAt

(* ... and when there is none.                                             *)
LEMMA VerdictWithoutDifference ==
  ASSUME NEW h \in Seq(SegmentType), NEW c \in Seq(SegmentType),
         \A k \in 1..Len(h) : k <= Len(c) => SameSegment(h[k], c[k])
  PROVE  HB(h, c) = IF Len(h) <= Len(c) THEN Before ELSE Fatal
<1>1. Len(h) \in Nat /\ Len(c) \in Nat
  OBVIOUS
<1>2. CompareLabels(h, c) = IF Len(h) = Len(c) THEN SameLabel
                            ELSE IF Len(h) < Len(c) THEN LeftIsPrefix ELSE RightIsPrefix
  BY NoDifference
<1> QED BY <1>1, <1>2 DEF HB, SameLabel, LeftIsPrefix, RightIsPrefix

(* The recorded access is in the last segment of its label, which had the  *)
(* value of that of the current access before marks: they are in order,    *)
(* but for two accesses of one iteration.                                  *)
LEMMA EqualEndsAreOrdered ==
  ASSUME NEW h, NEW g, NEW c, NEW d, MarkedLabel(h, g), MarkedLabel(c, d),
         Len(h) >= 1, Len(h) <= Len(c), SameSegment(h[Len(h)], c[Len(h)]),
         \/ h[Len(h)].type = "implicit" /\ h[Len(h)].span # 1
         \/ h[Len(h)].type = "explicit"
         \/ h[Len(h)].type = "workshare" /\ h[Len(h)].workShareId = SingleExec
  PROVE  AnalyzeAt(g, d, Len(h)) = Before
<1> DEFINE k == Len(h)
<1>1. /\ k \in 1..Len(h) /\ k \in 1..Len(c) /\ Len(g) = k
      /\ MarkedOnly(h[k], g[k]) /\ MarkedOnly(c[k], d[k])
  BY DEF MarkedLabel
<1>2. Value(h[k]) = Value(c[k])
  BY DEF SameSegment
<1> SUFFICES AnalyzeAt(g, d, k) = Before
  OBVIOUS
<1>0. \/ h[k].type = "implicit" /\ h[k].span # 1
      \/ h[k].type = "explicit"
      \/ h[k].type = "workshare" /\ h[k].workShareId = SingleExec
  OBVIOUS
<1> HIDE DEF k
<1>3. /\ h[k].type = c[k].type /\ h[k].offset = c[k].offset /\ h[k].span = c[k].span
      /\ h[k].workShareId = c[k].workShareId
  <2>1. h[k] \in SegmentType /\ c[k] \in SegmentType
    BY <1>1 DEF MarkedOnly
  <2>2. /\ Value(h[k]).type = h[k].type /\ Value(c[k]).type = c[k].type
        /\ Value(h[k]).offset = h[k].offset /\ Value(c[k]).offset = c[k].offset
        /\ Value(h[k]).span = h[k].span /\ Value(c[k]).span = c[k].span
        /\ Value(h[k]).workShareId = h[k].workShareId /\ Value(c[k]).workShareId = c[k].workShareId
    BY <2>1 DEF Value, SegmentType
  <2> QED BY <1>2, <2>2
<1>4. /\ g[k].type = h[k].type /\ g[k].offset = h[k].offset /\ g[k].span = h[k].span
      /\ g[k].workShareId = h[k].workShareId
      /\ d[k].type = h[k].type /\ d[k].offset = h[k].offset /\ d[k].span = h[k].span
      /\ d[k].workShareId = h[k].workShareId
  BY <1>1, <1>3 DEF MarkedOnly
<1>5. AnalyzeSameTask(g, d, k) = Before
  BY <1>1 DEF AnalyzeSameTask, IsLeaf
<1>6. CASE h[k].type = "implicit" /\ h[k].span # 1
  BY <1>4, <1>5, <1>6 DEF AnalyzeAt, AnalyzeTeam, Require
<1>7. CASE h[k].type = "explicit"
  BY <1>4, <1>5, <1>7 DEF AnalyzeAt, AnalyzeLoneTask, AnalyzeTeam, Require
<1>8. CASE h[k].type = "workshare" /\ h[k].workShareId = SingleExec
  BY <1>4, <1>5, <1>8 DEF AnalyzeAt, AnalyzeLoneTask, AnalyzeTeam, Require, IsSingleExecutor
<1> QED BY <1>0, <1>6, <1>7, <1>8
=============================================================================
