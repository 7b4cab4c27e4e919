--------------------------- MODULE HappensBefore ---------------------------
(***************************************************************************)
(* The analysis of RompLib/src/Core.cpp that decides, from two labels      *)
(* alone, whether the access recorded in the history happened before the   *)
(* current one.  The C++ functions return a bool or abort the program; the *)
(* operators return one of three verdicts.  Places in a label count from 1 *)
(* where the code counts from 0.                                           *)
(***************************************************************************)
EXTENDS Labels

Before     == "before"      \* the code returns true
Concurrent == "concurrent"  \* the code returns false
Fatal      == "fatal"       \* RAW_LOG(FATAL) or a failed RAW_CHECK
Verdicts   == {Before, Concurrent, Fatal}

Claim(ordered) == IF ordered THEN Before ELSE Concurrent
Require(check, verdict) == IF check THEN verdict ELSE Fatal

IsLeaf(label, k) == k = Len(label)

-----------------------------------------------------------------------------
\* Seeded fault: a task that is waited for is taken to wait for its children.
SyncChainTrustsOne(label, start) ==
  IsLeaf(label, start) \/ \E k \in start..Len(label) : label[k].type # "workshare"

\* Seeded fault: the test of the taskwait mark is negated.
SyncChainNegated(label, start) ==
  \/ IsLeaf(label, start)
  \/ \A k \in start..Len(label) : ~ (label[k].type = "explicit" /\ label[k].taskwaited)

\* T(label) has finished when T(label, start) has: going down from start, an
\* implicit task or a taskgroup settles it before an unwaited task denies it.
AnalyzeSyncChain(label, start) ==
  LET Settles(k) == \/ label[k].type = "implicit"
                    \/ label[k].type = "explicit" /\ label[k].taskGroupLevel > 0
      Denies(k)  == /\ label[k].type = "explicit"
                    /\ label[k].taskGroupLevel = 0
                    /\ ~ label[k].taskwaited
  IN  IsLeaf(label, start) \/
      \A k \in start..Len(label) : Denies(k) => \E j \in start..k : Settles(j)

ComputeExitRank(phase) == phase - (phase % 2)

\* Seeded fault: the two roundings are exchanged.
EnterRankRoundedDown(phase) == phase - (phase % 2)

ComputeEnterRank(phase) == phase + (phase % 2)

AnalyzeOrderedDescendents(hist, k, histPhase) ==
  LET seg == hist[k]
      next == hist[k+1]
      groupSettles ==
        /\ seg.taskGroupLevel > 0
        /\ \/ seg.phase % 2 = 1
           \/ next.taskGroupSync /\ TaskGroupPhase(next) <= histPhase
      waitSettles ==
        /\ next.taskwaited /\ next.taskwaitPhase <= histPhase
        /\ AnalyzeSyncChain(hist, k + 1)
  IN  CASE next.type = "implicit"  -> Before
        [] next.type = "workshare" -> Fatal
        [] next.type = "explicit"  -> Claim(groupSettles \/ waitSettles)

\* Two iterations of one loop: ordered when hist was at the latest in its
\* ordered region and cur is at the earliest in its own.
AnalyzeOrderedSection(hist, cur, k) ==
  LET apart == ComputeExitRank(hist[k].phase) < ComputeEnterRank(cur[k].phase)
  IN  IF IsPlaceHolder(hist[k]) \/ IsPlaceHolder(cur[k]) \/ ~ apart THEN Concurrent
      ELSE IF IsLeaf(hist, k) THEN Before
      ELSE AnalyzeOrderedDescendents(hist, k, hist[k].phase)

\* Seeded fault: loops of the same team are compared whatever their number.
SiblingsIgnoreLoopCount(hist, cur, k) ==
  IF /\ ~ IsLeaf(hist, k) /\ ~ IsLeaf(cur, k)
     /\ hist[k+1].type = "workshare" /\ cur[k+1].type = "workshare"
     /\ ~ IsSection(hist[k+1]) /\ ~ IsSection(cur[k+1])
  THEN AnalyzeOrderedSection(hist, cur, k + 1)
  ELSE Concurrent

\* Two members of one team are ordered only by ordered regions of one loop.
AnalyzeSiblingImpTask(hist, cur, k) ==
  IF /\ ~ IsLeaf(hist, k) /\ ~ IsLeaf(cur, k)
     /\ hist[k+1].type = "workshare" /\ cur[k+1].type = "workshare"
     /\ ~ IsSection(hist[k+1]) /\ ~ IsSection(cur[k+1])
     /\ hist[k].loopCount = cur[k].loopCount
  THEN AnalyzeOrderedSection(hist, cur, k + 1)
  ELSE Concurrent

-----------------------------------------------------------------------------
\* A taskgroup around the first of two tasks ended before the second was made.
AnalyzeTaskGroupSync(hist, cur, k) ==
  /\ hist[k].taskGroupId < cur[k].taskGroupId
  /\ hist[k].taskGroupLevel >= cur[k].taskGroupLevel

AnalyzeNextExpExp(hist, cur, k) ==
  IF AnalyzeTaskGroupSync(hist, cur, k) THEN Before
  ELSE IF hist[k].taskwait = cur[k].taskwait THEN Concurrent
  ELSE Require(hist[k].taskwait < cur[k].taskwait,
               Claim(AnalyzeSyncChain(hist, k + 1)))

\* analyzeNextImpExp, ImpWork, ExpImp, WorkImp, WorkExp, WorkWork say no.
DispatchAnalysis(hist, cur, k) ==
  LET histType == hist[k+1].type
      curType == cur[k+1].type
  IN  IF histType = "explicit" /\ curType \in {"explicit", "workshare"}
      THEN AnalyzeNextExpExp(hist, cur, k)
      ELSE Concurrent

\* T(hist) is below task k of its label, and the current access is task k.
AnalyzeAncestor(hist, cur, k) ==
  LET next == hist[k+1] IN
  CASE next.type = "implicit" -> Fatal
    [] next.type = "workshare" -> Claim(IsPlaceHolder(next))
    [] next.type = "explicit" ->
         Require(cur[k].taskwait >= hist[k].taskwait,
                 Claim(IF cur[k].taskwait = hist[k].taskwait
                       THEN hist[k].taskGroupLevel > 0 /\ next.taskGroupSync
                       ELSE AnalyzeSyncChain(hist, k + 1)))

\* Task k of the two labels is one and the same task at two points in time.
AnalyzeSameTask(hist, cur, k) ==
  IF IsLeaf(hist, k) THEN Before
  ELSE IF IsLeaf(cur, k) THEN AnalyzeAncestor(hist, cur, k)
  ELSE Require(~ (hist[k+1].type = "implicit" /\ cur[k+1].type = "implicit"),
               DispatchAnalysis(hist, cur, k))

-----------------------------------------------------------------------------
\* span = 1: the initial task, an explicit task or a worksharing construct.
AnalyzeLoneTask(hist, cur, k) ==
  LET type == hist[k].type IN
  Require(type = cur[k].type,
    CASE type = "implicit"  -> Require(hist[k].offset < cur[k].offset, Before)
      [] type = "explicit"  -> AnalyzeSameTask(hist, cur, k)
      [] type = "workshare" -> IF IsSingleExecutor(hist[k]) /\ IsSingleExecutor(cur[k])
                               THEN AnalyzeSameTask(hist, cur, k)
                               ELSE AnalyzeOrderedSection(hist, cur, k))

\* Seeded fault: members of a team are told apart by offset alone.
AnalyzeTeamByOffset(hist, cur, k) ==
  IF hist[k].offset = cur[k].offset THEN AnalyzeSameTask(hist, cur, k)
  ELSE IF hist[k].offset < cur[k].offset THEN Before
  ELSE AnalyzeSiblingImpTask(hist, cur, k)

\* span > 1: members of a team.  The offset modulo the span is the index in
\* the team, so equal remainders are one member before and after a barrier.
AnalyzeTeam(hist, cur, k) ==
  LET span == hist[k].span IN
  IF hist[k].offset = cur[k].offset THEN AnalyzeSameTask(hist, cur, k)
  ELSE IF hist[k].offset % span = cur[k].offset % span
       THEN Require(hist[k].offset < cur[k].offset, Before)
  ELSE AnalyzeSiblingImpTask(hist, cur, k)

HB(hist, cur) ==
  LET k == CompareLabels(hist, cur) IN
  CASE k \in {SameLabel, LeftIsPrefix} -> Before
    [] k = RightIsPrefix -> Fatal
    [] OTHER -> Require(hist[k].span = cur[k].span,
                        IF hist[k].span = 1 THEN AnalyzeLoneTask(hist, cur, k)
                                            ELSE AnalyzeTeam(hist, cur, k))
=============================================================================
