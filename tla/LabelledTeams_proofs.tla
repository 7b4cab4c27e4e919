------------------------- MODULE LabelledTeams_proofs -------------------------
(***************************************************************************)
(* Proofs about LabelledTeams, for teams of every size, one or two levels  *)
(* of nesting, and every program: the members of a team leave each barrier *)
(* together, every label has the shape that the mutations of Label.cpp     *)
(* take for granted, its counts count what they should, and a count that   *)
(* does not fit its field is the fault of the program.                     *)
(***************************************************************************)
EXTENDS LabelledTeams, HappensBefore_proofs, FiniteSetTheorems

-----------------------------------------------------------------------------
(* Paths                                                                   *)

(* The paths that name the tasks: every task but the initial one is a      *)
(* member of one team, that of the task that forked it.                    *)
LEMMA Tree ==
  /\ Root \in Tasks /\ Root \in Teams
  /\ \A t \in Tasks \ {Root} :
       TeamOf(t) \in Teams /\ t \in MembersOf(TeamOf(t)) /\ TeamOf(t) # t
  /\ \A r \in Teams : r \in Tasks /\ \A t \in MembersOf(r) :
       t \in Tasks \ {Root} /\ TeamOf(t) = r
  /\ \A t \in Tasks \ {Root} :
       Last(t) \in 0..OffsetLimit-1 /\ TeamSizes[Len(t)] \in 1..OffsetLimit-1
  /\ \A t, u \in Tasks \ {Root} : TeamOf(t) = TeamOf(u) /\ Last(t) = Last(u) => t = u
<1> DEFINE TaskType == Seq(Int)
<1>1. Root \in TaskType /\ Len(Root) = 0
  BY DEF Root
<1>2. ASSUME NEW r \in TaskType, Len(r) < Depth, NEW t \in MembersOf(r)
      PROVE  /\ t \in TaskType /\ Len(t) = Len(r) + 1 /\ TeamOf(t) = r /\ t # Root /\ t # r
             /\ t = Append(TeamOf(t), Last(t))
             /\ Last(t) \in 0..OffsetLimit-1 /\ TeamSizes[Len(t)] \in 1..OffsetLimit-1
  <2>1. PICK i \in Indices(Len(r) + 1) : t = Append(r, i)
    BY <1>2 DEF MembersOf
  <2>2. TeamSizes[Len(r) + 1] \in 1..OffsetLimit-1 /\ OffsetLimit \in Nat
    BY <1>2, TeamSizesAssumption, WidthAssumption
  <2>3. i \in Int /\ i \in 0..OffsetLimit-1
    BY <2>1, <2>2 DEF Indices
  <2>4. t \in TaskType /\ Len(t) = Len(r) + 1 /\ Front(t) = r /\ Last(t) = i
    BY <1>2, <2>1, <2>3, Ends
  <2>5. t = Append(TeamOf(t), Last(t))
    BY <2>1, <2>4 DEF TeamOf
  <2> QED BY <1>1, <1>2, <2>2, <2>3, <2>4, <2>5 DEF TeamOf
<1>3. Depth \in {1, 2}
  BY TeamSizesAssumption
<1>4. \A t \in Outer : t \in TaskType /\ Len(t) = 1
  <2>1. Len(Root) < Depth
    BY <1>1, <1>3
  <2> SUFFICES ASSUME NEW t \in MembersOf(Root)
               PROVE  t \in TaskType /\ Len(t) = 1
    BY DEF Outer
  <2>2. t \in TaskType /\ Len(t) = Len(Root) + 1
    BY <1>1, <1>2, <2>1
  <2> QED BY <1>1, <2>2
<1>5. ASSUME NEW t \in Tasks
      PROVE  \/ t = Root
             \/ t \in Outer
             \/ Depth = 2 /\ \E r \in Outer : t \in MembersOf(r)
  <2>1. CASE Depth = 1
    BY <2>1 DEF Tasks
  <2>2. CASE Depth = 2
    <3> HIDE DEF Depth
    <3>1. t \in {Root} \cup Outer \cup UNION {MembersOf(r) : r \in Outer}
      BY <2>2, 1 # 2 DEF Tasks
    <3> QED BY <2>2, <3>1
  <2> QED BY <1>3, <2>1, <2>2
<1>6. ASSUME NEW t \in Tasks \ {Root}
      PROVE  \E r \in Tasks : r \in TaskType /\ Len(r) < Depth /\ t \in MembersOf(r)
  <2>1. CASE t \in Outer
    <3>1. Root \in Tasks /\ 0 < Depth
      BY <1>3 DEF Tasks
    <3> QED BY <2>1, <3>1, <1>1 DEF Outer
  <2>2. CASE Depth = 2 /\ \E r \in Outer : t \in MembersOf(r)
    <3>1. PICK r \in Outer : t \in MembersOf(r)
      BY <2>2
    <3>2. r \in Tasks
      BY <2>2 DEF Tasks
    <3>3. r \in TaskType /\ Len(r) < Depth
      <4>1. r \in TaskType /\ Len(r) = 1
        BY <1>4
      <4> HIDE DEF TaskType
      <4> QED BY <2>2, <4>1
    <3> QED BY <3>1, <3>2, <3>3
  <2> QED BY <1>5, <2>1, <2>2
<1>7. Root \in Tasks /\ Root \in Teams
  BY <1>1, <1>3 DEF Tasks, Teams
<1>8. ASSUME NEW t \in Tasks \ {Root}
      PROVE  /\ TeamOf(t) \in Teams /\ t \in MembersOf(TeamOf(t)) /\ TeamOf(t) # t
             /\ Last(t) \in 0..OffsetLimit-1 /\ TeamSizes[Len(t)] \in 1..OffsetLimit-1
             /\ t = Append(TeamOf(t), Last(t))
  BY <1>2, <1>6 DEF Teams
<1>9. ASSUME NEW r \in Teams, NEW t \in MembersOf(r)
      PROVE  t \in Tasks \ {Root} /\ TeamOf(t) = r
  <2>1. r \in Tasks /\ Len(r) < Depth
    BY DEF Teams
  <2>2. r \in TaskType
    BY <1>1, <1>2, <1>6, <2>1
  <2>3. TeamOf(t) = r /\ t # Root
    BY <1>2, <2>1, <2>2
  <2>4. t \in Tasks
    <3>1. CASE r = Root
      BY <3>1 DEF Outer, Tasks
    <3>2. CASE r \in Outer
      BY <3>2, <2>1, <1>3, <1>4 DEF Tasks
    <3>3. CASE \E q \in Outer : r \in MembersOf(q)
      <4>1. PICK q \in Outer : r \in MembersOf(q)
        BY <3>3
      <4>2. CASE Depth = 1
        <5>1. r = Root \/ r \in Outer
          BY <1>5, <2>1, <4>2
        <5> QED BY <5>1, <3>1, <3>2
      <4>3. CASE Depth = 2
        <5>1. Len(q) = 1 /\ q \in TaskType /\ Len(q) < Depth
          <6>1. q \in TaskType /\ Len(q) = 1
            BY <1>4
          <6> HIDE DEF TaskType
          <6> QED BY <4>3, <6>1
        <5>2. Len(r) = Len(q) + 1
          BY <1>2, <4>1, <5>1
        <5> QED BY <5>1, <5>2, <2>1, <4>3
      <4> QED BY <1>3, <4>2, <4>3
    <3> QED BY <1>5, <2>1, <3>1, <3>2, <3>3
  <2> QED BY <2>3, <2>4
<1> QED BY <1>7, <1>8, <1>9 DEF Teams

-----------------------------------------------------------------------------
(* Segments and labels                                                     *)

(* The fields of a segment have room for something.                        *)
LEMMA Widths == OffsetLimit \in Nat /\ OffsetLimit >= 2 /\ CountLimit \in Nat /\ CountLimit >= 1
<1>1. 1 \in 1..Depth
  BY TeamSizesAssumption
<1>2. TeamSizes[1] \in 1..OffsetLimit-1
  BY <1>1, TeamSizesAssumption
<1> QED BY <1>2, WidthAssumption

\* A segment as the code makes it, all counts 0.
Fresh(seg) == seg \in SegmentType /\ SegmentOK(seg) /\ seg.loopCount = 0 /\ seg.phase = 0

(* New segments are fresh.                                                 *)
LEMMA NewSegments ==
  /\ \A index \in 0..OffsetLimit-1, span \in 1..OffsetLimit-1 : Fresh(ImplicitSegment(index, span))
  /\ Fresh(PlaceHolderSegment)
  /\ \A id \in Nat : Fresh(IterationSegment(id)) /\ Fresh(SectionSegment(id))
  /\ Fresh(SingleSegment(SingleExec)) /\ Fresh(SingleSegment(SingleOther))
<1> USE Widths DEF Fresh, SegmentType, SegmentOK
<1>1. \A index \in 0..OffsetLimit-1, span \in 1..OffsetLimit-1 : Fresh(ImplicitSegment(index, span))
  BY DEF ImplicitSegment, Segment
<1>2. Fresh(Segment("workshare", 0, 1))
  BY DEF Segment
<1>3. ASSUME NEW seg, Fresh(seg), NEW id \in Int
      PROVE  Fresh([seg EXCEPT !.workShareId = id]) /\ Fresh([seg EXCEPT !.bit2 = TRUE])
  BY <1>3
<1>4. Fresh(PlaceHolderSegment)
  BY <1>2, <1>3 DEF PlaceHolderSegment
<1> HIDE DEF Fresh
<1>5. ASSUME NEW id \in Int PROVE Fresh(IterationSegment(id)) /\ Fresh(SectionSegment(id))
  <2>1. Fresh(IterationSegment(id))
    <3>1. IterationSegment(id) = [Segment("workshare", 0, 1) EXCEPT !.workShareId = id]
      BY DEF IterationSegment
    <3> QED BY <1>2, <1>3, <3>1
  <2>2. SectionSegment(id) = [IterationSegment(id) EXCEPT !.bit2 = TRUE]
    BY DEF SectionSegment
  <2> QED BY <1>3, <2>1, <2>2
<1>6. Fresh(SingleSegment(SingleExec)) /\ Fresh(SingleSegment(SingleOther))
  <2>1. ASSUME NEW mark \in Int PROVE Fresh(SingleSegment(mark))
    <3>1. SingleSegment(mark) = [Segment("workshare", 0, 1) EXCEPT !.workShareId = mark]
      BY DEF SingleSegment
    <3> QED BY <1>2, <1>3, <3>1
  <2> QED BY <2>1 DEF SingleExec, SingleOther
<1> QED BY <1>1, <1>4, <1>5, <1>6

(* The offset wraps around within its field and nothing else moves.        *)
LEMMA OffsetMoves ==
  ASSUME NEW seg \in SegmentType, NEW n \in Nat
  PROVE  /\ SetOffset(seg, n) \in SegmentType /\ SameCounts(SetOffset(seg, n), seg)
         /\ SegmentOK(seg) => SegmentOK(SetOffset(seg, n))
<1> DEFINE m == n % OffsetLimit
<1>1. m \in 0..OffsetLimit-1
  BY Widths
<1>2. SetOffset(seg, n) = [seg EXCEPT !.offset = m]
  BY DEF SetOffset
<1> HIDE DEF m
<1> QED BY <1>1, <1>2, Widths DEF SegmentType, SegmentOK, SameCounts

(* Counting adds one to one field.                                         *)
LEMMA CountsMove ==
  ASSUME NEW seg \in SegmentType
  PROVE  /\ [seg EXCEPT !.phase = @ + 1] \in SegmentType
         /\ [seg EXCEPT !.phase = @ + 1].phase = seg.phase + 1
         /\ [seg EXCEPT !.phase = @ + 1].loopCount = seg.loopCount
         /\ SegmentOK(seg) /\ seg.phase + 1 < CountLimit => SegmentOK([seg EXCEPT !.phase = @ + 1])
         /\ [seg EXCEPT !.loopCount = @ + 1] \in SegmentType
         /\ [seg EXCEPT !.loopCount = @ + 1].loopCount = seg.loopCount + 1
         /\ [seg EXCEPT !.loopCount = @ + 1].phase = seg.phase
         /\ SegmentOK(seg) /\ seg.loopCount + 1 < CountLimit
            => SegmentOK([seg EXCEPT !.loopCount = @ + 1])
BY Widths DEF SegmentType, SegmentOK

\* A label whose segments fit the fields.
Fits(l) == \A k \in DOMAIN l : SegmentOK(l[k])

(* A segment is added to a label.                                          *)
LEMMA Extended ==
  ASSUME NEW l \in Seq(SegmentType), NEW seg, Fresh(seg)
  PROVE  /\ Append(l, seg) \in Seq(SegmentType) /\ Len(Append(l, seg)) = Len(l) + 1
         /\ Append(l, seg)[Len(l) + 1] = seg
         /\ \A k \in 1..Len(l) : Append(l, seg)[k] = l[k]
         /\ Fits(l) => Fits(Append(l, seg))
<1>1. seg \in SegmentType /\ SegmentOK(seg)
  BY DEF Fresh
<1>2. /\ Append(l, seg) \in Seq(SegmentType) /\ Len(Append(l, seg)) = Len(l) + 1
      /\ Append(l, seg)[Len(l) + 1] = seg
      /\ \A k \in 1..Len(l) : Append(l, seg)[k] = l[k]
  BY <1>1, Ends
<1>3. ASSUME Fits(l), NEW k \in DOMAIN Append(l, seg)
      PROVE  SegmentOK(Append(l, seg)[k])
  <2>1. k \in 1..Len(l) \/ k = Len(l) + 1
    BY <1>2
  <2>2. k \in 1..Len(l) => SegmentOK(l[k])
    BY <1>3 DEF Fits
  <2> QED BY <1>1, <1>2, <2>1, <2>2
<1> QED BY <1>2, <1>3 DEF Fits

(* The last segment of a label is popped.                                  *)
LEMMA Shortened ==
  ASSUME NEW l \in Seq(SegmentType), Len(l) >= 1
  PROVE  /\ Front(l) \in Seq(SegmentType) /\ Len(Front(l)) = Len(l) - 1
         /\ \A k \in 1..Len(l)-1 : Front(l)[k] = l[k]
         /\ Fits(l) => Fits(Front(l))
         /\ Last(l) = l[Len(l)] /\ Last(l) \in SegmentType
<1>1. /\ Front(l) \in Seq(SegmentType) /\ Len(Front(l)) = Len(l) - 1
      /\ \A k \in 1..Len(l)-1 : Front(l)[k] = l[k]
  BY Fronts
<1>2. Last(l) = l[Len(l)] /\ Last(l) \in SegmentType
  BY Fronts
<1>3. DOMAIN Front(l) = 1..Len(l)-1 /\ DOMAIN l = 1..Len(l)
  BY <1>1
<1>4. Fits(l) => Fits(Front(l))
  BY <1>1, <1>3 DEF Fits
<1> QED BY <1>1, <1>2, <1>4

(* The last segment of a label is replaced.                                *)
LEMMA Replaced ==
  ASSUME NEW l \in Seq(SegmentType), Len(l) >= 1, NEW seg \in SegmentType
  PROVE  /\ ReplaceLast(l, seg) \in Seq(SegmentType) /\ Len(ReplaceLast(l, seg)) = Len(l)
         /\ ReplaceLast(l, seg)[Len(l)] = seg
         /\ \A k \in 1..Len(l)-1 : ReplaceLast(l, seg)[k] = l[k]
         /\ Fits(l) /\ SegmentOK(seg) => Fits(ReplaceLast(l, seg))
<1>1. /\ ReplaceLast(l, seg) \in Seq(SegmentType) /\ Len(ReplaceLast(l, seg)) = Len(l)
      /\ ReplaceLast(l, seg)[Len(l)] = seg
      /\ \A k \in 1..Len(l)-1 : ReplaceLast(l, seg)[k] = l[k]
  <2>1. Front(l) \in Seq(SegmentType) /\ Len(Front(l)) = Len(l) - 1
    BY Fronts
  <2>2. \A k \in 1..Len(l)-1 : Front(l)[k] = l[k]
    BY Fronts
  <2> HIDE DEF Front
  <2> QED BY <2>1, <2>2, Ends DEF ReplaceLast
<1>2. ASSUME Fits(l), SegmentOK(seg), NEW k \in DOMAIN ReplaceLast(l, seg)
      PROVE  SegmentOK(ReplaceLast(l, seg)[k])
  <2>1. k \in 1..Len(l)-1 \/ k = Len(l)
    BY <1>1
  <2>2. k \in 1..Len(l)-1 => SegmentOK(l[k])
    BY <1>2 DEF Fits
  <2> QED BY <1>1, <1>2, <2>1, <2>2
<1> QED BY <1>1, <1>2 DEF Fits

(* A barrier moves the offset of the segment before the last.              *)
LEMMA BarrierEndMoves ==
  ASSUME NEW l \in Seq(SegmentType), Len(l) >= 2
  PROVE  /\ MutateBarrierEnd(l) \in Seq(SegmentType) /\ Len(MutateBarrierEnd(l)) = Len(l)
         /\ \A k \in 1..Len(l) : SameCounts(MutateBarrierEnd(l)[k], l[k])
         /\ Fits(l) => Fits(MutateBarrierEnd(l))
<1> DEFINE p == Len(l) - 1
           new == SetOffset(l[p], l[p].offset + l[p].span)
<1>1. p \in 1..Len(l) /\ l[p] \in SegmentType
  BY ElementOfSeq
<1>2. l[p].offset + l[p].span \in Nat
  <2>1. \A seg \in SegmentType : seg.offset \in Nat /\ seg.span \in Nat
    BY DEF SegmentType
  <2> QED BY <1>1, <2>1
<1>3. new \in SegmentType /\ SameCounts(new, l[p]) /\ (SegmentOK(l[p]) => SegmentOK(new))
  BY <1>1, <1>2, OffsetMoves
<1>4. MutateBarrierEnd(l) = [l EXCEPT ![p] = new]
  BY DEF MutateBarrierEnd, ReplaceAt
<1> HIDE DEF new
<1>5. /\ MutateBarrierEnd(l) \in Seq(SegmentType) /\ Len(MutateBarrierEnd(l)) = Len(l)
      /\ \A k \in 1..Len(l) : MutateBarrierEnd(l)[k] = IF k = p THEN new ELSE l[k]
  BY <1>1, <1>3, <1>4
<1>6. Fits(l) => Fits(MutateBarrierEnd(l))
  BY <1>3, <1>5 DEF Fits
<1> QED BY <1>3, <1>5, <1>6 DEF SameCounts

(* Leaving a loop or sections pops its segment and counts it.              *)
LEMMA LoopEndMoves ==
  ASSUME NEW l \in Seq(SegmentType), Len(l) >= 2
  PROVE  /\ MutateLoopEnd(l) \in Seq(SegmentType) /\ Len(MutateLoopEnd(l)) = Len(l) - 1
         /\ \A k \in 1..Len(l)-2 : MutateLoopEnd(l)[k] = l[k]
         /\ MutateLoopEnd(l)[Len(l)-1].loopCount = l[Len(l)-1].loopCount + 1
         /\ MutateLoopEnd(l)[Len(l)-1].phase = l[Len(l)-1].phase
         /\ Fits(l) /\ LoopCountFits(l) => Fits(MutateLoopEnd(l))
<1> DEFINE f == Front(l)
           new == [Last(f) EXCEPT !.loopCount = @ + 1]
<1>1. /\ f \in Seq(SegmentType) /\ Len(f) = Len(l) - 1
      /\ \A k \in 1..Len(l)-1 : f[k] = l[k]
      /\ Fits(l) => Fits(f)
  BY Shortened
<1>2. Last(f) = f[Len(f)] /\ Last(f) \in SegmentType
  BY <1>1, Fronts
<1>3. /\ new \in SegmentType /\ new.loopCount = Last(f).loopCount + 1 /\ new.phase = Last(f).phase
      /\ SegmentOK(Last(f)) /\ Last(f).loopCount + 1 < CountLimit => SegmentOK(new)
  BY <1>2, CountsMove
<1>4. MutateLoopEnd(l) = ReplaceLast(f, new)
  BY DEF MutateLoopEnd
<1> HIDE DEF f, new
<1>5. /\ ReplaceLast(f, new) \in Seq(SegmentType) /\ Len(ReplaceLast(f, new)) = Len(f)
      /\ ReplaceLast(f, new)[Len(f)] = new
      /\ \A k \in 1..Len(f)-1 : ReplaceLast(f, new)[k] = f[k]
      /\ Fits(f) /\ SegmentOK(new) => Fits(ReplaceLast(f, new))
  <2>1. Len(f) >= 1
    BY <1>1
  <2> QED BY <1>1, <1>3, <2>1, Replaced
<1>6. Last(f) = l[Len(l) - 1]
  BY <1>1, <1>2
<1>7. Fits(l) => SegmentOK(l[Len(l) - 1])
  BY DEF Fits
<1> QED BY <1>1, <1>3, <1>4, <1>5, <1>6, <1>7 DEF LoopCountFits

(* Entering or leaving an ordered region counts one phase.                 *)
LEMMA OrderedMoves ==
  ASSUME NEW l \in Seq(SegmentType), Len(l) >= 1
  PROVE  /\ MutateOrderSection(l) \in Seq(SegmentType) /\ Len(MutateOrderSection(l)) = Len(l)
         /\ \A k \in 1..Len(l)-1 : MutateOrderSection(l)[k] = l[k]
         /\ Last(MutateOrderSection(l)).phase = Last(l).phase + 1
         /\ Last(MutateOrderSection(l)).loopCount = Last(l).loopCount
         /\ Fits(l) /\ PhaseFits(l) => Fits(MutateOrderSection(l))
<1> DEFINE new == [Last(l) EXCEPT !.phase = @ + 1]
<1>1. Last(l) = l[Len(l)] /\ Last(l) \in SegmentType
  BY Fronts
<1>2. /\ new \in SegmentType /\ new.phase = Last(l).phase + 1 /\ new.loopCount = Last(l).loopCount
      /\ SegmentOK(Last(l)) /\ Last(l).phase + 1 < CountLimit => SegmentOK(new)
  BY <1>1, CountsMove
<1>3. MutateOrderSection(l) = ReplaceLast(l, new)
  BY DEF MutateOrderSection
<1> HIDE DEF new
<1>4. /\ ReplaceLast(l, new) \in Seq(SegmentType) /\ Len(ReplaceLast(l, new)) = Len(l)
      /\ ReplaceLast(l, new)[Len(l)] = new
      /\ \A k \in 1..Len(l)-1 : ReplaceLast(l, new)[k] = l[k]
      /\ Fits(l) /\ SegmentOK(new) => Fits(ReplaceLast(l, new))
  BY <1>2, Replaced
<1>5. Last(ReplaceLast(l, new)) = new
  BY <1>4 DEF Last
<1>6. Fits(l) => SegmentOK(Last(l))
  BY <1>1 DEF Fits
<1> QED BY <1>2, <1>3, <1>4, <1>5, <1>6 DEF PhaseFits

-----------------------------------------------------------------------------
(* Control: places, scripts, regions and barriers                          *)

Constructs == AllConstructs \cup {"end"}
ControlTypes ==
  /\ program \in Programs
  /\ at \in [Tasks -> Places] /\ open \in [Teams -> BOOLEAN]
  /\ step \in [Tasks -> Nat] /\ script \in [Teams -> Seq(Constructs)]
Control == ControlTypes /\ PlacesFit /\ ScriptsEnd /\ OpenRegions /\ BarriersHold
controlVars == <<program, at, open, step, script>>

(* What the bounds of a program are.                                       *)
LEMMA ProgramBounds ==
  ASSUME program \in Programs
  PROVE  /\ program.constructs \subseteq AllConstructs
         /\ program.length \in Nat /\ program.regions \in Nat
         /\ program.iterations \in Nat /\ program.chunk \in Nat \ {0}
BY ProgramsAssumption DEF Bounds

\* t goes on inside of the construct it has reached, or leaves it.
MoveFits(t, p) ==
  \/ at[t] = "starting" /\ p = "free"
  \/ InLoop(t) /\ p \in WorkPlaces
  \/ (InLoop(t) \/ InSingle(t)) /\ p = AfterConstruct(t)
  \/ at[t] = "released" /\ p = IF Construct(t) = "end" THEN "ending" ELSE "free"
Moves(t, p) ==
  /\ MoveFits(t, p) /\ ~ Forked(t)
  /\ Go(t, p) /\ UNCHANGED <<program, open, step, script>>

\* t reaches a construct.
PlaceFor(c, p) ==
  \/ c \in Singles /\ p \in {"single", "other"}
  \/ c \in AllConstructs \ (Singles \cup {"barrier"}) /\ p \in {"preamble", "chunk"}
  \/ c \in {"barrier", "end"} /\ p = "barrier"
Arrives(t, c, p) == Reaches(t, c) /\ PlaceFor(c, p) /\ Go(t, p)

\* t is gone.
Leaves(t) ==
  /\ at[t] = "ending" /\ Vanishes(t) /\ UNCHANGED <<program, script>>
  /\ open' = IF Last(t) = 0 THEN [open EXCEPT ![TeamOf(t)] = FALSE] ELSE open

(* What the construct of a task is.                                        *)
LEMMA ConstructKnown ==
  ASSUME ControlTypes, PlacesFit, NEW t \in Tasks \ {Root}
  PROVE  /\ TeamOf(t) \in Teams /\ script[TeamOf(t)] \in Seq(Constructs)
         /\ step[t] \in Nat
         /\ Exists(t) /\ at[t] # "free" => step[t] \in 1..Len(script[TeamOf(t)])
         /\ step[t] > 0 => step[t] \in 1..Len(script[TeamOf(t)]) /\ Construct(t) \in Constructs
<1>1. TeamOf(t) \in Teams
  BY Tree
<1>2. script[TeamOf(t)] \in Seq(Constructs) /\ step[t] \in Nat
  BY <1>1 DEF ControlTypes
<1>3. step[t] <= Len(script[TeamOf(t)]) /\ (Exists(t) /\ at[t] # "free" => step[t] > 0)
  BY DEF PlacesFit
<1>4. step[t] > 0 => step[t] \in 1..Len(script[TeamOf(t)])
  BY <1>2, <1>3
<1>5. step[t] > 0 => Construct(t) \in Constructs
  BY <1>2, <1>4, ElementOfSeq DEF Construct
<1> QED BY <1>1, <1>2, <1>3, <1>4, <1>5

(* A move inside of a construct keeps control.                             *)
LEMMA MoveKeepsControl ==
  ASSUME Control, NEW t \in Tasks \ {Root}, NEW p \in Places, Moves(t, p)
  PROVE  Control'
<1> USE DEF Control
<1>1. ControlTypes'
  BY DEF ControlTypes, Moves, Go
<1>2. /\ at' = [at EXCEPT ![t] = p] /\ at \in [Tasks -> Places]
      /\ step' = step /\ script' = script /\ open' = open /\ program' = program
      /\ ~ Forked(t)
  BY DEF ControlTypes, Moves, Go
<1>3. /\ at'[t] = p /\ \A u \in Tasks : u # t => at'[u] = at[u]
      /\ \A u \in Tasks : Construct(u)' = Construct(u)
  BY <1>2 DEF Construct
<1>4. MoveFits(t, p)
  BY DEF Moves
<1>5. PlacesFit'
  <2>1. at'[Root] = "free" /\ step'[Root] = 0
    BY <1>2, <1>3, Tree DEF PlacesFit
  <2> SUFFICES ASSUME NEW u \in Tasks \ {Root}
               PROVE  (/\ step[u] <= Len(script[TeamOf(u)])
                       /\ ~ Exists(u) => step[u] = 0
                       /\ Exists(u) /\ at[u] # "free" => step[u] > 0
                       /\ at[u] = "free" /\ step[u] > 0 => Construct(u) # "end"
                       /\ at[u] \in {"barrier", "released"} => Construct(u) \notin NoWait
                       /\ at[u] = "ending" => Construct(u) = "end"
                       /\ InSingle(u) => Construct(u) \in Singles
                       /\ InLoop(u) => Construct(u) \notin Singles \cup {"barrier", "end"})'
    BY <2>1 DEF PlacesFit
  <2>2. CASE u # t
    BY <2>2, <1>2, <1>3 DEF PlacesFit, Exists, InSingle, InLoop
  <2>3. CASE u = t
    <3>1. /\ at[t] # "none" /\ step[t] <= Len(script[TeamOf(t)])
          /\ at[t] = "starting" => step[t] = 0
          /\ at[t] \notin {"starting", "free"} => step[t] > 0
          /\ at[t] = "released" => Construct(t) \notin NoWait
          /\ InSingle(t) => Construct(t) \in Singles
          /\ InLoop(t) => Construct(t) \notin Singles \cup {"barrier", "end"}
      BY <1>4 DEF PlacesFit, Exists, MoveFits, InSingle, InLoop, WorkPlaces
    <3>2. at'[u] = p /\ step'[u] = step[t] /\ Construct(u)' = Construct(t)
          /\ script'[TeamOf(u)] = script[TeamOf(t)]
      BY <2>3, <1>2, <1>3
    <3>3. CASE at[t] = "starting" /\ p = "free"
      BY <3>1, <3>2, <3>3 DEF Exists, InSingle, InLoop, WorkPlaces
    <3>4. CASE InLoop(t) /\ p \in WorkPlaces
      BY <3>1, <3>2, <3>4 DEF Exists, InSingle, InLoop, WorkPlaces
    <3>5. CASE (InLoop(t) \/ InSingle(t)) /\ p = AfterConstruct(t)
      <4>1. Construct(t) \in NoWait => Construct(t) # "end"
        BY DEF NoWait
      <4>2. at[t] \notin {"starting", "free"}
        BY <3>5 DEF InLoop, InSingle, WorkPlaces
      <4>3. CASE Construct(t) \in NoWait
        BY <3>1, <3>2, <3>5, <4>1, <4>2, <4>3 DEF Exists, InSingle, InLoop, WorkPlaces, AfterConstruct
      <4>4. CASE Construct(t) \notin NoWait
        BY <3>1, <3>2, <3>5, <4>2, <4>4 DEF Exists, InSingle, InLoop, WorkPlaces, AfterConstruct
      <4> QED BY <4>3, <4>4
    <3>6. CASE at[t] = "released" /\ p = IF Construct(t) = "end" THEN "ending" ELSE "free"
      BY <3>1, <3>2, <3>6 DEF Exists, InSingle, InLoop, WorkPlaces
    <3> QED BY <1>4, <3>3, <3>4, <3>5, <3>6 DEF MoveFits
  <2> QED BY <2>2, <2>3
<1>6. ScriptsEnd'
  BY <1>2 DEF ScriptsEnd
<1>7. OpenRegions'
  <2>1. \A r \in Teams : open'[r] => at'[r] \in CodePlaces
    BY <1>2, <1>3, Tree DEF OpenRegions, Forked
  <2>2. p # "starting" /\ p # "none" /\ at[t] # "none"
    BY <1>4 DEF MoveFits, AfterConstruct, WorkPlaces, InLoop, InSingle
  <2> QED BY <2>1, <2>2, <1>2, <1>3 DEF OpenRegions
<1>8. BarriersHold'
  <2>1. \A u \in Tasks : at'[u] = "none" <=> at[u] = "none"
    BY <1>3, <1>4 DEF MoveFits, AfterConstruct, WorkPlaces, InLoop, InSingle
  <2>2. ASSUME NEW u \in Tasks \ {Root}, NEW k \in 1..Len(script[TeamOf(u)]),
               script[TeamOf(u)][k] \notin NoWait
        PROVE  Passed(u, k)' <=> Passed(u, k)
    <3>1. CASE u # t
      BY <3>1, <1>2, <1>3 DEF Passed
    <3>2. CASE u = t
      <4>1. at[t] = "starting" => step[t] = 0
        BY DEF PlacesFit, Exists
      <4>2. k = step[t] /\ (InLoop(t) \/ InSingle(t)) => p # "free"
        BY <2>2, <3>2, <1>4 DEF MoveFits, AfterConstruct, Construct, InLoop, InSingle, WorkPlaces
      <4>3. step[t] \in Nat
        BY DEF ControlTypes
      <4> QED BY <3>2, <4>1, <4>2, <4>3, <1>2, <1>3, <1>4
              DEF Passed, MoveFits, AfterConstruct, InLoop, InSingle, WorkPlaces
    <3> QED BY <3>1, <3>2
  <2>3. ASSUME NEW r \in Teams, NEW v \in MembersOf(r), NEW u \in MembersOf(r)
        PROVE  /\ \A k \in 1..Len(script'[r]) :
                    script'[r][k] \notin NoWait /\ Passed(v, k)' => Passed(u, k)' \/ at'[u] = "none"
               /\ at'[u] = "none" /\ at'[v] # "none" =>
                    at'[v] \in {"released", "ending"} /\ Construct(v)' = "end"
    <3>1. /\ v \in Tasks \ {Root} /\ TeamOf(v) = r
          /\ u \in Tasks \ {Root} /\ TeamOf(u) = r
      BY Tree
    <3>2. /\ \A k \in 1..Len(script[r]) :
               script[r][k] \notin NoWait /\ Passed(v, k) => Passed(u, k) \/ at[u] = "none"
          /\ at[u] = "none" /\ at[v] # "none" =>
               at[v] \in {"released", "ending"} /\ Construct(v) = "end"
      BY DEF BarriersHold
    <3>3. \A k \in 1..Len(script'[r]) :
            script'[r][k] \notin NoWait /\ Passed(v, k)' => Passed(u, k)' \/ at'[u] = "none"
      BY <3>1, <3>2, <2>1, <2>2, <1>2
    <3>4. at'[u] = "none" /\ at'[v] # "none" =>
            at'[v] \in {"released", "ending"} /\ Construct(v)' = "end"
      BY <3>1, <3>2, <2>1, <1>3, <1>4
         DEF MoveFits, AfterConstruct, InLoop, InSingle, WorkPlaces
    <3> QED BY <3>3, <3>4
  <2> QED BY <2>3 DEF BarriersHold
<1> QED BY <1>1, <1>5, <1>6, <1>7, <1>8

(* The script of a team only grows, at its end.                            *)
LEMMA ScriptsGrow ==
  ASSUME Control, NEW t \in Tasks \ {Root}, NEW c \in Constructs, Reaches(t, c)
  PROVE  /\ script' \in [Teams -> Seq(Constructs)]
         /\ \A r \in Teams :
              /\ Len(script[r]) <= Len(script'[r])
              /\ \A k \in 1..Len(script[r]) : script'[r][k] = script[r][k]
         /\ \A r \in Teams : r # TeamOf(t) => script'[r] = script[r]
         /\ step' = [step EXCEPT ![t] = @ + 1]
         /\ step[t] + 1 \in 1..Len(script'[TeamOf(t)]) /\ Construct(t)' = c
         /\ Len(script'[TeamOf(t)]) > Len(script[TeamOf(t)]) =>
              /\ Len(script'[TeamOf(t)]) = step[t] + 1 /\ step[t] = Len(script[TeamOf(t)])
              /\ c = "end" \/ Len(script[TeamOf(t)]) < program.length
<1> DEFINE r == TeamOf(t)
           k == step[t] + 1
<1>1. /\ r \in Teams /\ script[r] \in Seq(Constructs) /\ step[t] \in Nat
      /\ step[t] <= Len(script[r]) /\ script \in [Teams -> Seq(Constructs)]
  BY ConstructKnown DEF Control, ControlTypes, PlacesFit
<1>2. step' = [step EXCEPT ![t] = k] /\ step \in [Tasks -> Nat]
  BY DEF Reaches, Control, ControlTypes
<1>3. \/ k <= Len(script[r]) /\ script[r][k] = c /\ script' = script
      \/ /\ k > Len(script[r]) /\ (c = "end" \/ Len(script[r]) < program.length)
         /\ script' = [script EXCEPT ![r] = Append(@, c)]
  BY DEF Reaches
<1>4. step'[t] = k
  BY <1>2
<1> HIDE DEF r
<1>5. CASE k <= Len(script[r]) /\ script[r][k] = c /\ script' = script
  BY <1>1, <1>2, <1>4, <1>5 DEF Construct, r
<1>6. CASE /\ k > Len(script[r]) /\ (c = "end" \/ Len(script[r]) < program.length)
           /\ script' = [script EXCEPT ![r] = Append(@, c)]
  <2>1. script'[r] = Append(script[r], c) /\ \A q \in Teams : q # r => script'[q] = script[q]
    BY <1>1, <1>6
  <2>2. /\ Append(script[r], c) \in Seq(Constructs) /\ Len(Append(script[r], c)) = Len(script[r]) + 1
        /\ Append(script[r], c)[Len(script[r]) + 1] = c
        /\ \A j \in 1..Len(script[r]) : Append(script[r], c)[j] = script[r][j]
    BY <1>1, Ends
  <2>3. step[t] = Len(script[r])
    BY <1>1, <1>6
  <2>4. script' \in [Teams -> Seq(Constructs)]
    BY <1>1, <1>6, <2>2
  <2>5. \A q \in Teams : /\ Len(script[q]) <= Len(script'[q])
                         /\ \A j \in 1..Len(script[q]) : script'[q][j] = script[q][j]
    <3> SUFFICES ASSUME NEW q \in Teams
                 PROVE  /\ Len(script[q]) <= Len(script'[q])
                        /\ \A j \in 1..Len(script[q]) : script'[q][j] = script[q][j]
      OBVIOUS
    <3>1. script[q] \in Seq(Constructs)
      BY <1>1
    <3> QED BY <2>1, <2>2, <3>1
  <2>6. Construct(t)' = c
    BY <1>4, <2>1, <2>2, <2>3 DEF Construct, r
  <2> QED BY <1>1, <1>2, <1>6, <2>1, <2>2, <2>3, <2>4, <2>5, <2>6 DEF r
<1> QED BY <1>3, <1>5, <1>6

(* A task that reaches a construct keeps control.                          *)
LEMMA ArrivalKeepsControl ==
  ASSUME Control, NEW t \in Tasks \ {Root}, NEW c \in Constructs, NEW p \in Places, Arrives(t, c, p)
  PROVE  Control'
<1> USE DEF Control
<1>1. /\ Reaches(t, c) /\ PlaceFor(c, p) /\ at' = [at EXCEPT ![t] = p]
      /\ at[t] = "free" /\ ~ Forked(t) /\ open' = open /\ program' = program
  BY DEF Arrives, Reaches, Runs, Go
<1>2. /\ script' \in [Teams -> Seq(Constructs)]
      /\ \A r \in Teams :
           /\ Len(script[r]) <= Len(script'[r])
           /\ \A k \in 1..Len(script[r]) : script'[r][k] = script[r][k]
      /\ \A r \in Teams : r # TeamOf(t) => script'[r] = script[r]
  BY <1>1, ScriptsGrow
<1>3. /\ step' = [step EXCEPT ![t] = @ + 1]
      /\ step[t] + 1 \in 1..Len(script'[TeamOf(t)]) /\ Construct(t)' = c
      /\ Len(script'[TeamOf(t)]) > Len(script[TeamOf(t)]) =>
           /\ Len(script'[TeamOf(t)]) = step[t] + 1 /\ step[t] = Len(script[TeamOf(t)])
           /\ c = "end" \/ Len(script[TeamOf(t)]) < program.length
  BY <1>1, ScriptsGrow
<1>4. /\ at'[t] = p /\ \A u \in Tasks : u # t => at'[u] = at[u]
      /\ step'[t] = step[t] + 1 /\ \A u \in Tasks : u # t => step'[u] = step[u]
  BY <1>1, <1>3 DEF ControlTypes
<1>5. ControlTypes'
  BY <1>1, <1>2, <1>3 DEF ControlTypes
<1>6. ASSUME NEW u \in Tasks \ {Root}, u # t, step[u] > 0
      PROVE  Construct(u)' = Construct(u)
  <2>1. TeamOf(u) \in Teams /\ step[u] \in 1..Len(script[TeamOf(u)])
    BY <1>6, ConstructKnown
  <2> QED BY <1>2, <1>4, <1>6, <2>1 DEF Construct
<1>7. PlacesFit'
  <2>1. at'[Root] = "free" /\ step'[Root] = 0
    BY <1>4, Tree DEF PlacesFit
  <2> SUFFICES ASSUME NEW u \in Tasks \ {Root}
               PROVE  (/\ step[u] <= Len(script[TeamOf(u)])
                       /\ ~ Exists(u) => step[u] = 0
                       /\ Exists(u) /\ at[u] # "free" => step[u] > 0
                       /\ at[u] = "free" /\ step[u] > 0 => Construct(u) # "end"
                       /\ at[u] \in {"barrier", "released"} => Construct(u) \notin NoWait
                       /\ at[u] = "ending" => Construct(u) = "end"
                       /\ InSingle(u) => Construct(u) \in Singles
                       /\ InLoop(u) => Construct(u) \notin Singles \cup {"barrier", "end"})'
    BY <2>1 DEF PlacesFit
  <2>2. CASE u # t
    <3>1. step[u] <= Len(script'[TeamOf(u)])
      <4>1. /\ step[u] \in Nat /\ step[u] <= Len(script[TeamOf(u)])
            /\ Len(script[TeamOf(u)]) \in Nat /\ Len(script'[TeamOf(u)]) \in Nat
            /\ Len(script[TeamOf(u)]) <= Len(script'[TeamOf(u)])
        BY ConstructKnown, <1>2 DEF PlacesFit
      <4> QED BY <4>1
    <3>2. step[u] > 0 \/ step[u] = 0
      BY ConstructKnown
    <3>3. CASE step[u] > 0
      BY <2>2, <3>1, <3>3, <1>4, <1>6 DEF PlacesFit, Exists, InSingle, InLoop
    <3>4. CASE step[u] = 0
      <4>1. at[u] = "free" \/ ~ Exists(u)
        BY <3>4 DEF PlacesFit
      <4> QED BY <2>2, <3>1, <3>4, <4>1, <1>4 DEF PlacesFit, Exists, InSingle, InLoop, WorkPlaces
    <3> QED BY <3>2, <3>3, <3>4
  <2>3. CASE u = t
    <3>1. /\ step'[t] <= Len(script'[TeamOf(t)]) /\ step'[t] > 0
          /\ at'[t] = p /\ Construct(t)' = c /\ PlaceFor(c, p)
      BY <1>1, <1>3, <1>4
    <3>2. CASE c \in Singles /\ p \in {"single", "other"}
      BY <2>3, <3>1, <3>2 DEF Exists, InSingle, InLoop, WorkPlaces
    <3>3. CASE c \in AllConstructs \ (Singles \cup {"barrier"}) /\ p \in {"preamble", "chunk"}
      <4>1. c # "end"
        BY <3>3 DEF AllConstructs, Singles, StaticLoops, DynamicLoops, OrderedLoops, Sections
      <4> QED BY <2>3, <3>1, <3>3, <4>1 DEF Exists, InSingle, InLoop, WorkPlaces
    <3>4. CASE c \in {"barrier", "end"} /\ p = "barrier"
      BY <2>3, <3>1, <3>4 DEF Exists, InSingle, InLoop, WorkPlaces, NoWait
    <3> QED BY <3>1, <3>2, <3>3, <3>4 DEF PlaceFor
  <2> QED BY <2>2, <2>3
<1>8. ScriptsEnd'
  <2> SUFFICES ASSUME NEW r \in Teams
               PROVE  /\ Len(script'[r]) <= program.length + 1
                      /\ \A k \in 1..Len(script'[r]) :
                           /\ script'[r][k] = "end" => k = Len(script'[r])
                           /\ k > program.length => script'[r][k] = "end"
    BY <1>1 DEF ScriptsEnd
  <2>1. /\ Len(script[r]) <= program.length + 1
        /\ \A k \in 1..Len(script[r]) :
             /\ script[r][k] = "end" => k = Len(script[r])
             /\ k > program.length => script[r][k] = "end"
    BY DEF ScriptsEnd
  <2>2. program.length \in Nat /\ Len(script[r]) \in Nat /\ Len(script'[r]) \in Nat
    BY <1>2, ProgramBounds DEF ControlTypes
  <2>3. CASE Len(script'[r]) = Len(script[r])
    BY <2>1, <2>2, <2>3, <1>2
  <2>4. CASE Len(script'[r]) > Len(script[r])
    <3>1. r = TeamOf(t)
      BY <2>2, <2>4, <1>2
    <3>2. /\ Len(script'[r]) = step[t] + 1 /\ step[t] = Len(script[r])
          /\ c = "end" \/ Len(script[r]) < program.length
      BY <2>4, <3>1, <1>3
    <3>3. script'[r][Len(script'[r])] = c
      BY <1>3, <1>4, <3>1, <3>2 DEF Construct
    <3>4. step[t] > 0 => script[r][step[t]] # "end"
      BY <1>1, <3>1 DEF PlacesFit, Construct
    <3>5. Len(script[r]) <= program.length
      BY <2>1, <2>2, <3>2, <3>4
    <3>6. \A k \in 1..Len(script[r]) : script'[r][k] # "end" /\ k <= program.length
      <4> SUFFICES ASSUME NEW k \in 1..Len(script[r])
                   PROVE  script'[r][k] # "end" /\ k <= program.length
        OBVIOUS
      <4>1. script'[r][k] = script[r][k] /\ (script[r][k] = "end" => k = Len(script[r]))
        BY <2>1, <1>2
      <4> QED BY <2>2, <3>2, <3>4, <3>5, <4>1
    <3> QED BY <2>2, <3>2, <3>3, <3>5, <3>6
  <2> QED BY <2>2, <2>3, <2>4, <1>2
<1>9. p \notin {"none", "starting", "released", "free", "ending"}
  BY <1>1 DEF PlaceFor
<1>10. OpenRegions'
  BY <1>1, <1>4, <1>9, Tree DEF OpenRegions, Forked
<1>11. BarriersHold'
  <2> SUFFICES ASSUME NEW r \in Teams, NEW v \in MembersOf(r), NEW u \in MembersOf(r)
               PROVE  /\ \A k \in 1..Len(script'[r]) :
                           script'[r][k] \notin NoWait /\ Passed(v, k)'
                           => Passed(u, k)' \/ at'[u] = "none"
                      /\ at'[u] = "none" /\ at'[v] # "none" =>
                           at'[v] \in {"released", "ending"} /\ Construct(v)' = "end"
    BY DEF BarriersHold
  <2>1. /\ v \in Tasks \ {Root} /\ TeamOf(v) = r
        /\ u \in Tasks \ {Root} /\ TeamOf(u) = r
    BY Tree
  <2>2. /\ \A k \in 1..Len(script[r]) :
             script[r][k] \notin NoWait /\ Passed(v, k) => Passed(u, k) \/ at[u] = "none"
        /\ at[u] = "none" /\ at[v] # "none" =>
             at[v] \in {"released", "ending"} /\ Construct(v) = "end"
    BY DEF BarriersHold
  <2>3. /\ step[v] \in Nat /\ step[u] \in Nat /\ step[t] \in Nat
        /\ step[v] <= Len(script[r]) /\ step[u] <= Len(script[r])
        /\ Len(script[r]) \in Nat /\ Len(script'[r]) \in Nat
    BY <2>1, <1>2 DEF PlacesFit, ControlTypes
  <2>4. ASSUME NEW k \in 1..Len(script'[r]), Passed(v, k)' PROVE Passed(v, k)
    BY <2>1, <2>3, <2>4, <1>1, <1>4, <1>9 DEF Passed
  <2>5. ASSUME NEW k \in 1..Len(script'[r]), Passed(v, k) PROVE k \in 1..Len(script[r])
    BY <2>3, <2>5 DEF Passed
  <2>6. ASSUME NEW k \in 1..Len(script'[r]), Passed(u, k) PROVE Passed(u, k)'
    BY <2>1, <2>3, <2>6, <1>1, <1>4, <1>9 DEF Passed
  <2>7. at'[u] = "none" <=> at[u] = "none"
    BY <2>1, <1>1, <1>4, <1>9
  <2>8. \A k \in 1..Len(script'[r]) :
          script'[r][k] \notin NoWait /\ Passed(v, k)' => Passed(u, k)' \/ at'[u] = "none"
    BY <2>2, <2>4, <2>5, <2>6, <2>7, <1>2
  <2>9. ASSUME at'[u] = "none", at'[v] # "none"
        PROVE  at'[v] \in {"released", "ending"} /\ Construct(v)' = "end"
    <3>1. u # t /\ at[u] = "none"
      BY <2>7, <2>9, <1>1
    <3>2. at[v] # "none"
      BY <2>1, <2>9, <1>1, <1>4
    <3>3. at[v] \in {"released", "ending"} /\ Construct(v) = "end"
      BY <2>2, <3>1, <3>2
    <3>4. v # t /\ step[v] > 0
      BY <3>3, <2>1, <1>1 DEF PlacesFit, Exists
    <3> QED BY <2>1, <3>3, <3>4, <1>4, <1>6
  <2> QED BY <2>8, <2>9
<1> QED BY <1>5, <1>7, <1>8, <1>10, <1>11

(* The members of a new team start from nothing.                           *)
LEMMA ForkKeepsControl ==
  ASSUME Control, NEW r \in Teams, Fork(r)
  PROVE  Control'
<1> USE DEF Control
<1>1. /\ at[r] \in CodePlaces /\ ~ open[r] /\ \A t \in MembersOf(r) : at[t] = "none"
      /\ open' = [open EXCEPT ![r] = TRUE]
      /\ at' = [t \in Tasks |-> IF t \in MembersOf(r) THEN "starting" ELSE at[t]]
      /\ script' = [script EXCEPT ![r] = <<>>]
      /\ step' = step /\ program' = program
  BY DEF Fork, Runs, Forked
<1>2. ControlTypes'
  <2>1. <<>> \in Seq(Constructs)
    OBVIOUS
  <2>2. "starting" \in Places
    BY DEF Places
  <2> QED BY <1>1, <2>1, <2>2 DEF ControlTypes
<1>3. /\ \A t \in Tasks : at'[t] = IF t \in MembersOf(r) THEN "starting" ELSE at[t]
      /\ \A q \in Teams : script'[q] = IF q = r THEN <<>> ELSE script[q]
      /\ \A q \in Teams : open'[q] = IF q = r THEN TRUE ELSE open[q]
  BY <1>1 DEF ControlTypes
<1>4. ASSUME NEW t \in Tasks \ {Root}
      PROVE  /\ t \in MembersOf(r) => step[t] = 0 /\ TeamOf(t) = r
             /\ t \notin MembersOf(r) =>
                  script'[TeamOf(t)] = script[TeamOf(t)] /\ Construct(t)' = Construct(t)
                  /\ TeamOf(t) # r
  <2>1. t \in MembersOf(r) <=> TeamOf(t) = r
    BY Tree
  <2>2. t \in MembersOf(r) => step[t] = 0
    BY <1>1 DEF PlacesFit, Exists
  <2> QED BY <1>1, <1>3, <2>1, <2>2, Tree DEF Construct
<1>5. Root \notin MembersOf(r) /\ r \notin MembersOf(r) /\ r \in Tasks
  BY Tree
<1>6. PlacesFit'
  <2>1. at'[Root] = "free" /\ step'[Root] = 0
    BY <1>1, <1>3, <1>5, Tree DEF PlacesFit
  <2> SUFFICES ASSUME NEW u \in Tasks \ {Root}
               PROVE  (/\ step[u] <= Len(script[TeamOf(u)])
                       /\ ~ Exists(u) => step[u] = 0
                       /\ Exists(u) /\ at[u] # "free" => step[u] > 0
                       /\ at[u] = "free" /\ step[u] > 0 => Construct(u) # "end"
                       /\ at[u] \in {"barrier", "released"} => Construct(u) \notin NoWait
                       /\ at[u] = "ending" => Construct(u) = "end"
                       /\ InSingle(u) => Construct(u) \in Singles
                       /\ InLoop(u) => Construct(u) \notin Singles \cup {"barrier", "end"})'
    BY <2>1 DEF PlacesFit
  <2>2. CASE u \in MembersOf(r)
    BY <2>2, <1>1, <1>3, <1>4 DEF Exists, InSingle, InLoop, WorkPlaces
  <2>3. CASE u \notin MembersOf(r)
    BY <2>3, <1>1, <1>3, <1>4 DEF PlacesFit, Exists, InSingle, InLoop
  <2> QED BY <2>2, <2>3
<1>7. ScriptsEnd'
  <2>1. program.length \in Nat
    BY ProgramBounds DEF ControlTypes
  <2> QED BY <1>1, <1>3, <2>1 DEF ScriptsEnd
<1>8. OpenRegions'
  <2>1. ASSUME NEW q \in Teams, open'[q] PROVE at'[q] \in CodePlaces
    <3>1. CASE q = r
      BY <3>1, <1>1, <1>3, <1>5
    <3>2. CASE q # r
      <4>1. q \in Tasks /\ at[q] \in CodePlaces
        BY <2>1, <3>2, <1>3, Tree DEF OpenRegions
      <4>2. "none" \notin CodePlaces
        BY DEF CodePlaces, WorkPlaces
      <4> QED BY <4>1, <4>2, <1>1, <1>3
    <3> QED BY <3>1, <3>2
  <2>2. ASSUME NEW t \in Tasks \ {Root}
        PROVE  /\ at'[t] = "starting" => open'[TeamOf(t)]
               /\ Last(t) = 0 => (at'[t] # "none" <=> open'[TeamOf(t)])
    BY <1>3, <1>4, Tree DEF OpenRegions
  <2> QED BY <2>1, <2>2 DEF OpenRegions
<1>9. BarriersHold'
  <2> SUFFICES ASSUME NEW q \in Teams, NEW v \in MembersOf(q), NEW u \in MembersOf(q)
               PROVE  /\ \A k \in 1..Len(script'[q]) :
                           script'[q][k] \notin NoWait /\ Passed(v, k)'
                           => Passed(u, k)' \/ at'[u] = "none"
                      /\ at'[u] = "none" /\ at'[v] # "none" =>
                           at'[v] \in {"released", "ending"} /\ Construct(v)' = "end"
    BY DEF BarriersHold
  <2>1. /\ v \in Tasks \ {Root} /\ TeamOf(v) = q
        /\ u \in Tasks \ {Root} /\ TeamOf(u) = q
    BY Tree
  <2>2. CASE q = r
    BY <2>1, <2>2, <1>3
  <2>3. CASE q # r
    <3>1. v \notin MembersOf(r) /\ u \notin MembersOf(r)
      BY <2>1, <2>3, <1>4
    <3>2. at'[v] = at[v] /\ at'[u] = at[u] /\ Construct(v)' = Construct(v)
          /\ script'[q] = script[q]
      BY <2>1, <2>3, <3>1, <1>3, <1>4
    <3>3. \A k \in 1..Len(script[q]) : (Passed(v, k)' <=> Passed(v, k)) /\ (Passed(u, k)' <=> Passed(u, k))
      BY <3>2, <1>1 DEF Passed
    <3> QED BY <3>2, <3>3 DEF BarriersHold
  <2> QED BY <2>2, <2>3
<1> QED BY <1>2, <1>6, <1>7, <1>8, <1>9

(* A barrier opens for the whole team, and all of it waits at the same one.*)
LEMMA BarrierKeepsControl ==
  ASSUME Control, NEW r \in Teams, OpenBarrier(r)
  PROVE  Control'
<1> USE DEF Control
<1>1. /\ \A t \in MembersOf(r) : at[t] = "barrier"
      /\ at' = [t \in Tasks |-> IF t \in MembersOf(r) THEN "released" ELSE at[t]]
      /\ open' = open /\ script' = script /\ step' = step /\ program' = program
  BY DEF OpenBarrier, teamVars
<1>2. ControlTypes'
  <2>1. "released" \in Places
    BY DEF Places
  <2> QED BY <1>1, <2>1 DEF ControlTypes
<1>3. /\ \A t \in Tasks : at'[t] = IF t \in MembersOf(r) THEN "released" ELSE at[t]
      /\ \A t \in Tasks : Construct(t)' = Construct(t)
      /\ Root \notin MembersOf(r) /\ \A t \in MembersOf(r) : t \in Tasks \ {Root}
  BY <1>1, Tree DEF Construct
<1>4. PlacesFit'
  BY <1>1, <1>3, Tree DEF PlacesFit, Exists, InSingle, InLoop, WorkPlaces
<1>5. ScriptsEnd'
  BY <1>1 DEF ScriptsEnd
<1>6. OpenRegions'
  <2>1. "barrier" \notin CodePlaces
    BY DEF CodePlaces, WorkPlaces
  <2> QED BY <1>1, <1>3, <2>1, Tree DEF OpenRegions
<1>7. BarriersHold'
  <2> SUFFICES ASSUME NEW q \in Teams, NEW v \in MembersOf(q), NEW u \in MembersOf(q)
               PROVE  /\ \A k \in 1..Len(script[q]) :
                           script[q][k] \notin NoWait /\ Passed(v, k)'
                           => Passed(u, k)' \/ at'[u] = "none"
                      /\ at'[u] = "none" /\ at'[v] # "none" =>
                           at'[v] \in {"released", "ending"} /\ Construct(v)' = "end"
    BY <1>1 DEF BarriersHold
  <2>1. /\ v \in Tasks \ {Root} /\ TeamOf(v) = q
        /\ u \in Tasks \ {Root} /\ TeamOf(u) = q
    BY Tree
  <2>2. /\ \A k \in 1..Len(script[q]) :
             /\ script[q][k] \notin NoWait /\ Passed(v, k) => Passed(u, k) \/ at[u] = "none"
             /\ script[q][k] \notin NoWait /\ Passed(u, k) => Passed(v, k) \/ at[v] = "none"
        /\ at[u] = "none" /\ at[v] # "none" =>
             at[v] \in {"released", "ending"} /\ Construct(v) = "end"
    BY DEF BarriersHold
  <2>3. CASE q = r
    <3>1. at[v] = "barrier" /\ at[u] = "barrier" /\ at'[v] = "released" /\ at'[u] = "released"
      BY <2>1, <2>3, <1>1, <1>3
    <3>2. /\ step[v] \in 1..Len(script[q]) /\ step[u] \in 1..Len(script[q])
          /\ script[q][step[v]] \notin NoWait /\ script[q][step[u]] \notin NoWait
      BY <2>1, <3>1, ConstructKnown DEF PlacesFit, Construct, Exists
    <3>3. ~ Passed(v, step[v]) /\ ~ Passed(u, step[u])
      BY <3>1, <3>2 DEF Passed
    <3>4. step[u] = step[v]
      <4>1. CASE step[u] < step[v]
        BY <2>2, <3>1, <3>2, <3>3, <4>1 DEF Passed
      <4>2. CASE step[v] < step[u]
        BY <2>2, <3>1, <3>2, <3>3, <4>2 DEF Passed
      <4> QED BY <3>2, <4>1, <4>2
    <3> QED BY <3>1, <3>4, <1>1 DEF Passed
  <2>4. CASE q # r
    <3>1. v \notin MembersOf(r) /\ u \notin MembersOf(r)
      BY <2>1, <2>4, Tree
    <3>2. at'[v] = at[v] /\ at'[u] = at[u]
      BY <2>1, <3>1, <1>3
    <3>3. \A k \in 1..Len(script[q]) : (Passed(v, k)' <=> Passed(v, k)) /\ (Passed(u, k)' <=> Passed(u, k))
      BY <3>2, <1>1 DEF Passed
    <3> QED BY <2>1, <2>2, <3>2, <3>3, <1>3
  <2> QED BY <2>3, <2>4
<1> QED BY <1>2, <1>4, <1>5, <1>6, <1>7

(* A member that ends leaves none of its team behind a barrier.            *)
LEMMA EndKeepsControl ==
  ASSUME Control, NEW t \in Tasks \ {Root}, Leaves(t)
  PROVE  Control'
<1> USE DEF Control
<1> DEFINE r == TeamOf(t)
<1>1. /\ at[t] = "ending" /\ at' = [at EXCEPT ![t] = "none"] /\ step' = [step EXCEPT ![t] = 0]
      /\ script' = script /\ program' = program
      /\ open' = IF Last(t) = 0 THEN [open EXCEPT ![r] = FALSE] ELSE open
  BY DEF Leaves, Vanishes, Go
<1>2. /\ at'[t] = "none" /\ step'[t] = 0
      /\ \A u \in Tasks : u # t => at'[u] = at[u] /\ step'[u] = step[u] /\ Construct(u)' = Construct(u)
      /\ \A q \in Teams : open'[q] = IF Last(t) = 0 /\ q = r THEN FALSE ELSE open[q]
  BY <1>1 DEF ControlTypes, Construct
<1>3. ControlTypes'
  <2>1. "none" \in Places
    BY DEF Places
  <2> QED BY <1>1, <2>1 DEF ControlTypes
<1>4. /\ r \in Teams /\ t \in MembersOf(r) /\ step[t] \in 1..Len(script[r])
      /\ Construct(t) = "end" /\ script[r][step[t]] = "end" /\ step[t] = Len(script[r])
  <2>1. /\ r \in Teams /\ t \in MembersOf(r) /\ step[t] \in 1..Len(script[r])
    BY <1>1, Tree, ConstructKnown DEF Exists
  <2>2. Construct(t) = "end"
    BY <1>1 DEF PlacesFit
  <2> QED BY <2>1, <2>2 DEF Construct, ScriptsEnd
<1>5. ASSUME NEW u \in MembersOf(r), at[u] # "none"
      PROVE  at[u] \in {"released", "ending"} /\ Construct(u) = "end"
  <2>1. u \in Tasks \ {Root} /\ TeamOf(u) = r
    BY <1>4, Tree
  <2>2. Passed(t, step[t]) /\ script[r][step[t]] \notin NoWait
    BY <1>1, <1>4 DEF Passed, NoWait
  <2>3. Passed(u, step[t])
    BY <1>4, <1>5, <2>2 DEF BarriersHold
  <2>4. step[u] \in Nat /\ step[u] <= Len(script[r])
    BY <2>1, ConstructKnown DEF PlacesFit
  <2>5. step[u] = step[t] /\ at[u] \in {"released", "free", "ending"}
    BY <1>4, <2>3, <2>4 DEF Passed
  <2>6. Construct(u) = "end" /\ step[u] > 0
    BY <1>4, <2>1, <2>5 DEF Construct
  <2> QED BY <2>1, <2>5, <2>6 DEF PlacesFit
<1>6. PlacesFit'
  <2>1. at'[Root] = "free" /\ step'[Root] = 0
    BY <1>2, Tree DEF PlacesFit
  <2> SUFFICES ASSUME NEW u \in Tasks \ {Root}
               PROVE  (/\ step[u] <= Len(script[TeamOf(u)])
                       /\ ~ Exists(u) => step[u] = 0
                       /\ Exists(u) /\ at[u] # "free" => step[u] > 0
                       /\ at[u] = "free" /\ step[u] > 0 => Construct(u) # "end"
                       /\ at[u] \in {"barrier", "released"} => Construct(u) \notin NoWait
                       /\ at[u] = "ending" => Construct(u) = "end"
                       /\ InSingle(u) => Construct(u) \in Singles
                       /\ InLoop(u) => Construct(u) \notin Singles \cup {"barrier", "end"})'
    BY <2>1 DEF PlacesFit
  <2>2. CASE u = t
    BY <2>2, <1>1, <1>2, <1>4 DEF Exists, InSingle, InLoop, WorkPlaces
  <2>3. CASE u # t
    BY <2>3, <1>1, <1>2 DEF PlacesFit, Exists, InSingle, InLoop
  <2> QED BY <2>2, <2>3
<1>7. ScriptsEnd'
  BY <1>1 DEF ScriptsEnd
<1>8. OpenRegions'
  <2>1. ASSUME NEW q \in Teams, open'[q] PROVE at'[q] \in CodePlaces
    <3>1. q \in Tasks /\ at[q] \in CodePlaces
      BY <2>1, <1>2, Tree DEF OpenRegions
    <3>2. "ending" \notin CodePlaces
      BY DEF CodePlaces, WorkPlaces
    <3> QED BY <3>1, <3>2, <1>1, <1>2
  <2>2. ASSUME NEW u \in Tasks \ {Root}
        PROVE  /\ at'[u] = "starting" => open'[TeamOf(u)]
               /\ Last(u) = 0 => (at'[u] # "none" <=> open'[TeamOf(u)])
    <3>1. TeamOf(u) \in Teams /\ u \in MembersOf(TeamOf(u))
      BY Tree
    <3>2. /\ at[u] = "starting" => open[TeamOf(u)]
          /\ Last(u) = 0 => (at[u] # "none" <=> open[TeamOf(u)])
      BY DEF OpenRegions
    <3>3. CASE u = t
      BY <3>1, <3>2, <3>3, <1>1, <1>2
    <3>4. CASE u # t
      <4>1. at[u] = "starting" => TeamOf(u) # r
        BY <1>5, <3>1
      <4>2. Last(u) = 0 /\ Last(t) = 0 => TeamOf(u) # r
        BY <3>4, Tree
      <4> QED BY <3>1, <3>2, <3>4, <4>1, <4>2, <1>2
    <3> QED BY <3>3, <3>4
  <2> QED BY <2>1, <2>2 DEF OpenRegions
<1>9. BarriersHold'
  <2> SUFFICES ASSUME NEW q \in Teams, NEW v \in MembersOf(q), NEW u \in MembersOf(q)
               PROVE  /\ \A k \in 1..Len(script[q]) :
                           script[q][k] \notin NoWait /\ Passed(v, k)'
                           => Passed(u, k)' \/ at'[u] = "none"
                      /\ at'[u] = "none" /\ at'[v] # "none" =>
                           at'[v] \in {"released", "ending"} /\ Construct(v)' = "end"
    BY <1>1 DEF BarriersHold
  <2>1. /\ v \in Tasks \ {Root} /\ TeamOf(v) = q
        /\ u \in Tasks \ {Root} /\ TeamOf(u) = q
    BY Tree
  <2>2. \A k \in 1..Len(script[q]) : ~ Passed(t, k)'
    BY <1>2 DEF Passed
  <2>3. \A k \in 1..Len(script[q]) :
          /\ v # t => (Passed(v, k)' <=> Passed(v, k))
          /\ u # t => (Passed(u, k)' <=> Passed(u, k))
    BY <2>1, <1>2 DEF Passed
  <2>4. \A k \in 1..Len(script[q]) :
          script[q][k] \notin NoWait /\ Passed(v, k)' => Passed(u, k)' \/ at'[u] = "none"
    BY <2>1, <2>2, <2>3, <1>2 DEF BarriersHold
  <2>5. ASSUME at'[u] = "none", at'[v] # "none"
        PROVE  at'[v] \in {"released", "ending"} /\ Construct(v)' = "end"
    <3>1. v # t /\ at[v] # "none" /\ at'[v] = at[v] /\ Construct(v)' = Construct(v)
      BY <2>1, <2>5, <1>2
    <3>2. CASE u = t
      BY <2>1, <3>1, <3>2, <1>5
    <3>3. CASE u # t
      BY <2>1, <2>5, <3>1, <3>3, <1>2 DEF BarriersHold
    <3> QED BY <3>2, <3>3
  <2> QED BY <2>4, <2>5
<1> QED BY <1>3, <1>6, <1>7, <1>8, <1>9

\* The steps inside of a construct.
Inside(t) ==
  \/ ImplicitTaskBegin(t) \/ Dispatch(t) \/ OrderedAcquired(t) \/ OrderedReleased(t)
  \/ EndLoop(t) \/ EndSections(t) \/ EndSingle(t) \/ BarrierEnd(t)

(* Which step is which.                                                    *)
LEMMA InsideMoves ==
  ASSUME Control, NEW t \in Tasks, Inside(t)
  PROVE  t # Root /\ \E p \in Places : Moves(t, p)
<1> USE DEF Control
<1>1. t # Root
  BY DEF Inside, ImplicitTaskBegin, Dispatch, OrderedAcquired, OrderedReleased, EndLoop,
         EndSections, EndSingle, BarrierEnd, PlacesFit, Idles, WorkPlaces
<1>2. at[t] \in {"starting", "released"} => ~ Forked(t)
  BY DEF OpenRegions, Forked, CodePlaces, WorkPlaces
<1>3. {"free", "work", "ordered", "past", "ending", "barrier"} \subseteq Places
  BY DEF Places, CodePlaces, WorkPlaces
<1>4. CASE ImplicitTaskBegin(t)
  <2>1. at[t] = "starting" /\ Go(t, "free") /\ UNCHANGED <<program, open, step, script>>
    BY <1>4 DEF ImplicitTaskBegin, teamVars
  <2>2. Moves(t, "free")
    BY <2>1, <1>2 DEF Moves, MoveFits
  <2> QED BY <1>1, <1>3, <2>2
<1>5. CASE Dispatch(t)
  <2>1. InLoop(t) /\ ~ Forked(t) /\ Go(t, "work") /\ UNCHANGED <<program, open, step, script>>
    BY <1>5 DEF Dispatch, InLoop
  <2>2. Moves(t, "work")
    BY <2>1 DEF Moves, MoveFits, WorkPlaces
  <2> QED BY <1>1, <1>3, <2>2
<1>6. CASE OrderedAcquired(t)
  <2>1. InLoop(t) /\ ~ Forked(t) /\ Go(t, "ordered") /\ UNCHANGED <<program, open, step, script>>
    BY <1>6 DEF OrderedAcquired, InLoop, WorkPlaces, teamVars
  <2>2. Moves(t, "ordered")
    BY <2>1 DEF Moves, MoveFits, WorkPlaces
  <2> QED BY <1>1, <1>3, <2>2
<1>7. CASE OrderedReleased(t)
  <2>1. PICK p \in {"work", "past"} : Go(t, p)
    BY <1>7 DEF OrderedReleased
  <2>2. InLoop(t) /\ ~ Forked(t) /\ UNCHANGED <<program, open, step, script>>
    BY <1>7 DEF OrderedReleased, InLoop, WorkPlaces
  <2>3. Moves(t, p)
    BY <2>1, <2>2 DEF Moves, MoveFits, WorkPlaces
  <2> QED BY <1>1, <1>3, <2>3
<1>8. CASE EndLoop(t) \/ EndSections(t) \/ EndSingle(t)
  <2>1. /\ InLoop(t) \/ InSingle(t)
        /\ ~ Forked(t) /\ Go(t, AfterConstruct(t)) /\ UNCHANGED <<program, open, step, script>>
    BY <1>8 DEF EndLoop, EndSections, EndSingle, Idles, InLoop, InSingle, WorkPlaces, teamVars
  <2>2. Moves(t, AfterConstruct(t)) /\ AfterConstruct(t) \in Places
    BY <2>1, <1>3 DEF Moves, MoveFits, AfterConstruct
  <2> QED BY <1>1, <2>2
<1>9. CASE BarrierEnd(t)
  <2> DEFINE p == IF Construct(t) = "end" THEN "ending" ELSE "free"
  <2>1. at[t] = "released" /\ Go(t, p) /\ UNCHANGED <<program, open, step, script>>
    BY <1>9 DEF BarrierEnd, teamVars
  <2>2. Moves(t, p) /\ p \in Places
    BY <2>1, <1>2, <1>3 DEF Moves, MoveFits
  <2> QED BY <1>1, <2>2
<1> QED BY <1>4, <1>5, <1>6, <1>7, <1>8, <1>9 DEF Inside

\* The steps that reach a construct.
Reaching(t) ==
  BeginLoop(t) \/ BeginSections(t) \/ BeginSingleExecutor(t) \/ BeginSingleOther(t) \/ ReachBarrier(t)

(* Those that reach a construct are arrivals.                              *)
LEMMA ReachingArrives ==
  ASSUME Control, NEW t \in Tasks, Reaching(t)
  PROVE  t # Root /\ \E c \in Constructs, p \in Places : Arrives(t, c, p)
<1> USE DEF Control
<1>1. program.constructs \subseteq AllConstructs
  BY ProgramBounds DEF ControlTypes
<1>2. {"single", "other", "preamble", "chunk", "barrier"} \subseteq Places
  BY DEF Places, CodePlaces, WorkPlaces
<1>3. \A c \in StaticLoops \cup DynamicLoops \cup OrderedLoops \cup Sections :
        c \notin Singles /\ c # "barrier"
  BY DEF StaticLoops, DynamicLoops, OrderedLoops, Sections, Singles
<1>4. CASE BeginLoop(t) \/ BeginSections(t)
  <2>1. PICK c \in AllConstructs, p \in {"preamble", "chunk"} :
          c \notin Singles /\ c # "barrier" /\ Reaches(t, c) /\ Go(t, p)
    BY <1>1, <1>3, <1>4 DEF BeginLoop, BeginSections
  <2>2. Arrives(t, c, p)
    BY <2>1 DEF Arrives, PlaceFor
  <2> QED BY <1>2, <2>1, <2>2 DEF Constructs, Reaches
<1>5. CASE BeginSingleExecutor(t) \/ BeginSingleOther(t)
  <2>1. PICK c \in AllConstructs \cap Singles, p \in {"single", "other"} : Reaches(t, c) /\ Go(t, p)
    BY <1>1, <1>5 DEF BeginSingleExecutor, BeginSingleOther
  <2>2. Arrives(t, c, p)
    BY <2>1 DEF Arrives, PlaceFor
  <2> QED BY <1>2, <2>1, <2>2 DEF Constructs, Reaches
<1>6. CASE ReachBarrier(t)
  <2>1. PICK c \in {"barrier", "end"} : Reaches(t, c) /\ Go(t, "barrier")
    BY <1>6 DEF ReachBarrier
  <2>2. Arrives(t, c, "barrier") /\ c \in Constructs
    BY <2>1 DEF Arrives, PlaceFor, Constructs, AllConstructs
  <2> QED BY <1>2, <2>1, <2>2 DEF Reaches
<1> QED BY <1>4, <1>5, <1>6 DEF Reaching

(* Those that end a task let it leave.                                     *)
LEMMA EndLeaves ==
  ASSUME Control, NEW t \in Tasks, ImplicitTaskEndMaster(t) \/ ImplicitTaskEndWorker(t)
  PROVE  t # Root /\ Leaves(t)
BY DEF Control, PlacesFit, ImplicitTaskEndMaster, ImplicitTaskEndWorker, Leaves, teamVars

(* All steps of the system keep control.                                   *)
LEMMA ControlStep == Control /\ [Next]_vars => Control'
<1> SUFFICES ASSUME Control, [Next]_vars PROVE Control'
  OBVIOUS
<1>1. ASSUME NEW t \in Tasks, Inside(t) PROVE Control'
  BY <1>1, InsideMoves, MoveKeepsControl
<1>2. ASSUME NEW t \in Tasks, Reaching(t) PROVE Control'
  BY <1>2, ReachingArrives, ArrivalKeepsControl
<1>3. ASSUME NEW t \in Tasks, ImplicitTaskEndMaster(t) \/ ImplicitTaskEndWorker(t) PROVE Control'
  BY <1>3, EndLeaves, EndKeepsControl
<1>4. ASSUME NEW r \in Teams, Fork(r) \/ OpenBarrier(r) PROVE Control'
  BY <1>4, ForkKeepsControl, BarrierKeepsControl
<1>5. ASSUME UNCHANGED controlVars PROVE Control'
  BY <1>5 DEF controlVars, Control, ControlTypes, PlacesFit, ScriptsEnd, OpenRegions, BarriersHold,
              Passed, Exists, InLoop, InSingle, Construct
<1>6. ASSUME NEW t \in Tasks, Record(t) PROVE UNCHANGED controlVars
  BY <1>6 DEF Record, controlVars, teamVars
<1>7. UNCHANGED vars => UNCHANGED controlVars
  BY DEF vars, controlVars, teamVars
<1> QED BY <1>1, <1>2, <1>3, <1>4, <1>5, <1>6, <1>7 DEF Next, Step, Inside, Reaching

-----------------------------------------------------------------------------
(* Labels                                                                  *)

LabelTypes ==
  /\ label \in [Tasks -> Seq(SegmentType)]
  /\ iter \in [Tasks -> Nat]
  /\ {taken, turn} \subseteq [Teams -> [1..program.length+1 -> Nat]]
  /\ aborted \in BOOLEAN
LabelsExist == \A t \in Tasks : label[t] = <<>> <=> ~ Exists(t)
LabelsFit == ~ aborted => \A t \in Tasks : Fits(label[t])
Labelled == Control /\ LabelTypes /\ LabelsExist /\ LabelsNest /\ LabelsFit

\* The label of t goes on as new: what is below its own segment stays, and d loops
\* are counted.
GoesOn(t, new, d) ==
  /\ new \in Seq(SegmentType) /\ Relabel(t, new)
  /\ Len(new) = OwnPlace(t) + ConstructDepth(t)'
  /\ \A k \in 1..OwnPlace(t)-1 : SameCounts(new[k], label[t][k])
  /\ new[OwnPlace(t)].loopCount = label[t][OwnPlace(t)].loopCount + d
  /\ Fits(label[t]) /\ ~ aborted' => Fits(new)
Left(t) == IF InLoop(t) /\ ~ InLoop(t)' THEN 1 ELSE 0

(* The label of a task that exists, outside and inside of a construct.     *)
LEMMA LabelKnown ==
  ASSUME Labelled, NEW t \in Tasks \ {Root}, Exists(t)
  PROVE  /\ label[t] \in Seq(SegmentType) /\ OwnPlace(t) \in Nat /\ OwnPlace(t) >= 2
         /\ ConstructDepth(t) = 0 => OwnPlace(t) = Len(label[t])
         /\ ConstructDepth(t) = 1 => OwnPlace(t) = Len(label[t]) - 1
         /\ ConstructDepth(t) \in {0, 1}
         /\ Len(label[t]) >= 2
         /\ \A k \in 1..Len(label[t]) : label[t][k] \in SegmentType
         /\ label[t][OwnPlace(t)].loopCount \in Nat
<1>1. label[t] \in Seq(SegmentType) /\ OwnPlace(t) >= 2
  BY DEF Labelled, LabelTypes, LabelsNest
<1>2. ConstructDepth(t) \in {0, 1}
  BY DEF ConstructDepth
<1>3. OwnPlace(t) = Len(label[t]) - ConstructDepth(t)
  BY DEF OwnPlace
<1>4. OwnPlace(t) \in 1..Len(label[t])
  BY <1>1, <1>2, <1>3
<1>5. \A k \in 1..Len(label[t]) : label[t][k] \in SegmentType
  BY <1>1, ElementOfSeq
<1>6. \A seg \in SegmentType : seg.loopCount \in Nat
  BY DEF SegmentType
<1> QED BY <1>1, <1>2, <1>3, <1>4, <1>5, <1>6

(* Numbers that are dispatched.                                            *)
LEMMA DispatchedIsNat ==
  ASSUME Labelled, NEW t \in Tasks \ {Root}, InLoop(t)
  PROVE  /\ step[t] \in 1..program.length+1
         /\ taken[TeamOf(t)][step[t]] \in Nat /\ turn[TeamOf(t)][step[t]] \in Nat
         /\ ChunkOf(Construct(t)) \in Nat \ {0}
         /\ taken[TeamOf(t)][step[t]] * ChunkOf(Construct(t)) \in Nat
<1> USE DEF Labelled
<1>1. TeamOf(t) \in Teams /\ step[t] \in 1..Len(script[TeamOf(t)])
  BY ConstructKnown DEF Control, Exists, InLoop, WorkPlaces
<1>2. Len(script[TeamOf(t)]) <= program.length + 1 /\ program.length \in Nat /\ program.chunk \in Nat \ {0}
  BY <1>1, ProgramBounds DEF Control, ScriptsEnd, ControlTypes
<1>3. Len(script[TeamOf(t)]) \in Nat
  BY <1>1 DEF Control, ControlTypes
<1>4. step[t] \in 1..program.length+1
  BY <1>1, <1>2, <1>3
<1>5. taken[TeamOf(t)][step[t]] \in Nat /\ turn[TeamOf(t)][step[t]] \in Nat
  BY <1>1, <1>4 DEF LabelTypes
<1>6. ChunkOf(Construct(t)) \in Nat \ {0}
  BY <1>2 DEF ChunkOf
<1> QED BY <1>4, <1>5, <1>6

(* A task in a construct, or that leaves one.                              *)
LEMMA InsideLabels ==
  ASSUME Labelled, NEW t \in Tasks \ {Root}, Inside(t), ~ ImplicitTaskBegin(t)
  PROVE  Exists(t) /\ Exists(t)' /\ \E new : GoesOn(t, new, Left(t))
<1> USE DEF Labelled
<1>1. at \in [Tasks -> Places]
  BY DEF Control, ControlTypes
<1>2. ASSUME NEW p \in Places, Go(t, p) PROVE at'[t] = p
  BY <1>1, <1>2 DEF Go
<1>3. {"free", "work", "ordered", "past", "ending", "barrier"} \subseteq Places
  BY DEF Places, CodePlaces, WorkPlaces
<1> DEFINE l == label[t]
<1>4. CASE Dispatch(t)
  <2> DEFINE id == taken[TeamOf(t)][step[t]] * ChunkOf(Construct(t))
             seg == IF Construct(t) \in Sections THEN SectionSegment(id) ELSE IterationSegment(id)
             new == ReplaceLast(l, seg)
  <2>1. InLoop(t) /\ at'[t] = "work" /\ Relabel(t, new)
    BY <1>2, <1>3, <1>4 DEF Dispatch, InLoop, MutateSectionDispatch, MutateIterDispatch
  <2>2. Exists(t) /\ Exists(t)' /\ ConstructDepth(t) = 1 /\ ConstructDepth(t)' = 1 /\ Left(t) = 0
    BY <2>1 DEF Exists, ConstructDepth, InLoop, WorkPlaces, Left
  <2>3. id \in Nat
    BY <2>1, DispatchedIsNat
  <2> HIDE DEF id
  <2>4. seg \in SegmentType /\ SegmentOK(seg)
    BY <2>3, NewSegments DEF Fresh
  <2> HIDE DEF seg, l
  <2>5. /\ l \in Seq(SegmentType) /\ OwnPlace(t) = Len(l) - 1 /\ OwnPlace(t) \in Nat /\ OwnPlace(t) >= 2
        /\ l[OwnPlace(t)].loopCount \in Nat /\ Len(l) >= 1
    BY <2>2, LabelKnown DEF l
  <2>6. /\ new \in Seq(SegmentType) /\ Len(new) = Len(l)
        /\ \A k \in 1..Len(l)-1 : new[k] = l[k]
        /\ Fits(l) /\ SegmentOK(seg) => Fits(new)
    BY <2>4, <2>5, Replaced
  <2> HIDE DEF new
  <2>7. GoesOn(t, new, Left(t))
    <3>1. Len(new) = OwnPlace(t) + ConstructDepth(t)'
      BY <2>2, <2>5, <2>6
    <3>2. \A k \in 1..OwnPlace(t)-1 : SameCounts(new[k], l[k])
      <4> TAKE k \in 1..OwnPlace(t)-1
      <4>1. k \in 1..Len(l)-1
        BY <2>5
      <4> QED BY <4>1, <2>6 DEF SameCounts
    <3>3. new[OwnPlace(t)].loopCount = l[OwnPlace(t)].loopCount + Left(t)
      BY <2>2, <2>5, <2>6
    <3>4. Fits(l) /\ ~ aborted' => Fits(new)
      BY <2>4, <2>6
    <3> QED BY <2>1, <2>6, <3>1, <3>2, <3>3, <3>4 DEF GoesOn, l
  <2> QED BY <2>2, <2>7
<1>5. CASE OrderedAcquired(t) \/ OrderedReleased(t)
  <2> DEFINE new == MutateOrderSection(l)
  <2>1. /\ InLoop(t) /\ at'[t] \in WorkPlaces /\ Relabel(t, new)
        /\ aborted' = ~ PhaseFits(l)
    BY <1>2, <1>3, <1>5 DEF OrderedAcquired, OrderedReleased, InLoop, WorkPlaces
  <2>2. Exists(t) /\ Exists(t)' /\ ConstructDepth(t) = 1 /\ ConstructDepth(t)' = 1 /\ Left(t) = 0
    BY <2>1 DEF Exists, ConstructDepth, InLoop, WorkPlaces, Left
  <2> HIDE DEF l
  <2>3. /\ l \in Seq(SegmentType) /\ OwnPlace(t) = Len(l) - 1 /\ OwnPlace(t) \in Nat /\ OwnPlace(t) >= 2
        /\ l[OwnPlace(t)].loopCount \in Nat /\ Len(l) >= 1
    BY <2>2, LabelKnown DEF l
  <2>4. /\ new \in Seq(SegmentType) /\ Len(new) = Len(l)
        /\ \A k \in 1..Len(l)-1 : new[k] = l[k]
        /\ Fits(l) /\ PhaseFits(l) => Fits(new)
    BY <2>3, OrderedMoves
  <2> HIDE DEF new
  <2>5. GoesOn(t, new, Left(t))
    <3>1. Len(new) = OwnPlace(t) + ConstructDepth(t)'
      BY <2>2, <2>3, <2>4
    <3>2. \A k \in 1..OwnPlace(t)-1 : SameCounts(new[k], l[k])
      <4> TAKE k \in 1..OwnPlace(t)-1
      <4>1. k \in 1..Len(l)-1
        BY <2>3
      <4> QED BY <4>1, <2>4 DEF SameCounts
    <3>3. new[OwnPlace(t)].loopCount = l[OwnPlace(t)].loopCount + Left(t)
      BY <2>2, <2>3, <2>4 DEF SameCounts
    <3>4. Fits(l) /\ ~ aborted' => Fits(new)
      BY <2>1, <2>4
    <3> QED BY <2>1, <2>4, <3>1, <3>2, <3>3, <3>4 DEF GoesOn, l
  <2> QED BY <2>2, <2>5
<1>6. CASE EndLoop(t) \/ EndSections(t)
  <2> DEFINE new == MutateLoopEnd(l)
  <2>1. /\ InLoop(t) /\ at'[t] \in {"free", "barrier"} /\ Relabel(t, new)
        /\ aborted' = ~ LoopCountFits(l)
    BY <1>2, <1>3, <1>6
       DEF EndLoop, EndSections, Idles, InLoop, WorkPlaces, AfterConstruct, MutateSectionEnd
  <2>2. Exists(t) /\ Exists(t)' /\ ConstructDepth(t) = 1 /\ ConstructDepth(t)' = 0 /\ Left(t) = 1
    BY <2>1 DEF Exists, ConstructDepth, InLoop, InSingle, WorkPlaces, Left
  <2> HIDE DEF l
  <2>3. /\ l \in Seq(SegmentType) /\ OwnPlace(t) = Len(l) - 1 /\ OwnPlace(t) \in Nat /\ OwnPlace(t) >= 2
        /\ l[OwnPlace(t)].loopCount \in Nat /\ Len(l) >= 2
    BY <2>2, LabelKnown DEF l
  <2>4. /\ new \in Seq(SegmentType) /\ Len(new) = Len(l) - 1
        /\ \A k \in 1..Len(l)-2 : new[k] = l[k]
        /\ new[Len(l)-1].loopCount = l[Len(l)-1].loopCount + 1
        /\ Fits(l) /\ LoopCountFits(l) => Fits(new)
    BY <2>3, LoopEndMoves
  <2> HIDE DEF new
  <2>5. GoesOn(t, new, Left(t))
    <3>1. Len(new) = OwnPlace(t) + ConstructDepth(t)'
      BY <2>2, <2>3, <2>4
    <3>2. \A k \in 1..OwnPlace(t)-1 : SameCounts(new[k], l[k])
      BY <2>3, <2>4, SMTT(30) DEF SameCounts
    <3>3. new[OwnPlace(t)].loopCount = l[OwnPlace(t)].loopCount + Left(t)
      BY <2>2, <2>3, <2>4 DEF SameCounts
    <3>4. Fits(l) /\ ~ aborted' => Fits(new)
      BY <2>1, <2>4
    <3> QED BY <2>1, <2>4, <3>1, <3>2, <3>3, <3>4 DEF GoesOn, l
  <2> QED BY <2>2, <2>5
<1>7. CASE EndSingle(t)
  <2> DEFINE new == Front(l)
  <2>1. InSingle(t) /\ at'[t] \in {"free", "barrier"} /\ Relabel(t, new)
    BY <1>2, <1>3, <1>7 DEF EndSingle, InSingle, AfterConstruct, MutateSingleEnd
  <2>2. Exists(t) /\ Exists(t)' /\ ConstructDepth(t) = 1 /\ ConstructDepth(t)' = 0 /\ Left(t) = 0
    BY <2>1 DEF Exists, ConstructDepth, InLoop, InSingle, WorkPlaces, Left
  <2> HIDE DEF l
  <2>3. /\ l \in Seq(SegmentType) /\ OwnPlace(t) = Len(l) - 1 /\ OwnPlace(t) \in Nat /\ OwnPlace(t) >= 2
        /\ l[OwnPlace(t)].loopCount \in Nat /\ Len(l) >= 1
    BY <2>2, LabelKnown DEF l
  <2>4. /\ new \in Seq(SegmentType) /\ Len(new) = Len(l) - 1
        /\ \A k \in 1..Len(l)-1 : new[k] = l[k]
        /\ Fits(l) => Fits(new)
    BY <2>3, Shortened
  <2> HIDE DEF new
  <2>5. GoesOn(t, new, Left(t))
    <3>1. Len(new) = OwnPlace(t) + ConstructDepth(t)'
      BY <2>2, <2>3, <2>4
    <3>2. \A k \in 1..OwnPlace(t)-1 : SameCounts(new[k], l[k])
      BY <2>3, <2>4 DEF SameCounts
    <3>3. new[OwnPlace(t)].loopCount = l[OwnPlace(t)].loopCount + Left(t)
      BY <2>2, <2>3, <2>4 DEF SameCounts
    <3>4. Fits(l) /\ ~ aborted' => Fits(new)
      BY <2>1, <2>4
    <3> QED BY <2>1, <2>4, <3>1, <3>2, <3>3, <3>4 DEF GoesOn, l
  <2> QED BY <2>2, <2>5
<1>8. CASE BarrierEnd(t)
  <2> DEFINE new == MutateBarrierEnd(l)
  <2>1. at[t] = "released" /\ at'[t] \in {"free", "ending"} /\ Relabel(t, new)
    BY <1>2, <1>3, <1>8 DEF BarrierEnd
  <2>2. Exists(t) /\ Exists(t)' /\ ConstructDepth(t) = 0 /\ ConstructDepth(t)' = 0 /\ Left(t) = 0
    BY <2>1 DEF Exists, ConstructDepth, InLoop, InSingle, WorkPlaces, Left
  <2> HIDE DEF l
  <2>3. /\ l \in Seq(SegmentType) /\ OwnPlace(t) = Len(l) /\ OwnPlace(t) \in Nat /\ OwnPlace(t) >= 2
        /\ l[OwnPlace(t)].loopCount \in Nat /\ Len(l) >= 2
    BY <2>2, LabelKnown DEF l
  <2>4. /\ new \in Seq(SegmentType) /\ Len(new) = Len(l)
        /\ \A k \in 1..Len(l) : SameCounts(new[k], l[k])
        /\ Fits(l) => Fits(new)
    BY <2>3, BarrierEndMoves
  <2> HIDE DEF new
  <2>5. GoesOn(t, new, Left(t))
    <3>1. Len(new) = OwnPlace(t) + ConstructDepth(t)'
      BY <2>2, <2>3, <2>4
    <3>2. \A k \in 1..OwnPlace(t)-1 : SameCounts(new[k], l[k])
      BY <2>3, <2>4 DEF SameCounts
    <3>3. new[OwnPlace(t)].loopCount = l[OwnPlace(t)].loopCount + Left(t)
      BY <2>2, <2>3, <2>4 DEF SameCounts
    <3>4. Fits(l) /\ ~ aborted' => Fits(new)
      BY <2>1, <2>4
    <3> QED BY <2>1, <2>4, <3>1, <3>2, <3>3, <3>4 DEF GoesOn, l
  <2> QED BY <2>2, <2>5
<1> QED BY <1>4, <1>5, <1>6, <1>7, <1>8 DEF Inside

(* A task that reaches a construct.                                        *)
LEMMA ReachingLabels ==
  ASSUME Labelled, NEW t \in Tasks \ {Root}, Reaching(t)
  PROVE  Exists(t) /\ Exists(t)' /\ Left(t) = 0 /\ \E new : GoesOn(t, new, 0)
<1> USE DEF Labelled
<1>1. at \in [Tasks -> Places] /\ label \in [Tasks -> Seq(SegmentType)]
  BY DEF Control, ControlTypes, LabelTypes
<1>2. at[t] = "free" /\ aborted' = aborted
  BY DEF Reaching, BeginLoop, BeginSections, BeginSingleExecutor, BeginSingleOther, ReachBarrier, Reaches
<1>3. Exists(t) /\ ConstructDepth(t) = 0 /\ Left(t) = 0
  BY <1>2 DEF Exists, ConstructDepth, InLoop, InSingle, WorkPlaces, Left
<1>4. /\ label[t] \in Seq(SegmentType) /\ OwnPlace(t) = Len(label[t]) /\ OwnPlace(t) \in Nat
      /\ OwnPlace(t) >= 2 /\ label[t][OwnPlace(t)].loopCount \in Nat
  BY <1>3, LabelKnown
<1>5. CASE BeginLoop(t) \/ BeginSections(t) \/ BeginSingleExecutor(t) \/ BeginSingleOther(t)
  <2>1. PICK p \in {"chunk", "preamble", "single", "other"} : Go(t, p)
    BY <1>5 DEF BeginLoop, BeginSections, BeginSingleExecutor, BeginSingleOther
  <2>2. Exists(t)' /\ ConstructDepth(t)' = 1
    BY <2>1, <1>1 DEF Exists, ConstructDepth, InLoop, InSingle, Go
  <2>3. PICK seg : Fresh(seg) /\ Relabel(t, Append(label[t], seg))
    BY <1>5, NewSegments
       DEF BeginLoop, BeginSections, BeginSingleExecutor, BeginSingleOther, MutateLoopBegin,
           MutateSectionBegin, MutateSingleExecBegin, MutateSingleOtherBegin
  <2> DEFINE new == Append(label[t], seg)
  <2>4. /\ new \in Seq(SegmentType) /\ Len(new) = Len(label[t]) + 1
        /\ \A k \in 1..Len(label[t]) : new[k] = label[t][k]
        /\ Fits(label[t]) => Fits(new)
    BY <1>4, <2>3, Extended
  <2>5. Relabel(t, new)
    BY <2>3
  <2> HIDE DEF new
  <2>6. GoesOn(t, new, 0)
    <3>1. Len(new) = OwnPlace(t) + ConstructDepth(t)'
      BY <1>4, <2>2, <2>4
    <3>2. \A k \in 1..OwnPlace(t)-1 : SameCounts(new[k], label[t][k])
      BY <1>4, <2>4 DEF SameCounts
    <3>3. new[OwnPlace(t)].loopCount = label[t][OwnPlace(t)].loopCount + 0
      BY <1>4, <2>4
    <3> QED BY <2>4, <2>5, <3>1, <3>2, <3>3 DEF GoesOn
  <2> QED BY <1>3, <2>2, <2>6
<1>6. CASE ReachBarrier(t)
  <2>1. Go(t, "barrier") /\ label' = label
    BY <1>6 DEF ReachBarrier
  <2>2. Exists(t)' /\ ConstructDepth(t)' = 0
    BY <2>1, <1>1 DEF Exists, ConstructDepth, InLoop, InSingle, WorkPlaces, Go
  <2>3. Relabel(t, label[t])
    BY <2>1, <1>1 DEF Relabel
  <2>4. GoesOn(t, label[t], 0)
    BY <1>4, <2>2, <2>3 DEF GoesOn, SameCounts
  <2> QED BY <1>3, <2>2, <2>4
<1> QED BY <1>5, <1>6 DEF Reaching

LabelsGood == LabelsExist /\ LabelsNest /\ LabelsFit /\ label \in [Tasks -> Seq(SegmentType)]

(* A task that is given a label of the right shape, while no region of its *)
(* own is open, leaves the labels well formed.                             *)
LEMMA RelabelKeepsLabels ==
  ASSUME Labelled, NEW t \in Tasks \ {Root}, ~ Forked(t), open' = open,
         Exists(t)', \A u \in Tasks : u # t => at'[u] = at[u],
         NEW new \in Seq(SegmentType), Relabel(t, new),
         Len(new) - ConstructDepth(t)' >= 2,
         open[TeamOf(t)] =>
           /\ Len(new) - ConstructDepth(t)' = Len(label[TeamOf(t)]) + 1
           /\ \A k \in 1..Len(label[TeamOf(t)]) : SameCounts(new[k], label[TeamOf(t)][k]),
         ~ aborted' => ~ aborted /\ Fits(new)
  PROVE  LabelsGood'
<1> USE DEF Labelled
<1>1. /\ label \in [Tasks -> Seq(SegmentType)] /\ label' = [label EXCEPT ![t] = new]
  BY DEF LabelTypes, Relabel
<1>2. label'[t] = new /\ \A u \in Tasks : u # t => label'[u] = label[u]
  BY <1>1
<1>3. label' \in [Tasks -> Seq(SegmentType)]
  BY <1>1
<1>4. ConstructDepth(t)' \in {0, 1}
  BY DEF ConstructDepth
<1>5. new # <<>>
  BY <1>4
<1>6. LabelsExist'
  BY <1>2, <1>5 DEF LabelsExist, Exists
<1>7. LabelsFit'
  BY <1>2 DEF LabelsFit
<1>8. LabelsNest'
  <2> SUFFICES ASSUME NEW u \in Tasks \ {Root}, Exists(u)'
               PROVE  (/\ OwnPlace(u) >= 2
                       /\ open[TeamOf(u)] =>
                            /\ OwnPlace(u) = Len(label[TeamOf(u)]) + 1
                            /\ \A k \in 1..Len(label[TeamOf(u)]) :
                                 SameCounts(label[u][k], label[TeamOf(u)][k]))'
    BY DEF LabelsNest
  <2>1. TeamOf(u) \in Teams /\ TeamOf(u) \in Tasks /\ TeamOf(t) \in Tasks /\ TeamOf(t) # t
    BY Tree
  <2>2. CASE u = t
    <3>1. OwnPlace(u)' = Len(new) - ConstructDepth(t)'
      BY <2>2, <1>2 DEF OwnPlace
    <3>2. label'[TeamOf(u)] = label[TeamOf(t)] /\ label'[u] = new
      BY <2>1, <2>2, <1>2
    <3> QED BY <2>2, <3>1, <3>2
  <2>3. CASE u # t
    <3>1. Exists(u) /\ OwnPlace(u)' = OwnPlace(u) /\ label'[u] = label[u]
      BY <2>3, <1>2 DEF Exists, OwnPlace, ConstructDepth, InLoop, InSingle
    <3>2. open[TeamOf(u)] => label'[TeamOf(u)] = label[TeamOf(u)]
      BY <2>1, <1>2 DEF Forked
    <3> QED BY <3>1, <3>2 DEF LabelsNest
  <2> QED BY <2>2, <2>3
<1> QED BY <1>3, <1>6, <1>7, <1>8 DEF LabelsGood

(* A label that goes on has the right shape.                               *)
LEMMA GoingOnKeepsLabels ==
  ASSUME Labelled, NEW t \in Tasks \ {Root}, ~ Forked(t), open' = open,
         Exists(t), Exists(t)', \A u \in Tasks : u # t => at'[u] = at[u],
         NEW new, NEW d, GoesOn(t, new, d), ~ aborted
  PROVE  LabelsGood'
<1>1. /\ new \in Seq(SegmentType) /\ Relabel(t, new)
      /\ Len(new) = OwnPlace(t) + ConstructDepth(t)'
      /\ \A k \in 1..OwnPlace(t)-1 : SameCounts(new[k], label[t][k])
      /\ Fits(label[t]) /\ ~ aborted' => Fits(new)
  BY DEF GoesOn
<1>2. ConstructDepth(t)' \in {0, 1}
  BY DEF ConstructDepth
<1>3. OwnPlace(t) \in Nat /\ OwnPlace(t) >= 2
  BY LabelKnown
<1>4. Len(new) - ConstructDepth(t)' = OwnPlace(t)
  BY <1>1, <1>2, <1>3
<1>5. open[TeamOf(t)] =>
        /\ OwnPlace(t) = Len(label[TeamOf(t)]) + 1
        /\ \A k \in 1..Len(label[TeamOf(t)]) : SameCounts(label[t][k], label[TeamOf(t)][k])
  BY DEF Labelled, LabelsNest
<1>6. Len(label[TeamOf(t)]) \in Nat
  BY Tree DEF Labelled, LabelTypes
<1>7. open[TeamOf(t)] =>
        \A k \in 1..Len(label[TeamOf(t)]) : SameCounts(new[k], label[TeamOf(t)][k])
  BY <1>1, <1>3, <1>5, <1>6 DEF SameCounts
<1>8. ~ aborted' => ~ aborted /\ Fits(new)
  BY <1>1 DEF Labelled, LabelsFit
<1> QED BY <1>1, <1>3, <1>4, <1>5, <1>7, <1>8, RelabelKeepsLabels

(* The first label of a member.                                            *)
LEMMA BeginKeepsLabels ==
  ASSUME Labelled, NEW t \in Tasks \ {Root}, ImplicitTaskBegin(t)
  PROVE  LabelsGood'
<1> USE DEF Labelled
<1> DEFINE r == TeamOf(t)
           seg == ImplicitSegment(Last(t), TeamSizes[Len(t)])
           new == Append(label[r], seg)
<1>1. /\ at[t] = "starting" /\ Relabel(t, new) /\ Go(t, "free") /\ open' = open /\ aborted' = aborted
  BY DEF ImplicitTaskBegin, GenImpTaskLabel
<1>2. at'[t] = "free" /\ \A u \in Tasks : u # t => at'[u] = at[u]
  BY <1>1 DEF Go, Control, ControlTypes
<1>3. r \in Teams /\ r \in Tasks /\ open[r] /\ at[r] \in CodePlaces /\ ~ Forked(t)
  BY <1>1, Tree DEF Control, OpenRegions, Forked, CodePlaces, WorkPlaces
<1>4. label[r] \in Seq(SegmentType) /\ label[r] # <<>>
  BY <1>3 DEF LabelTypes, LabelsExist, Exists, CodePlaces, WorkPlaces
<1>5. Len(label[r]) \in Nat /\ Len(label[r]) >= 1
  BY <1>4, EmptySeq
<1>6. Fresh(seg)
  BY Tree, NewSegments
<1> HIDE DEF seg
<1>7. /\ new \in Seq(SegmentType) /\ Len(new) = Len(label[r]) + 1
      /\ \A k \in 1..Len(label[r]) : new[k] = label[r][k]
      /\ Fits(label[r]) => Fits(new)
  BY <1>4, <1>6, Extended
<1> HIDE DEF new
<1>8. Exists(t)' /\ ConstructDepth(t)' = 0
  BY <1>2 DEF Exists, ConstructDepth, InLoop, InSingle, WorkPlaces
<1>9. Len(new) - ConstructDepth(t)' >= 2 /\ Len(new) - ConstructDepth(t)' = Len(label[r]) + 1
  BY <1>5, <1>7, <1>8
<1>10. \A k \in 1..Len(label[r]) : SameCounts(new[k], label[r][k])
  BY <1>7 DEF SameCounts
<1>11. ~ aborted' => ~ aborted /\ Fits(new)
  BY <1>1, <1>3, <1>7 DEF LabelsFit
<1> QED BY <1>1, <1>2, <1>3, <1>7, <1>8, <1>9, <1>10, <1>11, RelabelKeepsLabels

(* The end of a member; the master hands the label back.                   *)
LEMMA EndKeepsLabels ==
  ASSUME Labelled, NEW t \in Tasks \ {Root}, ImplicitTaskEndMaster(t) \/ ImplicitTaskEndWorker(t)
  PROVE  LabelsGood'
<1> USE DEF Labelled
<1> DEFINE r == TeamOf(t)
<1>1. /\ at[t] = "ending" /\ at' = [at EXCEPT ![t] = "none"] /\ aborted' = aborted
      /\ at \in [Tasks -> Places] /\ open \in [Teams -> BOOLEAN]
      /\ label \in [Tasks -> Seq(SegmentType)]
  BY DEF ImplicitTaskEndMaster, ImplicitTaskEndWorker, Vanishes, Go, Control, ControlTypes, LabelTypes
<1>2. at'[t] = "none" /\ \A u \in Tasks : u # t => at'[u] = at[u]
  BY <1>1
<1>3. r \in Teams /\ r \in Tasks /\ r # t /\ ~ Forked(t) /\ Exists(t)
  BY <1>1, Tree DEF Control, OpenRegions, Forked, CodePlaces, WorkPlaces, Exists
<1>4. /\ label[t] \in Seq(SegmentType) /\ Len(label[t]) >= 2 /\ OwnPlace(t) = Len(label[t])
  BY <1>1, <1>3, LabelKnown DEF ConstructDepth, InLoop, InSingle, WorkPlaces
<1>5. CASE ImplicitTaskEndWorker(t)
  <2>1. /\ label' = [label EXCEPT ![t] = <<>>] /\ open' = open
    BY <1>5 DEF ImplicitTaskEndWorker, Relabel
  <2>2. label'[t] = <<>> /\ \A u \in Tasks : u # t => label'[u] = label[u]
    BY <1>1, <2>1
  <2>3. label' \in [Tasks -> Seq(SegmentType)]
    <3>1. <<>> \in Seq(SegmentType)
      OBVIOUS
    <3> QED BY <1>1, <2>1, <3>1
  <2>4. LabelsExist'
    BY <1>2, <2>2 DEF LabelsExist, Exists
  <2>5. LabelsFit'
    BY <1>1, <2>2 DEF LabelsFit, Fits
  <2>6. LabelsNest'
    <3> SUFFICES ASSUME NEW u \in Tasks \ {Root}, Exists(u)'
                 PROVE  (/\ OwnPlace(u) >= 2
                         /\ open[TeamOf(u)] =>
                              /\ OwnPlace(u) = Len(label[TeamOf(u)]) + 1
                              /\ \A k \in 1..Len(label[TeamOf(u)]) :
                                   SameCounts(label[u][k], label[TeamOf(u)][k]))'
      BY DEF LabelsNest
    <3>1. u # t /\ TeamOf(u) \in Teams /\ TeamOf(u) \in Tasks
      BY <1>2, Tree DEF Exists
    <3>2. Exists(u) /\ OwnPlace(u)' = OwnPlace(u) /\ label'[u] = label[u]
      BY <3>1, <1>2, <2>2 DEF Exists, OwnPlace, ConstructDepth, InLoop, InSingle
    <3>3. open[TeamOf(u)] => label'[TeamOf(u)] = label[TeamOf(u)]
      BY <3>1, <1>3, <2>2 DEF Forked
    <3> QED BY <3>2, <3>3, <2>1 DEF LabelsNest
  <2> QED BY <2>3, <2>4, <2>5, <2>6 DEF LabelsGood
<1>6. CASE ImplicitTaskEndMaster(t)
  <2> DEFINE new == Front(label[t])
  <2>1. /\ label' = [label EXCEPT ![r] = new, ![t] = <<>>]
        /\ open' = [open EXCEPT ![r] = FALSE]
        /\ Last(t) = 0
    BY <1>6 DEF ImplicitTaskEndMaster, MutateParentImpEnd
  <2>2. open[r] /\ at[r] \in CodePlaces
    BY <1>1, <1>3, <2>1 DEF Control, OpenRegions
  <2>3. /\ Len(label[t]) = Len(label[r]) + 1
        /\ \A k \in 1..Len(label[r]) : SameCounts(label[t][k], label[r][k])
        /\ label[r] \in Seq(SegmentType) /\ label[r] # <<>>
    BY <1>1, <1>3, <1>4, <2>2 DEF LabelsNest, LabelsExist, Exists, CodePlaces, WorkPlaces
  <2>4. /\ new \in Seq(SegmentType) /\ Len(new) = Len(label[t]) - 1
        /\ \A k \in 1..Len(label[t])-1 : new[k] = label[t][k]
        /\ Fits(label[t]) => Fits(new)
    <3>1. Len(label[t]) >= 1
      BY <1>4
    <3> QED BY <1>4, <3>1, Shortened
  <2> HIDE DEF new
  <2>5. Len(new) = Len(label[r]) /\ \A k \in 1..Len(label[r]) : SameCounts(new[k], label[r][k])
    BY <2>3, <2>4
  <2>6. /\ label'[t] = <<>> /\ label'[r] = new
        /\ \A u \in Tasks : u # t /\ u # r => label'[u] = label[u]
    BY <1>1, <1>3, <2>1
  <2>7. label' \in [Tasks -> Seq(SegmentType)]
    <3>1. <<>> \in Seq(SegmentType)
      OBVIOUS
    <3> QED BY <1>1, <2>1, <2>4, <3>1
  <2>8. new # <<>>
    BY <2>3, <2>5, EmptySeq
  <2>9. LabelsExist'
    <3>1. Exists(r)
      BY <2>2 DEF Exists, CodePlaces, WorkPlaces
    <3> QED BY <1>2, <1>3, <2>6, <2>8, <3>1 DEF LabelsExist, Exists
  <2>10. LabelsFit'
    <3>1. ASSUME NEW u \in Tasks, ~ aborted PROVE Fits(label'[u])
      <4>1. Fits(label[u]) /\ Fits(label[t])
        BY <3>1 DEF LabelsFit
      <4>2. CASE u = t
        BY <2>6, <4>2 DEF Fits
      <4>3. CASE u # t
        BY <2>4, <2>6, <4>1, <4>3
      <4> QED BY <4>2, <4>3
    <3>2. (\A u \in Tasks : Fits(label[u]))' <=> \A u \in Tasks : Fits(label'[u])
      BY DEF Fits
    <3> QED BY <1>1, <3>1, <3>2 DEF LabelsFit
  <2>11. LabelsNest'
    <3> SUFFICES ASSUME NEW u \in Tasks \ {Root}, Exists(u)'
                 PROVE  (/\ OwnPlace(u) >= 2
                         /\ open[TeamOf(u)] =>
                              /\ OwnPlace(u) = Len(label[TeamOf(u)]) + 1
                              /\ \A k \in 1..Len(label[TeamOf(u)]) :
                                   SameCounts(label[u][k], label[TeamOf(u)][k]))'
      BY DEF LabelsNest
    <3>1. /\ u # t /\ TeamOf(u) \in Teams /\ TeamOf(u) \in Tasks /\ TeamOf(u) # u
      BY <1>2, Tree DEF Exists
    <3>2. Exists(u) /\ at'[u] = at[u]
      BY <3>1, <1>2 DEF Exists
    <3>3. /\ OwnPlace(u) >= 2
          /\ open[TeamOf(u)] =>
               /\ OwnPlace(u) = Len(label[TeamOf(u)]) + 1
               /\ \A k \in 1..Len(label[TeamOf(u)]) : SameCounts(label[u][k], label[TeamOf(u)][k])
      BY <3>2 DEF LabelsNest
    <3>4. Len(label'[u]) = Len(label[u]) /\ OwnPlace(u)' = OwnPlace(u)
      <4>1. Len(label'[u]) = Len(label[u])
        BY <3>1, <2>5, <2>6
      <4> QED BY <3>2, <4>1 DEF OwnPlace, ConstructDepth, InLoop, InSingle
    <3>5. ASSUME open'[TeamOf(u)]
          PROVE  open[TeamOf(u)] /\ label'[TeamOf(u)] = label[TeamOf(u)]
      <4>1. TeamOf(u) # r /\ open[TeamOf(u)]
        BY <1>1, <1>3, <2>1, <3>1, <3>5
      <4>2. TeamOf(u) # t
        BY <1>3, <3>1, <4>1 DEF Forked
      <4> QED BY <2>6, <3>1, <4>1, <4>2
    <3>6. ASSUME open'[TeamOf(u)], NEW k \in 1..Len(label[TeamOf(u)])
          PROVE  SameCounts(label'[u][k], label[TeamOf(u)][k])
      <4>1. SameCounts(label[u][k], label[TeamOf(u)][k])
        BY <3>3, <3>5, <3>6
      <4>2. CASE u # r
        BY <2>6, <3>1, <4>1, <4>2
      <4>3. CASE u = r
        <5>1. /\ OwnPlace(u) = Len(label[TeamOf(u)]) + 1 /\ OwnPlace(u) >= 2
              /\ OwnPlace(u) <= Len(label[u]) /\ OwnPlace(u) \in Nat
          BY <3>2, <3>3, <3>5, <3>6, LabelKnown
        <5>2. Len(label[TeamOf(u)]) \in Nat /\ Len(label[u]) \in Nat
          BY <1>1, <3>1
        <5>3. k \in 1..Len(label[r])
          BY <4>3, <5>1, <5>2
        <5>4. SameCounts(new[k], label[r][k]) /\ label'[u] = new
          BY <2>5, <2>6, <4>3, <5>3
        <5> QED BY <4>1, <4>3, <5>4 DEF SameCounts
      <4> QED BY <4>2, <4>3
    <3> QED BY <3>3, <3>4, <3>5, <3>6
  <2> QED BY <2>7, <2>9, <2>10, <2>11 DEF LabelsGood
<1> QED BY <1>5, <1>6

(* Forks and barriers leave the labels as they are.                        *)
LEMMA TeamStepKeepsLabels ==
  ASSUME Labelled, NEW r \in Teams, Fork(r) \/ OpenBarrier(r)
  PROVE  LabelsGood'
<1> USE DEF Labelled
<1>1. label' = label /\ aborted' = aborted
  BY DEF Fork, OpenBarrier
<1>2. PICK old, new \in Places :
        /\ \A t \in MembersOf(r) : at[t] = old
        /\ at' = [t \in Tasks |-> IF t \in MembersOf(r) THEN new ELSE at[t]]
        /\ \/ old = "none" /\ new = "starting" /\ open' = [open EXCEPT ![r] = TRUE]
           \/ old = "barrier" /\ new = "released" /\ open' = open
  BY DEF Fork, OpenBarrier, Places
<1>3. \A t \in Tasks : at'[t] = IF t \in MembersOf(r) THEN new ELSE at[t]
  BY <1>2
<1>4. \A t \in Tasks : (Exists(t)' <=> Exists(t)) /\ (Exists(t) => OwnPlace(t)' = OwnPlace(t))
  BY <1>1, <1>2, <1>3 DEF Exists, OwnPlace, ConstructDepth, InLoop, InSingle, WorkPlaces
<1>5. LabelsExist'
  BY <1>1, <1>4 DEF LabelsExist
<1>6. LabelsFit'
  BY <1>1 DEF LabelsFit, Fits
<1>7. LabelsNest'
  <2> SUFFICES ASSUME NEW u \in Tasks \ {Root}, Exists(u)
               PROVE  /\ OwnPlace(u) >= 2
                      /\ open'[TeamOf(u)] =>
                           /\ OwnPlace(u) = Len(label[TeamOf(u)]) + 1
                           /\ \A k \in 1..Len(label[TeamOf(u)]) :
                                SameCounts(label[u][k], label[TeamOf(u)][k])
    BY <1>1, <1>4 DEF LabelsNest
  <2>1. open'[TeamOf(u)] => open[TeamOf(u)]
    <3>1. TeamOf(u) \in Teams /\ (TeamOf(u) = r => u \in MembersOf(r))
      BY Tree
    <3>2. open \in [Teams -> BOOLEAN]
      BY DEF Control, ControlTypes
    <3> QED BY <3>1, <3>2, <1>2 DEF Exists
  <2> QED BY <2>1 DEF LabelsNest
<1> QED BY <1>1, <1>5, <1>6, <1>7 DEF LabelsGood, LabelTypes

(* All labels stay well formed.                                            *)
LEMMA LabelsStep ==
  ASSUME Labelled, [Next]_vars
  PROVE  LabelsGood'
<1> USE DEF Labelled
<1>1. ASSUME NEW t \in Tasks \ {Root}, NEW p \in Places, Moves(t, p) \/ \E c : Arrives(t, c, p)
      PROVE  /\ ~ Forked(t) /\ open' = open
             /\ \A u \in Tasks : u # t => at'[u] = at[u]
  BY <1>1 DEF Moves, Arrives, Reaches, Runs, Go, Control, ControlTypes
<1>2. ASSUME NEW t \in Tasks, Inside(t), ~ aborted PROVE LabelsGood'
  <2>1. t # Root /\ \E p \in Places : Moves(t, p)
    BY <1>2, InsideMoves
  <2>2. ~ Forked(t) /\ open' = open /\ \A u \in Tasks : u # t => at'[u] = at[u]
    BY <1>1, <2>1
  <2>3. CASE ImplicitTaskBegin(t)
    BY <2>1, <2>3, BeginKeepsLabels
  <2>4. CASE ~ ImplicitTaskBegin(t)
    BY <1>2, <2>1, <2>2, <2>4, InsideLabels, GoingOnKeepsLabels
  <2> QED BY <2>3, <2>4
<1>3. ASSUME NEW t \in Tasks, Reaching(t), ~ aborted PROVE LabelsGood'
  <2>1. t # Root /\ \E c \in Constructs, p \in Places : Arrives(t, c, p)
    BY <1>3, ReachingArrives
  <2>2. ~ Forked(t) /\ open' = open /\ \A u \in Tasks : u # t => at'[u] = at[u]
    BY <1>1, <2>1
  <2> QED BY <1>3, <2>1, <2>2, ReachingLabels, GoingOnKeepsLabels
<1>4. ASSUME NEW t \in Tasks, ImplicitTaskEndMaster(t) \/ ImplicitTaskEndWorker(t) PROVE LabelsGood'
  BY <1>4, EndLeaves, EndKeepsLabels
<1>5. ASSUME NEW r \in Teams, Fork(r) \/ OpenBarrier(r) PROVE LabelsGood'
  BY <1>5, TeamStepKeepsLabels
<1>6. ASSUME UNCHANGED <<label, at, open, aborted>> PROVE LabelsGood'
  BY <1>6 DEF LabelsGood, LabelTypes, LabelsExist, LabelsNest, LabelsFit, Fits, Exists, OwnPlace,
              ConstructDepth, InLoop, InSingle
<1>7. ASSUME NEW t \in Tasks, Record(t) PROVE UNCHANGED <<label, at, open, aborted>>
  BY <1>7 DEF Record
<1>8. UNCHANGED vars => UNCHANGED <<label, at, open, aborted>>
  BY DEF vars
<1> QED BY <1>2, <1>3, <1>4, <1>5, <1>6, <1>7, <1>8 DEF Next, Step, Inside, Reaching

-----------------------------------------------------------------------------
(* Counters and truth                                                      *)

TruthTypes ==
  /\ {knows, inWork, loose} \subseteq [Tasks -> BOOLEAN]
  /\ chain \in [Teams -> [1..program.length+1 -> BOOLEAN]]
DataTypes ==
  /\ forks \in [Teams -> 0..program.regions]
  /\ iter \in [Tasks -> 0..program.iterations]
  /\ {taken, turn} \subseteq [Teams -> [1..program.length+1 -> Nat]]
  /\ aborted \in BOOLEAN

(* The program never changes.                                              *)
LEMMA ProgramStays == [Next]_vars => program' = program
<1>1. ASSUME NEW t \in Tasks, Reaching(t) PROVE program' = program
  BY <1>1 DEF Reaching, BeginLoop, BeginSections, BeginSingleExecutor, BeginSingleOther,
              ReachBarrier, Reaches
<1>2. ASSUME NEW t \in Tasks, Inside(t) PROVE program' = program
  BY <1>2 DEF Inside, ImplicitTaskBegin, Dispatch, OrderedAcquired, OrderedReleased, EndLoop,
              EndSections, EndSingle, BarrierEnd
<1>3. ASSUME NEW t \in Tasks, ImplicitTaskEndMaster(t) \/ ImplicitTaskEndWorker(t) \/ Record(t)
      PROVE  program' = program
  BY <1>3 DEF ImplicitTaskEndMaster, ImplicitTaskEndWorker, Record
<1>4. ASSUME NEW r \in Teams, Fork(r) \/ OpenBarrier(r) PROVE program' = program
  BY <1>4 DEF Fork, OpenBarrier
<1>5. UNCHANGED vars => program' = program
  BY DEF vars
<1> QED BY <1>1, <1>2, <1>3, <1>4, <1>5 DEF Next, Step, Inside, Reaching

(* The truth is typed.                                                     *)
LEMMA TruthStep ==
  ASSUME Labelled, TruthTypes, [Next]_vars
  PROVE  TruthTypes'
<1> USE DEF TruthTypes
<1> DEFINE Flags == [Tasks -> BOOLEAN]
<1>1. program' = program
  BY ProgramStays
<1>2. ASSUME NEW t \in Tasks, \/ ImplicitTaskBegin(t)
             PROVE TruthTypes'
  <2>1. TeamOf(t) \in Tasks
    BY <1>2, InsideMoves, Tree DEF Inside, Labelled
  <2>2. Knows(TeamOf(t)) \in BOOLEAN
    BY <2>1 DEF Knows
  <2>3. knows' = [knows EXCEPT ![t] = Knows(TeamOf(t))]
    BY <1>2 DEF ImplicitTaskBegin
  <2>4. knows' \in Flags
    BY <2>2, <2>3
  <2> QED BY <1>1, <1>2, <2>4 DEF ImplicitTaskBegin
<1>3. ASSUME NEW t \in Tasks, Reaching(t) \/ EndSingle(t) \/ BarrierEnd(t) PROVE TruthTypes'
  BY <1>1, <1>3 DEF Reaching, BeginLoop, BeginSections, BeginSingleExecutor, BeginSingleOther,
         ReachBarrier, Reaches, EndSingle, BarrierEnd, truth
<1>4. ASSUME NEW t \in Tasks, Dispatch(t) \/ EndLoop(t) \/ EndSections(t) PROVE TruthTypes'
  BY <1>1, <1>4, ZenonT(40) DEF Dispatch, EndLoop, EndSections, Loosen
<1>5. ASSUME NEW t \in Tasks, OrderedAcquired(t) \/ OrderedReleased(t) PROVE TruthTypes'
  <2>1. CASE OrderedAcquired(t)
    <3>1. /\ inWork' = [inWork EXCEPT ![t] = @ \/ chain[TeamOf(t)][step[t]]]
          /\ knows' = knows /\ loose' = loose /\ chain' = chain
      BY <2>1 DEF OrderedAcquired
    <3> QED BY <3>1, <1>1
  <2>2. CASE OrderedReleased(t)
    <3>1. /\ chain' = [chain EXCEPT ![TeamOf(t)][step[t]] = @ \/ inWork[t]]
          /\ knows' = knows /\ loose' = loose /\ inWork' = inWork
      BY <2>2 DEF OrderedReleased
    <3> QED BY <3>1, <1>1
  <2> QED BY <1>5, <2>1, <2>2
<1>6. ASSUME NEW t \in Tasks, ImplicitTaskEndMaster(t) \/ ImplicitTaskEndWorker(t) PROVE TruthTypes'
  <2> DEFINE r == TeamOf(t)
  <2>1. r \in Tasks
    BY <1>6, EndLeaves, Tree DEF Labelled
  <2> HIDE DEF r
  <2>2. knows[r] \in BOOLEAN /\ knows[t] \in BOOLEAN /\ inWork[r] \in BOOLEAN
    BY <2>1
  <2>3. PICK p, q \in BOOLEAN :
          /\ knows' = [knows EXCEPT ![r] = p, ![t] = FALSE]
          /\ inWork' = [inWork EXCEPT ![r] = q]
    <3>1. CASE ImplicitTaskEndMaster(t) /\ at[r] \in WorkPlaces
      <4>1. /\ inWork' = [inWork EXCEPT ![r] = inWork[r] \/ knows[t]]
            /\ knows' = [knows EXCEPT ![t] = FALSE]
        BY <3>1 DEF ImplicitTaskEndMaster, r
      <4>2. knows' = [knows EXCEPT ![r] = knows[r], ![t] = FALSE]
        BY <2>1, <4>1
      <4> QED BY <2>2, <4>1, <4>2
    <3>2. CASE ImplicitTaskEndMaster(t) /\ at[r] \notin WorkPlaces
      <4>1. /\ knows' = [knows EXCEPT ![r] = knows[r] \/ knows[t], ![t] = FALSE]
            /\ inWork' = inWork
        BY <3>2 DEF ImplicitTaskEndMaster, r
      <4>2. inWork' = [inWork EXCEPT ![r] = inWork[r]]
        BY <2>1, <4>1
      <4> QED BY <2>2, <4>1, <4>2
    <3>3. CASE ImplicitTaskEndWorker(t)
      <4>1. knows' = [knows EXCEPT ![t] = FALSE] /\ inWork' = inWork
        BY <3>3 DEF ImplicitTaskEndWorker
      <4>2. /\ knows' = [knows EXCEPT ![r] = knows[r], ![t] = FALSE]
            /\ inWork' = [inWork EXCEPT ![r] = inWork[r]]
        BY <2>1, <4>1
      <4> QED BY <2>2, <4>2
    <3> QED BY <1>6, <3>1, <3>2, <3>3
  <2>4. {knows, inWork}' \subseteq Flags
    BY <2>3
  <2>5. loose' = loose /\ chain' = chain
    BY <1>6 DEF ImplicitTaskEndMaster, ImplicitTaskEndWorker
  <2> QED BY <1>1, <2>4, <2>5
<1>7. ASSUME NEW t \in Tasks, Record(t) PROVE TruthTypes'
  BY <1>1, <1>7 DEF Record
<1>8. ASSUME NEW r \in Teams, Fork(r) PROVE TruthTypes'
  BY <1>1, <1>8 DEF Fork, PerConstruct
<1>9. ASSUME NEW r \in Teams, OpenBarrier(r) PROVE TruthTypes'
  <2>1. PICK past \in BOOLEAN :
          knows' = [t \in Tasks |-> IF t \in MembersOf(r) THEN past ELSE knows[t]]
    BY <1>9 DEF OpenBarrier
  <2> QED BY <1>1, <1>9, <2>1, ZenonT(40) DEF OpenBarrier
<1>10. ASSUME UNCHANGED vars PROVE TruthTypes'
  BY <1>10 DEF vars, truth
<1> QED BY <1>2, <1>3, <1>4, <1>5, <1>6, <1>7, <1>8, <1>9, <1>10 DEF Next, Step, Reaching

(* The counters of constructs and iterations are typed.                    *)
LEMMA DataStep ==
  ASSUME Labelled, DataTypes, [Next]_vars
  PROVE  DataTypes'
<1> USE DEF DataTypes
<1> DEFINE Chunks == [1..program.length+1 -> Nat]
<1>1. /\ program' = program /\ program.iterations \in Nat /\ program.regions \in Nat
      /\ program.length \in Nat
  BY ProgramStays, ProgramBounds DEF Labelled, Control, ControlTypes
<1>2. ASSUME NEW r \in Teams, NEW k \in 1..program.length+1, NEW n \in Nat, NEW f \in [Teams -> Chunks]
      PROVE  [f EXCEPT ![r][k] = n] \in [Teams -> Chunks]
  OBVIOUS
<1>3. ASSUME NEW t \in Tasks,
             \/ ImplicitTaskBegin(t) \/ BeginLoop(t) \/ BeginSections(t) \/ BeginSingleOther(t)
             \/ ReachBarrier(t) \/ EndSingle(t) \/ BarrierEnd(t)
             \/ ImplicitTaskEndMaster(t) \/ ImplicitTaskEndWorker(t) \/ Record(t)
      PROVE  DataTypes'
  BY <1>1, <1>3 DEF ImplicitTaskBegin, BeginLoop, BeginSections, BeginSingleOther,
         ReachBarrier, Reaches, EndSingle, BarrierEnd, ImplicitTaskEndMaster,
         ImplicitTaskEndWorker, Record, teamVars
<1>4. ASSUME NEW t \in Tasks, BeginSingleExecutor(t) PROVE DataTypes'
  <2>1. PICK c \in program.constructs \cap Singles : Reaches(t, c)
    BY <1>4 DEF BeginSingleExecutor
  <2>2. c \in Constructs /\ t \in Tasks \ {Root} /\ Control
    BY <2>1, ProgramBounds DEF Reaches, Constructs, Labelled, Control, ControlTypes
  <2>3. step[t] + 1 \in 1..Len(script'[TeamOf(t)]) /\ script' \in [Teams -> Seq(Constructs)]
    BY <2>1, <2>2, ScriptsGrow
  <2>4. Arrives(t, c, "single")
    BY <1>4, <2>1 DEF Arrives, PlaceFor, BeginSingleExecutor
  <2>5. ScriptsEnd' /\ TeamOf(t) \in Teams
    BY <2>2, <2>4, ArrivalKeepsControl, Tree DEF Control, Places, CodePlaces
  <2>6. step[t] + 1 \in 1..program.length+1
    <3>1. Len(script'[TeamOf(t)]) <= program.length + 1 /\ Len(script'[TeamOf(t)]) \in Nat
      BY <1>1, <2>3, <2>5 DEF ScriptsEnd
    <3> QED BY <1>1, <2>3, <3>1
  <2>7. taken' = [taken EXCEPT ![TeamOf(t)][step[t] + 1] = 1]
    BY <1>4 DEF BeginSingleExecutor
  <2>8. taken' \in [Teams -> Chunks]
    BY <2>5, <2>6, <2>7, <1>2
  <2> QED BY <1>1, <1>4, <2>1, <2>8 DEF BeginSingleExecutor, Reaches
<1>5. ASSUME NEW t \in Tasks, Dispatch(t) PROVE DataTypes'
  <2> DEFINE r == TeamOf(t)
             k == step[t]
             id == taken[r][k] * ChunkOf(Construct(t))
  <2>1. /\ id < program.iterations /\ iter' = [iter EXCEPT ![t] = id]
        /\ taken' = [taken EXCEPT ![r][k] = @ + 1]
        /\ InLoop(t) /\ turn' = turn /\ forks' = forks /\ aborted' = aborted
    BY <1>5 DEF Dispatch, InLoop
  <2>2. t \in Tasks \ {Root}
    BY <1>5, InsideMoves DEF Inside, Labelled
  <2>3. k \in 1..program.length+1 /\ taken[r][k] \in Nat /\ id \in Nat
    BY <2>1, <2>2, DispatchedIsNat
  <2>4. r \in Teams
    BY <2>2, Tree
  <2> HIDE DEF id, r, k
  <2>5. taken' = [taken EXCEPT ![r][k] = taken[r][k] + 1]
    BY <2>1
  <2>6. taken' \in [Teams -> Chunks]
    BY <2>3, <2>4, <2>5, <1>2
  <2>7. iter' \in [Tasks -> 0..program.iterations]
    BY <1>1, <2>1, <2>3
  <2> QED BY <1>1, <2>1, <2>6, <2>7
<1>6. ASSUME NEW t \in Tasks, OrderedAcquired(t) PROVE DataTypes'
  BY <1>1, <1>6 DEF OrderedAcquired, PhaseFits, teamVars
<1>7. ASSUME NEW t \in Tasks, OrderedReleased(t) PROVE DataTypes'
  <2> DEFINE r == TeamOf(t)
             k == step[t]
  <2>1. /\ turn' = [turn EXCEPT ![r][k] = @ + 1]
        /\ \/ iter' = [iter EXCEPT ![t] = iter[t] + 1] /\ iter[t] + 1 < program.iterations
           \/ iter' = [iter EXCEPT ![t] = iter[t]]
        /\ InLoop(t) /\ taken' = taken /\ forks' = forks /\ aborted' \in BOOLEAN
    BY <1>7 DEF OrderedReleased, InLoop, WorkPlaces
  <2>2. t \in Tasks \ {Root}
    BY <1>7, InsideMoves DEF Inside, Labelled
  <2>3. k \in 1..program.length+1 /\ turn[r][k] \in Nat
    BY <2>1, <2>2, DispatchedIsNat
  <2>4. r \in Teams
    BY <2>2, Tree
  <2> HIDE DEF r, k
  <2>5. turn' = [turn EXCEPT ![r][k] = turn[r][k] + 1]
    BY <2>1
  <2>6. turn' \in [Teams -> Chunks]
    BY <2>3, <2>4, <2>5, <1>2
  <2>7. iter' \in [Tasks -> 0..program.iterations]
    BY <1>1, <2>1
  <2> QED BY <1>1, <2>1, <2>6, <2>7
<1>8. ASSUME NEW t \in Tasks, EndLoop(t) \/ EndSections(t) PROVE DataTypes'
  <2>1. /\ iter' = [iter EXCEPT ![t] = 0] /\ taken' = taken /\ turn' = turn /\ forks' = forks
        /\ aborted' \in BOOLEAN
    BY <1>8 DEF EndLoop, EndSections, teamVars
  <2> QED BY <1>1, <2>1
<1>9. ASSUME NEW r \in Teams, Fork(r) PROVE DataTypes'
  <2>1. PerConstruct(0) \in Chunks
    BY DEF PerConstruct
  <2>2. /\ taken' = [taken EXCEPT ![r] = PerConstruct(0)] /\ turn' = [turn EXCEPT ![r] = PerConstruct(0)]
        /\ forks[r] < program.regions /\ forks' = [forks EXCEPT ![r] = @ + 1]
        /\ iter' = iter /\ aborted' = aborted
    BY <1>9 DEF Fork
  <2> QED BY <1>1, <2>1, <2>2
<1>10. ASSUME NEW r \in Teams, OpenBarrier(r) PROVE DataTypes'
  BY <1>1, <1>10 DEF OpenBarrier, teamVars
<1>11. ASSUME UNCHANGED vars PROVE DataTypes'
  BY <1>1, <1>11 DEF vars, teamVars
<1> QED BY <1>3, <1>4, <1>5, <1>6, <1>7, <1>8, <1>9, <1>10, <1>11 DEF Next, Step

-----------------------------------------------------------------------------
(* Counts                                                                  *)

(* Loops counts what the task has reached of its script.                   *)
LEMMA LoopsKnown ==
  ASSUME Control, NEW t \in Tasks \ {Root}
  PROVE  /\ Loops(t) \in Nat
         /\ step[t] = 0 => Loops(t) = 0
         /\ \A n \in Nat : Cardinality({k \in 1..n : script[TeamOf(t)][k] \notin Singles \cup {"barrier", "end"}}) \in Nat
<1> DEFINE S(n) == {k \in 1..n : script[TeamOf(t)][k] \notin Singles \cup {"barrier", "end"}}
<1>1. ASSUME NEW n \in Nat PROVE IsFiniteSet(S(n)) /\ Cardinality(S(n)) \in Nat
  <2>1. IsFiniteSet(1..n) /\ S(n) \in SUBSET (1..n)
    BY FS_Interval
  <2>2. IsFiniteSet(S(n))
    BY <2>1, FS_Subset
  <2> QED BY <2>2, FS_CardinalityType
<1>2. step[t] \in Nat
  BY DEF Control, ControlTypes
<1>3. Loops(t) = Cardinality(S(step[t]))
  BY DEF Loops
<1>4. S(0) = {}
  OBVIOUS
<1>5. Cardinality(S(0)) = 0
  BY <1>4, FS_EmptySet
<1> HIDE DEF S
<1>6. step[t] = 0 => Loops(t) = 0
  BY <1>3, <1>5
<1>7. \A n \in Nat : Cardinality(S(n)) \in Nat
  BY <1>1
<1> QED BY <1>2, <1>3, <1>6, <1>7 DEF S

(* Reaching a loop or sections is counted.                                 *)
LEMMA LoopsCounted ==
  ASSUME Control, NEW t \in Tasks \ {Root}, NEW c \in Constructs, NEW p \in Places, Arrives(t, c, p)
  PROVE  Loops(t)' = Loops(t) + (IF InLoop(t)' THEN 1 ELSE 0)
<1> DEFINE X == Singles \cup {"barrier", "end"}
           n == step[t]
           S == {k \in 1..n : script[TeamOf(t)][k] \notin X}
           T == {k \in 1..n+1 : script'[TeamOf(t)][k] \notin X}
<1>1. Reaches(t, c) /\ PlaceFor(c, p) /\ at'[t] = p
  BY DEF Arrives, Go, Control, ControlTypes
<1>2. /\ TeamOf(t) \in Teams
      /\ \A k \in 1..Len(script[TeamOf(t)]) : script'[TeamOf(t)][k] = script[TeamOf(t)][k]
      /\ step' = [step EXCEPT ![t] = @ + 1] /\ Construct(t)' = c
  BY <1>1, ScriptsGrow, Tree
<1>3. n \in Nat /\ n <= Len(script[TeamOf(t)]) /\ Len(script[TeamOf(t)]) \in Nat /\ step'[t] = n + 1
  BY <1>2, ConstructKnown DEF Control, ControlTypes, PlacesFit
<1>4. Loops(t) = Cardinality(S) /\ Loops(t)' = Cardinality(T)
  BY <1>3 DEF Loops
<1>5. \A k \in 1..n : script'[TeamOf(t)][k] = script[TeamOf(t)][k]
  BY <1>2, <1>3
<1>6. script'[TeamOf(t)][n + 1] = c
  BY <1>2, <1>3 DEF Construct
<1>7. IsFiniteSet(S) /\ n + 1 \notin S
  <2>1. IsFiniteSet(1..n) /\ S \in SUBSET (1..n)
    BY <1>3, FS_Interval, SMTT(30)
  <2> QED BY <2>1, <1>3, FS_Subset
<1>8. InLoop(t)' <=> c \notin X
  <2>1. InLoop(t)' <=> p \in {"preamble", "chunk"}
    BY <1>1 DEF InLoop, WorkPlaces, PlaceFor
  <2>2. "end" \notin AllConstructs /\ {"barrier", "end"} \cap Singles = {}
    BY DEF AllConstructs, Singles, StaticLoops, DynamicLoops, OrderedLoops, Sections
  <2> QED BY <1>1, <2>1, <2>2 DEF PlaceFor
<1>9. CASE c \in X
  <2>1. T = S
    BY <1>3, <1>5, <1>6, <1>9
  <2>2. Cardinality(S) \in Nat
    BY <1>7, FS_CardinalityType
  <2> HIDE DEF T, S, X, n
  <2> QED BY <2>1, <2>2, <1>4, <1>8, <1>9
<1>10. CASE c \notin X
  <2>1. T = S \cup {n + 1}
    BY <1>3, <1>5, <1>6, <1>10
  <2> HIDE DEF T, S, X, n
  <2>2. Cardinality(T) = Cardinality(S) + 1
    BY <2>1, <1>7, FS_AddElement
  <2> QED BY <2>2, <1>4, <1>8, <1>10
<1> QED BY <1>9, <1>10

CountsOf(t) ==
  /\ label[t][OwnPlace(t)].loopCount = Loops(t) - (IF InLoop(t) THEN 1 ELSE 0)
  /\ at[t] \in WorkPlaces /\ Construct(t) \in OrderedLoops => Last(label[t]).phase = Phases(t)
  /\ at[t] = "ordered" => Construct(t) \in OrderedLoops

(* A task that does not move keeps its counts, whatever happens to the     *)
(* offsets of its label.                                                   *)
LEMMA CountsOfOthers ==
  ASSUME Labelled, NEW u \in Tasks \ {Root}, Exists(u), CountsOf(u),
         at'[u] = at[u] \/ (at[u] = "barrier" /\ at'[u] = "released"),
         step'[u] = step[u], iter'[u] = iter[u], program' = program,
         \A k \in 1..step[u] : script'[TeamOf(u)][k] = script[TeamOf(u)][k],
         Len(label'[u]) = Len(label[u]),
         \A k \in 1..Len(label[u]) : SameCounts(label'[u][k], label[u][k])
  PROVE  CountsOf(u)'
<1>1. (InLoop(u)' <=> InLoop(u)) /\ (InSingle(u)' <=> InSingle(u))
  BY DEF InLoop, InSingle, WorkPlaces
<1>2. OwnPlace(u)' = OwnPlace(u)
  BY <1>1 DEF OwnPlace, ConstructDepth
<1>3. Loops(u)' = Loops(u)
  <2>1. {k \in 1..step[u] : script[TeamOf(u)][k] \notin Singles \cup {"barrier", "end"}}
        = {k \in 1..step'[u] : script'[TeamOf(u)][k] \notin Singles \cup {"barrier", "end"}}
    OBVIOUS
  <2> QED BY <2>1 DEF Loops
<1>4. /\ OwnPlace(u) \in 1..Len(label[u]) /\ Len(label[u]) \in 1..Len(label[u])
      /\ label[u] \in Seq(SegmentType) /\ Len(label[u]) >= 2
  BY LabelKnown
<1>5. label'[u][OwnPlace(u)].loopCount = label[u][OwnPlace(u)].loopCount
  BY <1>4 DEF SameCounts
<1>6. Last(label'[u]).phase = Last(label[u]).phase
  BY <1>4 DEF SameCounts, Last
<1>7. step[u] > 0 => Construct(u)' = Construct(u)
  <2>1. step[u] \in Nat
    BY DEF Labelled, Control, ControlTypes
  <2>2. step[u] > 0 => step[u] \in 1..step[u]
    BY <2>1
  <2> QED BY <2>2 DEF Construct
<1>8. at[u] \in WorkPlaces => step[u] > 0
  BY DEF Labelled, Control, PlacesFit, Exists, WorkPlaces
<1>9. at[u] \in WorkPlaces => Phases(u)' = Phases(u)
  BY DEF Phases, WorkPlaces
<1>10. at'[u] \in WorkPlaces => at[u] \in WorkPlaces /\ at'[u] = at[u]
  BY DEF WorkPlaces
<1>11. at'[u] = "ordered" => at[u] = "ordered" /\ at[u] \in WorkPlaces
  BY DEF WorkPlaces
<1> QED BY <1>1, <1>2, <1>3, <1>5, <1>6, <1>7, <1>8, <1>9, <1>10, <1>11 DEF CountsOf

(* The first iteration of a chunk, and the next one.                       *)
LEMMA Chunks ==
  ASSUME NEW c \in Nat \ {0}
  PROVE  /\ \A n \in Nat : (n * c) % c = 0
         /\ \A i \in Nat : i % c \in 0..c-1 /\ ((i + 1) % c # 0 => (i + 1) % c = (i % c) + 1)
<1>1. ASSUME NEW b \in Nat \ {0}, NEW q \in Int, NEW r \in 0..b-1, NEW x \in Int, x = (b * q) + r
      PROVE  x % b = r
  <2>1. x = (b * (x \div b)) + (x % b) /\ x % b \in 0..b-1 /\ x \div b \in Int
    BY <1>1
  <2> DEFINE d == x \div b
             m == x % b
             e == q - d
  <2>2. b * e = m - r /\ e \in Int
    <3>1. b * e = (b * q) - (b * d)
      BY <2>1
    <3> QED BY <3>1, <2>1, <1>1
  <2>3. m - r < b /\ r - m < b /\ m \in Int
    BY <2>1
  <2> HIDE DEF e, m, d
  <2>4. e = 0
    <3>1. CASE e >= 1
      <4>1. b * e >= b
        BY <2>2, <3>1
      <4> QED BY <4>1, <2>2, <2>3
    <3>2. CASE e <= -1
      <4>1. b * e <= -b
        BY <2>2, <3>2
      <4> QED BY <4>1, <2>2, <2>3
    <3> QED BY <2>2, <3>1, <3>2
  <2> QED BY <2>1, <2>2, <2>4 DEF m
<1>2. ASSUME NEW n \in Nat PROVE (n * c) % c = 0
  <2>1. n * c = (c * n) + 0 /\ n * c \in Int /\ 0 \in 0..c-1
    OBVIOUS
  <2> QED BY <2>1, <1>1
<1>3. ASSUME NEW i \in Nat
      PROVE  i % c \in 0..c-1 /\ ((i + 1) % c # 0 => (i + 1) % c = (i % c) + 1)
  <2> DEFINE d == i \div c
             m == i % c
  <2>1. i = (c * d) + m /\ m \in 0..c-1 /\ d \in Int
    OBVIOUS
  <2>2. CASE m + 1 < c
    <3> HIDE DEF d, m
    <3>1. i + 1 = (c * d) + (m + 1) /\ m + 1 \in 0..c-1
      BY <2>1, <2>2
    <3>2. (i + 1) % c = m + 1
      BY <3>1, <2>1, <1>1
    <3> QED BY <2>1, <3>2 DEF m
  <2>3. CASE m + 1 = c
    <3> HIDE DEF d, m
    <3>1. c * (d + 1) = (c * d) + c
      BY <2>1
    <3>2. i + 1 = (c * (d + 1)) + 0 /\ 0 \in 0..c-1
      BY <3>1, <2>1, <2>3
    <3>3. (i + 1) % c = 0
      BY <3>2, <2>1, <1>1
    <3> QED BY <2>1, <3>3 DEF m
  <2> QED BY <2>1, <2>2, <2>3
<1> QED BY <1>2, <1>3

(* A step inside of a construct: the counts of its task.                   *)
LEMMA InsideCounts ==
  ASSUME Labelled, Labelled', DataTypes, CountsAreTrue, NEW t \in Tasks \ {Root},
         Inside(t), ~ ImplicitTaskBegin(t), ~ aborted, AbortsOnlyAtTheLimit
  PROVE  CountsOf(t)' /\ AbortsOnlyAtTheLimit'
<1> DEFINE l == label[t]
<1>1. Exists(t) /\ Exists(t)'
  BY InsideLabels
<1>2. PICK new : GoesOn(t, new, Left(t))
  BY InsideLabels
<1>3. CountsOf(t)
  BY <1>1 DEF CountsAreTrue, CountsOf
<1>4. PICK p \in Places : Moves(t, p)
  BY InsideMoves DEF Labelled
<1>5. /\ at'[t] = p /\ step' = step /\ script' = script /\ program' = program
      /\ Loops(t)' = Loops(t) /\ Construct(t)' = Construct(t)
  BY <1>4 DEF Moves, Go, Loops, Construct, Labelled, Control, ControlTypes
<1>6. /\ label'[t] = new /\ Len(new) = OwnPlace(t) + ConstructDepth(t)'
      /\ new \in Seq(SegmentType)
      /\ new[OwnPlace(t)].loopCount = l[OwnPlace(t)].loopCount + Left(t)
  BY <1>2 DEF GoesOn, Relabel, Labelled, LabelTypes
<1>7. OwnPlace(t) \in Nat /\ OwnPlace(t) >= 2 /\ l \in Seq(SegmentType) /\ Len(l) >= 2
      /\ (ConstructDepth(t) = 1 => OwnPlace(t) = Len(l) - 1)
      /\ l[OwnPlace(t)].loopCount \in Nat
  BY <1>1, LabelKnown
<1>8. ConstructDepth(t)' \in {0, 1}
  BY DEF ConstructDepth
<1>9. OwnPlace(t)' = OwnPlace(t)
  BY <1>6, <1>7, <1>8 DEF OwnPlace
<1>10. Loops(t) \in Nat
  BY LoopsKnown DEF Labelled
<1>11. InLoop(t)' => InLoop(t)
  BY <1>1, <1>4, <1>5 DEF Moves, MoveFits, InLoop, WorkPlaces, AfterConstruct, Exists
<1>12. label'[t][OwnPlace(t)'].loopCount = Loops(t)' - (IF InLoop(t)' THEN 1 ELSE 0)
  <2>1. l[OwnPlace(t)].loopCount = Loops(t) - (IF InLoop(t) THEN 1 ELSE 0)
    BY <1>3 DEF CountsOf
  <2> QED BY <2>1, <1>5, <1>6, <1>9, <1>10, <1>11 DEF Left
<1>13. Last(new) = new[Len(new)] /\ Last(l) = l[Len(l)]
  BY DEF Last
<1>14. CASE Dispatch(t)
  <2> DEFINE id == taken[TeamOf(t)][step[t]] * ChunkOf(Construct(t))
             seg == IF Construct(t) \in Sections THEN SectionSegment(id) ELSE IterationSegment(id)
  <2>1. /\ InLoop(t) /\ Relabel(t, ReplaceLast(l, seg)) /\ Go(t, "work")
        /\ iter' = [iter EXCEPT ![t] = id] /\ aborted' = aborted
    BY <1>14 DEF Dispatch, InLoop, MutateSectionDispatch, MutateIterDispatch
  <2>2. id \in Nat /\ ChunkOf(Construct(t)) \in Nat \ {0} /\ taken[TeamOf(t)][step[t]] \in Nat
    BY <2>1, DispatchedIsNat
  <2>3. program.chunk \in Nat \ {0}
    BY ProgramBounds DEF Labelled, Control, ControlTypes
  <2>4. Construct(t) \in OrderedLoops => id % program.chunk = 0
    BY <2>2, <2>3, Chunks DEF ChunkOf
  <2>5. at'[t] = "work" /\ iter'[t] = id
    <3>1. "work" \in Places
      BY DEF Places, CodePlaces, WorkPlaces
    <3> QED BY <2>1, <3>1 DEF Labelled, Control, ControlTypes, LabelTypes, Go
  <2> HIDE DEF id
  <2>6. seg \in SegmentType /\ seg.phase = 0
    BY <2>2, NewSegments DEF Fresh
  <2> HIDE DEF seg
  <2>7. Last(new).phase = 0
    <3>1. Len(l) >= 1
      BY <1>7
    <3>2. ReplaceLast(l, seg)[Len(l)] = seg /\ Len(ReplaceLast(l, seg)) = Len(l)
      BY <1>7, <2>6, <3>1, Replaced
    <3>3. new = ReplaceLast(l, seg)
      BY <1>6, <2>1 DEF Relabel, Labelled, LabelTypes
    <3> QED BY <1>13, <2>6, <3>2, <3>3
  <2>8. Construct(t) \in OrderedLoops => Phases(t)' = 0
    BY <1>5, <2>4, <2>5 DEF Phases
  <2>9. CountsOf(t)'
    BY <1>5, <1>6, <1>12, <2>5, <2>7, <2>8 DEF CountsOf
  <2> QED BY <2>1, <2>9 DEF AbortsOnlyAtTheLimit
<1>15. CASE OrderedAcquired(t) \/ OrderedReleased(t)
  <2>1. /\ Relabel(t, MutateOrderSection(l)) /\ aborted' = ~ PhaseFits(l)
        /\ at[t] \in WorkPlaces /\ at'[t] \in WorkPlaces
    BY <1>4, <1>5, <1>15 DEF OrderedAcquired, OrderedReleased, WorkPlaces, Go, Labelled, Control, ControlTypes
  <2>2. Construct(t) \in OrderedLoops
    BY <1>3, <1>15 DEF CountsOf, OrderedAcquired, OrderedReleased
  <2>3. Last(l).phase = Phases(t)
    BY <1>3, <2>1, <2>2 DEF CountsOf
  <2>4. Last(new).phase = Last(l).phase + 1
    <3>1. Len(l) >= 1
      BY <1>7
    <3>2. Last(MutateOrderSection(l)).phase = Last(l).phase + 1
      BY <1>7, <3>1, OrderedMoves
    <3>3. new = MutateOrderSection(l)
      BY <1>6, <2>1 DEF Relabel, Labelled, LabelTypes
    <3> QED BY <3>2, <3>3
  <2>5. Phases(t)' = Phases(t) + 1
    <3> DEFINE c == program.chunk
               i == iter[t]
    <3>1. c \in Nat \ {0} /\ i \in Nat
      BY ProgramBounds DEF Labelled, Control, ControlTypes, LabelTypes
    <3>2. i % c \in 0..c-1 /\ ((i + 1) % c # 0 => (i + 1) % c = (i % c) + 1)
      BY <3>1, Chunks
    <3>3. CASE OrderedAcquired(t)
      <4>1. at[t] = "work" /\ Go(t, "ordered") /\ iter' = iter
        BY <3>3 DEF OrderedAcquired
      <4>2. at'[t] = "ordered"
        BY <4>1 DEF Go, Labelled, Control, ControlTypes
      <4> QED BY <1>5, <3>1, <3>2, <4>1, <4>2 DEF Phases
    <3>4. CASE OrderedReleased(t)
      <4> DEFINE more == (i + 1) % c # 0 /\ i + 1 < program.iterations
      <4>1. /\ at[t] = "ordered" /\ Go(t, IF more THEN "work" ELSE "past")
            /\ iter' = [iter EXCEPT ![t] = IF more THEN i + 1 ELSE @]
        BY <3>4 DEF OrderedReleased
      <4>2. at'[t] = (IF more THEN "work" ELSE "past") /\ iter'[t] = IF more THEN i + 1 ELSE i
        BY <4>1 DEF Go, Labelled, Control, ControlTypes, LabelTypes
      <4>3. CASE more
        BY <1>5, <3>1, <3>2, <4>1, <4>2, <4>3 DEF Phases
      <4>4. CASE ~ more
        BY <1>5, <3>1, <3>2, <4>1, <4>2, <4>4 DEF Phases
      <4> QED BY <4>3, <4>4
    <3> QED BY <1>15, <3>3, <3>4
  <2>6. CountsOf(t)'
    BY <1>5, <1>6, <1>12, <2>2, <2>3, <2>4, <2>5 DEF CountsOf
  <2>7. Last(l).phase \in Nat
    <3>1. Last(l) \in SegmentType
      BY <1>7, Fronts
    <3> QED BY <3>1 DEF SegmentType
  <2>8. aborted' => Phases(t)' >= CountLimit
    <3>1. PhaseFits(l) <=> Last(l).phase + 1 < CountLimit
      BY DEF PhaseFits
    <3>2. Phases(t)' = Last(l).phase + 1
      BY <2>3, <2>5
    <3>3. Last(l).phase + 1 < CountLimit \/ Last(l).phase + 1 >= CountLimit
      BY <2>7, Widths
    <3>4. aborted' => ~ PhaseFits(l)
      BY <2>1, Zenon
    <3>5. aborted' => Last(l).phase + 1 >= CountLimit
      BY <3>1, <3>3, <3>4, Zenon
    <3> QED BY <3>2, <3>5
  <2> QED BY <2>6, <2>8 DEF AbortsOnlyAtTheLimit
<1>16. CASE EndLoop(t) \/ EndSections(t)
  <2>1. /\ InLoop(t) /\ at'[t] \in {"free", "barrier"} /\ aborted' = ~ LoopCountFits(l)
    BY <1>4, <1>5, <1>16
       DEF EndLoop, EndSections, Idles, InLoop, WorkPlaces, AfterConstruct, Go, Labelled, Control,
           ControlTypes
  <2>2. ConstructDepth(t) = 1
    BY <2>1 DEF ConstructDepth
  <2>3. l[OwnPlace(t)].loopCount = Loops(t) - 1
    BY <1>3, <2>1 DEF CountsOf
  <2>4. aborted' => Loops(t)' >= CountLimit
    <3>1. LoopCountFits(l) <=> l[Len(l) - 1].loopCount + 1 < CountLimit
      BY DEF LoopCountFits
    <3>2. l[Len(l) - 1].loopCount + 1 = Loops(t)
      BY <1>7, <1>10, <2>2, <2>3
    <3>3. Loops(t) < CountLimit \/ Loops(t) >= CountLimit
      BY <1>10, Widths
    <3>4. aborted' => ~ LoopCountFits(l)
      BY <2>1, Zenon
    <3>5. aborted' => Loops(t) >= CountLimit
      BY <3>1, <3>2, <3>3, <3>4, Zenon
    <3> QED BY <1>5, <3>5
  <2>5. CountsOf(t)'
    BY <1>12, <2>1 DEF CountsOf, WorkPlaces
  <2> QED BY <2>4, <2>5 DEF AbortsOnlyAtTheLimit
<1>17. CASE EndSingle(t) \/ BarrierEnd(t)
  <2>1. at'[t] \notin WorkPlaces /\ aborted' = aborted
    BY <1>4, <1>5, <1>17 DEF EndSingle, BarrierEnd, AfterConstruct, WorkPlaces, Go, Labelled, Control, ControlTypes
  <2>2. at'[t] # "ordered"
    BY <2>1 DEF WorkPlaces
  <2>3. CountsOf(t)'
    BY <1>12, <2>1, <2>2 DEF CountsOf
  <2> QED BY <2>1, <2>3 DEF AbortsOnlyAtTheLimit
<1> QED BY <1>14, <1>15, <1>16, <1>17 DEF Inside

\* u does not move, whatever happens to the offsets of its label.
Stands(u) ==
  /\ at'[u] = at[u] \/ (at[u] = "barrier" /\ at'[u] = "released")
  /\ step'[u] = step[u] /\ iter'[u] = iter[u]
  /\ \A k \in 1..step[u] : script'[TeamOf(u)][k] = script[TeamOf(u)][k]
  /\ Len(label'[u]) = Len(label[u])
  /\ \A k \in 1..Len(label[u]) : SameCounts(label'[u][k], label[u][k])

(* When everybody else stands still, the counts of a step are those of the *)
(* task that makes it.                                                     *)
LEMMA OneCounts ==
  ASSUME Labelled, CountsAreTrue, program' = program, NEW t \in Tasks \ {Root},
         Exists(t)' => CountsOf(t)',
         \A u \in Tasks \ {Root} : u # t /\ Exists(u)' => Exists(u) /\ Stands(u)
  PROVE  CountsAreTrue'
<1>1. ASSUME NEW u \in Tasks \ {Root}, u # t, Exists(u)' PROVE CountsOf(u)'
  <2>1. Exists(u) /\ Stands(u)
    BY <1>1
  <2>2. CountsOf(u)
    BY <2>1 DEF CountsAreTrue, CountsOf
  <2> QED BY <2>1, <2>2, CountsOfOthers DEF Stands
<1>2. \A u \in Tasks \ {Root} : Exists(u)' => CountsOf(u)'
  BY <1>1
<1> QED BY <1>2 DEF CountsAreTrue, CountsOf

(* A task whose own part of the state stays stands still.                  *)
LEMMA Standing ==
  ASSUME NEW u \in Tasks, label' = label \/ label'[u] = label[u],
         at'[u] = at[u], step'[u] = step[u], iter'[u] = iter[u], script' = script
  PROVE  Stands(u)
BY DEF Stands, SameCounts

(* A new member has counted nothing.                                       *)
LEMMA BeginCounts ==
  ASSUME Labelled, CountsAreTrue, NEW t \in Tasks \ {Root}, ImplicitTaskBegin(t)
  PROVE  CountsAreTrue'
<1> USE DEF Labelled
<1> DEFINE r == TeamOf(t)
           seg == ImplicitSegment(Last(t), TeamSizes[Len(t)])
           new == Append(label[r], seg)
<1>1. /\ at[t] = "starting" /\ Relabel(t, new) /\ Go(t, "free")
      /\ UNCHANGED <<program, step, script, iter>>
  BY DEF ImplicitTaskBegin, GenImpTaskLabel, teamVars
<1>2. at'[t] = "free" /\ \A u \in Tasks : u # t => at'[u] = at[u]
  BY <1>1 DEF Go, Control, ControlTypes
<1>3. r \in Tasks /\ label[r] \in Seq(SegmentType)
  BY Tree DEF LabelTypes
<1>4. Fresh(seg)
  BY Tree, NewSegments
<1>5. seg.loopCount = 0
  BY <1>4 DEF Fresh
<1> HIDE DEF seg
<1>6. /\ Len(new) = Len(label[r]) + 1 /\ new[Len(label[r]) + 1] = seg
      /\ Len(label[r]) \in Nat
  BY <1>3, <1>4, Extended
<1>7. label'[t] = new /\ \A u \in Tasks : u # t => label'[u] = label[u]
  BY <1>1 DEF Relabel, LabelTypes
<1> HIDE DEF new
<1>8. step[t] = 0 /\ Loops(t) = 0
  BY <1>1, LoopsKnown DEF Control, PlacesFit, Exists
<1>9. Loops(t)' = 0
  BY <1>1, <1>8 DEF Loops
<1>10. ~ InLoop(t)' /\ ~ InSingle(t)' /\ at'[t] \notin WorkPlaces /\ at'[t] # "ordered"
  BY <1>2 DEF InLoop, InSingle, WorkPlaces
<1>11. OwnPlace(t)' = Len(label[r]) + 1
  <2>1. ConstructDepth(t)' = 0
    BY <1>10 DEF ConstructDepth
  <2>2. OwnPlace(t)' = Len(label'[t]) - ConstructDepth(t)'
    BY DEF OwnPlace
  <2> QED BY <2>1, <2>2, <1>6, <1>7
<1>12. CountsOf(t)'
  BY <1>5, <1>6, <1>7, <1>9, <1>10, <1>11 DEF CountsOf
<1>13. ASSUME NEW u \in Tasks \ {Root}, u # t, Exists(u)' PROVE Exists(u) /\ Stands(u)
  <2>1. Exists(u)
    BY <1>2, <1>13 DEF Exists
  <2> QED BY <2>1, <1>1, <1>2, <1>7, <1>13, Standing
<1> QED BY <1>1, <1>12, <1>13, OneCounts

(* A task that reaches a construct counts it.                              *)
LEMMA ReachingCounts ==
  ASSUME Labelled, CountsAreTrue, NEW t \in Tasks \ {Root}, Reaching(t)
  PROVE  CountsAreTrue' /\ aborted' = aborted
<1> USE DEF Labelled
<1>1. PICK c \in Constructs, p \in Places : Arrives(t, c, p)
  BY ReachingArrives
<1>2. Reaches(t, c) /\ PlaceFor(c, p) /\ at[t] = "free" /\ program' = program /\ aborted' = aborted
  BY <1>1 DEF Arrives, Reaches
<1>3. at'[t] = p /\ \A u \in Tasks : u # t => at'[u] = at[u]
  BY <1>1 DEF Arrives, Go, Control, ControlTypes
<1>4. iter' = iter
  BY DEF Reaching, BeginLoop, BeginSections, BeginSingleExecutor, BeginSingleOther, ReachBarrier
<1>5. Exists(t) /\ Exists(t)' /\ \E new : GoesOn(t, new, 0)
  BY ReachingLabels
<1>6. PICK new : GoesOn(t, new, 0)
  BY <1>5
<1>7. /\ label'[t] = new /\ Len(new) = OwnPlace(t) + ConstructDepth(t)'
      /\ new[OwnPlace(t)].loopCount = label[t][OwnPlace(t)].loopCount + 0
      /\ \A u \in Tasks : u # t => label'[u] = label[u]
  BY <1>6 DEF GoesOn, Relabel, LabelTypes
<1>8. OwnPlace(t) \in Nat /\ label[t][OwnPlace(t)].loopCount \in Nat
  BY <1>5, LabelKnown
<1>9. ~ InLoop(t) /\ CountsOf(t)
  BY <1>2, <1>5 DEF InLoop, WorkPlaces, CountsAreTrue, CountsOf
<1>10. label[t][OwnPlace(t)].loopCount = Loops(t) /\ Loops(t) \in Nat
  BY <1>9, LoopsKnown DEF CountsOf
<1>11. Loops(t)' = Loops(t) + (IF InLoop(t)' THEN 1 ELSE 0)
  BY <1>1, LoopsCounted
<1>12. OwnPlace(t)' = OwnPlace(t)
  <2>1. ConstructDepth(t)' \in {0, 1}
    BY DEF ConstructDepth
  <2> QED BY <2>1, <1>7, <1>8 DEF OwnPlace
<1>13. at'[t] \notin WorkPlaces /\ at'[t] # "ordered"
  BY <1>2, <1>3 DEF PlaceFor, WorkPlaces
<1>14. CountsOf(t)'
  <2>1. label'[t][OwnPlace(t)'].loopCount = Loops(t)' - (IF InLoop(t)' THEN 1 ELSE 0)
    BY <1>7, <1>8, <1>10, <1>11, <1>12
  <2> QED BY <2>1, <1>13 DEF CountsOf
<1>15. ASSUME NEW u \in Tasks \ {Root}, u # t, Exists(u)' PROVE Exists(u) /\ Stands(u)
  <2>1. Exists(u) /\ at'[u] = at[u] /\ iter'[u] = iter[u] /\ label'[u] = label[u]
    BY <1>3, <1>4, <1>7, <1>15 DEF Exists
  <2>2. /\ \A k \in 1..Len(script[TeamOf(u)]) : script'[TeamOf(u)][k] = script[TeamOf(u)][k]
        /\ step' = [step EXCEPT ![t] = @ + 1]
    BY <1>2, ScriptsGrow, Tree
  <2>3. step[u] \in Nat /\ step[u] <= Len(script[TeamOf(u)]) /\ Len(script[TeamOf(u)]) \in Nat
    BY ConstructKnown DEF Control, PlacesFit
  <2>4. step'[u] = step[u]
    BY <2>2, <1>15 DEF Control, ControlTypes
  <2>5. \A k \in 1..step[u] : script'[TeamOf(u)][k] = script[TeamOf(u)][k]
    BY <2>2, <2>3
  <2> QED BY <2>1, <2>4, <2>5 DEF Stands, SameCounts
<1> QED BY <1>2, <1>14, <1>15, OneCounts

(* A member ends; what it hands back are the counts of the task that       *)
(* forked it.                                                              *)
LEMMA EndCounts ==
  ASSUME Labelled, CountsAreTrue, NEW t \in Tasks \ {Root},
         ImplicitTaskEndMaster(t) \/ ImplicitTaskEndWorker(t)
  PROVE  CountsAreTrue'
<1> USE DEF Labelled
<1> DEFINE r == TeamOf(t)
<1>1. /\ at[t] = "ending" /\ at' = [at EXCEPT ![t] = "none"] /\ step' = [step EXCEPT ![t] = 0]
      /\ program' = program /\ script' = script /\ iter' = iter
  BY DEF ImplicitTaskEndMaster, ImplicitTaskEndWorker, Vanishes, Go, teamVars
<1>2. /\ at'[t] = "none"
      /\ \A u \in Tasks : u # t => at'[u] = at[u] /\ step'[u] = step[u] /\ iter'[u] = iter[u]
  BY <1>1 DEF Control, ControlTypes
<1>3. r \in Teams /\ r \in Tasks /\ r # t
  BY Tree
<1>4. ASSUME NEW u \in Tasks, u # t
      PROVE  /\ Len(label'[u]) = Len(label[u])
             /\ \A k \in 1..Len(label[u]) : SameCounts(label'[u][k], label[u][k])
  <2>1. CASE ImplicitTaskEndWorker(t) \/ u # r
    <3>1. label'[u] = label[u]
      BY <1>4, <2>1 DEF ImplicitTaskEndMaster, ImplicitTaskEndWorker, Relabel, LabelTypes
    <3> QED BY <3>1 DEF SameCounts
  <2>2. CASE ImplicitTaskEndMaster(t) /\ u = r
    <3> DEFINE new == Front(label[t])
    <3>1. label' = [label EXCEPT ![r] = new, ![t] = <<>>] /\ Last(t) = 0
      BY <2>2 DEF ImplicitTaskEndMaster, MutateParentImpEnd
    <3>2. open[r] /\ Exists(t)
      BY <1>1, <1>3, <3>1 DEF Control, OpenRegions, Exists
    <3>3. /\ label[t] \in Seq(SegmentType) /\ Len(label[t]) >= 2 /\ OwnPlace(t) = Len(label[t])
      BY <1>1, <3>2, LabelKnown DEF ConstructDepth, InLoop, InSingle, WorkPlaces
    <3>4. /\ Len(label[t]) = Len(label[r]) + 1 /\ Len(label[r]) \in Nat
          /\ \A k \in 1..Len(label[r]) : SameCounts(label[t][k], label[r][k])
      <4>1. /\ OwnPlace(t) = Len(label[r]) + 1
            /\ \A k \in 1..Len(label[r]) : SameCounts(label[t][k], label[r][k])
        BY <3>2 DEF LabelsNest
      <4>2. label[r] \in Seq(SegmentType)
        BY <1>3 DEF LabelTypes
      <4> QED BY <3>3, <4>1, <4>2
    <3>5. Len(new) = Len(label[t]) - 1 /\ \A k \in 1..Len(label[t])-1 : new[k] = label[t][k]
      <4>1. Len(label[t]) >= 1
        BY <3>3
      <4> QED BY <3>3, <4>1, Fronts
    <3> HIDE DEF new
    <3>6. label'[u] = new
      BY <1>3, <2>2, <3>1 DEF LabelTypes
    <3> QED BY <2>2, <3>4, <3>5, <3>6
  <2> QED BY <2>1, <2>2
<1>5. ASSUME NEW u \in Tasks \ {Root}, u # t, Exists(u)' PROVE Exists(u) /\ Stands(u)
  <2>1. Exists(u) /\ at'[u] = at[u] /\ step'[u] = step[u] /\ iter'[u] = iter[u]
    BY <1>2, <1>5 DEF Exists
  <2> QED BY <2>1, <1>1, <1>4, <1>5 DEF Stands
<1>6. ~ Exists(t)'
  BY <1>2 DEF Exists
<1> QED BY <1>1, <1>5, <1>6, OneCounts

(* Forks and barriers move no count.                                       *)
LEMMA TeamStepCounts ==
  ASSUME Labelled, CountsAreTrue, NEW r \in Teams, Fork(r) \/ OpenBarrier(r)
  PROVE  CountsAreTrue'
<1> USE DEF Labelled
<1>1. program' = program /\ label' = label /\ step' = step /\ iter' = iter
  BY DEF Fork, OpenBarrier
<1>2. ASSUME NEW u \in Tasks \ {Root}, Exists(u)' PROVE Exists(u) /\ Stands(u)
  <2>1. TeamOf(u) \in Teams /\ (TeamOf(u) = r => u \in MembersOf(r))
    BY Tree
  <2>2. CASE Fork(r)
    <3>1. /\ at' = [t \in Tasks |-> IF t \in MembersOf(r) THEN "starting" ELSE at[t]]
          /\ script' = [script EXCEPT ![r] = <<>>]
      BY <2>2 DEF Fork
    <3>2. u \notin MembersOf(r) /\ at'[u] = at[u] /\ Exists(u)
      BY <1>2, <3>1 DEF Exists
    <3>3. script'[TeamOf(u)] = script[TeamOf(u)]
      BY <2>1, <3>1, <3>2
    <3> QED BY <1>1, <3>2, <3>3 DEF Stands, SameCounts
  <2>3. CASE OpenBarrier(r)
    <3>1. /\ \A t \in MembersOf(r) : at[t] = "barrier"
          /\ at' = [t \in Tasks |-> IF t \in MembersOf(r) THEN "released" ELSE at[t]]
          /\ script' = script
      BY <2>3 DEF OpenBarrier, teamVars
    <3>2. at'[u] = at[u] \/ (at[u] = "barrier" /\ at'[u] = "released")
      BY <3>1
    <3>3. Exists(u)
      BY <1>2, <3>2 DEF Exists
    <3> QED BY <1>1, <3>1, <3>2, <3>3 DEF Stands, SameCounts
  <2> QED BY <2>2, <2>3
<1>3. \A u \in Tasks \ {Root} : Exists(u)' => CountsOf(u)'
  <2> SUFFICES ASSUME NEW u \in Tasks \ {Root}, Exists(u)' PROVE CountsOf(u)'
    OBVIOUS
  <2>1. Exists(u) /\ Stands(u)
    BY <1>2
  <2>2. CountsOf(u)
    BY <2>1 DEF CountsAreTrue, CountsOf
  <2> QED BY <1>1, <2>1, <2>2, CountsOfOthers DEF Stands
<1> QED BY <1>3 DEF CountsAreTrue, CountsOf

(* The counts stay true, and what ends the program is a count at its limit. *)
LEMMA CountsStep ==
  ASSUME Labelled, Labelled', DataTypes, CountsAreTrue, AbortsOnlyAtTheLimit, [Next]_vars
  PROVE  CountsAreTrue' /\ AbortsOnlyAtTheLimit'
<1>1. ASSUME aborted' = aborted, ~ aborted PROVE AbortsOnlyAtTheLimit'
  BY <1>1 DEF AbortsOnlyAtTheLimit
<1>2. ASSUME NEW t \in Tasks, Inside(t), ~ aborted PROVE CountsAreTrue' /\ AbortsOnlyAtTheLimit'
  <2>1. t \in Tasks \ {Root} /\ \E p \in Places : Moves(t, p)
    BY <1>2, InsideMoves DEF Labelled
  <2>2. CASE ImplicitTaskBegin(t)
    <3>1. aborted' = aborted
      BY <2>2 DEF ImplicitTaskBegin
    <3> QED BY <1>1, <1>2, <2>1, <2>2, <3>1, BeginCounts
  <2>3. CASE ~ ImplicitTaskBegin(t)
    <3>1. CountsOf(t)' /\ AbortsOnlyAtTheLimit'
      BY <1>2, <2>1, <2>3, InsideCounts
    <3>2. PICK p \in Places : Moves(t, p)
      BY <2>1
    <3>3. /\ UNCHANGED <<program, step, script>>
          /\ \A u \in Tasks : u # t => at'[u] = at[u]
      BY <3>2 DEF Moves, Go, Labelled, Control, ControlTypes
    <3>4. PICK new : GoesOn(t, new, Left(t))
      BY <1>2, <2>1, <2>3, InsideLabels
    <3>5. \A u \in Tasks : u # t => label'[u] = label[u]
      BY <3>4 DEF GoesOn, Relabel, Labelled, LabelTypes
    <3>6. \A u \in Tasks : u # t => iter'[u] = iter[u]
      BY <1>2 DEF Inside, ImplicitTaskBegin, Dispatch, OrderedAcquired, OrderedReleased, EndLoop,
                  EndSections, EndSingle, BarrierEnd, DataTypes
    <3>7. ASSUME NEW u \in Tasks \ {Root}, u # t, Exists(u)' PROVE Exists(u) /\ Stands(u)
      <4>1. Exists(u)
        BY <3>3, <3>7 DEF Exists
      <4> QED BY <4>1, <3>3, <3>5, <3>6, <3>7, Standing
    <3> QED BY <2>1, <3>1, <3>3, <3>7, OneCounts
  <2> QED BY <2>2, <2>3
<1>3. ASSUME NEW t \in Tasks, Reaching(t), ~ aborted PROVE CountsAreTrue' /\ AbortsOnlyAtTheLimit'
  <2>1. t \in Tasks \ {Root}
    BY <1>3, ReachingArrives DEF Labelled
  <2> QED BY <1>1, <1>3, <2>1, ReachingCounts
<1>4. ASSUME NEW t \in Tasks, ImplicitTaskEndMaster(t) \/ ImplicitTaskEndWorker(t), ~ aborted
      PROVE  CountsAreTrue' /\ AbortsOnlyAtTheLimit'
  <2>1. t \in Tasks \ {Root}
    BY <1>4, EndLeaves DEF Labelled
  <2>2. aborted' = aborted
    BY <1>4 DEF ImplicitTaskEndMaster, ImplicitTaskEndWorker
  <2> QED BY <1>1, <1>4, <2>1, <2>2, EndCounts
<1>5. ASSUME NEW r \in Teams, Fork(r) \/ OpenBarrier(r), ~ aborted
      PROVE  CountsAreTrue' /\ AbortsOnlyAtTheLimit'
  <2>1. aborted' = aborted
    BY <1>5 DEF Fork, OpenBarrier
  <2> QED BY <1>1, <1>5, <2>1, TeamStepCounts
<1>6. ASSUME UNCHANGED <<program, label, at, step, script, iter, aborted>>
      PROVE  CountsAreTrue' /\ AbortsOnlyAtTheLimit'
  <2>1. \A t \in Tasks : Loops(t)' = Loops(t) /\ Phases(t)' = Phases(t)
    BY <1>6 DEF Loops, Phases
  <2>2. AbortsOnlyAtTheLimit'
    BY <1>6, <2>1 DEF AbortsOnlyAtTheLimit
  <2>3. \A t \in Tasks : (Exists(t)' <=> Exists(t)) /\ (CountsOf(t)' <=> CountsOf(t))
    BY <1>6, <2>1 DEF Exists, CountsOf, OwnPlace, ConstructDepth, InLoop, InSingle, Construct
  <2> QED BY <2>2, <2>3 DEF CountsAreTrue, CountsOf
<1>7. ASSUME NEW t \in Tasks, Record(t) PROVE CountsAreTrue' /\ AbortsOnlyAtTheLimit'
  BY <1>6, <1>7 DEF Record, teamVars
<1>8. ASSUME UNCHANGED vars PROVE CountsAreTrue' /\ AbortsOnlyAtTheLimit'
  BY <1>6, <1>8 DEF vars, teamVars
<1> QED BY <1>2, <1>3, <1>4, <1>5, <1>7, <1>8 DEF Next, Step, Inside, Reaching

-----------------------------------------------------------------------------
(* The theorems                                                            *)

Strong == Labelled /\ DataTypes /\ TruthTypes /\ CountsAreTrue /\ AbortsOnlyAtTheLimit

(* At the start the initial task is alone.                                 *)
LEMMA Initially == Init => Strong
<1> SUFFICES ASSUME Init PROVE Strong
  OBVIOUS
<1> USE DEF Init
<1>1. /\ program \in Programs /\ program.length \in Nat /\ program.regions \in Nat
      /\ program.iterations \in Nat
  BY ProgramBounds
<1>2. at[Root] = "free" /\ \A t \in Tasks \ {Root} : at[t] = "none"
  BY Tree
<1>3. ControlTypes
  <2>1. <<>> \in Seq(Constructs)
    OBVIOUS
  <2>2. {"free", "none"} \subseteq Places
    BY DEF Places, CodePlaces
  <2> QED BY <2>1, <2>2 DEF ControlTypes
<1>4. \A t \in Tasks \ {Root} : ~ Exists(t) /\ ~ InLoop(t) /\ ~ InSingle(t)
  BY <1>2 DEF Exists, InLoop, InSingle, WorkPlaces
<1>5. \A r \in Teams : script[r] = <<>> /\ Len(script[r]) = 0 /\ ~ open[r]
  OBVIOUS
<1>6. PlacesFit
  <2>1. \A t \in Tasks \ {Root} : step[t] = 0 /\ TeamOf(t) \in Teams
    BY Tree
  <2>2. step[Root] = 0
    BY Tree
  <2> QED BY <1>2, <1>4, <1>5, <2>1, <2>2 DEF PlacesFit
<1>7. ScriptsEnd
  BY <1>1, <1>5 DEF ScriptsEnd
<1>8. OpenRegions
  BY <1>2, <1>5, Tree DEF OpenRegions
<1>9. BarriersHold
  BY <1>2, <1>5, Tree DEF BarriersHold
<1>10. Control
  BY <1>3, <1>6, <1>7, <1>8, <1>9 DEF Control
<1>11. Fresh(ImplicitSegment(0, 1))
  <2>1. 0 \in 0..OffsetLimit-1 /\ 1 \in 1..OffsetLimit-1
    BY Widths
  <2> QED BY <2>1, NewSegments
<1>12. GenInitTaskLabel \in Seq(SegmentType) /\ GenInitTaskLabel # <<>> /\ Fits(GenInitTaskLabel)
  <2>1. GenInitTaskLabel = <<ImplicitSegment(0, 1)>>
    BY DEF GenInitTaskLabel
  <2>2. ImplicitSegment(0, 1) \in SegmentType /\ SegmentOK(ImplicitSegment(0, 1))
    BY <1>11 DEF Fresh
  <2> HIDE DEF GenInitTaskLabel
  <2> QED BY <2>1, <2>2 DEF Fits
<1>13. /\ label \in [Tasks -> Seq(SegmentType)] /\ label[Root] = GenInitTaskLabel
       /\ \A t \in Tasks \ {Root} : label[t] = <<>>
  <2>1. <<>> \in Seq(SegmentType)
    OBVIOUS
  <2> HIDE DEF GenInitTaskLabel
  <2> QED BY <1>12, <2>1, Tree
<1>14. DataTypes /\ TruthTypes
  <2>1. forks \in [Teams -> 0..program.regions] /\ iter \in [Tasks -> 0..program.iterations]
    BY <1>1
  <2>2. /\ PerConstruct(0) \in [1..program.length+1 -> Nat]
        /\ PerConstruct(FALSE) \in [1..program.length+1 -> BOOLEAN]
    BY DEF PerConstruct
  <2>3. /\ taken \in [Teams -> [1..program.length+1 -> Nat]] /\ turn = taken
        /\ chain \in [Teams -> [1..program.length+1 -> BOOLEAN]]
    BY <2>2
  <2>4. knows \in [Tasks -> BOOLEAN] /\ inWork = knows /\ loose = knows
    OBVIOUS
  <2> QED BY <2>1, <2>3, <2>4 DEF DataTypes, TruthTypes
<1>15. LabelTypes
  BY <1>1, <1>13, <1>14 DEF LabelTypes, DataTypes
<1>16. LabelsExist
  <2>1. Exists(Root)
    BY <1>2 DEF Exists
  <2> QED BY <1>4, <1>12, <1>13, <2>1 DEF LabelsExist
<1>17. LabelsNest /\ CountsAreTrue
  BY <1>4 DEF LabelsNest, CountsAreTrue
<1>18. LabelsFit
  <2>1. Fits(<<>>)
    BY DEF Fits
  <2> QED BY <1>12, <1>13, <2>1 DEF LabelsFit
<1>19. AbortsOnlyAtTheLimit
  BY DEF AbortsOnlyAtTheLimit
<1> QED BY <1>10, <1>14, <1>15, <1>16, <1>17, <1>18, <1>19 DEF Strong, Labelled

(* Every step keeps all of it.                                             *)
LEMMA StrongStep == Strong /\ [Next]_vars => Strong'
<1> SUFFICES ASSUME Strong, [Next]_vars PROVE Strong'
  OBVIOUS
<1> USE DEF Strong
<1>1. Control'
  BY ControlStep DEF Labelled
<1>2. LabelsGood'
  BY LabelsStep
<1>3. DataTypes'
  BY DataStep
<1>4. TruthTypes'
  BY TruthStep
<1>5. LabelTypes'
  <2>1. program'.iterations \in Nat
    BY <1>1, ProgramBounds, ProgramStays DEF Control, ControlTypes
  <2> QED BY <1>2, <1>3, <2>1 DEF LabelsGood, DataTypes, LabelTypes
<1>6. Labelled'
  BY <1>1, <1>2, <1>5 DEF LabelsGood, Labelled
<1>7. CountsAreTrue' /\ AbortsOnlyAtTheLimit'
  BY <1>6, CountsStep
<1> QED BY <1>3, <1>4, <1>6, <1>7

(* The parts, put together as LabelledTeams states them.                   *)
LEMMA StrongImplies == Strong => IInv
<1> SUFFICES ASSUME Strong PROVE IInv
  OBVIOUS
<1> USE DEF Strong, Labelled, Control
<1>1. /\ program \in Programs /\ program.length \in Nat /\ program.iterations \in Nat
  BY ProgramBounds DEF ControlTypes
<1>2. \A t \in Tasks : step[t] \in 0..program.length+1
  <2> SUFFICES ASSUME NEW t \in Tasks PROVE step[t] \in 0..program.length+1
    OBVIOUS
  <2>1. CASE t = Root
    BY <1>1, <2>1 DEF PlacesFit
  <2>2. CASE t # Root
    <3>1. /\ TeamOf(t) \in Teams /\ step[t] \in Nat /\ step[t] <= Len(script[TeamOf(t)])
          /\ script[TeamOf(t)] \in Seq(Constructs)
      BY <2>2, ConstructKnown DEF PlacesFit
    <3>2. Len(script[TeamOf(t)]) <= program.length + 1 /\ Len(script[TeamOf(t)]) \in Nat
      BY <3>1 DEF ScriptsEnd
    <3> QED BY <1>1, <3>1, <3>2
  <2> QED BY <2>1, <2>2
<1>3. \A t \in Tasks : iter[t] \in 0..program.iterations
  BY DEF DataTypes
<1>4. \A t \in Tasks : label[t] = <<>> <=> at[t] \in {"none", "starting"}
  BY DEF LabelsExist, Exists
<1>5. ~ aborted => \A t \in Tasks : \A k \in DOMAIN label[t] : SegmentOK(label[t][k])
  BY DEF LabelsFit, Fits
<1>6. TypeOK
  BY <1>2, <1>3, <1>4, <1>5 DEF TypeOK, ControlTypes, DataTypes, TruthTypes, Constructs
<1>7. StateTypes
  BY DEF StateTypes, ControlTypes, LabelTypes, TruthTypes, Constructs
<1> QED BY <1>6, <1>7 DEF IInv

(* The inductive invariant of LabelledTeams holds in every state.          *)
THEOREM Invariance == Spec => []IInv
<1>1. Init => Strong
  BY Initially
<1>2. Strong /\ [Next]_vars => Strong'
  BY StrongStep
<1>3. Strong => IInv
  BY StrongImplies
<1> QED BY <1>1, <1>2, <1>3, PTL DEF Spec

(* Exactly the tasks that run have a label, and while nothing ended the    *)
(* program every offset, phase and loop count fits the bits that Segment.h *)
(* gives it, for teams of all sizes and all programs: the callbacks of     *)
(* Callbacks.cpp always meet a label of the shape they mutate.             *)
THEOREM TypeCorrectness == Spec => []TypeOK
<1>1. IInv => TypeOK
  BY DEF IInv
<1> QED BY <1>1, Invariance, PTL

(* Only a program that has as many loops in a region, or ordered regions   *)
(* in a chunk, as the counter of Segment.h has values is ended by the      *)
(* checks of Segment.cpp.                                                  *)
THEOREM AbortsOnlyAtLimits == Spec => []AbortsOnlyAtTheLimit
<1>1. IInv => AbortsOnlyAtTheLimit
  BY DEF IInv
<1> QED BY <1>1, Invariance, PTL

(* A member of a team carries the label of the task that forked it, with   *)
(* the same counts, and at most two segments of its own: what a member     *)
(* hands back when the region ends is the label of the task that resumes.  *)
THEOREM LabelsAreNested == Spec => []LabelsNest
<1>1. IInv => LabelsNest
  BY DEF IInv
<1> QED BY <1>1, Invariance, PTL

(* The loop count of a task is the number of loops and sections it has     *)
(* left in its region, and its phase the number of ordered regions it has  *)
(* entered and left in its chunk.                                          *)
THEOREM CountsCount == Spec => []CountsAreTrue
<1>1. IInv => CountsAreTrue
  BY DEF IInv
<1> QED BY <1>1, Invariance, PTL

(* No member of a team gets past a barrier, or the end of a construct that *)
(* has one, before every member has reached it: the labels of a team move  *)
(* on from one barrier to the next together.                               *)
THEOREM BarriersKeepTeams == Spec => []BarriersHold
<1>1. IInv => BarriersHold
  BY DEF IInv
<1> QED BY <1>1, Invariance, PTL
=============================================================================
