------------------------------- MODULE Labels -------------------------------
(***************************************************************************)
(* Task labels (RompLib/src/Label.cpp): a label is a sequence of segments, *)
(* outermost region first, and the OMPT callbacks replace the label of a   *)
(* task by one of these mutations of it.  The code never writes to a       *)
(* segment that a mutation replaces, it clones it, so a value is enough    *)
(* for every segment but those of explicit tasks, which taskwait and       *)
(* taskgroup mark in place.                                                *)
(*                                                                         *)
(* The count setters abort the program when a count does not fit: the      *)
(* operators ...Fits say when they do not.                                 *)
(***************************************************************************)
EXTENDS Segments, Integers, Sequences, SequencesExt

ReplaceLast(label, seg) == Append(Front(label), seg)

GenInitTaskLabel == <<ImplicitSegment(0, 1)>>

GenImpTaskLabel(parentLabel, index, actualParallelism) ==
  Append(parentLabel, ImplicitSegment(index, actualParallelism))

MutateParentImpEnd(childLabel) == Front(childLabel)

\* Seeded fault: the span is added to the task's own segment.
BarrierEndOnLast(label) ==
  ReplaceLast(label, SetOffset(Last(label), Last(label).offset + Last(label).span))

\* A barrier moves the task on by one span in the segment of the region's creator.
MutateBarrierEnd(label) ==
  LET k == Len(label) - 1
      seg == label[k]
  IN  ReplaceAt(label, k, SetOffset(seg, seg.offset + seg.span))

\* Seeded fault: leaving an ordered region is allowed for too.
PhaseFitsLess(label) == Last(label).phase + 2 < CountLimit

PhaseFits(label) == Last(label).phase + 1 < CountLimit

\* Entering and leaving an ordered region both count as one phase.
MutateOrderSection(label) ==
  ReplaceLast(label, [Last(label) EXCEPT !.phase = @ + 1])

MutateLoopBegin(label) == Append(label, PlaceHolderSegment)

\* Seeded fault: the largest count is refused.
LoopCountFitsLess(label) == label[Len(label) - 1].loopCount + 1 < CountLimit - 1

LoopCountFits(label) == label[Len(label) - 1].loopCount + 1 < CountLimit

\* Seeded fault: loops of one task are not told apart.
LoopEndUncounted(label) == Front(label)

MutateLoopEnd(label) ==
  LET rest == Front(label)
  IN  ReplaceLast(rest, [Last(rest) EXCEPT !.loopCount = @ + 1])

MutateSectionBegin(label) == MutateLoopBegin(label)
MutateSectionEnd(label) == MutateLoopEnd(label)

MutateSingleExecBegin(label) == Append(label, SingleSegment(SingleExec))
MutateSingleOtherBegin(label) == Append(label, SingleSegment(SingleOther))
MutateSingleEnd(label) == Front(label)

MutateIterDispatch(label, id) == ReplaceLast(label, IterationSegment(id))
MutateSectionDispatch(label, id) == ReplaceLast(label, SectionSegment(id))

-----------------------------------------------------------------------------
\* The results of compareLabels when no segment differs.
LeftIsPrefix  == -1
RightIsPrefix == -2
SameLabel     == -3

\* The place (from 1) of the first segments that differ, or one of the above.
CompareLabels(left, right) ==
  LET common == 1..(IF Len(left) < Len(right) THEN Len(left) ELSE Len(right))
      differ == {k \in common : ~ SameSegment(left[k], right[k])}
  IN  IF differ # {} THEN CHOOSE k \in differ : \A j \in differ : k <= j
      ELSE IF Len(left) = Len(right) THEN SameLabel
      ELSE IF Len(left) < Len(right) THEN LeftIsPrefix
      ELSE RightIsPrefix
=============================================================================
