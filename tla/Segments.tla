------------------------------ MODULE Segments ------------------------------
(***************************************************************************)
(* A segment of a task label (RompLib/src/Segment.cpp).  The code packs    *)
(* the fields into the 64-bit word _value and two 32-bit words; a record   *)
(* holds the same fields.  The widths are constants, so that small runs     *)
(* can meet the limits: the code has 65536 and 16.  What is one bit in     *)
(* the word is one field here: placeholder and section share bit 2.        *)
(***************************************************************************)
EXTENDS Integers

CONSTANTS
  OffsetLimit,  \* 65536: offset and span have 16 bits; setOffsetSpan masks them
  CountLimit    \* 16: taskwait, phase, loop count have 4 bits; the setters abort

ASSUME WidthAssumption == OffsetLimit \in Nat \ {0} /\ CountLimit \in Nat \ {0}

\* _workShareId: 0, an iteration or section number, or one of the two marks of
\* `single`, bits 63 and 62 of the word, which numbers that count up from 0 do
\* not reach.
SingleExec  == -1
SingleOther == -2

\* All segments; each count in it is a number, whatever its width.
SegmentType ==
  [ type : {"implicit", "explicit", "workshare"}, offset : Nat, span : Nat,
    taskwait : Nat, phase : Nat, loopCount : Nat, taskcreate : Nat,
    taskGroupSync : BOOLEAN, taskwaited : BOOLEAN, bit2 : BOOLEAN,
    taskGroupId : Nat, taskGroupLevel : Nat, taskwaitPhase : Nat, workShareId : Int ]

\* A segment as its constructor leaves it.
Segment(type, offset, span) ==
  [ type |-> type, offset |-> offset, span |-> span,
    taskwait |-> 0, phase |-> 0, loopCount |-> 0, taskcreate |-> 0,
    taskGroupSync |-> FALSE, taskwaited |-> FALSE, bit2 |-> FALSE,
    taskGroupId |-> 0, taskGroupLevel |-> 0, taskwaitPhase |-> 0,
    workShareId |-> 0 ]

ImplicitSegment(index, span) == Segment("implicit", index, span)

PlaceHolderSegment == [Segment("workshare", 0, 1) EXCEPT !.bit2 = TRUE]
IterationSegment(id) == [Segment("workshare", 0, 1) EXCEPT !.workShareId = id]
SectionSegment(id) == [IterationSegment(id) EXCEPT !.bit2 = TRUE]
SingleSegment(mark) == [Segment("workshare", 0, 1) EXCEPT !.workShareId = mark]

IsPlaceHolder(seg) == seg.bit2
IsSection(seg) == seg.bit2
IsSingleExecutor(seg) == seg.workShareId = SingleExec

\* What getTaskGroupPhase returns: it reads the upper half of _taskGroup.
TaskGroupPhase(seg) == seg.taskGroupId

\* Seeded faults: a count that the mutation forgets.
TaskCreatedUncounted(seg) == seg
GroupEndedKeepsId(seg) == [seg EXCEPT !.taskGroupLevel = @ - 1]
GroupEndedKeepsLevel(seg) == [seg EXCEPT !.taskGroupId = @ + 1]

\* What a task does to its own segment when it creates an explicit task, leaves
\* a taskwait, and enters or leaves a taskgroup.
TaskCreated(seg) == [seg EXCEPT !.taskcreate = @ + 1]
TaskWaited(seg) == [seg EXCEPT !.taskwait = @ + 1]
GroupBegun(seg) == [seg EXCEPT !.taskGroupId = @ + 1, !.taskGroupLevel = @ + 1]
GroupEnded(seg) == [seg EXCEPT !.taskGroupId = @ + 1, !.taskGroupLevel = @ - 1]

\* Seeded fault: the mask leaves out the largest offset.
SetOffsetTooNarrow(seg, offset) == [seg EXCEPT !.offset = offset % (OffsetLimit - 1)]

SetOffset(seg, offset) == [seg EXCEPT !.offset = offset % OffsetLimit]

\* The words that operator== does not look at: _taskGroup and _orderSecVal,
\* and _workShareId when the segment is a BaseSegment.
Value(seg) ==
  [seg EXCEPT !.taskGroupId = 0, !.taskGroupLevel = 0, !.taskwaitPhase = 0]

SameSegment(left, right) == Value(left) = Value(right)
=============================================================================
