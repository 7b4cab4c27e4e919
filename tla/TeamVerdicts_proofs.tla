------------------------- MODULE TeamVerdicts_proofs -------------------------
(***************************************************************************)
(* Proofs about what the analysis answers in LabelledTeams, for teams of   *)
(* every size, one or two levels of nesting, and every tame program: it    *)
(* calls an access ordered after the recorded one exactly if it is.        *)
(*                                                                         *)
(* A segment's offset, in units of its span, is a clock, which barriers    *)
(* and joins turn.  First, labels spell paths and clocks, and the clocks   *)
(* of a team agree but for members that have yet to hear of a barrier.     *)
(* Then, the place of the recorded label among those clocks tells who has  *)
(* its access in the past.  Last, happensBefore compares just these.       *)
(***************************************************************************)
EXTENDS LabelledTeams_proofs

-----------------------------------------------------------------------------
(* Paths and spans                                                         *)

Place(t) == Len(t) + 1
SpanAt(k) == IF k = 1 THEN 1 ELSE TeamSizes[k-1]

(* The path of a task is that of its creator and an index in the team.     *)
LEMMA Paths ==
  /\ \A t \in Tasks : Len(t) \in 0..Depth /\ t \in Seq(Int)
  /\ \A t \in Tasks : Len(t) = 0 <=> t = Root
  /\ \A r \in Teams : Len(r) < Depth
  /\ \A t \in Tasks \ {Root} :
       /\ Len(t) = Len(TeamOf(t)) + 1 /\ t[Len(t)] = Last(t)
       /\ Last(t) \in 0..TeamSizes[Len(t)]-1
       /\ \A k \in 1..Len(t)-1 : t[k] = TeamOf(t)[k]
  /\ \A r \in Teams : \A i \in 0..TeamSizes[Len(r)+1]-1 :
       /\ Append(r, i) \in MembersOf(r) /\ Last(Append(r, i)) = i
  /\ \A t \in Tasks : Len(t) < Depth => t \in Teams
<1>1. /\ Depth \in {1, 2} /\ \A d \in 1..Depth : TeamSizes[d] \in 1..OffsetLimit-1
      /\ OffsetLimit \in Nat
  BY TeamSizesAssumption, Widths
<1>2. Root \in Seq(Int) /\ Len(Root) = 0
  BY DEF Root
<1>3. ASSUME NEW r \in Teams, r \in Seq(Int), NEW t \in MembersOf(r)
      PROVE  /\ t \in Seq(Int) /\ Len(t) = Len(r) + 1 /\ Len(t) \in 1..Depth /\ t[Len(t)] = Last(t)
             /\ Last(t) \in 0..TeamSizes[Len(t)]-1
             /\ \A k \in 1..Len(t)-1 : t[k] = r[k]
  <2>1. PICK i \in 0..TeamSizes[Len(r)+1]-1 : t = Append(r, i)
    BY DEF MembersOf, Indices
  <2>2. Len(r) < Depth /\ Len(r) \in Nat
    BY <1>3 DEF Teams
  <2>3. i \in Int /\ Len(r) + 1 \in 1..Depth
    BY <1>1, <2>1, <2>2
  <2>4. /\ t \in Seq(Int) /\ Len(t) = Len(r) + 1 /\ t[Len(r)+1] = i /\ Last(t) = i
        /\ \A k \in 1..Len(r) : t[k] = r[k]
    BY <1>3, <2>1, <2>3, Ends
  <2> QED BY <2>1, <2>2, <2>3, <2>4
<1>4. ASSUME NEW t \in Outer PROVE t \in Seq(Int) /\ t \in Tasks \ {Root} /\ Len(t) = 1
  <2>1. Root \in Teams /\ t \in MembersOf(Root)
    BY Tree DEF Outer
  <2>2. t \in Tasks \ {Root}
    BY <2>1, Tree
  <2>3. t \in Seq(Int) /\ Len(t) = Len(Root) + 1
    BY <1>2, <1>3, <2>1
  <2> QED BY <1>2, <2>2, <2>3
<1>5. ASSUME NEW t \in Tasks PROVE t \in Seq(Int) /\ Len(t) \in 0..Depth
  <2>1. CASE t = Root
    BY <2>1, <1>1, <1>2
  <2>2. CASE t # Root
    <3>1. TeamOf(t) \in Teams /\ t \in MembersOf(TeamOf(t))
      BY <2>2, Tree
    <3>2. TeamOf(t) \in Tasks
      BY <3>1 DEF Teams
    <3>3. TeamOf(t) \in Seq(Int)
      <4>1. CASE Depth = 1
        <5>1. Len(TeamOf(t)) < 1 /\ TeamOf(t) \in {Root} \cup Outer
          BY <3>1, <3>2, <4>1 DEF Teams, Tasks
        <5> QED BY <1>2, <1>4, <5>1
      <4>2. CASE Depth = 2
        <5>1. \/ TeamOf(t) \in {Root} \cup Outer
              \/ \E q \in Outer : TeamOf(t) \in MembersOf(q)
          <6> HIDE DEF Depth
          <6> QED BY <3>2, <4>2, 1 # 2 DEF Tasks
        <5>2. ASSUME NEW q \in Outer, TeamOf(t) \in MembersOf(q) PROVE FALSE
          <6>1. q \in Seq(Int) /\ Len(q) = 1 /\ q \in Tasks
            BY <1>4
          <6>2. q \in Teams
            BY <6>1, <4>2 DEF Teams
          <6>3. Len(TeamOf(t)) = Len(q) + 1
            <7>1. TeamOf(t) \in MembersOf(q)
              BY <5>2
            <7> HIDE DEF TeamOf
            <7> QED BY <1>3, <6>1, <6>2, <7>1
          <6>4. Len(TeamOf(t)) < Depth
            BY <3>1 DEF Teams
          <6> HIDE DEF Depth
          <6> QED BY <4>2, <6>1, <6>3, <6>4
        <5> QED BY <1>2, <1>4, <5>1, <5>2
      <4> QED BY <1>1, <4>1, <4>2
    <3> QED BY <1>3, <3>1, <3>3
  <2> QED BY <2>1, <2>2
<1>6. ASSUME NEW t \in Tasks \ {Root}
      PROVE  /\ Len(t) = Len(TeamOf(t)) + 1 /\ t[Len(t)] = Last(t)
             /\ Last(t) \in 0..TeamSizes[Len(t)]-1 /\ Len(t) # 0
             /\ \A k \in 1..Len(t)-1 : t[k] = TeamOf(t)[k]
  <2>1. TeamOf(t) \in Teams /\ t \in MembersOf(TeamOf(t)) /\ TeamOf(t) \in Tasks
    BY Tree
  <2>2. TeamOf(t) \in Seq(Int)
    BY <1>5, <2>1
  <2> HIDE DEF TeamOf
  <2> QED BY <1>3, <2>1, <2>2
<1>7. ASSUME NEW r \in Teams, NEW i \in 0..TeamSizes[Len(r)+1]-1
      PROVE  Append(r, i) \in MembersOf(r) /\ Last(Append(r, i)) = i
  <2>1. Append(r, i) \in MembersOf(r)
    BY DEF MembersOf, Indices
  <2>2. r \in Seq(Int) /\ Len(r) < Depth
    BY <1>5 DEF Teams
  <2>3. Len(r) + 1 \in 1..Depth
    BY <1>1, <2>2
  <2>4. i \in Int
    BY <1>1, <2>3
  <2> QED BY <2>1, <2>2, <2>4, Ends
<1> QED BY <1>2, <1>5, <1>6, <1>7 DEF Teams

(* What a tame program says of the spans of its segments.                  *)
LEMMA Spans ==
  ASSUME Tame(program)
  PROVE  /\ SpanAt(1) = 1 /\ Depth \in {1, 2}
         /\ \A k \in 1..Depth+1 : SpanAt(k) \in 1..OffsetLimit-1
         /\ \A k \in 2..Depth+1 : SpanAt(k) = TeamSizes[k-1] /\ SpanAt(k) > 1
         /\ \A t \in Tasks : Place(t) \in 1..Depth+1 /\ Place(t) = Len(t) + 1 /\ Len(t) \in Nat
<1>1. /\ Depth \in {1, 2} /\ \A d \in 1..Depth : TeamSizes[d] \in 1..OffsetLimit-1 /\ TeamSizes[d] > 1
      /\ OffsetLimit \in Nat /\ OffsetLimit >= 2
  BY TeamSizesAssumption, Widths DEF Tame
<1>2. \A t \in Tasks : Len(t) \in 0..Depth
  BY Paths
<1> HIDE DEF Depth
<1>3. SpanAt(1) = 1 /\ 1 \in 1..OffsetLimit-1
  BY <1>1 DEF SpanAt
<1>4. ASSUME NEW k \in 2..Depth+1
      PROVE  SpanAt(k) = TeamSizes[k-1] /\ SpanAt(k) > 1 /\ SpanAt(k) \in 1..OffsetLimit-1
  <2>1. k # 1 /\ k - 1 \in 1..Depth
    BY <1>1
  <2> QED BY <1>1, <2>1 DEF SpanAt
<1>5. \A k \in 1..Depth+1 : SpanAt(k) \in 1..OffsetLimit-1
  <2> SUFFICES ASSUME NEW k \in 1..Depth+1 PROVE SpanAt(k) \in 1..OffsetLimit-1
    OBVIOUS
  <2>1. k = 1 \/ k \in 2..Depth+1
    BY <1>1
  <2> QED BY <1>3, <1>4, <2>1
<1>6. \A t \in Tasks : Place(t) \in 1..Depth+1 /\ Place(t) = Len(t) + 1 /\ Len(t) \in Nat
  BY <1>1, <1>2 DEF Place
<1> QED BY <1>1, <1>3, <1>4, <1>5, <1>6

\* The segment of an implicit task: what stays 0 in it.
OwnType(span) ==
  [ type : {"implicit"}, offset : Nat, span : {span},
    taskwait : {0}, phase : {0}, loopCount : Nat, taskcreate : {0},
    taskGroupSync : {FALSE}, taskwaited : {FALSE}, bit2 : {FALSE},
    taskGroupId : {0}, taskGroupLevel : {0}, taskwaitPhase : {0}, workShareId : {0} ]

(* The segments of implicit tasks with one span differ in two fields.      *)
LEMMA OwnSegments ==
  ASSUME NEW span
  PROVE  /\ \A seg \in OwnType(span) :
              /\ seg.type = "implicit" /\ seg.span = span /\ seg.phase = 0
              /\ seg.offset \in Nat /\ seg.loopCount \in Nat
         /\ \A seg, other \in OwnType(span) :
              SameSegment(seg, other) <=> seg.offset = other.offset /\ seg.loopCount = other.loopCount
         /\ \A n \in Nat : /\ ImplicitSegment(n, span) \in OwnType(span)
                           /\ ImplicitSegment(n, span).offset = n
                           /\ ImplicitSegment(n, span).loopCount = 0
         /\ \A seg \in OwnType(span), n \in Nat :
              /\ SetOffset(seg, n) \in OwnType(span)
              /\ SetOffset(seg, n).offset = n % OffsetLimit
              /\ SetOffset(seg, n).loopCount = seg.loopCount
         /\ \A seg \in OwnType(span) :
              /\ [seg EXCEPT !.loopCount = @ + 1] \in OwnType(span)
              /\ [seg EXCEPT !.loopCount = @ + 1].offset = seg.offset
              /\ [seg EXCEPT !.loopCount = @ + 1].loopCount = seg.loopCount + 1
<1>1. ASSUME NEW seg \in OwnType(span)
      PROVE  /\ seg.type = "implicit" /\ seg.span = span /\ seg.phase = 0
             /\ seg.offset \in Nat /\ seg.loopCount \in Nat
  BY DEF OwnType
<1>2. ASSUME NEW seg \in OwnType(span), NEW other \in OwnType(span)
      PROVE  SameSegment(seg, other) <=> seg.offset = other.offset /\ seg.loopCount = other.loopCount
  <2>1. SameSegment(seg, other) => seg.offset = other.offset /\ seg.loopCount = other.loopCount
    BY DEF OwnType, SameSegment, Value
  <2>2. ASSUME seg.offset = other.offset, seg.loopCount = other.loopCount
        PROVE  SameSegment(seg, other)
    <3> DEFINE Made(n, m) ==
          [ type |-> "implicit", offset |-> n, span |-> span,
            taskwait |-> 0, phase |-> 0, loopCount |-> m, taskcreate |-> 0,
            taskGroupSync |-> FALSE, taskwaited |-> FALSE, bit2 |-> FALSE,
            taskGroupId |-> 0, taskGroupLevel |-> 0, taskwaitPhase |-> 0, workShareId |-> 0 ]
    <3>1. ASSUME NEW x \in OwnType(span) PROVE x = Made(x.offset, x.loopCount)
      <4>1. /\ x.type = "implicit" /\ x.span = span /\ x.phase = 0 /\ x.taskwait = 0
            /\ x.taskcreate = 0 /\ x.taskGroupId = 0 /\ x.taskGroupLevel = 0
            /\ x.taskwaitPhase = 0 /\ x.workShareId = 0
        BY DEF OwnType
      <4>2. x = [ type |-> x.type, offset |-> x.offset, span |-> x.span,
                  taskwait |-> x.taskwait, phase |-> x.phase, loopCount |-> x.loopCount,
                  taskcreate |-> x.taskcreate, taskGroupSync |-> x.taskGroupSync,
                  taskwaited |-> x.taskwaited, bit2 |-> x.bit2, taskGroupId |-> x.taskGroupId,
                  taskGroupLevel |-> x.taskGroupLevel, taskwaitPhase |-> x.taskwaitPhase,
                  workShareId |-> x.workShareId ]
        BY DEF OwnType
      <4>3. x.taskGroupSync = FALSE /\ x.taskwaited = FALSE /\ x.bit2 = FALSE
        BY DEF OwnType
      <4> QED BY <4>1, <4>2, <4>3
    <3>2. seg = Made(seg.offset, seg.loopCount) /\ other = Made(other.offset, other.loopCount)
      BY <3>1
    <3> HIDE DEF Made
    <3>3. seg = other
      BY <2>2, <3>2
    <3> QED BY <3>3 DEF SameSegment
  <2> QED BY <2>1, <2>2
<1>3. ASSUME NEW n \in Nat
      PROVE  /\ ImplicitSegment(n, span) \in OwnType(span) /\ ImplicitSegment(n, span).offset = n
             /\ ImplicitSegment(n, span).loopCount = 0
  BY DEF OwnType, ImplicitSegment, Segment
<1>4. ASSUME NEW seg \in OwnType(span), NEW n \in Nat
      PROVE  /\ SetOffset(seg, n) \in OwnType(span) /\ SetOffset(seg, n).offset = n % OffsetLimit
             /\ SetOffset(seg, n).loopCount = seg.loopCount
  <2> DEFINE m == n % OffsetLimit
  <2>1. m \in Nat
    BY Widths
  <2>2. SetOffset(seg, n) = [seg EXCEPT !.offset = m]
    BY DEF SetOffset
  <2> HIDE DEF m
  <2>3. /\ [seg EXCEPT !.offset = m] \in OwnType(span) /\ [seg EXCEPT !.offset = m].offset = m
        /\ [seg EXCEPT !.offset = m].loopCount = seg.loopCount
    BY <2>1 DEF OwnType
  <2> QED BY <2>2, <2>3 DEF m
<1>5. ASSUME NEW seg \in OwnType(span)
      PROVE  /\ [seg EXCEPT !.loopCount = @ + 1] \in OwnType(span)
             /\ [seg EXCEPT !.loopCount = @ + 1].offset = seg.offset
             /\ [seg EXCEPT !.loopCount = @ + 1].loopCount = seg.loopCount + 1
  <2> DEFINE m == seg.loopCount + 1
  <2>1. m \in Nat
    BY <1>1
  <2> HIDE DEF m
  <2>2. /\ [seg EXCEPT !.loopCount = m] \in OwnType(span)
        /\ [seg EXCEPT !.loopCount = m].offset = seg.offset
        /\ [seg EXCEPT !.loopCount = m].loopCount = m
    BY <2>1 DEF OwnType
  <2> QED BY <2>2 DEF m
<1> QED BY <1>1, <1>2, <1>3, <1>4, <1>5

(* The region of a member that has yet to leave its last barrier, or that  *)
(* will end it, is open.                                                   *)
LEMMA OpenAround ==
  ASSUME Control, NEW t \in Tasks \ {Root},
         at[t] \notin {"none", "released", "ending"} \/ (Last(t) = 0 /\ at[t] # "none")
  PROVE  open[TeamOf(t)]
<1> DEFINE r == TeamOf(t)
           u == Append(r, 0)
<1>1. r \in Teams /\ t \in MembersOf(r) /\ 0 \in 0..TeamSizes[Len(r)+1]-1
  <2>1. r \in Teams /\ t \in MembersOf(r) /\ Last(t) \in 0..TeamSizes[Len(t)]-1 /\ Len(t) = Len(r) + 1
    BY Paths, Tree
  <2>2. TeamSizes[Len(t)] \in 1..OffsetLimit-1 /\ OffsetLimit \in Nat
    BY Tree, Widths
  <2> QED BY <2>1, <2>2
<1>2. u \in MembersOf(r) /\ Last(u) = 0
  BY <1>1, Paths
<1>3. u \in Tasks \ {Root} /\ TeamOf(u) = r
  BY <1>1, <1>2, Tree
<1> HIDE DEF r, u
<1>4. at[u] # "none" <=> open[r]
  BY <1>2, <1>3 DEF Control, OpenRegions
<1>5. CASE Last(t) = 0 /\ at[t] # "none"
  BY <1>5 DEF Control, OpenRegions
<1>6. CASE at[t] \notin {"none", "released", "ending"}
  BY <1>1, <1>2, <1>4, <1>6 DEF Control, BarriersHold, r
<1> QED BY <1>5, <1>6 DEF r

(* Quotient and remainder are unique.                                      *)
LEMMA Remainders ==
  ASSUME NEW b \in Nat \ {0}, NEW q \in Int, NEW r \in 0..b-1, NEW x \in Int, x = (b * q) + r
  PROVE  x % b = r
<1>1. x = (b * (x \div b)) + (x % b) /\ x % b \in 0..b-1 /\ x \div b \in Int
  OBVIOUS
<1> DEFINE d == x \div b
           m == x % b
           e == q - d
<1>2. b * e = m - r /\ e \in Int
  <2>1. b * e = (b * q) - (b * d)
    BY <1>1
  <2> QED BY <2>1, <1>1
<1>3. m - r < b /\ r - m < b /\ m \in Int
  BY <1>1
<1> HIDE DEF e, m, d
<1>4. e = 0
  <2>1. CASE e >= 1
    <3>1. b * e >= b
      BY <1>2, <2>1
    <3> QED BY <3>1, <1>2, <1>3
  <2>2. CASE e <= -1
    <3>1. b * e <= -b
      BY <1>2, <2>2
    <3> QED BY <3>1, <1>2, <1>3
  <2> QED BY <1>2, <2>1, <2>2
<1> QED BY <1>1, <1>2, <1>4 DEF m

(* A member keeps its index when its offset moves on by one span.          *)
LEMMA Turns ==
  ASSUME NEW span \in Nat \ {0}, NEW n \in Nat
  PROVE  (n + span) % span = n % span /\ (n < span => n % span = n)
<1> DEFINE d == n \div span
           m == n % span
<1>1. n = (span * d) + m /\ m \in 0..span-1 /\ d \in Int
  OBVIOUS
<1> HIDE DEF d, m
<1>2. span * (d + 1) = (span * d) + span
  BY <1>1
<1>3. n + span = (span * (d + 1)) + m /\ d + 1 \in Int /\ n + span \in Int
  BY <1>1, <1>2
<1>4. (n + span) % span = m
  BY <1>1, <1>3, Remainders
<1>5. n < span => n % span = n
  <2>1. n = (span * 0) + n
    OBVIOUS
  <2>2. n < span => n \in 0..span-1
    OBVIOUS
  <2> QED BY <2>1, <2>2, Remainders
<1> QED BY <1>4, <1>5 DEF m

-----------------------------------------------------------------------------
(* The labels of a tame program                                            *)

Kind(c, id) == IF c \in Sections THEN SectionSegment(id) ELSE IterationSegment(id)
SegmentAt(t) ==
  CASE at[t] \in {"chunk", "preamble"} -> PlaceHolderSegment
    [] at[t] = "work" -> Kind(Construct(t), iter[t])
    [] at[t] = "single" -> SingleSegment(SingleExec)
    [] at[t] = "other" -> SingleSegment(SingleOther)

\* The label of t spells the path of t, each segment the time in one team, and what t
\* does in a construct.
Spelled(t) ==
  Exists(t) =>
    /\ Len(label[t]) = Place(t) + ConstructDepth(t)
    /\ label[t][1].loopCount = 0
    /\ \A k \in 1..Place(t) : label[t][k] \in OwnType(SpanAt(k))
    /\ \A k \in 2..Place(t) : label[t][k].offset % SpanAt(k) = t[k-1]
    /\ ConstructDepth(t) = 1 => label[t][Place(t) + 1] = SegmentAt(t)
Spelling == \A t \in Tasks : Spelled(t)

\* What a tame program does not do, and the barrier that an iteration waits for.
Plain ==
  /\ \A r \in Teams :
       /\ open[r] => at[r] = "free"
       /\ \A k \in 1..Len(script[r]) : script[r][k] \in program.constructs \cup {"end"}
  /\ \A t \in Tasks \ {Root} :
       /\ at[t] \notin {"ordered", "past"}
       /\ at[t] = "chunk" => Construct(t) \in StaticLoops
       /\ at[t] \in {"preamble", "work"} => Construct(t) \notin StaticLoops
       /\ at[t] = "work" => iter[t] < taken[TeamOf(t)][step[t]]
  /\ \A t \in Tasks :
       /\ loose[t] => at[t] \notin {"none", "starting", "released", "ending"}
       /\ inWork[t] => at[t] = "work"

\* The offset in the teams of r after n barriers, which its field must hold.
Region == program.length + 1
Due(r, n) == (IF r = Root THEN 0 ELSE Last(r)) + (SpanAt(Place(r)) * n)
CountedIn(r) ==
  /\ Exists(r) => label[r][Place(r)].offset
                    <= Due(r, (IF open[r] THEN forks[r] - 1 ELSE forks[r]) * Region)
  /\ open[r] => forks[r] > 0
  /\ \A t \in MembersOf(r) : at[t] # "none" =>
       /\ forks[r] > 0
       /\ Exists(t) => label[t][Place(r)].offset
                         + (IF at[t] \in {"free", "ending"} THEN 0 ELSE SpanAt(Place(r)))
                       <= Due(r, ((forks[r] - 1) * Region) + step[t])
Counted == \A r \in Teams : CountedIn(r)

\* The time of t in the team at place k: a barrier counts as soon as it opens.
Clock(t, k) ==
  label[t][k].offset + (IF at[t] = "released" /\ k = Len(t) THEN SpanAt(k) ELSE 0)
Count(t, k) == label[t][k].loopCount

\* The members of a team are at one time, that of the task that forked or, in its
\* last part, a later one.
AgreeIn(r) ==
  open[r] => \A t \in MembersOf(r) : Exists(t) =>
    /\ \A k \in 1..Len(r) : Clock(t, k) = Clock(r, k)
    /\ Clock(r, Place(r)) <= Clock(t, Place(r))
    /\ \A u \in MembersOf(r) :
         /\ Exists(u) => Clock(u, Place(r)) = Clock(t, Place(r))
         /\ at[u] = "starting" => Clock(t, Place(r)) = Clock(r, Place(r))
    /\ knows[r] => knows[t]
TeamsAgree == \A r \in Teams : AgreeIn(r)

Timed == Strong /\ Tame(program) /\ Spelling /\ Plain /\ Counted /\ TeamsAgree

(* The label of a task that exists: places and what they hold.             *)
LEMMA TimesKnown ==
  ASSUME Strong, Tame(program), NEW t \in Tasks, Exists(t), Spelled(t)
  PROVE  /\ label[t] \in Seq(SegmentType) /\ Place(t) \in 1..Len(label[t])
         /\ ConstructDepth(t) \in {0, 1} /\ Len(label[t]) = Place(t) + ConstructDepth(t)
         /\ \A k \in 1..Place(t) :
              /\ label[t][k].offset \in Nat /\ Clock(t, k) \in Nat /\ Count(t, k) \in Nat
              /\ label[t][k].offset <= Clock(t, k)
         /\ at[t] # "released" => \A k \in 1..Place(t) : Clock(t, k) = label[t][k].offset
         /\ \A k \in 2..Place(t) : Clock(t, k) % SpanAt(k) = t[k-1]
<1>1. label[t] \in Seq(SegmentType)
  BY DEF Strong, Labelled, LabelTypes
<1>2. ConstructDepth(t) \in {0, 1} /\ Len(label[t]) = Place(t) + ConstructDepth(t)
  BY DEF Spelled, ConstructDepth
<1>3. Place(t) \in 1..Depth+1 /\ Depth \in {1, 2}
  BY Spans
<1>4. Place(t) \in 1..Len(label[t])
  BY <1>2, <1>3
<1>5. ASSUME NEW k \in 1..Place(t)
      PROVE  /\ label[t][k].offset \in Nat /\ Count(t, k) \in Nat /\ SpanAt(k) \in Nat \ {0}
  <2>1. label[t][k] \in OwnType(SpanAt(k))
    BY DEF Spelled
  <2>2. k \in 1..Depth+1
    BY <1>3
  <2>3. SpanAt(k) \in Nat \ {0}
    BY <2>2, Spans
  <2> QED BY <2>1, <2>3, OwnSegments DEF Count
<1>6. ASSUME NEW k \in 1..Place(t)
      PROVE  /\ Clock(t, k) \in Nat /\ label[t][k].offset <= Clock(t, k)
             /\ at[t] # "released" => Clock(t, k) = label[t][k].offset
  BY <1>5 DEF Clock
<1>7. ASSUME NEW k \in 2..Place(t)
      PROVE  Clock(t, k) % SpanAt(k) = t[k-1]
  <2>1. label[t][k].offset % SpanAt(k) = t[k-1] /\ k \in 1..Place(t)
    BY DEF Spelled
  <2>2. (label[t][k].offset + SpanAt(k)) % SpanAt(k) = label[t][k].offset % SpanAt(k)
    BY <1>5, <2>1, Turns
  <2>3. Clock(t, k) = label[t][k].offset \/ Clock(t, k) = label[t][k].offset + SpanAt(k)
    <3>1. label[t][k].offset \in Nat
      BY <1>5, <2>1
    <3> QED BY <3>1 DEF Clock
  <2> QED BY <2>1, <2>2, <2>3
<1> QED BY <1>1, <1>2, <1>4, <1>5, <1>6, <1>7

-----------------------------------------------------------------------------
(* What the steps do to the times                                          *)

\* A step of t inside of its region.
Quiet(t) == Reaching(t) \/ (Inside(t) /\ ~ ImplicitTaskBegin(t))

\* The part of the state that tells the time of u stays.
Rests(u) ==
  /\ label'[u] = label[u] /\ at'[u] = at[u] /\ step'[u] = step[u] /\ iter'[u] = iter[u]
  /\ inWork'[u] = inWork[u] /\ loose'[u] = loose[u]

(* What rests keeps its times.                                             *)
LEMMA Resting ==
  ASSUME NEW u, label'[u] = label[u], at'[u] = at[u]
  PROVE  /\ Exists(u)' <=> Exists(u)
         /\ ConstructDepth(u)' = ConstructDepth(u)
         /\ \A k : Clock(u, k)' = Clock(u, k) /\ Count(u, k)' = Count(u, k)
BY DEF Exists, ConstructDepth, InLoop, InSingle, Clock, Count

(* ... and its label spells them.                                          *)
LEMMA SpelledStays ==
  ASSUME NEW u, Spelled(u), label'[u] = label[u], at'[u] = at[u],
         at[u] = "work" => Construct(u)' = Construct(u) /\ iter'[u] = iter[u]
  PROVE  Spelled(u)'
<1>1. (Exists(u)' <=> Exists(u)) /\ ConstructDepth(u)' = ConstructDepth(u)
  BY Resting
<1>2. SegmentAt(u)' = SegmentAt(u)
  <2>1. CASE at[u] = "work"
    BY <2>1 DEF SegmentAt
  <2>2. CASE at[u] # "work"
    BY <2>2 DEF SegmentAt
  <2> QED BY <2>1, <2>2
<1> QED BY <1>1, <1>2 DEF Spelled

(* What a step of t leaves alone.                                          *)
LEMMA QuietFrame ==
  ASSUME Strong, NEW t \in Tasks, Quiet(t)
  PROVE  /\ t # Root /\ ~ Forked(t) /\ TeamOf(t) \in Teams
         /\ program' = program /\ open' = open /\ forks' = forks /\ hist' = hist /\ knows' = knows
         /\ \A u \in Tasks : u # t => Rests(u)
         /\ step'[t] = IF Reaching(t) THEN step[t] + 1 ELSE step[t]
         /\ \A r \in Teams : \A k \in 1..Len(script[r]) : script'[r][k] = script[r][k]
         /\ \A u \in Tasks \ {Root} : u # t /\ step[u] > 0 => Construct(u)' = Construct(u)
<1> USE DEF Strong, Labelled
<1>1. /\ label \in [Tasks -> Seq(SegmentType)] /\ at \in [Tasks -> Places] /\ step \in [Tasks -> Nat]
      /\ iter \in [Tasks -> Nat] /\ inWork \in [Tasks -> BOOLEAN] /\ loose \in [Tasks -> BOOLEAN]
  BY DEF LabelTypes, Control, ControlTypes, TruthTypes
<1>2. CASE Reaching(t)
  <2>1. t # Root /\ \E c \in Constructs, p \in Places : Arrives(t, c, p)
    BY <1>2, ReachingArrives
  <2>2. PICK c \in Constructs, p \in Places : Arrives(t, c, p)
    BY <2>1
  <2>3. /\ Reaches(t, c) /\ Go(t, p) /\ ~ Forked(t)
        /\ UNCHANGED <<program, open, forks, hist, aborted, turn, truth>>
    BY <2>2 DEF Arrives, Reaches, Runs
  <2>4. /\ step' = [step EXCEPT ![t] = @ + 1]
        /\ \A r \in Teams : \A k \in 1..Len(script[r]) : script'[r][k] = script[r][k]
    BY <2>1, <2>3, ScriptsGrow
  <2>5. iter' = iter /\ inWork' = inWork /\ loose' = loose /\ knows' = knows
    BY <1>2, <2>3 DEF Reaching, BeginLoop, BeginSections, BeginSingleExecutor, BeginSingleOther,
                      ReachBarrier, truth
  <2>6. label' = label \/ \E new : Relabel(t, new)
    BY <1>2 DEF Reaching, BeginLoop, BeginSections, BeginSingleExecutor, BeginSingleOther, ReachBarrier
  <2>7. \A u \in Tasks : u # t => Rests(u)
    BY <1>1, <2>3, <2>4, <2>5, <2>6 DEF Rests, Go, Relabel
  <2>8. \A u \in Tasks \ {Root} : u # t /\ step[u] > 0 => Construct(u)' = Construct(u)
    <3> SUFFICES ASSUME NEW u \in Tasks \ {Root}, u # t, step[u] > 0
                 PROVE  Construct(u)' = Construct(u)
      OBVIOUS
    <3>1. TeamOf(u) \in Teams /\ step[u] \in 1..Len(script[TeamOf(u)]) /\ step'[u] = step[u]
      BY <1>1, <2>4, ConstructKnown DEF Control
    <3> QED BY <3>1, <2>4 DEF Construct
  <2>9. step'[t] = step[t] + 1 /\ TeamOf(t) \in Teams
    BY <1>1, <2>1, <2>4, Tree
  <2> QED BY <1>2, <2>1, <2>3, <2>4, <2>5, <2>7, <2>8, <2>9
<1>3. CASE ~ Reaching(t)
  <2>1. Inside(t) /\ ~ ImplicitTaskBegin(t)
    BY <1>3 DEF Quiet
  <2>2. t # Root /\ \E p \in Places : Moves(t, p)
    BY <2>1, InsideMoves
  <2>3. ~ Forked(t) /\ UNCHANGED <<program, open, step, script>> /\ \E p : Go(t, p)
    BY <2>2 DEF Moves
  <2>4. /\ forks' = forks /\ hist' = hist /\ knows' = knows
        /\ \E new : Relabel(t, new)
        /\ \A u \in Tasks : u # t => iter'[u] = iter[u] /\ inWork'[u] = inWork[u] /\ loose'[u] = loose[u]
    BY <1>1, <2>1 DEF Inside, Dispatch, OrderedAcquired, OrderedReleased, EndLoop, EndSections,
         EndSingle, BarrierEnd, truth, Loosen
  <2>5. \A u \in Tasks : u # t => Rests(u)
    BY <1>1, <2>3, <2>4 DEF Rests, Go, Relabel
  <2>6. TeamOf(t) \in Teams
    BY <2>2, Tree
  <2> QED BY <1>3, <2>2, <2>3, <2>4, <2>5, <2>6 DEF Construct
<1> QED BY <1>2, <1>3

(* What a task of a tame program does next, in each place.                 *)
LEMMA QuietPlaces ==
  ASSUME Strong, Tame(program), Plain, NEW t \in Tasks, Quiet(t)
  PROVE  \/ /\ Reaching(t) /\ at[t] = "free" /\ Construct(t)' \in program.constructs \cup {"end"}
            /\ UNCHANGED <<iter, inWork, loose>>
            /\ \/ at'[t] = "barrier" /\ label'[t] = label[t]
               \/ /\ at'[t] \in {"chunk", "preamble", "single", "other"}
                  /\ label'[t] = Append(label[t], SegmentAt(t)')
            /\ at'[t] = "chunk" => Construct(t)' \in StaticLoops
            /\ at'[t] = "preamble" => Construct(t)' \notin StaticLoops
         \/ /\ Dispatch(t) /\ at[t] \in {"preamble", "work"} /\ at'[t] = "work"
            /\ iter'[t] = taken[TeamOf(t)][step[t]]
            /\ taken'[TeamOf(t)][step[t]] = taken[TeamOf(t)][step[t]] + 1
            /\ taken[TeamOf(t)][step[t]] \in Nat
            /\ label'[t] = ReplaceLast(label[t], Kind(Construct(t), iter'[t]))
            /\ Construct(t)' = Construct(t)
            /\ inWork'[t] = knows[t] /\ (loose'[t] <=> loose[t] \/ inWork[t])
         \/ /\ EndLoop(t) \/ EndSections(t)
            /\ at[t] \in {"preamble", "work", "chunk"}
            /\ label'[t] = MutateLoopEnd(label[t])
            /\ \/ at'[t] = "barrier"
               \/ /\ at'[t] = "free" /\ Depth = 1 /\ at[t] # "chunk"
                  /\ Construct(t) \notin Sections
            /\ ~ inWork'[t] /\ (loose'[t] <=> loose[t] \/ inWork[t])
         \/ /\ EndSingle(t) /\ InSingle(t) /\ at'[t] = "barrier" /\ label'[t] = Front(label[t])
            /\ UNCHANGED <<inWork, loose>>
         \/ /\ BarrierEnd(t) /\ at[t] = "released" /\ label'[t] = MutateBarrierEnd(label[t])
            /\ at'[t] = IF Construct(t) = "end" THEN "ending" ELSE "free"
            /\ UNCHANGED <<inWork, loose>>
<1> USE DEF Strong, Labelled
<1> DEFINE r == TeamOf(t)
<1>1. t # Root /\ r \in Teams /\ program' = program /\ r \in Tasks
  BY QuietFrame, Tree
<1>2. /\ label \in [Tasks -> Seq(SegmentType)] /\ at \in [Tasks -> Places]
      /\ iter \in [Tasks -> Nat] /\ inWork \in [Tasks -> BOOLEAN] /\ loose \in [Tasks -> BOOLEAN]
      /\ taken \in [Teams -> [1..program.length+1 -> Nat]] /\ Control
  BY DEF LabelTypes, Control, ControlTypes, TruthTypes
<1>3. ASSUME NEW p, Go(t, p) PROVE at'[t] = p
  BY <1>2, <1>3 DEF Go
<1>4. ASSUME NEW new, Relabel(t, new) PROVE label'[t] = new
  BY <1>2, <1>4 DEF Relabel
<1>5. at[t] \notin {"ordered", "past"}
  BY <1>1 DEF Plain
<1>6. ASSUME Exists(t), at[t] # "free"
      PROVE  /\ Construct(t) \in program.constructs \cup {"end"} /\ step[t] \in 1..Len(script[r])
             /\ Construct(t) \notin OrderedLoops
             /\ Construct(t) \in NoWait => Depth = 1 /\ Construct(t) \in DynamicLoops
  <2>1. step[t] \in 1..Len(script[r])
    BY <1>1, <1>6, ConstructKnown DEF Control
  <2>2. Construct(t) \in program.constructs \cup {"end"}
    BY <1>1, <2>1 DEF Plain, Construct
  <2>3. Construct(t) \notin OrderedLoops /\ (Construct(t) \in NoWait => Depth \in {1, 2} /\ Depth # 2)
    BY <2>2, Spans DEF Tame, OrderedLoops, NoWait
  <2>4. Construct(t) \in NoWait => Construct(t) \in DynamicLoops
    BY <2>2 DEF Tame, OrderedLoops, NoWait, DynamicLoops
  <2> QED BY <2>1, <2>2, <2>3, <2>4
<1>7. CASE Reaching(t)
  <2> USE DEF Reaching, BeginLoop, BeginSections, BeginSingleExecutor, BeginSingleOther, ReachBarrier
  <2>1. at[t] = "free" /\ UNCHANGED <<iter, inWork, loose>>
    BY <1>7 DEF Reaches, truth
  <2>2. ASSUME NEW c \in program.constructs \cup {"end"}, Reaches(t, c) PROVE Construct(t)' = c
    <3>1. program.constructs \subseteq AllConstructs
      BY <1>2, ProgramBounds DEF Control, ControlTypes
    <3>2. c \in Constructs
      BY <3>1 DEF Constructs
    <3> QED BY <1>1, <1>2, <2>2, <3>2, ScriptsGrow
  <2>3. CASE BeginLoop(t)
    <3>1. PICK c \in program.constructs \cap (StaticLoops \cup DynamicLoops \cup OrderedLoops) :
             /\ Reaches(t, c) /\ Relabel(t, MutateLoopBegin(label[t]))
             /\ Go(t, IF c \in StaticLoops THEN "chunk" ELSE "preamble")
      BY <2>3
    <3>2. at'[t] = IF c \in StaticLoops THEN "chunk" ELSE "preamble"
      BY <1>3, <3>1
    <3>3. label'[t] = Append(label[t], PlaceHolderSegment)
      BY <1>4, <3>1 DEF MutateLoopBegin
    <3>4. SegmentAt(t)' = PlaceHolderSegment
      BY <3>2 DEF SegmentAt
    <3>5. Construct(t)' = c
      BY <2>2, <3>1
    <3> QED BY <1>7, <2>1, <3>2, <3>3, <3>4, <3>5
  <2>4. CASE BeginSections(t)
    <3>1. PICK c \in program.constructs \cap Sections :
             Reaches(t, c) /\ Relabel(t, MutateSectionBegin(label[t])) /\ Go(t, "preamble")
      BY <2>4
    <3>2. at'[t] = "preamble"
      BY <1>3, <3>1
    <3>3. label'[t] = Append(label[t], PlaceHolderSegment)
      BY <1>4, <3>1 DEF MutateSectionBegin, MutateLoopBegin
    <3>4. SegmentAt(t)' = PlaceHolderSegment
      BY <3>2 DEF SegmentAt
    <3>5. Construct(t)' = c
      BY <2>2, <3>1
    <3>6. c \notin StaticLoops
      BY DEF Sections, StaticLoops
    <3> QED BY <1>7, <2>1, <3>2, <3>3, <3>4, <3>5, <3>6
  <2>5. CASE BeginSingleExecutor(t) \/ BeginSingleOther(t)
    <3>1. PICK c \in program.constructs \cap Singles :
             /\ Reaches(t, c)
             /\ \/ Relabel(t, MutateSingleExecBegin(label[t])) /\ Go(t, "single")
                \/ Relabel(t, MutateSingleOtherBegin(label[t])) /\ Go(t, "other")
      BY <2>5
    <3>2. \/ at'[t] = "single" /\ label'[t] = Append(label[t], SingleSegment(SingleExec))
          \/ at'[t] = "other" /\ label'[t] = Append(label[t], SingleSegment(SingleOther))
      BY <1>3, <1>4, <3>1 DEF MutateSingleExecBegin, MutateSingleOtherBegin
    <3>3. label'[t] = Append(label[t], SegmentAt(t)')
      BY <3>2 DEF SegmentAt
    <3>4. Construct(t)' = c
      BY <2>2, <3>1
    <3> QED BY <1>7, <2>1, <3>2, <3>3, <3>4
  <2>6. CASE ReachBarrier(t)
    <3>1. PICK c \in (program.constructs \cap {"barrier"}) \cup {"end"} :
             Reaches(t, c) /\ Go(t, "barrier") /\ label' = label
      BY <2>6
    <3>2. at'[t] = "barrier"
      BY <1>3, <3>1
    <3>3. Construct(t)' = c
      BY <2>2, <3>1
    <3> QED BY <1>7, <2>1, <3>1, <3>2, <3>3
  <2> QED BY <1>7, <2>3, <2>4, <2>5, <2>6
<1>8. CASE Dispatch(t)
  <2>1. at[t] \in {"preamble", "work"} /\ Exists(t) /\ InLoop(t)
    BY <1>5, <1>8 DEF Dispatch, WorkPlaces, Exists, InLoop
  <2>2. Construct(t) \notin OrderedLoops /\ step[t] \in 1..program.length+1
    BY <1>1, <1>6, <2>1, DispatchedIsNat
  <2>3. taken[r][step[t]] \in Nat
    BY <1>1, <1>2, <2>2
  <2>4. taken[r][step[t]] * ChunkOf(Construct(t)) = taken[r][step[t]]
    BY <2>2, <2>3 DEF ChunkOf
  <2> DEFINE id == taken[r][step[t]] * ChunkOf(Construct(t))
  <2>5. /\ taken' = [taken EXCEPT ![r][step[t]] = @ + 1]
        /\ iter' = [iter EXCEPT ![t] = id]
        /\ Relabel(t, IF Construct(t) \in Sections THEN MutateSectionDispatch(label[t], id)
                                                   ELSE MutateIterDispatch(label[t], id))
        /\ Go(t, "work") /\ Loosen(t) /\ inWork' = [inWork EXCEPT ![t] = knows[t]]
        /\ script' = script /\ step' = step
    BY <1>8 DEF Dispatch
  <2>6. iter'[t] = id /\ inWork'[t] = knows[t] /\ (loose'[t] <=> loose[t] \/ inWork[t])
    BY <1>2, <2>5 DEF Loosen
  <2>7. taken'[r][step[t]] = taken[r][step[t]] + 1
    BY <1>1, <1>2, <2>2, <2>5
  <2>8. label'[t] = ReplaceLast(label[t], Kind(Construct(t), id))
    <3>1. label'[t] = IF Construct(t) \in Sections THEN MutateSectionDispatch(label[t], id)
                                                   ELSE MutateIterDispatch(label[t], id)
      BY <1>4, <2>5
    <3> QED BY <3>1 DEF Kind, MutateSectionDispatch, MutateIterDispatch
  <2>9. at'[t] = "work" /\ Construct(t)' = Construct(t)
    BY <1>3, <2>5 DEF Construct
  <2> HIDE DEF id
  <2> QED BY <1>8, <2>1, <2>3, <2>4, <2>6, <2>7, <2>8, <2>9 DEF id
<1>9. CASE EndLoop(t) \/ EndSections(t)
  <2>1. /\ Idles(t) /\ Go(t, AfterConstruct(t)) /\ Loosen(t)
        /\ inWork' = [inWork EXCEPT ![t] = FALSE]
        /\ Relabel(t, MutateLoopEnd(label[t]))
    BY <1>9 DEF EndLoop, EndSections, MutateSectionEnd
  <2>2. at[t] \in {"preamble", "work", "chunk"} /\ Exists(t) /\ at[t] # "free"
    BY <1>5, <2>1 DEF Idles, Exists
  <2>3. at[t] = "chunk" => Construct(t) \in StaticLoops
    BY <1>1 DEF Plain
  <2>4. label'[t] = MutateLoopEnd(label[t]) /\ at'[t] = AfterConstruct(t)
    BY <1>3, <1>4, <2>1
  <2>5. ~ inWork'[t] /\ (loose'[t] <=> loose[t] \/ inWork[t])
    BY <1>2, <2>1 DEF Loosen
  <2>6. \/ at'[t] = "barrier"
        \/ at'[t] = "free" /\ Depth = 1 /\ at[t] # "chunk" /\ Construct(t) \notin Sections
    <3>1. Construct(t) \in NoWait => Depth = 1 /\ Construct(t) \in DynamicLoops
      BY <1>6, <2>2
    <3>2. Construct(t) \in DynamicLoops => Construct(t) \notin StaticLoops \cup Sections
      BY DEF StaticLoops, DynamicLoops, Sections
    <3>3. at'[t] = "barrier" \/ (at'[t] = "free" /\ Construct(t) \in NoWait)
      BY <2>4 DEF AfterConstruct
    <3> QED BY <2>3, <3>1, <3>2, <3>3
  <2> QED BY <1>9, <2>2, <2>4, <2>5, <2>6
<1>10. CASE EndSingle(t)
  <2>1. /\ InSingle(t) /\ Go(t, AfterConstruct(t)) /\ Relabel(t, Front(label[t]))
        /\ UNCHANGED <<inWork, loose>>
    BY <1>10 DEF EndSingle, MutateSingleEnd, InSingle, truth
  <2>2. Exists(t) /\ at[t] # "free" /\ Construct(t) \in Singles
    BY <1>1, <1>2, <2>1 DEF InSingle, Exists, Control, PlacesFit
  <2>3. Construct(t) \notin NoWait
    BY <1>6, <2>2 DEF Singles, DynamicLoops
  <2>4. at'[t] = "barrier" /\ label'[t] = Front(label[t])
    BY <1>3, <1>4, <2>1, <2>3 DEF AfterConstruct
  <2> QED BY <1>10, <2>1, <2>4
<1>11. CASE BarrierEnd(t)
  <2>1. /\ at[t] = "released" /\ Go(t, IF Construct(t) = "end" THEN "ending" ELSE "free")
        /\ Relabel(t, MutateBarrierEnd(label[t])) /\ UNCHANGED <<inWork, loose>>
    BY <1>11 DEF BarrierEnd, truth
  <2>2. /\ label'[t] = MutateBarrierEnd(label[t])
        /\ at'[t] = IF Construct(t) = "end" THEN "ending" ELSE "free"
    BY <1>3, <1>4, <2>1
  <2> QED BY <1>11, <2>1, <2>2
<1>12. ~ OrderedReleased(t)
  BY <1>5 DEF OrderedReleased
<1>13. ~ OrderedAcquired(t)
  <2>1. at[t] = "work" => Construct(t) \notin OrderedLoops
    BY <1>6 DEF Exists
  <2> QED BY <2>1 DEF OrderedAcquired
<1> QED BY <1>7, <1>8, <1>9, <1>10, <1>11, <1>12, <1>13 DEF Quiet, Inside

(* No barrier of a tame program takes an offset out of its field.          *)
LEMMA Dues ==
  ASSUME program \in Programs, Tame(program), NEW r \in Teams
  PROVE  /\ SpanAt(Place(r)) \in Nat \ {0} /\ Region \in Nat \ {0}
         /\ \A n \in Nat : Due(r, n) \in Nat /\ Due(r, n + 1) = Due(r, n) + SpanAt(Place(r))
         /\ \A n, m \in Nat : n <= m => Due(r, n) <= Due(r, m)
         /\ \A f \in 0..program.regions : f * Region \in Nat /\ Due(r, f * Region) < OffsetLimit
         /\ \A f \in 1..program.regions, s \in 0..Region :
              /\ ((f - 1) * Region) + s \in Nat /\ ((f - 1) * Region) + s <= f * Region
              /\ Due(r, ((f - 1) * Region) + s) < OffsetLimit
<1> DEFINE S == SpanAt(Place(r))
           F == IF r = Root THEN 0 ELSE Last(r)
           R == program.regions
<1>1. /\ Region \in Nat \ {0} /\ R \in Nat /\ R * Region < OffsetLimit /\ OffsetLimit \in Nat
      /\ Depth = 2 => TeamSizes[1] * ((R * Region) + 1) <= OffsetLimit
  <2>1. program.length \in Nat /\ R \in Nat
    BY ProgramBounds
  <2>2. Region \in Nat \ {0}
    BY <2>1 DEF Region
  <2>3. /\ program.regions * (program.length + 1) < OffsetLimit
        /\ Depth = 2 => TeamSizes[1] * (program.regions * (program.length + 1) + 1) <= OffsetLimit
    BY DEF Tame
  <2>4. R * Region < OffsetLimit
    BY <2>3 DEF Region
  <2>5. Depth = 2 => TeamSizes[1] * ((R * Region) + 1) <= OffsetLimit
    BY <2>3 DEF Region
  <2> QED BY <2>1, <2>2, <2>4, <2>5, Widths
<1>2. r \in Tasks /\ Len(r) < Depth /\ Depth \in {1, 2} /\ Len(r) \in Nat
  BY Spans DEF Teams
<1>3. CASE r = Root
  <2>1. Len(r) = 0 /\ S = 1 /\ F = 0
    BY <1>2, <1>3, Paths DEF Place, SpanAt
  <2>2. \A n : Due(r, n) = F + (S * n)
    BY DEF Due
  <2> HIDE DEF S, F
  <2>3. \A n \in Nat : Due(r, n) = n
    BY <2>1, <2>2
  <2>4. \A f \in 0..R : f * Region \in Nat /\ f * Region <= R * Region
    BY <1>1
  <2>5. \A f \in 1..R : \A s \in 0..Region : ((f - 1) * Region) + s \in Nat /\ ((f - 1) * Region) + s <= f * Region
    BY <1>1
  <2>6. \A f \in 0..R : Due(r, f * Region) < OffsetLimit
    BY <1>1, <2>3, <2>4
  <2>7. \A f \in 1..R : \A s \in 0..Region : Due(r, ((f - 1) * Region) + s) < OffsetLimit
    <3> SUFFICES ASSUME NEW f \in 1..R, NEW s \in 0..Region
                 PROVE  Due(r, ((f - 1) * Region) + s) < OffsetLimit
      OBVIOUS
    <3>1. f * Region \in Nat /\ f * Region <= R * Region /\ ((f - 1) * Region) + s \in Nat
          /\ ((f - 1) * Region) + s <= f * Region /\ R * Region \in Nat
      BY <1>1, <2>4, <2>5
    <3> QED BY <1>1, <2>3, <3>1
  <2>8. \A n \in Nat : Due(r, n) \in Nat /\ Due(r, n + 1) = Due(r, n) + S
    BY <2>1, <2>3
  <2>9. \A n, m \in Nat : n <= m => Due(r, n) <= Due(r, m)
    BY <2>3
  <2>10. S \in Nat \ {0}
    BY <2>1
  <2> QED BY <1>1, <2>4, <2>5, <2>6, <2>7, <2>8, <2>9, <2>10 DEF S
<1>4. CASE r # Root
  <2>1. Len(r) # 0
    BY <1>2, <1>4, Paths
  <2>2. Depth = 2 /\ Len(r) = 1 /\ Place(r) = 2
    <3>1. Depth # 1
      BY <1>2, <2>1
    <3>2. Depth = 2
      BY <1>2, <3>1
    <3>3. Len(r) < 2
      BY <1>2, <3>2
    <3>4. Len(r) = 1
      BY <1>2, <2>1, <3>3
    <3> QED BY <3>2, <3>4 DEF Place
  <2>3. S = TeamSizes[1] /\ S \in Nat \ {0}
    BY <2>2, Spans
  <2>4. F \in 0..S-1
    BY <1>2, <1>4, <2>2, <2>3, Paths
  <2>5. S * ((R * Region) + 1) <= OffsetLimit
    BY <1>1, <2>2, <2>3
  <2>6. \A n : Due(r, n) = F + (S * n)
    BY DEF Due
  <2> HIDE DEF S, F
  <2>7. \A n \in Nat : S * (n + 1) = (S * n) + S /\ S * n \in Nat
    BY <2>3
  <2>8. ASSUME NEW n \in Nat PROVE Due(r, n) \in Nat /\ Due(r, n + 1) = Due(r, n) + S
    <3> DEFINE a == S * n
               b == S * (n + 1)
    <3>1. a \in Nat /\ b = a + S
      BY <2>7
    <3>2. Due(r, n) = F + a /\ Due(r, n + 1) = F + b
      BY <2>6
    <3> HIDE DEF a, b
    <3> QED BY <2>3, <2>4, <3>1, <3>2
  <2>9. ASSUME NEW n \in Nat, NEW m \in Nat, n <= m PROVE Due(r, n) <= Due(r, m)
    <3>1. S * n <= S * m /\ S * n \in Nat /\ S * m \in Nat
      BY <2>3, <2>9
    <3> QED BY <2>4, <2>6, <3>1
  <2>10. R * Region \in Nat /\ Due(r, R * Region) < OffsetLimit
    <3>1. R * Region \in Nat
      BY <1>1
    <3> DEFINE X == R * Region
    <3> HIDE DEF X
    <3>2. X \in Nat /\ S * (X + 1) <= OffsetLimit
      BY <2>5, <3>1 DEF X
    <3>3. Due(r, X) < OffsetLimit
      BY <1>1, <2>3, <2>4, <2>6, <2>7, <3>2
    <3> QED BY <3>1, <3>3 DEF X
  <2>11. \A f \in 0..R : f * Region \in Nat /\ f * Region <= R * Region
    BY <1>1
  <2>12. \A f \in 1..R : \A s \in 0..Region : ((f - 1) * Region) + s \in Nat /\ ((f - 1) * Region) + s <= f * Region
    BY <1>1
  <2>13. ASSUME NEW n \in Nat, n <= R * Region PROVE Due(r, n) < OffsetLimit
    <3>1. Due(r, n) <= Due(r, R * Region) /\ Due(r, n) \in Nat /\ Due(r, R * Region) \in Nat
      BY <2>8, <2>9, <2>10, <2>13
    <3> QED BY <1>1, <2>10, <3>1
  <2>14. \A f \in 1..R : \A s \in 0..Region : Due(r, ((f - 1) * Region) + s) < OffsetLimit
    <3> SUFFICES ASSUME NEW f \in 1..R, NEW s \in 0..Region
                 PROVE  Due(r, ((f - 1) * Region) + s) < OffsetLimit
      OBVIOUS
    <3>1. f * Region \in Nat /\ f * Region <= R * Region /\ ((f - 1) * Region) + s \in Nat
          /\ ((f - 1) * Region) + s <= f * Region
      BY <1>1, <2>11, <2>12
    <3>2. ((f - 1) * Region) + s <= R * Region
      BY <2>10, <3>1
    <3> QED BY <2>13, <3>1, <3>2
  <2> QED BY <1>1, <2>3, <2>8, <2>9, <2>11, <2>12, <2>13, <2>14 DEF S
<1> QED BY <1>3, <1>4

(* A label that keeps its own part keeps its times.                        *)
LEMMA OwnKept ==
  ASSUME Strong, Tame(program), NEW t \in Tasks, Exists(t), Spelled(t), at[t] # "released",
         Exists(t)', at'[t] # "released",
         \A k \in 1..Place(t) : label'[t][k] = label[t][k],
         Len(label'[t]) = Place(t) + ConstructDepth(t)',
         ConstructDepth(t)' = 1 => label'[t][Place(t) + 1] = SegmentAt(t)'
  PROVE  /\ Spelled(t)'
         /\ \A k \in 1..Place(t) : /\ Clock(t, k)' = Clock(t, k) /\ Count(t, k)' = Count(t, k)
                                   /\ label'[t][k].offset = label[t][k].offset
<1>1. 1 \in 1..Place(t) /\ \A k \in 2..Place(t) : k \in 1..Place(t)
  <2>1. Place(t) \in 1..Depth+1 /\ Depth \in {1, 2}
    BY Spans
  <2> QED BY <2>1
<1>2. Spelled(t)'
  BY <1>1 DEF Spelled
<1> QED BY <1>2 DEF Clock, Count

(* A step inside of a region leaves the clocks alone: the end of a barrier *)
(* shows in the label what the clock has known since it opened.            *)
LEMMA QuietTimes ==
  ASSUME Timed, NEW t \in Tasks, Quiet(t)
  PROVE  /\ Exists(t) /\ Exists(t)' /\ Spelled(t)'
         /\ \A k \in 1..Place(t) : Clock(t, k)' = Clock(t, k)
         /\ \A k \in 1..Len(t) : Count(t, k)' = Count(t, k)
         /\ Count(t, Place(t))' = Count(t, Place(t)) + Left(t)
         /\ \A k \in 1..Place(t) :
              label'[t][k].offset = label[t][k].offset
                                    + (IF BarrierEnd(t) /\ k = Len(t) THEN SpanAt(k) ELSE 0)
<1> USE DEF Timed, Spelling
<1> DEFINE l == label[t]
           P == Place(t)
<1>1. t # Root /\ TeamOf(t) \in Teams /\ t \in Tasks \ {Root} /\ Spelled(t)
  BY QuietFrame
<1>2. Exists(t) /\ Exists(t)'
  BY QuietPlaces DEF Exists, InSingle
<1>3. /\ l \in Seq(SegmentType) /\ P \in 1..Len(l) /\ ConstructDepth(t) \in {0, 1}
      /\ Len(l) = P + ConstructDepth(t) /\ Len(t) \in Nat /\ P = Len(t) + 1 /\ Len(t) >= 1
      /\ Len(l) >= 1
      /\ \A k \in 1..P : l[k].offset \in Nat /\ Count(t, k) \in Nat
  <2>1. Len(t) \in Nat /\ P = Len(t) + 1 /\ Len(t) # 0
    BY <1>1, Spans, Paths
  <2> QED BY <1>1, <1>2, <2>1, TimesKnown
<1>4. CASE /\ ConstructDepth(t) = 0 \/ at'[t] # "free" \/ ~ InLoop(t)
           /\ at[t] # "released" /\ at'[t] # "released" /\ Left(t) = 0 /\ ~ BarrierEnd(t)
           /\ \A k \in 1..P : label'[t][k] = l[k]
           /\ Len(label'[t]) = P + ConstructDepth(t)'
           /\ ConstructDepth(t)' = 1 => label'[t][P + 1] = SegmentAt(t)'
  <2>1. /\ Spelled(t)'
        /\ \A k \in 1..P : /\ Clock(t, k)' = Clock(t, k) /\ Count(t, k)' = Count(t, k)
                           /\ label'[t][k].offset = label[t][k].offset
    BY <1>1, <1>2, <1>4, OwnKept
  <2> QED BY <1>2, <1>3, <1>4, <2>1
<1>5. CASE Reaching(t) /\ at[t] = "free"
  <2>1. ConstructDepth(t) = 0 /\ Left(t) = 0 /\ ~ BarrierEnd(t) /\ at[t] # "released"
    BY <1>5 DEF ConstructDepth, InLoop, InSingle, WorkPlaces, Left, BarrierEnd
  <2>2. CASE at'[t] = "barrier" /\ label'[t] = l
    <3>1. ConstructDepth(t)' = 0
      BY <2>2 DEF ConstructDepth, InLoop, InSingle, WorkPlaces
    <3> QED BY <1>3, <1>4, <2>1, <2>2, <3>1
  <2>3. CASE /\ at'[t] \in {"chunk", "preamble", "single", "other"}
             /\ label'[t] = Append(l, SegmentAt(t)')
    <3>1. ConstructDepth(t)' = 1
      BY <2>3 DEF ConstructDepth, InLoop, InSingle, WorkPlaces
    <3>2. Fresh(SegmentAt(t)')
      BY <2>3, NewSegments DEF SegmentAt
    <3>3. /\ Len(label'[t]) = Len(l) + 1 /\ label'[t][Len(l) + 1] = SegmentAt(t)'
          /\ \A k \in 1..Len(l) : label'[t][k] = l[k]
      BY <1>3, <2>3, <3>2, Extended
    <3>4. Len(l) = P
      BY <1>3, <2>1
    <3> HIDE DEF l, P
    <3> QED BY <1>4, <2>1, <2>3, <3>1, <3>3, <3>4 DEF l, P
  <2> QED BY <1>5, <2>2, <2>3, QuietPlaces DEF Dispatch, EndLoop, EndSections, EndSingle, BarrierEnd,
                                             Idles, WorkPlaces
<1>6. CASE /\ Dispatch(t) /\ at[t] \in {"preamble", "work"} /\ at'[t] = "work"
           /\ label'[t] = ReplaceLast(label[t], Kind(Construct(t), iter'[t]))
           /\ iter'[t] \in Nat /\ Construct(t)' = Construct(t)
  <2>1. /\ ConstructDepth(t) = 1 /\ ConstructDepth(t)' = 1 /\ Left(t) = 0 /\ ~ BarrierEnd(t)
        /\ at[t] # "released" /\ at'[t] # "released"
    BY <1>6 DEF ConstructDepth, InLoop, InSingle, WorkPlaces, Left, BarrierEnd
  <2>2. SegmentAt(t)' = Kind(Construct(t), iter'[t])
    BY <1>6 DEF SegmentAt, Kind
  <2>3. Kind(Construct(t), iter'[t]) \in SegmentType
    BY <1>6, NewSegments DEF Kind, Fresh
  <2> DEFINE seg == Kind(Construct(t), iter'[t])
  <2>4. /\ Len(label'[t]) = Len(l) /\ label'[t][Len(l)] = SegmentAt(t)'
        /\ \A k \in 1..Len(l)-1 : label'[t][k] = l[k]
    <3>1. seg \in SegmentType /\ label'[t] = ReplaceLast(l, seg) /\ SegmentAt(t)' = seg
      BY <1>6, <2>2, <2>3
    <3>2. l \in Seq(SegmentType) /\ Len(l) >= 1
      BY <1>3
    <3> HIDE DEF seg, l
    <3>3. /\ Len(ReplaceLast(l, seg)) = Len(l) /\ ReplaceLast(l, seg)[Len(l)] = seg
          /\ \A k \in 1..Len(l)-1 : ReplaceLast(l, seg)[k] = l[k]
      BY <3>1, <3>2, Replaced
    <3> QED BY <3>1, <3>3
  <2>5. Len(l) = P + 1 /\ P \in Nat
    BY <1>3, <2>1
  <2> HIDE DEF l, P, seg
  <2>6. Len(l) - 1 = P
    BY <2>5
  <2>7. \A k \in 1..P : label'[t][k] = l[k]
    BY <2>4, <2>6
  <2> QED BY <1>4, <1>6, <2>1, <2>4, <2>5, <2>7 DEF l, P
<1>7. CASE EndSingle(t) /\ InSingle(t) /\ at'[t] = "barrier" /\ label'[t] = Front(l)
  <2>1. /\ ConstructDepth(t) = 1 /\ ConstructDepth(t)' = 0 /\ Left(t) = 0 /\ ~ BarrierEnd(t)
        /\ at[t] # "released" /\ at'[t] # "released"
    BY <1>7 DEF ConstructDepth, InLoop, InSingle, WorkPlaces, Left, BarrierEnd
  <2>2. Len(l) >= 1
    BY <1>3
  <2> HIDE DEF l
  <2>3. Len(label'[t]) = Len(l) - 1 /\ \A k \in 1..Len(l)-1 : label'[t][k] = l[k]
    BY <1>3, <1>7, <2>2, Shortened
  <2> HIDE DEF P
  <2>4. Len(l) - 1 = P /\ P + 0 = P
    BY <1>3, <2>1
  <2>5. Len(label'[t]) = P + 0 /\ \A k \in 1..P : label'[t][k] = l[k]
    BY <2>3, <2>4
  <2> QED BY <1>4, <1>7, <2>1, <2>5 DEF l, P
<1>8. CASE /\ EndLoop(t) \/ EndSections(t)
           /\ at[t] \in {"preamble", "work", "chunk"}
           /\ at'[t] \in {"barrier", "free"} /\ label'[t] = MutateLoopEnd(l)
  <2>1. /\ ConstructDepth(t) = 1 /\ ConstructDepth(t)' = 0 /\ Left(t) = 1 /\ ~ BarrierEnd(t)
        /\ at[t] # "released" /\ at'[t] # "released"
    BY <1>8 DEF ConstructDepth, InLoop, InSingle, WorkPlaces, Left, BarrierEnd
  <2>2. Len(l) = P + 1 /\ Len(l) >= 2
    BY <1>3, <2>1
  <2> DEFINE f == Front(l)
             new == [Last(f) EXCEPT !.loopCount = @ + 1]
  <2>3. f \in Seq(SegmentType) /\ Len(f) = P /\ \A k \in 1..P : f[k] = l[k]
    <3>1. f \in Seq(SegmentType) /\ Len(f) = Len(l) - 1 /\ \A k \in 1..Len(l)-1 : f[k] = l[k]
      BY <1>3, Shortened
    <3>2. Len(l) - 1 = P
      BY <1>3, <2>2
    <3> HIDE DEF f, l, P
    <3> QED BY <3>1, <3>2
  <2>4. Last(f) = l[P] /\ Last(f) \in SegmentType /\ Len(f) >= 1
    BY <1>3, <2>3, Fronts
  <2>5. l[P] \in OwnType(SpanAt(P))
    BY <1>1, <1>2, <1>3 DEF Spelled
  <2>6. new \in OwnType(SpanAt(P)) /\ new.offset = l[P].offset /\ new.loopCount = l[P].loopCount + 1
    BY <2>4, <2>5, OwnSegments
  <2>7. new \in SegmentType
    BY <2>4, CountsMove
  <2>8. label'[t] = ReplaceLast(f, new)
    BY <1>8 DEF MutateLoopEnd
  <2> HIDE DEF f, new
  <2>9. /\ Len(label'[t]) = P /\ label'[t][P] = new
        /\ \A k \in 1..P-1 : label'[t][k] = l[k]
    <3>1. /\ Len(ReplaceLast(f, new)) = Len(f) /\ ReplaceLast(f, new)[Len(f)] = new
          /\ \A k \in 1..Len(f)-1 : ReplaceLast(f, new)[k] = f[k]
      <4>1. f \in Seq(SegmentType) /\ Len(f) >= 1 /\ new \in SegmentType
        BY <2>3, <2>4, <2>7
      <4> QED BY <4>1, Replaced
    <3>2. \A k \in 1..P-1 : k \in 1..P
      BY <1>3
    <3> HIDE DEF l, P
    <3> QED BY <2>3, <2>8, <3>1, <3>2
  <2>10. \A k \in 1..P : /\ label'[t][k] \in OwnType(SpanAt(k)) /\ label'[t][k].offset = l[k].offset
                         /\ k # P => label'[t][k].loopCount = l[k].loopCount
    <3> SUFFICES ASSUME NEW k \in 1..P
                 PROVE  /\ label'[t][k] \in OwnType(SpanAt(k)) /\ label'[t][k].offset = l[k].offset
                        /\ k # P => label'[t][k].loopCount = l[k].loopCount
      OBVIOUS
    <3>1. k = P \/ (k \in 1..P-1 /\ k # P)
      BY <1>3
    <3>2. l[k] \in OwnType(SpanAt(k))
      BY <1>1, <1>2 DEF Spelled
    <3> QED BY <2>6, <2>9, <3>1, <3>2
  <2>11. P # 1 /\ 1 \in 1..P /\ \A k \in 2..P : k \in 1..P
    BY <1>3
  <2>12. Spelled(t)'
    <3>1. Len(label'[t]) = P + ConstructDepth(t)'
      BY <1>3, <2>1, <2>9
    <3>2. label'[t][1].loopCount = 0
      BY <1>1, <1>2, <2>10, <2>11 DEF Spelled
    <3>3. \A k \in 2..P : label'[t][k].offset % SpanAt(k) = t[k-1]
      BY <1>1, <1>2, <2>10, <2>11 DEF Spelled
    <3> QED BY <2>1, <2>10, <3>1, <3>2, <3>3 DEF Spelled
  <2>13. \A k \in 1..P : Clock(t, k)' = Clock(t, k) /\ label'[t][k].offset = l[k].offset + 0
    BY <1>3, <2>1, <2>10 DEF Clock
  <2>14. \A k \in 1..Len(t) : k \in 1..P /\ k # P
    BY <1>3
  <2>15. \A k \in 1..Len(t) : Count(t, k)' = Count(t, k)
    BY <2>10, <2>14 DEF Count
  <2>16. Count(t, P)' = Count(t, P) + Left(t)
    BY <2>1, <2>6, <2>9 DEF Count
  <2> QED BY <1>2, <2>1, <2>12, <2>13, <2>15, <2>16
<1>9. CASE /\ BarrierEnd(t) /\ at[t] = "released" /\ label'[t] = MutateBarrierEnd(l)
           /\ at'[t] \in {"ending", "free"}
  <2>1. /\ ConstructDepth(t) = 0 /\ ConstructDepth(t)' = 0 /\ Left(t) = 0
    BY <1>9 DEF ConstructDepth, InLoop, InSingle, WorkPlaces, Left
  <2> DEFINE p == Len(t)
             S == SpanAt(p)
             new == SetOffset(l[p], l[p].offset + l[p].span)
  <2>2. p \in 1..P /\ p = Len(l) - 1 /\ p \in 1..Len(l) /\ p # P
    BY <1>3, <2>1
  <2>3. l[p] \in OwnType(S) /\ l[p].span = S /\ l[p].offset \in Nat
    BY <1>1, <1>2, <2>2, OwnSegments DEF Spelled
  <2>4. S \in Nat \ {0}
    <3>1. p \in 1..Depth+1
      <4>1. P \in 1..Depth+1 /\ Depth \in {1, 2}
        BY Spans
      <4> QED BY <2>2, <4>1
    <3> QED BY <3>1, Spans
  <2>5. l[p].offset + S < OffsetLimit
    <3> DEFINE r == TeamOf(t)
               n == ((forks[r] - 1) * Region) + step[t]
    <3>1. /\ Place(r) = p /\ t \in MembersOf(r) /\ r \in Teams
      BY <1>1, Paths, Tree DEF Place
    <3>2. /\ forks[r] > 0
          /\ l[p].offset + (IF at[t] \in {"free", "ending"} THEN 0 ELSE S) <= Due(r, n)
      BY <1>2, <1>9, <3>1 DEF Counted, CountedIn
    <3>3. forks[r] \in 1..program.regions /\ step[t] \in 0..Region
      <4>1. forks[r] \in 0..program.regions /\ program.regions \in Nat
        BY <3>1, ProgramBounds DEF Strong, DataTypes, Labelled, Control, ControlTypes
      <4>2. step[t] \in 0..Region
        BY StrongImplies DEF IInv, TypeOK, Region
      <4> QED BY <3>2, <4>1, <4>2
    <3>4. Due(r, n) < OffsetLimit /\ Due(r, n) \in Nat
      BY <3>1, <3>3, Dues DEF Strong, Labelled, Control, ControlTypes
    <3> HIDE DEF n
    <3> QED BY <1>9, <2>3, <2>4, <3>2, <3>4, Widths
  <2>6. (l[p].offset + S) % OffsetLimit = l[p].offset + S
    <3> DEFINE x == l[p].offset + S
    <3>1. x \in Nat /\ x < OffsetLimit
      BY <2>3, <2>4, <2>5
    <3> HIDE DEF x
    <3>2. OffsetLimit \in Nat \ {0}
      BY Widths
    <3>3. x % OffsetLimit = x
      BY <3>1, <3>2, Turns
    <3> QED BY <3>3 DEF x
  <2>7. new \in OwnType(S) /\ new.offset = l[p].offset + S /\ new.loopCount = l[p].loopCount
    <3> DEFINE x == l[p].offset + S
    <3>1. x \in Nat /\ x % OffsetLimit = x /\ new = SetOffset(l[p], x)
      BY <2>3, <2>4, <2>6
    <3> HIDE DEF x, S
    <3>2. /\ SetOffset(l[p], x) \in OwnType(S) /\ SetOffset(l[p], x).offset = x % OffsetLimit
          /\ SetOffset(l[p], x).loopCount = l[p].loopCount
      BY <2>3, <3>1, OwnSegments
    <3> QED BY <3>1, <3>2 DEF x
  <2>8. label'[t] = [l EXCEPT ![p] = new]
    BY <1>9, <2>2 DEF MutateBarrierEnd, ReplaceAt
  <2> HIDE DEF new
  <2>9. Len(label'[t]) = Len(l) /\ \A k \in 1..Len(l) : label'[t][k] = IF k = p THEN new ELSE l[k]
    BY <1>3, <2>2, <2>8
  <2>10. \A k \in 1..P : /\ label'[t][k] \in OwnType(SpanAt(k))
                         /\ label'[t][k].offset = l[k].offset + (IF k = p THEN S ELSE 0)
                         /\ label'[t][k].loopCount = l[k].loopCount
                         /\ l[k].offset \in Nat /\ SpanAt(k) \in Nat \ {0}
    <3> SUFFICES ASSUME NEW k \in 1..P
                 PROVE  /\ label'[t][k] \in OwnType(SpanAt(k))
                        /\ label'[t][k].offset = l[k].offset + (IF k = p THEN S ELSE 0)
                        /\ label'[t][k].loopCount = l[k].loopCount
                        /\ l[k].offset \in Nat /\ SpanAt(k) \in Nat \ {0}
      OBVIOUS
    <3>1. l[k] \in OwnType(SpanAt(k)) /\ l[k].offset \in Nat /\ k \in 1..Len(l)
      BY <1>1, <1>2, <1>3 DEF Spelled
    <3>2. SpanAt(k) \in Nat \ {0}
      <4>1. P \in 1..Depth+1 /\ Depth \in {1, 2}
        BY Spans
      <4>2. k \in 1..Depth+1
        BY <4>1
      <4> QED BY <4>2, Spans
    <3> QED BY <2>7, <2>9, <3>1, <3>2
  <2>11. 1 \in 1..P /\ \A k \in 2..P : k \in 1..P
    BY <1>3
  <2>12. Spelled(t)'
    <3>1. Len(label'[t]) = P + ConstructDepth(t)'
      BY <1>3, <2>1, <2>9
    <3>2. label'[t][1].loopCount = 0
      BY <1>1, <1>2, <2>10, <2>11 DEF Spelled
    <3>3. ASSUME NEW k \in 2..P PROVE label'[t][k].offset % SpanAt(k) = t[k-1]
      <4>1. l[k].offset % SpanAt(k) = t[k-1]
        BY <1>1, <1>2 DEF Spelled
      <4>2. label'[t][k].offset = l[k].offset \/ label'[t][k].offset = l[k].offset + SpanAt(k)
        BY <2>10, <2>11
      <4>3. (l[k].offset + SpanAt(k)) % SpanAt(k) = l[k].offset % SpanAt(k)
        BY <2>10, <2>11, Turns
      <4> QED BY <4>1, <4>2, <4>3
    <3> QED BY <2>1, <2>10, <3>1, <3>2, <3>3 DEF Spelled
  <2>13. \A k \in 1..P : Clock(t, k)' = Clock(t, k)
    <3> SUFFICES ASSUME NEW k \in 1..P PROVE Clock(t, k)' = Clock(t, k)
      OBVIOUS
    <3>1. Clock(t, k) = l[k].offset + (IF k = p THEN S ELSE 0)
      BY <1>9 DEF Clock
    <3>2. Clock(t, k)' = label'[t][k].offset + 0
      BY <1>9 DEF Clock
    <3>3. label'[t][k].offset \in Nat
      BY <2>4, <2>10
    <3> QED BY <2>10, <3>1, <3>2, <3>3
  <2>14. \A k \in 1..P : Count(t, k)' = Count(t, k)
    BY <2>10 DEF Count
  <2>15. Count(t, P)' = Count(t, P) + Left(t) /\ \A k \in 1..Len(t) : k \in 1..P
    BY <1>3, <2>1, <2>14
  <2>16. \A k \in 1..P : label'[t][k].offset
                 = l[k].offset + (IF BarrierEnd(t) /\ k = Len(t) THEN SpanAt(k) ELSE 0)
    BY <1>9, <2>10
  <2> QED BY <1>2, <2>12, <2>13, <2>14, <2>15, <2>16
<1> HIDE DEF l, P
<1>10. Reaching(t) \/ Dispatch(t) \/ EndLoop(t) \/ EndSections(t) \/ EndSingle(t) \/ BarrierEnd(t)
  BY QuietPlaces
<1> QED BY <1>5, <1>6, <1>7, <1>8, <1>9, QuietPlaces DEF l

(* What the begin of an implicit task does: the new member stands at the   *)
(* time of the task that forked, at the start of its own.                  *)
LEMMA BeginEffect ==
  ASSUME Timed, NEW t \in Tasks, ImplicitTaskBegin(t)
  PROVE  /\ t # Root /\ TeamOf(t) \in Teams /\ TeamOf(t) \in Tasks /\ t \in MembersOf(TeamOf(t))
         /\ TeamOf(t) # t
         /\ open[TeamOf(t)] /\ at[TeamOf(t)] = "free" /\ Exists(TeamOf(t)) /\ at[t] = "starting"
         /\ Place(TeamOf(t)) = Len(t) /\ step[t] = 0
         /\ at'[t] = "free" /\ Exists(t)' /\ ConstructDepth(t)' = 0
         /\ \A u \in Tasks : u # t => Rests(u) /\ knows'[u] = knows[u]
         /\ knows'[t] = knows[TeamOf(t)] /\ inWork'[t] = inWork[t] /\ loose'[t] = loose[t]
         /\ UNCHANGED <<program, open, forks, step, script, taken, hist>>
         /\ Spelled(t)' /\ Len(label'[t]) = Place(t)
         /\ \A k \in 1..Len(t) : label'[t][k] = label[TeamOf(t)][k]
         /\ \A k \in 1..Len(t) :
              Clock(t, k)' = Clock(TeamOf(t), k) /\ Count(t, k)' = Count(TeamOf(t), k)
         /\ label'[t][Place(t)].offset = Last(t) /\ Clock(t, Place(t))' = Last(t)
         /\ Count(t, Place(t))' = 0
<1> USE DEF Timed, Strong, Labelled
<1> DEFINE r == TeamOf(t)
           l == label[r]
           seg == ImplicitSegment(Last(t), TeamSizes[Len(t)])
<1>1. /\ at[t] = "starting" /\ Relabel(t, Append(l, seg)) /\ Go(t, "free")
      /\ knows' = [knows EXCEPT ![t] = Knows(r)]
      /\ UNCHANGED <<program, open, forks, step, script, taken, iter, hist, inWork, loose>>
  BY DEF ImplicitTaskBegin, GenImpTaskLabel, teamVars
<1>2. /\ label \in [Tasks -> Seq(SegmentType)] /\ at \in [Tasks -> Places]
      /\ knows \in [Tasks -> BOOLEAN] /\ Control
  BY DEF LabelTypes, Control, ControlTypes, TruthTypes
<1>3. t # Root
  BY <1>1, <1>2 DEF Control, PlacesFit
<1>4. r \in Teams /\ r \in Tasks /\ t \in MembersOf(r) /\ r # t
  BY <1>3, Tree
<1>5. open[r] /\ at[r] = "free" /\ Exists(r)
  BY <1>1, <1>2, <1>3, <1>4 DEF Control, OpenRegions, Plain, Exists
<1>6. step[t] = 0
  BY <1>1, <1>2, <1>3 DEF Control, PlacesFit, Exists
<1>7. /\ Len(t) \in Nat /\ Place(t) = Len(t) + 1 /\ Place(r) = Len(t) /\ Len(t) >= 1
      /\ Last(t) \in 0..TeamSizes[Len(t)]-1 /\ t[Len(t)] = Last(t)
      /\ \A k \in 1..Len(t)-1 : t[k] = r[k]
  <2>1. Len(t) = Len(r) + 1 /\ Len(r) \in Nat /\ Len(t) \in Nat
    BY <1>3, <1>4, Paths, Spans
  <2>2. /\ Last(t) \in 0..TeamSizes[Len(t)]-1 /\ t[Len(t)] = Last(t)
        /\ \A k \in 1..Len(t)-1 : t[k] = r[k]
    BY <1>3, Paths
  <2>3. Place(t) = Len(t) + 1 /\ Place(r) = Len(r) + 1
    BY DEF Place
  <2> QED BY <2>1, <2>2, <2>3
<1>8. SpanAt(Place(t)) = TeamSizes[Len(t)] /\ TeamSizes[Len(t)] \in 1..OffsetLimit-1 /\ OffsetLimit \in Nat
  <2>1. Place(t) # 1 /\ Place(t) - 1 = Len(t)
    BY <1>7
  <2> QED BY <1>3, <2>1, Tree, Widths DEF SpanAt
<1>9. /\ l \in Seq(SegmentType) /\ Len(l) = Len(t) /\ Spelled(r) /\ ConstructDepth(r) = 0
      /\ \A k \in 1..Len(t) : Clock(r, k) = l[k].offset
  <2>1. ConstructDepth(r) = 0 /\ at[r] # "released"
    BY <1>5 DEF ConstructDepth, InLoop, InSingle, WorkPlaces
  <2>2. Spelled(r)
    BY <1>4 DEF Spelling
  <2>3. Len(l) = Place(r) + 0
    BY <1>5, <2>1, <2>2 DEF Spelled
  <2>4. l \in Seq(SegmentType) /\ \A k \in 1..Place(r) : Clock(r, k) = l[k].offset
    BY <1>4, <1>5, <2>1, <2>2, TimesKnown
  <2>5. Len(l) = Len(t)
    BY <1>7, <2>3
  <2> QED BY <1>7, <2>1, <2>2, <2>4, <2>5
<1>10. seg \in OwnType(SpanAt(Place(t))) /\ seg.offset = Last(t) /\ seg.loopCount = 0 /\ seg \in SegmentType
  <2>1. Last(t) \in Nat
    BY <1>7, <1>8
  <2>2. Fresh(seg)
    BY <1>3, <1>8, Tree, NewSegments
  <2> QED BY <1>8, <2>1, <2>2, OwnSegments DEF Fresh
<1>11. label'[t] = Append(l, seg) /\ \A u \in Tasks : u # t => label'[u] = label[u]
  BY <1>1, <1>2 DEF Relabel
<1> HIDE DEF seg
<1>12. /\ Len(label'[t]) = Place(t) /\ label'[t][Place(t)] = seg
       /\ \A k \in 1..Len(t) : label'[t][k] = l[k]
  <2>1. l \in Seq(SegmentType) /\ Len(l) = Len(t) /\ Place(t) = Len(t) + 1
    BY <1>7, <1>9
  <2> HIDE DEF l
  <2>2. /\ Len(Append(l, seg)) = Len(l) + 1 /\ Append(l, seg)[Len(l) + 1] = seg
        /\ \A k \in 1..Len(l) : Append(l, seg)[k] = l[k]
    BY <1>10, <2>1, Ends
  <2> QED BY <1>11, <2>1, <2>2
<1>13. at'[t] = "free" /\ \A u \in Tasks : u # t => at'[u] = at[u]
  BY <1>1, <1>2 DEF Go
<1>14. Exists(t)' /\ ConstructDepth(t)' = 0
  BY <1>13 DEF Exists, ConstructDepth, InLoop, InSingle, WorkPlaces
<1>15. knows'[t] = knows[r] /\ \A u \in Tasks : u # t => knows'[u] = knows[u]
  <2>1. Knows(r) = knows[r]
    BY <1>5 DEF Knows, WorkPlaces
  <2> QED BY <1>1, <1>2, <2>1
<1>16. \A u \in Tasks : u # t => Rests(u)
  BY <1>1, <1>11, <1>13 DEF Rests
<1>17. \A k \in 1..Len(t) : Clock(t, k)' = Clock(r, k) /\ Count(t, k)' = Count(r, k)
  <2>1. \A k \in 1..Len(t) : l[k].offset \in Nat
    BY <1>4, <1>5, <1>7, <1>9, TimesKnown
  <2>2. \A k \in 1..Len(t) : Clock(t, k)' = label'[t][k].offset + 0
    BY <1>13 DEF Clock
  <2> QED BY <1>9, <1>12, <2>1, <2>2 DEF Count
<1>18. /\ label'[t][Place(t)].offset = Last(t) /\ Clock(t, Place(t))' = Last(t)
       /\ Count(t, Place(t))' = 0
  <2>1. Clock(t, Place(t))' = label'[t][Place(t)].offset + 0
    BY <1>13 DEF Clock
  <2> QED BY <1>7, <1>8, <1>10, <1>12, <2>1 DEF Count
<1>19. Spelled(t)'
  <2>1. Len(label'[t]) = Place(t) + ConstructDepth(t)'
    BY <1>7, <1>12, <1>14
  <2>2. label'[t][1].loopCount = 0 /\ 1 \in 1..Len(t)
    BY <1>5, <1>7, <1>9, <1>12 DEF Spelled
  <2>3. \A k \in 1..Place(t) : k \in 1..Len(t) \/ k = Place(t)
    BY <1>7
  <2>4. \A k \in 1..Place(t) : label'[t][k] \in OwnType(SpanAt(k))
    BY <1>5, <1>7, <1>9, <1>10, <1>12, <2>3 DEF Spelled
  <2>5. ASSUME NEW k \in 2..Place(t) PROVE label'[t][k].offset % SpanAt(k) = t[k-1]
    <3>1. CASE k \in 1..Len(t)
      <4>1. l[k].offset % SpanAt(k) = r[k-1]
        BY <1>5, <1>7, <1>9, <3>1 DEF Spelled
      <4>2. k - 1 \in 1..Len(t)-1
        BY <1>7, <3>1
      <4> QED BY <1>7, <1>12, <3>1, <4>1, <4>2
    <3>2. CASE k = Place(t)
      <4>1. Last(t) \in Nat /\ Last(t) < TeamSizes[Len(t)] /\ TeamSizes[Len(t)] \in Nat \ {0}
        BY <1>7, <1>8
      <4>2. Last(t) % TeamSizes[Len(t)] = Last(t)
        BY <4>1, Turns
      <4>3. k - 1 = Len(t)
        BY <1>7, <3>2
      <4> QED BY <1>7, <1>8, <1>18, <3>2, <4>2, <4>3
    <3> QED BY <2>3, <3>1, <3>2
  <2> QED BY <1>14, <2>1, <2>2, <2>4, <2>5 DEF Spelled
<1> HIDE DEF l
<1> QED BY <1>1, <1>3, <1>4, <1>5, <1>6, <1>7, <1>12, <1>13, <1>14, <1>15, <1>16, <1>17, <1>18, <1>19 DEF l

(* When a member is past the barrier that ends the region, all are.        *)
LEMMA Finished ==
  ASSUME Control, NEW t \in Tasks \ {Root}, at[t] \in {"released", "ending"}, Construct(t) = "end"
  PROVE  \A u \in MembersOf(TeamOf(t)) :
           /\ at[u] \in {"none", "released", "ending"}
           /\ at[u] # "none" => Construct(u) = "end" /\ step[u] = step[t]
<1> DEFINE r == TeamOf(t)
           k == step[t]
<1> SUFFICES ASSUME NEW u \in MembersOf(r)
             PROVE  /\ at[u] \in {"none", "released", "ending"}
                    /\ at[u] # "none" => Construct(u) = "end" /\ step[u] = k
  OBVIOUS
<1>1. r \in Teams /\ t \in MembersOf(r) /\ u \in Tasks \ {Root} /\ TeamOf(u) = r
  BY Tree
<1>2. k \in 1..Len(script[r]) /\ script[r][k] = "end" /\ k = Len(script[r])
  <2>1. k \in 1..Len(script[r])
    BY ConstructKnown DEF Control, Exists
  <2> QED BY <1>1, <2>1 DEF Control, ScriptsEnd, Construct
<1>3. step[u] \in Nat /\ step[u] <= Len(script[r]) /\ Len(script[r]) \in Nat
  BY <1>1, ConstructKnown DEF Control, PlacesFit
<1>4. at[u] = "none" \/ Passed(u, k)
  <2>1. Passed(t, k) /\ "end" \notin NoWait
    BY DEF Passed, NoWait
  <2> HIDE DEF k, r
  <2>2. Passed(u, k) \/ at[u] = "none"
    BY <1>1, <1>2, <2>1 DEF Control, BarriersHold
  <2> QED BY <2>2
<1>5. ASSUME at[u] # "none"
      PROVE  /\ at[u] \in {"released", "ending"} /\ Construct(u) = "end" /\ step[u] = k
  <2>1. Passed(u, k)
    BY <1>4, <1>5
  <2> HIDE DEF k
  <2>2. step[u] = k /\ at[u] \in {"released", "free", "ending"}
    BY <1>2, <1>3, <2>1 DEF Passed
  <2>3. Construct(u) = "end"
    BY <1>1, <1>2, <2>2 DEF Construct
  <2>4. at[u] # "free"
    BY <1>1, <1>2, <2>2, <2>3 DEF Control, PlacesFit
  <2> QED BY <2>2, <2>3, <2>4
<1> QED BY <1>5

(* What the end of a region does: the task that forked takes the time of   *)
(* the member with index 0.                                                *)
LEMMA MasterEffect ==
  ASSUME Timed, NEW t \in Tasks, ImplicitTaskEndMaster(t)
  PROVE  /\ t # Root /\ TeamOf(t) \in Teams /\ TeamOf(t) \in Tasks /\ t \in MembersOf(TeamOf(t))
         /\ TeamOf(t) # t
         /\ open[TeamOf(t)] /\ at[TeamOf(t)] = "free" /\ Exists(TeamOf(t)) /\ Exists(t)
         /\ at[t] = "ending" /\ Construct(t) = "end" /\ Place(TeamOf(t)) = Len(t)
         /\ at'[t] = "none" /\ step'[t] = 0 /\ ~ Exists(t)'
         /\ at'[TeamOf(t)] = "free" /\ Exists(TeamOf(t))' /\ step'[TeamOf(t)] = step[TeamOf(t)]
         /\ inWork' = inWork /\ loose' = loose
         /\ \A u \in Tasks : u # t => at'[u] = at[u]
         /\ \A u \in Tasks : u \notin {t, TeamOf(t)} => Rests(u) /\ knows'[u] = knows[u]
         /\ knows'[TeamOf(t)] = (knows[TeamOf(t)] \/ knows[t])
         /\ ~ open'[TeamOf(t)] /\ \A q \in Teams : q # TeamOf(t) => open'[q] = open[q]
         /\ UNCHANGED <<program, forks, script, taken, hist>>
         /\ Spelled(TeamOf(t))' /\ Len(label'[TeamOf(t)]) = Len(t)
         /\ \A k \in 1..Len(t) :
              /\ label'[TeamOf(t)][k].offset = label[t][k].offset
              /\ Clock(TeamOf(t), k)' = Clock(t, k) /\ Count(TeamOf(t), k)' = Count(t, k)
<1> USE DEF Timed, Strong, Labelled
<1> DEFINE r == TeamOf(t)
           l == label[t]
<1>1. /\ at[t] = "ending" /\ Last(t) = 0
      /\ label' = [label EXCEPT ![r] = Front(l), ![t] = <<>>]
      /\ at' = [at EXCEPT ![t] = "none"] /\ step' = [step EXCEPT ![t] = 0]
      /\ open' = [open EXCEPT ![r] = FALSE] /\ loose' = loose
      /\ UNCHANGED <<program, forks, script, taken, iter, hist>>
  BY DEF ImplicitTaskEndMaster, MutateParentImpEnd, Vanishes, Go, teamVars
<1>2. /\ label \in [Tasks -> Seq(SegmentType)] /\ at \in [Tasks -> Places] /\ step \in [Tasks -> Nat]
      /\ knows \in [Tasks -> BOOLEAN] /\ Control /\ open \in [Teams -> BOOLEAN]
  BY DEF LabelTypes, Control, ControlTypes, TruthTypes
<1>3. t # Root
  BY <1>1, <1>2 DEF Control, PlacesFit
<1>4. r \in Teams /\ r \in Tasks /\ t \in MembersOf(r) /\ r # t
  BY <1>3, Tree
<1>5. open[r] /\ at[r] = "free" /\ Exists(r) /\ Exists(t) /\ Construct(t) = "end"
  <2>1. open[r]
    BY <1>1, <1>2, <1>3, OpenAround
  <2>2. Construct(t) = "end"
    BY <1>1, <1>2, <1>3 DEF Control, PlacesFit
  <2> QED BY <1>1, <1>4, <2>1, <2>2 DEF Plain, Exists
<1>6. /\ at'[t] = "none" /\ step'[t] = 0 /\ at'[r] = "free" /\ step'[r] = step[r]
      /\ \A u \in Tasks : u # t => at'[u] = at[u]
      /\ ~ Exists(t)' /\ Exists(r)'
  BY <1>1, <1>2, <1>4, <1>5 DEF Exists
<1>7. /\ inWork' = inWork /\ knows' = [knows EXCEPT ![r] = @ \/ knows[t], ![t] = FALSE]
  BY <1>5 DEF ImplicitTaskEndMaster, WorkPlaces
<1>8. /\ knows'[r] = (knows[r] \/ knows[t])
      /\ \A u \in Tasks : u \notin {t, r} => knows'[u] = knows[u]
  BY <1>2, <1>4, <1>7
<1>9. /\ label'[r] = Front(l) /\ \A u \in Tasks : u \notin {t, r} => label'[u] = label[u]
  BY <1>1, <1>2, <1>4
<1>10. \A u \in Tasks : u \notin {t, r} => Rests(u)
  <2> SUFFICES ASSUME NEW u \in Tasks, u # t, u # r PROVE Rests(u)
    OBVIOUS
  <2>1. step'[u] = step[u]
    BY <1>1, <1>2
  <2> QED BY <1>1, <1>6, <1>7, <1>9, <2>1 DEF Rests
<1>11. ~ open'[r] /\ \A q \in Teams : q # r => open'[q] = open[q]
  BY <1>1, <1>2, <1>4
<1>12. /\ Len(t) \in Nat /\ Place(t) = Len(t) + 1 /\ Place(r) = Len(t) /\ Len(t) >= 1
       /\ \A k \in 1..Len(t)-1 : t[k] = r[k]
  <2>1. Len(t) = Len(r) + 1 /\ Len(r) \in Nat /\ Len(t) \in Nat
    BY <1>3, <1>4, Paths, Spans
  <2> QED BY <1>3, <2>1, Paths DEF Place
<1>13. /\ l \in Seq(SegmentType) /\ Len(l) = Place(t) /\ Spelled(t)
       /\ \A k \in 1..Place(t) : Clock(t, k) = l[k].offset
  <2>1. ConstructDepth(t) = 0 /\ at[t] # "released"
    BY <1>1 DEF ConstructDepth, InLoop, InSingle, WorkPlaces
  <2>2. Spelled(t)
    BY DEF Spelling
  <2>3. Len(l) = Place(t) + 0
    BY <1>5, <2>1, <2>2 DEF Spelled
  <2>4. l \in Seq(SegmentType) /\ \A k \in 1..Place(t) : Clock(t, k) = l[k].offset
    BY <1>5, <2>1, <2>2, TimesKnown
  <2>5. Len(l) = Place(t)
    BY <1>12, <2>3
  <2> QED BY <2>2, <2>4, <2>5
<1>14. Len(label'[r]) = Len(t) /\ \A k \in 1..Len(t) : label'[r][k] = l[k]
  <2>1. l \in Seq(SegmentType) /\ Len(l) >= 1 /\ Len(l) - 1 = Len(t)
    BY <1>12, <1>13
  <2> HIDE DEF l
  <2>2. Len(Front(l)) = Len(l) - 1 /\ \A k \in 1..Len(l)-1 : Front(l)[k] = l[k]
    BY <2>1, Shortened
  <2> QED BY <1>9, <2>1, <2>2
<1>15. ConstructDepth(r)' = 0
  BY <1>6 DEF ConstructDepth, InLoop, InSingle, WorkPlaces
<1>16. \A k \in 1..Len(t) : k \in 1..Place(t)
  BY <1>12
<1>17. Spelled(r)'
  <2>1. Len(label'[r]) = Place(r) + ConstructDepth(r)'
    BY <1>12, <1>14, <1>15
  <2>2. label'[r][1].loopCount = 0 /\ 1 \in 1..Len(t)
    BY <1>5, <1>12, <1>13, <1>14 DEF Spelled
  <2>3. \A k \in 1..Place(r) : label'[r][k] \in OwnType(SpanAt(k))
    BY <1>5, <1>12, <1>13, <1>14, <1>16 DEF Spelled
  <2>4. ASSUME NEW k \in 2..Place(r) PROVE label'[r][k].offset % SpanAt(k) = r[k-1]
    <3>1. k \in 2..Place(t) /\ k \in 1..Len(t) /\ k - 1 \in 1..Len(t)-1
      BY <1>12
    <3>2. l[k].offset % SpanAt(k) = t[k-1]
      BY <1>5, <1>13, <3>1 DEF Spelled
    <3> QED BY <1>12, <1>14, <3>1, <3>2
  <2> QED BY <1>15, <2>1, <2>2, <2>3, <2>4 DEF Spelled
<1>18. \A k \in 1..Len(t) : Clock(r, k)' = Clock(t, k) /\ Count(r, k)' = Count(t, k)
  <2>1. \A k \in 1..Len(t) : l[k].offset \in Nat
    BY <1>4, <1>5, <1>13, <1>16, TimesKnown
  <2>2. \A k \in 1..Len(t) : Clock(r, k)' = label'[r][k].offset + 0
    BY <1>6 DEF Clock
  <2> QED BY <1>13, <1>14, <1>16, <2>1, <2>2 DEF Count
<1> HIDE DEF l
<1> QED BY <1>1, <1>3, <1>4, <1>5, <1>6, <1>7, <1>8, <1>10, <1>11, <1>12, <1>14, <1>17, <1>18 DEF l

(* What the end of another member does.                                    *)
LEMMA WorkerEffect ==
  ASSUME Timed, NEW t \in Tasks, ImplicitTaskEndWorker(t)
  PROVE  /\ t # Root /\ TeamOf(t) \in Teams /\ t \in MembersOf(TeamOf(t))
         /\ at[t] = "ending" /\ Last(t) # 0 /\ Construct(t) = "end"
         /\ at'[t] = "none" /\ step'[t] = 0 /\ ~ Exists(t)'
         /\ inWork' = inWork /\ loose' = loose
         /\ \A u \in Tasks : u # t => Rests(u) /\ knows'[u] = knows[u]
         /\ UNCHANGED <<program, open, forks, script, taken, hist>>
<1> USE DEF Timed, Strong, Labelled
<1>1. /\ at[t] = "ending" /\ Last(t) # 0 /\ Relabel(t, <<>>)
      /\ at' = [at EXCEPT ![t] = "none"] /\ step' = [step EXCEPT ![t] = 0]
      /\ knows' = [knows EXCEPT ![t] = FALSE]
      /\ UNCHANGED <<program, open, forks, script, taken, iter, hist, inWork, loose>>
  BY DEF ImplicitTaskEndWorker, Vanishes, Go, teamVars
<1>2. /\ label \in [Tasks -> Seq(SegmentType)] /\ at \in [Tasks -> Places] /\ step \in [Tasks -> Nat]
      /\ knows \in [Tasks -> BOOLEAN] /\ Control
  BY DEF LabelTypes, Control, ControlTypes, TruthTypes
<1>3. t # Root /\ Construct(t) = "end"
  BY <1>1, <1>2 DEF Control, PlacesFit
<1>4. \A u \in Tasks : u # t => Rests(u) /\ knows'[u] = knows[u]
  BY <1>1, <1>2 DEF Rests, Relabel
<1>5. at'[t] = "none" /\ step'[t] = 0 /\ ~ Exists(t)'
  BY <1>1, <1>2 DEF Exists
<1> QED BY <1>1, <1>3, <1>4, <1>5, Tree

(* What a fork does: the members are about to start.                       *)
LEMMA ForkEffect ==
  ASSUME Timed, NEW r \in Teams, Fork(r)
  PROVE  /\ r \in Tasks /\ at[r] = "free" /\ at'[r] = "free" /\ ~ open[r] /\ Exists(r) /\ Exists(r)'
         /\ \A u \in MembersOf(r) : at[u] = "none" /\ at'[u] = "starting" /\ step'[u] = step[u]
         /\ \A u \in Tasks : u \notin MembersOf(r) => at'[u] = at[u]
         /\ \A u \in Tasks : u \notin MembersOf(r) => Rests(u)
         /\ \A q \in Teams : q # r => /\ script'[q] = script[q] /\ taken'[q] = taken[q]
                                     /\ open'[q] = open[q] /\ forks'[q] = forks[q]
         /\ open'[r] /\ forks'[r] = forks[r] + 1
         /\ script'[r] = <<>> /\ forks[r] < program.regions
         /\ UNCHANGED <<program, label, step, iter, hist, knows, inWork, loose>>
         /\ r \notin MembersOf(r)
         /\ \A u \in Tasks \ {Root} : u \notin MembersOf(r) => TeamOf(u) # r
<1> USE DEF Timed, Strong, Labelled
<1>1. /\ Runs(r) /\ (r = Root \/ at[r] \in program.forkPlaces) /\ forks[r] < program.regions
      /\ \A t \in MembersOf(r) : at[t] = "none"
      /\ open' = [open EXCEPT ![r] = TRUE] /\ forks' = [forks EXCEPT ![r] = @ + 1]
      /\ at' = [t \in Tasks |-> IF t \in MembersOf(r) THEN "starting" ELSE at[t]]
      /\ script' = [script EXCEPT ![r] = <<>>]
      /\ taken' = [taken EXCEPT ![r] = PerConstruct(0)]
      /\ UNCHANGED <<program, label, step, iter, hist, knows, inWork, loose>>
  BY DEF Fork
<1>2. /\ r \in Tasks /\ r \notin MembersOf(r)
      /\ \A u \in MembersOf(r) : u \in Tasks
      /\ \A u \in Tasks \ {Root} : u \notin MembersOf(r) => TeamOf(u) # r
  BY Tree
<1>3. at[r] = "free" /\ ~ open[r]
  <2>1. at[Root] = "free"
    BY DEF Control, PlacesFit
  <2>2. program.forkPlaces \subseteq {"free"}
    BY DEF Tame
  <2> QED BY <1>1, <2>1, <2>2 DEF Runs, Forked
<1>4. \A u \in Tasks : at'[u] = IF u \in MembersOf(r) THEN "starting" ELSE at[u]
  BY <1>1
<1>5. \A u \in Tasks : u \notin MembersOf(r) => Rests(u)
  BY <1>1, <1>4 DEF Rests
<1>6. \A q \in Teams : q # r => /\ script'[q] = script[q] /\ taken'[q] = taken[q]
                               /\ open'[q] = open[q] /\ forks'[q] = forks[q]
  BY <1>1 DEF Control, ControlTypes, DataTypes
<1>9. open'[r] /\ forks'[r] = forks[r] + 1
  BY <1>1 DEF Control, ControlTypes, DataTypes
<1>7. script'[r] = <<>>
  BY <1>1 DEF Control, ControlTypes
<1>8. Exists(r) /\ Exists(r)' /\ at'[r] = "free"
  BY <1>2, <1>3, <1>4 DEF Exists
<1> QED BY <1>1, <1>2, <1>3, <1>4, <1>5, <1>6, <1>7, <1>8, <1>9

(* What the opening of a barrier does: it is a later time for the whole    *)
(* team, and what one member had in its past all of them have.             *)
LEMMA OpenEffect ==
  ASSUME Timed, NEW r \in Teams, OpenBarrier(r)
  PROVE  /\ r \in Tasks /\ open[r] /\ at[r] = "free" /\ Exists(r) /\ r \notin MembersOf(r)
         /\ \A u \in MembersOf(r) :
              /\ u \in Tasks /\ at[u] = "barrier" /\ at'[u] = "released" /\ Exists(u) /\ Exists(u)'
              /\ knows'[u] = (\E v \in MembersOf(r) : knows[v] \/ loose[v]) /\ ~ loose'[u]
              /\ Place(u) = Place(r) + 1 /\ Len(u) = Place(r) /\ ConstructDepth(u) = 0
              /\ \A k \in 1..Place(u) :
                   Clock(u, k)' = Clock(u, k) + (IF k = Place(r) THEN SpanAt(k) ELSE 0)
         /\ \A u \in Tasks : u \notin MembersOf(r) => Rests(u) /\ knows'[u] = knows[u]
         /\ UNCHANGED <<program, label, open, forks, script, taken, step, iter, hist, inWork>>
         /\ \A u \in Tasks : Spelled(u)' /\ (Exists(u)' <=> Exists(u))
         /\ \A u \in Tasks : \A k : Count(u, k)' = Count(u, k)
<1> USE DEF Timed, Strong, Labelled
<1>1. /\ open[r] /\ \A t \in MembersOf(r) : at[t] = "barrier"
      /\ at' = [t \in Tasks |-> IF t \in MembersOf(r) THEN "released" ELSE at[t]]
      /\ loose' = [t \in Tasks |-> IF t \in MembersOf(r) THEN FALSE ELSE loose[t]]
      /\ UNCHANGED <<program, label, open, forks, script, taken, step, iter, hist, inWork>>
  BY DEF OpenBarrier, teamVars
<1> DEFINE past == \E t \in MembersOf(r) : knows[t] \/ loose[t]
<1>2. knows' = [t \in Tasks |-> IF t \in MembersOf(r) THEN past ELSE knows[t]]
  BY DEF OpenBarrier
<1>3. r \in Tasks /\ r \notin MembersOf(r) /\ \A u \in MembersOf(r) : u \in Tasks \ {Root} /\ TeamOf(u) = r
  BY Tree
<1>4. at[r] = "free" /\ Exists(r)
  BY <1>1 DEF Plain, Exists
<1> HIDE DEF past
<1>5. \A u \in Tasks : at'[u] = IF u \in MembersOf(r) THEN "released" ELSE at[u]
  BY <1>1
<1>6. \A u \in Tasks : u \notin MembersOf(r) => Rests(u) /\ knows'[u] = knows[u]
  BY <1>1, <1>2, <1>5 DEF Rests
<1>7. ASSUME NEW u \in MembersOf(r)
      PROVE  /\ u \in Tasks /\ at[u] = "barrier" /\ at'[u] = "released" /\ Exists(u) /\ Exists(u)'
             /\ knows'[u] = past /\ ~ loose'[u]
             /\ Place(u) = Place(r) + 1 /\ Len(u) = Place(r) /\ ConstructDepth(u) = 0
             /\ ConstructDepth(u)' = 0
             /\ \A k \in 1..Place(u) :
                  Clock(u, k)' = Clock(u, k) + (IF k = Place(r) THEN SpanAt(k) ELSE 0)
  <2>1. /\ u \in Tasks /\ u # Root /\ at[u] = "barrier" /\ at'[u] = "released"
        /\ knows'[u] = past /\ ~ loose'[u] /\ label'[u] = label[u]
    BY <1>1, <1>2, <1>3, <1>5
  <2>2. Exists(u) /\ Exists(u)' /\ ConstructDepth(u) = 0 /\ ConstructDepth(u)' = 0
    BY <2>1 DEF Exists, ConstructDepth, InLoop, InSingle, WorkPlaces
  <2>3. Place(u) = Place(r) + 1 /\ Len(u) = Place(r) /\ Place(r) \in Nat
    <3>1. Len(u) = Len(r) + 1 /\ Len(r) \in Nat
      BY <1>3, Paths, Spans
    <3> QED BY <3>1 DEF Place
  <2>4. \A k \in 1..Place(u) : label[u][k].offset \in Nat
    BY <2>1, <2>2, TimesKnown DEF Spelling
  <2>5. ASSUME NEW k \in 1..Place(u)
        PROVE  Clock(u, k)' = Clock(u, k) + (IF k = Place(r) THEN SpanAt(k) ELSE 0)
    <3>1. Clock(u, k) = label[u][k].offset + 0
      BY <2>1 DEF Clock
    <3>2. Clock(u, k)' = label[u][k].offset + (IF k = Place(r) THEN SpanAt(k) ELSE 0)
      BY <2>1, <2>3 DEF Clock
    <3> QED BY <2>4, <3>1, <3>2
  <2> QED BY <2>1, <2>2, <2>3, <2>5
<1>8. ASSUME NEW u \in Tasks PROVE Spelled(u)' /\ (Exists(u)' <=> Exists(u))
  <2>1. Spelled(u)
    BY DEF Spelling
  <2>2. CASE u \in MembersOf(r)
    <3>1. Exists(u) /\ Exists(u)' /\ ConstructDepth(u) = 0 /\ ConstructDepth(u)' = 0
      BY <1>7, <2>2
    <3> QED BY <1>1, <2>1, <3>1 DEF Spelled
  <2>3. CASE u \notin MembersOf(r)
    <3>1. label'[u] = label[u] /\ at'[u] = at[u] /\ iter'[u] = iter[u] /\ Construct(u)' = Construct(u)
      BY <1>1, <1>5, <2>3 DEF Construct
    <3> QED BY <2>1, <3>1, SpelledStays, Resting
  <2> QED BY <2>2, <2>3
<1>9. \A u \in Tasks : \A k : Count(u, k)' = Count(u, k)
  BY <1>1 DEF Count
<1> QED BY <1>1, <1>3, <1>4, <1>6, <1>7, <1>8, <1>9 DEF past

(* What the record of an access does.                                      *)
LEMMA RecordEffect ==
  ASSUME Timed, NEW t \in Tasks, Record(t)
  PROVE  /\ t # Root /\ TeamOf(t) \in Teams /\ ~ Forked(t) /\ Exists(t)
         /\ at[t] \in {"free", "chunk", "single", "work"} /\ hist = <<>> /\ hist' = label[t]
         /\ knows'[t] = (knows[t] \/ at[t] # "work") /\ inWork'[t] = (inWork[t] \/ at[t] = "work")
         /\ \A u \in Tasks : u # t => Rests(u) /\ knows'[u] = knows[u]
         /\ UNCHANGED <<program, label, at, open, forks, script, step, iter, taken, loose>>
<1> USE DEF Timed, Strong, Labelled
<1>1. /\ hist = <<>> /\ t # Root /\ Runs(t) /\ hist' = label[t]
      /\ UNCHANGED <<program, label, at, open, forks, script, step, iter, taken, loose>>
      /\ IF at[t] \in WorkPlaces
         THEN inWork' = [inWork EXCEPT ![t] = TRUE] /\ UNCHANGED knows
         ELSE knows' = [knows EXCEPT ![t] = TRUE] /\ UNCHANGED inWork
  BY DEF Record, teamVars
<1>2. knows \in [Tasks -> BOOLEAN] /\ inWork \in [Tasks -> BOOLEAN]
  BY DEF TruthTypes
<1>3. TeamOf(t) \in Teams
  BY <1>1, Tree
<1>4. /\ at[t] \in {"free", "chunk", "single", "work"} /\ ~ Forked(t) /\ Exists(t)
      /\ at[t] \in WorkPlaces <=> at[t] = "work"
  <2>1. at[t] \notin {"ordered", "past"}
    BY <1>1 DEF Plain
  <2> QED BY <1>1, <2>1 DEF Runs, CodePlaces, WorkPlaces, Exists
<1>5. /\ knows'[t] = (knows[t] \/ at[t] # "work") /\ inWork'[t] = (inWork[t] \/ at[t] = "work")
      /\ \A u \in Tasks : u # t => knows'[u] = knows[u] /\ inWork'[u] = inWork[u]
  BY <1>1, <1>2, <1>4
<1>6. \A u \in Tasks : u # t => Rests(u)
  BY <1>1, <1>5 DEF Rests
<1> QED BY <1>1, <1>3, <1>4, <1>5, <1>6

-----------------------------------------------------------------------------
(* The labels of a tame program stay tame                                  *)

(* What a step is.                                                         *)
LEMMA StepKinds ==
  ASSUME [Next]_vars
  PROVE  \/ \E t \in Tasks : \/ ImplicitTaskBegin(t) \/ Quiet(t) \/ Record(t)
                             \/ ImplicitTaskEndMaster(t) \/ ImplicitTaskEndWorker(t)
         \/ \E r \in Teams : Fork(r) \/ OpenBarrier(r)
         \/ UNCHANGED vars
BY DEF Next, Step, Quiet, Inside, Reaching

(* Every label goes on spelling the path of its task.                      *)
LEMMA SpellingStep ==
  ASSUME Timed, [Next]_vars
  PROVE  Spelling'
<1> USE DEF Timed, Strong, Labelled
<1>1. \A u \in Tasks : Spelled(u)
  BY DEF Spelling
<1>2. ASSUME NEW t \in Tasks, ImplicitTaskBegin(t), NEW u \in Tasks PROVE Spelled(u)'
  <2>1. CASE u = t
    BY <1>2, <2>1, BeginEffect
  <2>2. CASE u # t
    <3>1. Rests(u) /\ script' = script
      BY <1>2, <2>2, BeginEffect
    <3> QED BY <1>1, <3>1, SpelledStays DEF Rests, Construct
  <2> QED BY <2>1, <2>2
<1>3. ASSUME NEW t \in Tasks, Quiet(t), NEW u \in Tasks PROVE Spelled(u)'
  <2>1. CASE u = t
    BY <1>3, <2>1, QuietTimes
  <2>2. CASE u # t
    <3>1. /\ Rests(u)
          /\ \A v \in Tasks \ {Root} : v # t /\ step[v] > 0 => Construct(v)' = Construct(v)
      BY <1>3, <2>2, QuietFrame
    <3>2. at[u] = "work" => u # Root /\ step[u] > 0
      BY DEF Control, PlacesFit, Exists
    <3> QED BY <1>1, <2>2, <3>1, <3>2, SpelledStays DEF Rests
  <2> QED BY <2>1, <2>2
<1>4. ASSUME NEW t \in Tasks, Record(t), NEW u \in Tasks PROVE Spelled(u)'
  <2>1. UNCHANGED <<label, at, script, step, iter>>
    BY <1>4, RecordEffect
  <2> QED BY <1>1, <2>1, SpelledStays DEF Construct
<1>5. ASSUME NEW t \in Tasks, ImplicitTaskEndMaster(t), NEW u \in Tasks PROVE Spelled(u)'
  <2>1. CASE u = t
    BY <1>5, <2>1, MasterEffect DEF Spelled
  <2>2. CASE u = TeamOf(t)
    BY <1>5, <2>2, MasterEffect
  <2>3. CASE u \notin {t, TeamOf(t)}
    <3>1. Rests(u) /\ script' = script
      BY <1>5, <2>3, MasterEffect
    <3> QED BY <1>1, <3>1, SpelledStays DEF Rests, Construct
  <2> QED BY <2>1, <2>2, <2>3
<1>6. ASSUME NEW t \in Tasks, ImplicitTaskEndWorker(t), NEW u \in Tasks PROVE Spelled(u)'
  <2>1. CASE u = t
    BY <1>6, <2>1, WorkerEffect DEF Spelled
  <2>2. CASE u # t
    <3>1. Rests(u) /\ script' = script
      BY <1>6, <2>2, WorkerEffect
    <3> QED BY <1>1, <3>1, SpelledStays DEF Rests, Construct
  <2> QED BY <2>1, <2>2
<1>7. ASSUME NEW r \in Teams, Fork(r), NEW u \in Tasks PROVE Spelled(u)'
  <2>1. CASE u \in MembersOf(r)
    <3>1. ~ Exists(u)'
      BY <1>7, <2>1, ForkEffect DEF Exists
    <3> QED BY <3>1 DEF Spelled
  <2>2. CASE u \notin MembersOf(r)
    <3>1. Rests(u)
      BY <1>7, <2>2, ForkEffect
    <3>2. ASSUME at[u] = "work" PROVE Construct(u)' = Construct(u)
      <4>1. u # Root
        BY <3>2 DEF Control, PlacesFit
      <4>2. TeamOf(u) # r /\ TeamOf(u) \in Teams
        BY <1>7, <2>2, <4>1, ForkEffect, Tree
      <4>3. \A q \in Teams : q # r => script'[q] = script[q]
        <5> HIDE DEF Timed, Strong, Labelled
        <5> QED BY <1>7, ForkEffect
      <4> QED BY <3>1, <4>2, <4>3 DEF Rests, Construct
    <3> QED BY <1>1, <3>1, <3>2, SpelledStays DEF Rests
  <2> QED BY <2>1, <2>2
<1>8. ASSUME NEW r \in Teams, OpenBarrier(r), NEW u \in Tasks PROVE Spelled(u)'
  BY <1>8, OpenEffect
<1>9. ASSUME UNCHANGED vars, NEW u \in Tasks PROVE Spelled(u)'
  <2>1. UNCHANGED <<label, at, script, step, iter>>
    BY <1>9 DEF vars, teamVars
  <2> QED BY <1>1, <2>1, SpelledStays DEF Construct
<1>10. \A u \in Tasks : Spelled(u)'
  BY <1>2, <1>3, <1>4, <1>5, <1>6, <1>7, <1>8, <1>9, StepKinds
<1> QED BY <1>10 DEF Spelling

(* A tame program stays plain.                                             *)
LEMMA PlainStep ==
  ASSUME Timed, [Next]_vars
  PROVE  Plain'
<1> USE DEF Timed, Strong, Labelled
<1> DEFINE Script(q) == /\ open[q] => at[q] = "free"
                        /\ \A k \in 1..Len(script[q]) : script[q][k] \in program.constructs \cup {"end"}
           Doing(u) == /\ at[u] \notin {"ordered", "past"}
                       /\ at[u] = "chunk" => Construct(u) \in StaticLoops
                       /\ at[u] \in {"preamble", "work"} => Construct(u) \notin StaticLoops
                       /\ at[u] = "work" => iter[u] < taken[TeamOf(u)][step[u]]
           Flags(u) == /\ loose[u] => at[u] \notin {"none", "starting", "released", "ending"}
                       /\ inWork[u] => at[u] = "work"
<1>1. /\ \A q \in Teams : Script(q)
      /\ \A u \in Tasks \ {Root} : Doing(u)
      /\ \A u \in Tasks : Flags(u)
  BY DEF Plain
<1>2. SUFFICES /\ \A q \in Teams : Script(q)'
               /\ \A u \in Tasks \ {Root} : Doing(u)'
               /\ \A u \in Tasks : Flags(u)'
  BY DEF Plain
<1>3. ASSUME NEW q \in Teams, UNCHANGED <<program, script>>, open'[q] => open[q],
             at'[q] = at[q]
      PROVE  Script(q)'
  BY <1>1, <1>3
<1>4. ASSUME NEW u \in Tasks \ {Root}, Rests(u), UNCHANGED <<script, taken>>
      PROVE  Doing(u)'
  BY <1>1, <1>4 DEF Rests, Construct
<1>5. ASSUME NEW u \in Tasks, Rests(u) PROVE Flags(u)'
  BY <1>1, <1>5 DEF Rests
<1>6. ASSUME NEW u \in Tasks, at'[u] \in {"none", "starting", "free", "ending", "released"},
             loose'[u] = loose[u] \/ ~ loose'[u], inWork'[u] = inWork[u],
             at[u] \in {"starting", "none", "ending", "barrier"},
             at[u] = "barrier" => ~ loose'[u]
      PROVE  Doing(u)' /\ Flags(u)'
  BY <1>1, <1>6
<1>7. ASSUME NEW t \in Tasks, ImplicitTaskBegin(t)
      PROVE  /\ \A q \in Teams : Script(q)'
             /\ \A u \in Tasks \ {Root} : Doing(u)'
             /\ \A u \in Tasks : Flags(u)'
  <2>1. /\ UNCHANGED <<program, open, script, taken>> /\ at[t] = "starting" /\ at'[t] = "free"
        /\ \A u \in Tasks : u # t => Rests(u)
        /\ inWork'[t] = inWork[t] /\ loose'[t] = loose[t]
    BY <1>7, BeginEffect
  <2>2. ASSUME NEW q \in Teams PROVE Script(q)'
    <3>1. CASE q = t
      <4>1. ~ open[t]
        BY <1>1, <2>1, <3>1
      <4> QED BY <1>1, <2>1, <3>1, <4>1
    <3>2. CASE q # t
      <4>1. Rests(q)
        BY <2>1, <3>2, Tree
      <4> QED BY <1>3, <2>1, <4>1 DEF Rests
    <3> QED BY <3>1, <3>2
  <2>3. Doing(t)' /\ Flags(t)'
    BY <1>6, <2>1
  <2> HIDE DEF Script, Doing, Flags
  <2> QED BY <1>4, <1>5, <2>1, <2>2, <2>3
<1>8. ASSUME NEW t \in Tasks, Quiet(t)
      PROVE  /\ \A q \in Teams : Script(q)'
             /\ \A u \in Tasks \ {Root} : Doing(u)'
             /\ \A u \in Tasks : Flags(u)'
  <2>1. /\ t # Root /\ ~ Forked(t) /\ TeamOf(t) \in Teams /\ UNCHANGED <<program, open>>
        /\ \A u \in Tasks : u # t => Rests(u)
        /\ \A q \in Teams : \A k \in 1..Len(script[q]) : script'[q][k] = script[q][k]
        /\ \A u \in Tasks \ {Root} : u # t /\ step[u] > 0 => Construct(u)' = Construct(u)
    BY <1>8, QuietFrame
  <2>2. ASSUME NEW q \in Teams PROVE Script(q)'
    <3>1. open'[q] => at'[q] = "free"
      <4>1. open[q] => q # t
        BY <2>1 DEF Forked
      <4>2. q # t => Rests(q)
        BY <2>1, Tree
      <4> QED BY <1>1, <2>1, <4>1, <4>2 DEF Rests
    <3>2. \A k \in 1..Len(script'[q]) : script'[q][k] \in program.constructs \cup {"end"}
      <4>1. CASE script' = script
        BY <1>1, <4>1
      <4>2. CASE Reaching(t)
        <5>1. Construct(t)' \in program.constructs \cup {"end"}
          BY <1>8, <4>2, QuietPlaces DEF Reaching, BeginLoop, BeginSections, BeginSingleExecutor,
             BeginSingleOther, ReachBarrier, Reaches, Dispatch, EndLoop, EndSections, EndSingle,
             BarrierEnd, Idles, WorkPlaces
        <5>2. PICK c \in Constructs, p \in Places : Arrives(t, c, p)
          BY <4>2, ReachingArrives
        <5>3. Reaches(t, c)
          BY <5>2 DEF Arrives
        <5>4. \/ script' = script
              \/ script' = [script EXCEPT ![TeamOf(t)] = Append(@, c)]
          BY <5>3 DEF Reaches
        <5>5. Construct(t)' = c
          BY <2>1, <5>3, ScriptsGrow
        <5>6. CASE script' = [script EXCEPT ![TeamOf(t)] = Append(@, c)] /\ q = TeamOf(t)
          <6>1. script[q] \in Seq(Constructs) /\ script'[q] = Append(script[q], c)
            BY <2>1, <5>6 DEF Control, ControlTypes
          <6>2. /\ Len(script'[q]) = Len(script[q]) + 1 /\ script'[q][Len(script[q]) + 1] = c
                /\ \A k \in 1..Len(script[q]) : script'[q][k] = script[q][k]
                /\ Len(script[q]) \in Nat
            BY <5>2, <6>1, Ends
          <6> QED BY <1>1, <5>1, <5>5, <6>2
        <5>7. CASE script' = [script EXCEPT ![TeamOf(t)] = Append(@, c)] /\ q # TeamOf(t)
          <6>1. script'[q] = script[q]
            BY <2>1, <5>7 DEF Control, ControlTypes
          <6> QED BY <1>1, <6>1
        <5> QED BY <4>1, <5>4, <5>6, <5>7
      <4>3. CASE ~ Reaching(t)
        BY <1>8, <4>1, <4>3 DEF Quiet, Inside, ImplicitTaskBegin, Dispatch, OrderedAcquired,
           OrderedReleased, EndLoop, EndSections, EndSingle, BarrierEnd, teamVars
      <4> QED BY <4>2, <4>3
    <3> QED BY <2>1, <3>1, <3>2
  <2>3. ASSUME NEW u \in Tasks \ {Root}, u # t PROVE Doing(u)'
    <3>1. Rests(u)
      BY <2>1, <2>3
    <3>2. Exists(u) /\ at[u] # "free" => Construct(u)' = Construct(u)
      BY <2>1, <2>3 DEF Control, PlacesFit
    <3>3. at[u] = "work" => taken'[TeamOf(u)][step[u]] >= taken[TeamOf(u)][step[u]]
                            /\ taken'[TeamOf(u)][step[u]] \in Nat
      <4> SUFFICES ASSUME at[u] = "work"
                   PROVE  /\ taken'[TeamOf(u)][step[u]] >= taken[TeamOf(u)][step[u]]
                          /\ taken'[TeamOf(u)][step[u]] \in Nat
        OBVIOUS
      <4>1. TeamOf(u) \in Teams /\ step[u] \in 1..program.length+1
        <5>1. step[u] \in 1..Len(script[TeamOf(u)]) /\ TeamOf(u) \in Teams
          BY ConstructKnown DEF Control, Exists
        <5>2. Len(script[TeamOf(u)]) <= program.length + 1 /\ program.length \in Nat
          BY <5>1, ProgramBounds DEF Control, ScriptsEnd, ControlTypes
        <5>3. Len(script[TeamOf(u)]) \in Nat
          BY <5>1 DEF Control, ControlTypes
        <5> QED BY <5>1, <5>2, <5>3
      <4>2. taken \in [Teams -> [1..program.length+1 -> Nat]]
        BY DEF LabelTypes
      <4>3. \/ taken' = taken
            \/ taken' = [taken EXCEPT ![TeamOf(t)][step[t]] = @ + 1]
            \/ /\ taken[TeamOf(t)][step[t] + 1] = 0
               /\ taken' = [taken EXCEPT ![TeamOf(t)][step[t] + 1] = 1]
        BY <1>8 DEF Quiet, Reaching, Inside, BeginLoop, BeginSections, BeginSingleExecutor,
           BeginSingleOther, ReachBarrier, Dispatch, OrderedAcquired, OrderedReleased, EndLoop,
           EndSections, EndSingle, BarrierEnd, teamVars
      <4> DEFINE a == TeamOf(u)
                 b == step[u]
                 c == TeamOf(t)
                 d == step[t]
      <4>4. a \in Teams /\ c \in Teams /\ b \in 1..program.length+1 /\ taken[a][b] \in Nat
        BY <2>1, <4>1, <4>2
      <4> HIDE DEF a, b, c, d
      <4>5. CASE taken' = taken
        BY <4>4, <4>5 DEF a, b
      <4>6. CASE taken' = [taken EXCEPT ![c][d] = @ + 1]
        <5>1. taken'[a][b] = IF a = c /\ b = d THEN taken[a][b] + 1 ELSE taken[a][b]
          BY <4>2, <4>4, <4>6
        <5> QED BY <4>4, <5>1 DEF a, b
      <4>7. CASE taken[c][d + 1] = 0 /\ taken' = [taken EXCEPT ![c][d + 1] = 1]
        <5>1. taken'[a][b] = IF a = c /\ b = d + 1 THEN 1 ELSE taken[a][b]
          BY <4>2, <4>4, <4>7
        <5> QED BY <4>4, <4>7, <5>1 DEF a, b
      <4> QED BY <4>3, <4>5, <4>6, <4>7 DEF c, d
    <3>4. at[u] = "work" => taken[TeamOf(u)][step[u]] \in Nat /\ iter[u] \in Nat
      <4> SUFFICES ASSUME at[u] = "work" PROVE taken[TeamOf(u)][step[u]] \in Nat /\ iter[u] \in Nat
        OBVIOUS
      <4>1. TeamOf(u) \in Teams /\ step[u] \in 1..program.length+1
        BY Tree, DispatchedIsNat DEF InLoop, WorkPlaces, Exists
      <4> QED BY <4>1 DEF LabelTypes
    <3>5. at[u] = "work" => iter[u] < taken'[TeamOf(u)][step[u]]
      <4>1. at[u] = "work" => iter[u] < taken[TeamOf(u)][step[u]]
        BY <1>1
      <4> HIDE DEF Doing, Script, Flags
      <4> QED BY <3>3, <3>4, <4>1
    <3> QED BY <1>1, <3>1, <3>2, <3>5 DEF Rests, Exists
  <2>4. Doing(t)'
    <3>1. CASE Dispatch(t) /\ at'[t] = "work"
      <4>1. /\ iter'[t] = taken[TeamOf(t)][step[t]] /\ taken[TeamOf(t)][step[t]] \in Nat
            /\ taken'[TeamOf(t)][step[t]] = taken[TeamOf(t)][step[t]] + 1
            /\ at[t] \in {"preamble", "work"} /\ Construct(t)' = Construct(t)
        BY <1>8, <3>1, QuietPlaces DEF Reaching, BeginLoop, BeginSections, BeginSingleExecutor,
             BeginSingleOther, ReachBarrier, Reaches, Dispatch, EndLoop, EndSections, EndSingle,
             BarrierEnd, AfterConstruct, InSingle, WorkPlaces
      <4>2. step' = step
        BY <3>1 DEF Dispatch
      <4> QED BY <1>1, <2>1, <3>1, <4>1, <4>2
    <3>2. CASE \/ at'[t] \in {"barrier", "free", "ending", "single", "other"}
               \/ at'[t] = "chunk" /\ Construct(t)' \in StaticLoops
               \/ at'[t] = "preamble" /\ Construct(t)' \notin StaticLoops
      BY <3>2
    <3> QED BY <1>8, <3>1, <3>2, QuietPlaces
  <2>5. Flags(t)'
    <3>1. loose'[t] => at'[t] \notin {"none", "starting", "released", "ending"}
      <4>1. CASE BarrierEnd(t) /\ at[t] = "released" /\ loose' = loose
        BY <1>1, <4>1
      <4>2. CASE at'[t] \in {"barrier", "free", "work", "chunk", "preamble", "single", "other"}
        BY <4>2
      <4> QED BY <1>8, <4>1, <4>2, QuietPlaces
    <3>2. inWork'[t] => at'[t] = "work"
      <4>1. CASE inWork' = inWork /\ at[t] # "work"
        BY <1>1, <4>1
      <4> QED BY <1>8, <4>1, QuietPlaces DEF InSingle
    <3> QED BY <3>1, <3>2
  <2> HIDE DEF Script, Doing, Flags
  <2> QED BY <1>5, <2>1, <2>2, <2>3, <2>4, <2>5
<1>9. ASSUME NEW t \in Tasks, Record(t)
      PROVE  /\ \A q \in Teams : Script(q)'
             /\ \A u \in Tasks \ {Root} : Doing(u)'
             /\ \A u \in Tasks : Flags(u)'
  <2>1. /\ UNCHANGED <<program, label, at, open, script, step, iter, taken, loose>>
        /\ inWork'[t] = (inWork[t] \/ at[t] = "work")
        /\ \A u \in Tasks : u # t => Rests(u)
    BY <1>9, RecordEffect
  <2>2. \A u \in Tasks \ {Root} : Doing(u)'
    BY <1>1, <2>1 DEF Construct
  <2>3. \A q \in Teams : Script(q)'
    BY <1>1, <2>1
  <2>4. \A u \in Tasks : Flags(u)'
    BY <1>1, <2>1 DEF Rests
  <2> QED BY <2>2, <2>3, <2>4
<1>10. ASSUME NEW t \in Tasks, ImplicitTaskEndMaster(t)
      PROVE  /\ \A q \in Teams : Script(q)'
             /\ \A u \in Tasks \ {Root} : Doing(u)'
             /\ \A u \in Tasks : Flags(u)'
  <2> DEFINE r == TeamOf(t)
  <2>1. /\ UNCHANGED <<program, script, taken>> /\ at[t] = "ending" /\ at'[t] = "none"
        /\ at[r] = "free" /\ at'[r] = "free" /\ r \in Tasks /\ r # t /\ t # Root
        /\ inWork' = inWork /\ loose' = loose /\ \A u \in Tasks : u # t => at'[u] = at[u]
        /\ \A u \in Tasks : u \notin {t, r} => Rests(u)
        /\ ~ open'[r] /\ \A q \in Teams : q # r => open'[q] = open[q]
    BY <1>10, MasterEffect
  <2> HIDE DEF r
  <2>2. ASSUME NEW q \in Teams PROVE Script(q)'
    <3>1. open'[q] => at'[q] = "free"
      <4>1. CASE q = r
        BY <2>1, <4>1
      <4>2. CASE q # r
        <5>1. open'[q] = open[q] /\ q \in Tasks
          BY <2>1, <4>2, Tree
        <5>2. at[q] = "free" => q # t
          BY <2>1
        <5>3. open[q] => at[q] = "free"
          BY <1>1
        <5> HIDE DEF Timed
        <5> QED BY <2>1, <5>1, <5>2, <5>3
      <4> QED BY <4>1, <4>2
    <3> QED BY <1>1, <2>1, <3>1
  <2>3. Doing(t)' /\ Flags(t)'
    BY <1>6, <2>1
  <2>4. Doing(r)' /\ Flags(r)'
    BY <1>1, <2>1
  <2> HIDE DEF Script, Doing, Flags
  <2> QED BY <1>4, <1>5, <2>1, <2>2, <2>3, <2>4
<1>11. ASSUME NEW t \in Tasks, ImplicitTaskEndWorker(t)
      PROVE  /\ \A q \in Teams : Script(q)'
             /\ \A u \in Tasks \ {Root} : Doing(u)'
             /\ \A u \in Tasks : Flags(u)'
  <2>1. /\ UNCHANGED <<program, script, taken, open>> /\ at[t] = "ending" /\ at'[t] = "none"
        /\ inWork' = inWork /\ loose' = loose /\ t # Root
        /\ \A u \in Tasks : u # t => Rests(u)
    BY <1>11, WorkerEffect
  <2>2. ASSUME NEW q \in Teams PROVE Script(q)'
    <3>1. open'[q] => at'[q] = "free"
      BY <1>1, <2>1, Tree DEF Rests
    <3> QED BY <1>1, <2>1, <3>1
  <2>3. Doing(t)' /\ Flags(t)'
    BY <1>6, <2>1
  <2> HIDE DEF Script, Doing, Flags
  <2> QED BY <1>4, <1>5, <2>1, <2>2, <2>3
<1>12. ASSUME NEW r \in Teams, Fork(r)
      PROVE  /\ \A q \in Teams : Script(q)'
             /\ \A u \in Tasks \ {Root} : Doing(u)'
             /\ \A u \in Tasks : Flags(u)'
  <2>1. /\ UNCHANGED <<program, label, step, iter, inWork, loose>> /\ at'[r] = "free" /\ script'[r] = <<>>
        /\ \A u \in MembersOf(r) : at[u] = "none" /\ at'[u] = "starting"
        /\ \A u \in Tasks : u \notin MembersOf(r) => Rests(u)
        /\ \A u \in Tasks \ {Root} : u \notin MembersOf(r) => TeamOf(u) # r
    BY <1>12, ForkEffect
  <2>2. \A q \in Teams : q # r => open'[q] = open[q] /\ script'[q] = script[q] /\ taken'[q] = taken[q]
    <3> HIDE DEF Timed, Strong, Labelled
    <3> QED BY <1>12, ForkEffect
  <2>3. ASSUME NEW q \in Teams PROVE Script(q)'
    <3>1. CASE q = r
      BY <2>1, <3>1
    <3>2. CASE q # r
      <4>1. open'[q] => at'[q] = "free"
        <5>1. open[q] => q \notin MembersOf(r)
          BY <1>1, <2>1
        <5> QED BY <1>1, <2>1, <2>2, <3>2, <5>1, Tree DEF Rests
      <4> QED BY <1>1, <2>1, <2>2, <3>2, <4>1
    <3> QED BY <3>1, <3>2
  <2>4. ASSUME NEW u \in Tasks PROVE Flags(u)' /\ (u # Root => Doing(u)')
    <3>1. CASE u \in MembersOf(r)
      <4>1. at[u] = "none" /\ at'[u] = "starting" /\ loose'[u] = loose[u] /\ inWork'[u] = inWork[u]
        BY <2>1, <3>1
      <4> QED BY <1>6, <4>1
    <3>2. CASE u \notin MembersOf(r)
      <4>1. Rests(u)
        BY <2>1, <3>2
      <4>2. u # Root => Doing(u)'
        <5>1. u # Root => script'[TeamOf(u)] = script[TeamOf(u)] /\ taken'[TeamOf(u)] = taken[TeamOf(u)]
          BY <2>1, <2>2, <3>2, Tree
        <5> QED BY <1>1, <4>1, <5>1 DEF Rests, Construct
      <4> QED BY <1>5, <4>1, <4>2
    <3> QED BY <3>1, <3>2
  <2> QED BY <2>3, <2>4
<1>13. ASSUME NEW r \in Teams, OpenBarrier(r)
      PROVE  /\ \A q \in Teams : Script(q)'
             /\ \A u \in Tasks \ {Root} : Doing(u)'
             /\ \A u \in Tasks : Flags(u)'
  <2>1. /\ UNCHANGED <<program, label, open, script, taken, step, iter, inWork>>
        /\ \A u \in MembersOf(r) : at[u] = "barrier" /\ at'[u] = "released" /\ ~ loose'[u]
        /\ \A u \in Tasks : u \notin MembersOf(r) => Rests(u)
    BY <1>13, OpenEffect
  <2>2. ASSUME NEW q \in Teams PROVE Script(q)'
    <3>1. open'[q] => at'[q] = "free"
      <4>1. open[q] => q \notin MembersOf(r)
        BY <1>1, <2>1
      <4> QED BY <1>1, <2>1, <4>1, Tree DEF Rests
    <3> QED BY <1>1, <2>1, <3>1
  <2>3. ASSUME NEW u \in Tasks PROVE Flags(u)' /\ (u # Root => Doing(u)')
    <3>1. CASE u \in MembersOf(r)
      <4>1. at[u] = "barrier" /\ at'[u] = "released" /\ ~ loose'[u] /\ inWork'[u] = inWork[u]
        BY <2>1, <3>1
      <4> QED BY <1>6, <4>1
    <3>2. CASE u \notin MembersOf(r)
      <4>1. Rests(u)
        BY <2>1, <3>2
      <4> HIDE DEF Script, Doing, Flags
      <4> QED BY <1>4, <1>5, <2>1, <4>1
    <3> QED BY <3>1, <3>2
  <2> QED BY <2>2, <2>3
<1>14. ASSUME UNCHANGED vars
      PROVE  /\ \A q \in Teams : Script(q)'
             /\ \A u \in Tasks \ {Root} : Doing(u)'
             /\ \A u \in Tasks : Flags(u)'
  <2>1. UNCHANGED <<program, at, open, script, step, iter, taken, loose, inWork>>
    BY <1>14 DEF vars, teamVars, truth
  <2> QED BY <1>1, <2>1 DEF Construct
<1> HIDE DEF Script, Doing, Flags
<1> QED BY <1>7, <1>8, <1>9, <1>10, <1>11, <1>12, <1>13, <1>14, StepKinds

\* CountedIn, for the task that forks and for one member.
OwnCounted(q) ==
  /\ Exists(q) => label[q][Place(q)].offset
                    <= Due(q, (IF open[q] THEN forks[q] - 1 ELSE forks[q]) * Region)
  /\ open[q] => forks[q] > 0
MemberCounted(q, u) ==
  at[u] # "none" =>
    /\ forks[q] > 0
    /\ Exists(u) => label[u][Place(q)].offset
                      + (IF at[u] \in {"free", "ending"} THEN 0 ELSE SpanAt(Place(q)))
                    <= Due(q, ((forks[q] - 1) * Region) + step[u])

(* No offset is ahead of the barriers that its region allows.              *)
LEMMA CountedStep ==
  ASSUME Timed, [Next]_vars
  PROVE  Counted'
<1> USE DEF Timed
<1>1. \A q \in Teams : OwnCounted(q) /\ \A u \in MembersOf(q) : MemberCounted(q, u)
  BY DEF Counted, CountedIn, OwnCounted, MemberCounted
<1>2. SUFFICES \A q \in Teams : OwnCounted(q)' /\ \A u \in MembersOf(q) : MemberCounted(q, u)'
  BY DEF Counted, CountedIn, OwnCounted, MemberCounted
<1>3. ASSUME NEW q \in Teams, program' = program, open'[q] = open[q], forks'[q] = forks[q],
             Exists(q)' => Exists(q) /\ label'[q][Place(q)].offset = label[q][Place(q)].offset
      PROVE  OwnCounted(q)'
  BY <1>1, <1>3 DEF OwnCounted, Region
<1>4. ASSUME NEW q \in Teams, NEW u \in MembersOf(q), program' = program, forks'[q] = forks[q],
             at'[u] = at[u], step'[u] = step[u],
             Exists(u) => label'[u][Place(q)].offset = label[u][Place(q)].offset
      PROVE  MemberCounted(q, u)'
  BY <1>1, <1>4 DEF MemberCounted, Region, Exists
<1>5. \A q \in Teams : q \in Tasks /\ \A u \in MembersOf(q) : u \in Tasks \ {Root} /\ TeamOf(u) = q
  BY Tree
<1>6. \A u \in Tasks : Place(u) \in Nat \ {0} /\ Place(u) = Len(u) + 1
  <2>1. \A u \in Tasks : Len(u) \in Nat
    BY Spans
  <2> QED BY <2>1 DEF Place
<1>7. \A q \in Teams : \A u \in MembersOf(q) : Len(u) = Place(q) /\ Place(u) # Place(q) /\ Place(q) \in 1..Place(u)
  <2> SUFFICES ASSUME NEW q \in Teams, NEW u \in MembersOf(q)
               PROVE  Len(u) = Place(q) /\ Place(u) # Place(q) /\ Place(q) \in 1..Place(u)
    OBVIOUS
  <2>1. Len(u) = Len(q) + 1
    BY <1>5, Paths
  <2>2. Len(u) = Place(q)
    BY <2>1 DEF Place
  <2> QED BY <1>5, <1>6, <2>2
<1>8. /\ program \in Programs /\ \A q \in Teams : forks[q] \in 0..program.regions
      /\ program.regions \in Nat /\ \A u \in Tasks : step[u] \in 0..Region /\ step[u] \in Nat
  <2>1. program \in Programs /\ \A q \in Teams : forks[q] \in 0..program.regions
    BY DEF Strong, Labelled, Control, ControlTypes, DataTypes
  <2>2. program.length \in Nat /\ program.regions \in Nat
    BY <2>1, ProgramBounds
  <2>3. \A u \in Tasks : step[u] \in 0..Region
    BY StrongImplies DEF IInv, TypeOK, Region
  <2> QED BY <2>1, <2>2, <2>3 DEF Region
<1>9. ASSUME NEW t \in Tasks, ImplicitTaskBegin(t), NEW q \in Teams
      PROVE  OwnCounted(q)' /\ \A u \in MembersOf(q) : MemberCounted(q, u)'
  <2> DEFINE r == TeamOf(t)
  <2>1. /\ r \in Teams /\ t \in MembersOf(r) /\ open[r] /\ Exists(r) /\ at[t] = "starting" /\ step[t] = 0
        /\ at'[t] = "free" /\ UNCHANGED <<program, open, forks, step>> /\ Exists(t)'
        /\ \A u \in Tasks : u # t => Rests(u)
        /\ label'[t][Len(t)] = label[r][Len(t)] /\ label'[t][Place(t)].offset = Last(t)
        /\ t # Root
    <3>1. Len(t) \in 1..Len(t)
      <4>1. TeamOf(t) \in Teams /\ t \in MembersOf(TeamOf(t)) /\ Place(TeamOf(t)) \in Nat \ {0}
        BY <1>5, <1>6, <1>9, BeginEffect
      <4>2. Len(t) \in Nat \ {0}
        BY <1>7, <4>1
      <4> QED BY <4>2
    <3> QED BY <1>9, <3>1, BeginEffect
  <2>2. CASE q = t
    <3>1. ~ open[t]
      BY <1>9, <2>1, <2>2 DEF Plain
    <3>2. forks[t] * Region \in Nat
      BY <1>8, <2>2, Dues
    <3>3. OwnCounted(t)'
      <4>1. Due(t, forks[t] * Region) >= Last(t)
        <5>1. Due(t, 0) <= Due(t, forks[t] * Region)
          BY <1>8, <2>2, <3>2, Dues
        <5>2. Due(t, 0) = Last(t)
          <6>1. SpanAt(Place(t)) \in Nat /\ Last(t) \in Nat
            BY <1>8, <2>1, <2>2, Dues, Tree, Widths
          <6>2. Due(t, 0) = Last(t) + (SpanAt(Place(t)) * 0)
            BY <2>1 DEF Due
          <6> QED BY <6>1, <6>2
        <5> QED BY <5>1, <5>2
      <4>2. Region' = Region
        BY <2>1 DEF Region
      <4>3. Due(t, forks[t] * Region) \in Nat /\ Last(t) \in Nat
        <5> DEFINE n == forks[t] * Region
        <5> HIDE DEF n
        <5>1. Due(t, n) \in Nat
          BY <1>8, <2>2, <3>2, Dues DEF n
        <5> QED BY <2>1, <5>1, Tree, Widths DEF n
      <4>4. label'[t][Place(t)].offset <= Due(t, forks[t] * Region)
        BY <2>1, <4>1, <4>3
      <4> HIDE DEF r
      <4> QED BY <2>1, <3>1, <4>2, <4>4 DEF OwnCounted
    <3>4. ASSUME NEW u \in MembersOf(t) PROVE MemberCounted(t, u)'
      <4>1. u # t /\ u \in Tasks
        BY <1>5, <2>2, Tree
      <4> QED BY <1>4, <2>1, <2>2, <4>1 DEF Rests
    <3> QED BY <2>2, <3>3, <3>4
  <2>3. CASE q # t
    <3>1. OwnCounted(q)'
      <4>1. Rests(q)
        BY <1>5, <2>1, <2>3
      <4> QED BY <1>3, <2>1, <4>1 DEF Rests, Exists
    <3>2. ASSUME NEW u \in MembersOf(q), u # t PROVE MemberCounted(q, u)'
      BY <1>4, <1>5, <2>1, <3>2 DEF Rests
    <3>3. ASSUME t \in MembersOf(q) PROVE MemberCounted(q, t)'
      <4>1. q = r
        BY <1>5, <3>3
      <4>2. Place(r) = Len(t)
        BY <1>7, <2>1
      <4>3. forks[r] > 0 /\ label[r][Place(r)].offset <= Due(r, (forks[r] - 1) * Region)
        BY <1>1, <2>1 DEF OwnCounted
      <4>4. label[r][Place(r)].offset \in Nat
        <5>1. Place(r) \in 1..Place(r) /\ r \in Tasks
          BY <1>5, <1>6, <2>1
        <5> HIDE DEF r
        <5> QED BY <2>1, <5>1, TimesKnown DEF Spelling
      <4>5. Region' = Region
        BY <2>1 DEF Region
      <4>6. (forks[r] - 1) * Region \in Nat /\ ((forks[r] - 1) * Region) + 0 = (forks[r] - 1) * Region
        <5>1. forks[r] - 1 \in 0..program.regions
          BY <1>8, <2>1, <4>3
        <5>2. (forks[r] - 1) * Region \in Nat
          BY <1>8, <2>1, <5>1, Dues
        <5> QED BY <5>2
      <4>7. label'[t][Place(r)].offset + 0 <= Due(r, ((forks[r] - 1) * Region) + step[t])
        BY <2>1, <4>2, <4>3, <4>4, <4>6
      <4> HIDE DEF r
      <4> QED BY <2>1, <4>1, <4>3, <4>5, <4>7 DEF MemberCounted
    <3> QED BY <3>1, <3>2, <3>3
  <2> QED BY <2>2, <2>3
<1>10. ASSUME NEW t \in Tasks, Quiet(t), NEW q \in Teams
      PROVE  OwnCounted(q)' /\ \A u \in MembersOf(q) : MemberCounted(q, u)'
  <2>1. /\ t # Root /\ TeamOf(t) \in Teams /\ UNCHANGED <<program, open, forks>>
        /\ \A u \in Tasks : u # t => Rests(u)
        /\ step'[t] = IF Reaching(t) THEN step[t] + 1 ELSE step[t]
    BY <1>10, QuietFrame
  <2>2. /\ Exists(t) /\ Exists(t)'
        /\ \A k \in 1..Place(t) :
              label'[t][k].offset = label[t][k].offset
                                    + (IF BarrierEnd(t) /\ k = Len(t) THEN SpanAt(k) ELSE 0)
        /\ \A k \in 1..Place(t) : label[t][k].offset \in Nat
    <3>1. Exists(t)
      BY <1>10, QuietTimes
    <3> QED BY <1>10, <3>1, QuietTimes, TimesKnown DEF Spelling
  <2>3. OwnCounted(q)'
    <3>1. q # t => Rests(q)
      BY <1>5, <2>1
    <3>2. label'[t][Place(t)].offset = label[t][Place(t)].offset
      <4>1. Place(t) # Len(t) /\ Place(t) \in 1..Place(t)
        BY <1>6, Spans
      <4>2. label'[t][Place(t)].offset = label[t][Place(t)].offset + 0 /\ label[t][Place(t)].offset \in Nat
        BY <2>2, <4>1
      <4> QED BY <4>2
    <3> QED BY <1>3, <2>1, <2>2, <3>1, <3>2 DEF Rests, Exists
  <2>4. ASSUME NEW u \in MembersOf(q), u # t PROVE MemberCounted(q, u)'
    BY <1>4, <1>5, <2>1, <2>4 DEF Rests
  <2>5. ASSUME t \in MembersOf(q) PROVE MemberCounted(q, t)'
    <3> DEFINE S == SpanAt(Place(q))
               o == label[t][Place(q)].offset
               n == ((forks[q] - 1) * Region) + step[t]
    <3>1. Place(q) \in 1..Place(t) /\ Place(q) = Len(t)
      BY <1>7, <2>5
    <3>2. /\ forks[q] > 0 /\ at[t] # "none" /\ at'[t] # "none"
          /\ o + (IF at[t] \in {"free", "ending"} THEN 0 ELSE S) <= Due(q, n)
      BY <1>1, <2>2, <2>5 DEF MemberCounted, Exists
    <3>3. o \in Nat /\ label'[t][Place(q)].offset = o + (IF BarrierEnd(t) THEN S ELSE 0)
      BY <2>2, <3>1
    <3>4. S \in Nat /\ n \in Nat /\ Due(q, n) \in Nat /\ Due(q, n + 1) = Due(q, n) + S
      <4>1. forks[q] \in 1..program.regions /\ step[t] \in 0..Region
        BY <1>8, <3>2
      <4>2. n \in Nat /\ S \in Nat
        BY <1>8, <4>1, Dues
      <4> HIDE DEF n
      <4> QED BY <1>8, <4>2, Dues
    <3>5. Region' = Region
      BY <2>1 DEF Region
    <3>6. n + 1 = ((forks[q] - 1) * Region) + (step[t] + 1)
      <4>1. forks[q] \in 1..program.regions /\ step[t] \in Nat
        BY <1>8, <3>2
      <4>2. forks[q] - 1 \in 0..program.regions
        BY <1>8, <4>1
      <4>3. (forks[q] - 1) * Region \in Nat
        BY <1>8, <4>2, Dues
      <4> DEFINE x == (forks[q] - 1) * Region
      <4> HIDE DEF x
      <4> QED BY <4>1, <4>3 DEF x
    <3> HIDE DEF S, o
    <3>7. CASE Reaching(t)
      <4>1. at[t] = "free"
        BY <3>7, <1>10 DEF Reaching, BeginLoop, BeginSections, BeginSingleExecutor, BeginSingleOther,
                           ReachBarrier, Reaches
      <4>2. ~ BarrierEnd(t) /\ step'[t] = step[t] + 1
        BY <2>1, <3>7, <4>1 DEF BarrierEnd
      <4>3. label'[t][Place(q)].offset + (IF at'[t] \in {"free", "ending"} THEN 0 ELSE S) <= Due(q, n + 1)
        <5> HIDE DEF n
        <5> QED BY <3>2, <3>3, <3>4, <4>1, <4>2
      <4>4. label'[t][Place(q)].offset + (IF at'[t] \in {"free", "ending"} THEN 0 ELSE S)
              <= Due(q, ((forks[q] - 1) * Region) + step'[t])
        BY <3>6, <4>2, <4>3
      <4> QED BY <2>1, <3>2, <3>5, <4>4 DEF MemberCounted, S
    <3>8. CASE ~ Reaching(t)
      <4>1. step'[t] = step[t]
        BY <2>1, <3>8
      <4>2. \/ BarrierEnd(t) /\ at[t] = "released" /\ at'[t] \in {"free", "ending"}
            \/ ~ BarrierEnd(t) /\ at[t] \notin {"free", "ending"}
        BY <1>10, <3>8, QuietPlaces DEF BarrierEnd, InSingle
      <4>3. label'[t][Place(q)].offset + (IF at'[t] \in {"free", "ending"} THEN 0 ELSE S) <= Due(q, n)
        <5> HIDE DEF n
        <5> QED BY <3>2, <3>3, <3>4, <4>2
      <4> QED BY <2>1, <3>2, <3>5, <4>1, <4>3 DEF MemberCounted, S
    <3> QED BY <3>7, <3>8
  <2> QED BY <2>3, <2>4, <2>5
<1>11. ASSUME NEW t \in Tasks, Record(t) \/ UNCHANGED vars, NEW q \in Teams
      PROVE  OwnCounted(q)' /\ \A u \in MembersOf(q) : MemberCounted(q, u)'
  <2>1. UNCHANGED <<program, label, at, open, forks, step>>
    <3>1. CASE Record(t)
      BY <3>1 DEF Record
    <3>2. CASE UNCHANGED vars
      BY <3>2 DEF vars
    <3> QED BY <1>11, <3>1, <3>2
  <2> QED BY <1>3, <1>4, <2>1 DEF Exists
<1>12. ASSUME NEW t \in Tasks, ImplicitTaskEndMaster(t), NEW q \in Teams
      PROVE  OwnCounted(q)' /\ \A u \in MembersOf(q) : MemberCounted(q, u)'
  <2> DEFINE r == TeamOf(t)
  <2>1. /\ t # Root /\ r \in Teams /\ r \in Tasks /\ t \in MembersOf(r) /\ r # t
        /\ open[r] /\ at[r] = "free" /\ Exists(r) /\ Exists(t) /\ at[t] = "ending" /\ Place(r) = Len(t)
        /\ at'[t] = "none" /\ ~ Exists(t)' /\ at'[r] = "free" /\ step'[r] = step[r]
        /\ \A u \in Tasks : u \notin {t, r} => Rests(u)
        /\ \A k \in 1..Len(t) : label'[r][k].offset = label[t][k].offset
        /\ ~ open'[r] /\ \A p \in Teams : p # r => open'[p] = open[p]
        /\ UNCHANGED <<program, forks>>
    BY <1>12, MasterEffect
  <2>2. \A k \in 1..Len(r) : label'[r][k].offset = label[r][k].offset
    <3> SUFFICES ASSUME NEW k \in 1..Len(r) PROVE label'[r][k].offset = label[r][k].offset
      OBVIOUS
    <3>1. k \in 1..Len(t) /\ k \in 1..Place(r) /\ k \in 1..Place(t)
      BY <1>6, <1>7, <2>1
    <3>2. Clock(t, k) = Clock(r, k)
      BY <2>1 DEF TeamsAgree, AgreeIn
    <3>3. Clock(t, k) = label[t][k].offset
      BY <2>1, <3>1, TimesKnown DEF Spelling
    <3>4. Clock(r, k) = label[r][k].offset
      <4> HIDE DEF r
      <4> QED BY <2>1, <3>1, TimesKnown DEF Spelling
    <3> QED BY <2>1, <3>1, <3>2, <3>3, <3>4
  <2>3. CASE q = r
    <3>1. OwnCounted(r)'
      <4>1. forks[r] > 0 /\ label[t][Place(r)].offset + 0 <= Due(r, ((forks[r] - 1) * Region) + step[t])
        BY <1>1, <2>1 DEF MemberCounted
      <4>2. forks[r] \in 1..program.regions /\ step[t] \in 0..Region /\ forks[r] \in 0..program.regions
        BY <1>8, <2>1, <4>1
      <4> DEFINE n == ((forks[r] - 1) * Region) + step[t]
                 m == forks[r] * Region
      <4> HIDE DEF r
      <4>3. n \in Nat /\ m \in Nat /\ n <= m
        BY <1>8, <2>1, <4>2, Dues
      <4>4. label[t][Place(r)].offset + 0 <= Due(r, n)
        BY <4>1
      <4>5. label[t][Place(r)].offset \in Nat
        BY <1>7, <2>1, TimesKnown DEF Spelling
      <4> HIDE DEF n, m
      <4>6. Due(r, n) <= Due(r, m) /\ Due(r, n) \in Nat /\ Due(r, m) \in Nat
        BY <1>8, <2>1, <4>3, Dues
      <4>7. label[t][Place(r)].offset <= Due(r, m)
        BY <4>4, <4>5, <4>6
      <4>8. Place(r) \in 1..Len(t) /\ Region' = Region
        BY <1>6, <2>1 DEF Region
      <4>9. label'[r][Place(r)].offset <= Due(r, m)
        BY <2>1, <4>7, <4>8
      <4> QED BY <2>1, <4>8, <4>9 DEF OwnCounted, m
    <3>2. MemberCounted(r, t)'
      BY <2>1 DEF MemberCounted
    <3>3. ASSUME NEW u \in MembersOf(r), u # t PROVE MemberCounted(r, u)'
      <4>1. Rests(u)
        BY <2>1, <3>3, Tree
      <4> QED BY <1>4, <2>1, <4>1 DEF Rests
    <3> QED BY <2>3, <3>1, <3>2, <3>3
  <2>4. CASE q # r
    <3>1. OwnCounted(q)'
      <4>1. q # t => Rests(q)
        BY <1>5, <2>1, <2>4
      <4> HIDE DEF r
      <4> QED BY <1>3, <2>1, <2>4, <4>1 DEF Rests, Exists
    <3>2. ASSUME NEW u \in MembersOf(q) PROVE MemberCounted(q, u)'
      <4>1. u # t /\ u \in Tasks
        BY <1>5, <2>4
      <4>2. CASE u = r
        <5>1. Place(q) \in 1..Len(r)
          BY <1>6, <1>7, <1>5, <4>2
        <5> HIDE DEF r
        <5> QED BY <1>4, <2>1, <2>2, <4>2, <5>1
      <4>3. CASE u # r
        <5>1. Rests(u)
          BY <2>1, <4>1, <4>3
        <5> QED BY <1>4, <2>1, <5>1 DEF Rests
      <4> QED BY <4>2, <4>3
    <3> QED BY <3>1, <3>2
  <2> QED BY <2>3, <2>4
<1>13. ASSUME NEW t \in Tasks, ImplicitTaskEndWorker(t), NEW q \in Teams
      PROVE  OwnCounted(q)' /\ \A u \in MembersOf(q) : MemberCounted(q, u)'
  <2>1. /\ at'[t] = "none" /\ ~ Exists(t)' /\ UNCHANGED <<program, open, forks>>
        /\ \A u \in Tasks : u # t => Rests(u)
    BY <1>13, WorkerEffect
  <2>2. OwnCounted(q)'
    BY <1>3, <1>5, <2>1 DEF Rests, Exists
  <2>3. ASSUME NEW u \in MembersOf(q) PROVE MemberCounted(q, u)'
    <3>1. CASE u = t
      BY <2>1, <3>1 DEF MemberCounted
    <3>2. CASE u # t
      BY <1>4, <1>5, <2>1, <3>2 DEF Rests
    <3> QED BY <3>1, <3>2
  <2> QED BY <2>2, <2>3
<1>14. ASSUME NEW r \in Teams, Fork(r), NEW q \in Teams
      PROVE  OwnCounted(q)' /\ \A u \in MembersOf(q) : MemberCounted(q, u)'
  <2>1. /\ ~ open[r] /\ Exists(r) /\ UNCHANGED <<program, label, step>>
        /\ \A u \in MembersOf(r) : at[u] = "none" /\ at'[u] = "starting"
        /\ \A u \in Tasks : u \notin MembersOf(r) => Rests(u)
        /\ \A p \in Teams : p # r => open'[p] = open[p] /\ forks'[p] = forks[p]
        /\ open'[r] /\ forks'[r] = forks[r] + 1
    BY <1>14, ForkEffect
  <2>2. CASE q = r
    <3>1. forks[r] \in Nat /\ (forks[r] + 1) - 1 = forks[r]
      BY <1>8
    <3>2. Region' = Region
      BY <2>1 DEF Region
    <3>3. OwnCounted(r)'
      <4>1. label[r][Place(r)].offset <= Due(r, forks[r] * Region)
        BY <1>1, <2>1 DEF OwnCounted
      <4> QED BY <2>1, <3>1, <3>2, <4>1 DEF OwnCounted
    <3>4. \A u \in MembersOf(r) : MemberCounted(r, u)'
      BY <2>1, <3>1 DEF MemberCounted, Exists
    <3> QED BY <2>2, <3>3, <3>4
  <2>3. CASE q # r
    <3>1. OwnCounted(q)'
      <4>1. Exists(q)' => Exists(q)
        BY <1>5, <2>1 DEF Exists, Rests
      <4> QED BY <1>3, <2>1, <2>3, <4>1
    <3>2. ASSUME NEW u \in MembersOf(q) PROVE MemberCounted(q, u)'
      <4>1. u \notin MembersOf(r) /\ u \in Tasks
        BY <1>5, <2>3
      <4> QED BY <1>4, <2>1, <2>3, <4>1 DEF Rests
    <3> QED BY <3>1, <3>2
  <2> QED BY <2>2, <2>3
<1>15. ASSUME NEW r \in Teams, OpenBarrier(r), NEW q \in Teams
      PROVE  OwnCounted(q)' /\ \A u \in MembersOf(q) : MemberCounted(q, u)'
  <2>1. /\ UNCHANGED <<program, label, open, forks, step>>
        /\ \A u \in MembersOf(r) : at[u] = "barrier" /\ at'[u] = "released" /\ Exists(u)
        /\ \A u \in Tasks : u \notin MembersOf(r) => Rests(u)
        /\ \A u \in Tasks : Exists(u)' <=> Exists(u)
    BY <1>15, OpenEffect
  <2>2. OwnCounted(q)'
    BY <1>3, <1>5, <2>1
  <2>3. ASSUME NEW u \in MembersOf(q) PROVE MemberCounted(q, u)'
    <3>1. CASE u \in MembersOf(r)
      BY <1>1, <1>5, <2>1, <3>1 DEF MemberCounted, Region
    <3>2. CASE u \notin MembersOf(r)
      BY <1>4, <1>5, <2>1, <3>2 DEF Rests
    <3> QED BY <3>1, <3>2
  <2> QED BY <2>2, <2>3
<1>16. Root \in Tasks
  BY Tree
<1> QED BY <1>9, <1>10, <1>11, <1>12, <1>13, <1>14, <1>15, <1>16, StepKinds

\* AgreeIn, for one member and for two.
AgreesBelow(q, t) ==
  /\ \A k \in 1..Len(q) : Clock(t, k) = Clock(q, k)
  /\ Clock(q, Place(q)) <= Clock(t, Place(q))
  /\ knows[q] => knows[t]
AgreesBeside(q, t, u) ==
  /\ Exists(u) => Clock(u, Place(q)) = Clock(t, Place(q))
  /\ at[u] = "starting" => Clock(t, Place(q)) = Clock(q, Place(q))

(* The members of a team stay at one time.                                 *)
LEMMA AgreeStep ==
  ASSUME Timed, [Next]_vars
  PROVE  TeamsAgree'
<1> USE DEF Timed
<1>1. \A q \in Teams : open[q] => \A t \in MembersOf(q) : Exists(t) =>
         AgreesBelow(q, t) /\ \A u \in MembersOf(q) : AgreesBeside(q, t, u)
  BY DEF TeamsAgree, AgreeIn, AgreesBelow, AgreesBeside
<1>2. SUFFICES ASSUME NEW q \in Teams, open'[q], NEW t \in MembersOf(q), Exists(t)'
               PROVE  AgreesBelow(q, t)' /\ \A u \in MembersOf(q) : AgreesBeside(q, t, u)'
  BY DEF TeamsAgree, AgreeIn, AgreesBelow, AgreesBeside
<1>3. /\ q \in Tasks /\ Place(q) \in Nat \ {0} /\ Place(q) = Len(q) + 1
      /\ \A k \in 1..Len(q) : k \in 1..Place(q) /\ k # Place(q)
      /\ \A u \in MembersOf(q) : /\ u \in Tasks /\ u # Root /\ TeamOf(u) = q /\ u # q
                                 /\ Len(u) = Place(q) /\ Place(q) \in 1..Place(u)
                                 /\ \A k \in 1..Len(q) : k \in 1..Place(u)
  <2>1. q \in Tasks /\ Place(q) \in Nat \ {0} /\ Place(q) = Len(q) + 1 /\ Len(q) \in Nat
    BY Tree, Spans DEF Place
  <2>2. \A u \in MembersOf(q) : u \in Tasks /\ u # Root /\ TeamOf(u) = q /\ u # q
    BY Tree
  <2>3. ASSUME NEW u \in MembersOf(q)
        PROVE  /\ Len(u) = Place(q) /\ Place(q) \in 1..Place(u)
               /\ \A k \in 1..Len(q) : k \in 1..Place(u)
    <3>1. Len(u) = Len(q) + 1 /\ Place(u) = Len(u) + 1
      BY <2>2, Paths, Spans
    <3> QED BY <2>1, <3>1
  <2> QED BY <2>1, <2>2, <2>3
\* Nothing that the agreement of the team is about changes.
<1> DEFINE SameClocks(u, n) == \A k \in 1..n : Clock(u, k)' = Clock(u, k)
<1>4. ASSUME open[q], SameClocks(q, Place(q)), knows'[q] => knows[q],
             \A u \in MembersOf(q) : /\ SameClocks(u, Place(q)) /\ (Exists(u)' => Exists(u))
                                     /\ (at'[u] = "starting" => at[u] = "starting")
                                     /\ (knows[u] => knows'[u])
      PROVE  AgreesBelow(q, t)' /\ \A u \in MembersOf(q) : AgreesBeside(q, t, u)'
  <2>1. Exists(t) /\ AgreesBelow(q, t)
    BY <1>1, <1>2, <1>4
  <2>2. AgreesBelow(q, t)'
    BY <1>3, <1>4, <2>1 DEF AgreesBelow
  <2>3. ASSUME NEW u \in MembersOf(q) PROVE AgreesBeside(q, t, u)'
    <3>1. AgreesBeside(q, t, u)
      BY <1>1, <1>4, <2>1
    <3>2. Place(q) \in 1..Place(q)
      BY <1>3
    <3> QED BY <1>4, <2>3, <3>1, <3>2 DEF AgreesBeside
  <2> QED BY <2>2, <2>3
<1>5. ASSUME NEW u \in Tasks, Rests(u)
      PROVE  /\ \A n : SameClocks(u, n) /\ (Exists(u)' <=> Exists(u)) /\ at'[u] = at[u]
  BY <1>5, Resting DEF Rests
<1>6. ASSUME NEW v \in Tasks, Quiet(v)
      PROVE  AgreesBelow(q, t)' /\ \A u \in MembersOf(q) : AgreesBeside(q, t, u)'
  <2>1. open' = open /\ knows' = knows /\ \A u \in Tasks : u # v => Rests(u)
    BY <1>6, QuietFrame
  <2>2. /\ Exists(v) /\ SameClocks(v, Place(v)) /\ at'[v] # "starting"
    BY <1>6, QuietTimes, QuietPlaces
  <2>3. \A u \in MembersOf(q) \cup {q} : SameClocks(u, Place(q))
    <3> SUFFICES ASSUME NEW u \in MembersOf(q) \cup {q}, NEW k \in 1..Place(q)
                 PROVE  Clock(u, k)' = Clock(u, k)
      OBVIOUS
    <3>1. u \in Tasks /\ k \in 1..Place(u)
      <4>1. Place(q) \in 1..Place(u)
        BY <1>3
      <4>2. Place(u) \in Nat /\ u \in Tasks
        BY <1>3, Spans
      <4> QED BY <1>3, <4>1, <4>2
    <3>2. CASE u = v
      BY <2>2, <3>1, <3>2
    <3>3. CASE u # v
      <4>1. Rests(u)
        BY <2>1, <3>1, <3>3
      <4> QED BY <3>1, <4>1, Resting DEF Rests
    <3> QED BY <3>2, <3>3
  <2>4. \A u \in MembersOf(q) : (Exists(u)' => Exists(u)) /\ (at'[u] = "starting" => at[u] = "starting")
    BY <1>3, <1>5, <2>1, <2>2
  <2> QED BY <1>2, <1>4, <2>1, <2>3, <2>4
<1>7. ASSUME NEW v \in Tasks, Record(v)
      PROVE  AgreesBelow(q, t)' /\ \A u \in MembersOf(q) : AgreesBeside(q, t, u)'
  <2>1. /\ ~ Forked(v) /\ UNCHANGED <<label, at, open>> /\ (knows[v] => knows'[v])
        /\ \A u \in Tasks : u # v => knows'[u] = knows[u]
    BY <1>7, RecordEffect
  <2>2. q # v
    BY <1>2, <2>1 DEF Forked
  <2>3. \A u : \A k : Clock(u, k)' = Clock(u, k)
    BY <2>1 DEF Clock
  <2>4. \A u : Exists(u)' <=> Exists(u)
    BY <2>1 DEF Exists
  <2> QED BY <1>2, <1>3, <1>4, <2>1, <2>2, <2>3, <2>4
<1>8. ASSUME UNCHANGED vars
      PROVE  AgreesBelow(q, t)' /\ \A u \in MembersOf(q) : AgreesBeside(q, t, u)'
  <2>1. UNCHANGED <<label, at, open, knows>>
    BY <1>8 DEF vars, truth
  <2>2. \A u : \A k : Clock(u, k)' = Clock(u, k)
    BY <2>1 DEF Clock
  <2>3. \A u : Exists(u)' <=> Exists(u)
    BY <2>1 DEF Exists
  <2> QED BY <1>2, <1>4, <2>1, <2>2, <2>3
<1>9. ASSUME NEW v \in Tasks, ImplicitTaskEndWorker(v)
      PROVE  AgreesBelow(q, t)' /\ \A u \in MembersOf(q) : AgreesBeside(q, t, u)'
  <2>1. /\ at[v] = "ending" /\ at'[v] = "none" /\ ~ Exists(v)' /\ open' = open /\ v # Root
        /\ \A u \in Tasks : u # v => Rests(u) /\ knows'[u] = knows[u]
    BY <1>9, WorkerEffect
  <2>2. q # v /\ t # v
    BY <1>2, <2>1 DEF Plain
  <2>3. AgreesBelow(q, t) /\ Exists(t) /\ \A u \in MembersOf(q) : AgreesBeside(q, t, u)
    BY <1>1, <1>2, <1>3, <1>5, <2>1, <2>2
  <2>4. AgreesBelow(q, t)'
    BY <1>3, <2>1, <2>2, <2>3, Resting DEF AgreesBelow, Rests
  <2>5. ASSUME NEW u \in MembersOf(q) PROVE AgreesBeside(q, t, u)'
    <3>1. CASE u = v
      BY <2>1, <3>1 DEF AgreesBeside
    <3>2. CASE u # v
      BY <1>3, <2>1, <2>2, <2>3, <3>2, Resting DEF AgreesBeside, Rests
    <3> QED BY <3>1, <3>2
  <2> QED BY <2>4, <2>5
<1>10. ASSUME NEW r \in Teams, Fork(r)
       PROVE  AgreesBelow(q, t)' /\ \A u \in MembersOf(q) : AgreesBeside(q, t, u)'
  <2>1. /\ UNCHANGED <<label, knows>> /\ \A u \in MembersOf(r) : at[u] = "none" /\ at'[u] = "starting"
        /\ \A u \in Tasks : u \notin MembersOf(r) => Rests(u)
        /\ \A p \in Teams : p # r => open'[p] = open[p]
    BY <1>10, ForkEffect
  <2>2. q # r /\ open[q] /\ q \notin MembersOf(r)
    <3>1. q # r
      BY <1>2, <2>1 DEF Exists
    <3> QED BY <1>2, <2>1, <3>1 DEF Plain
  <2>3. \A u \in MembersOf(q) : u \notin MembersOf(r)
    BY <1>3, <2>2, Tree
  <2> QED BY <1>3, <1>4, <1>5, <2>1, <2>2, <2>3
<1>11. ASSUME NEW r \in Teams, OpenBarrier(r)
       PROVE  AgreesBelow(q, t)' /\ \A u \in MembersOf(q) : AgreesBeside(q, t, u)'
  <2>1. /\ open' = open /\ r \notin MembersOf(r) /\ r \in Tasks
        /\ \A u \in MembersOf(r) :
              /\ u \in Tasks /\ at[u] = "barrier" /\ at'[u] = "released" /\ Exists(u) /\ Exists(u)'
              /\ knows'[u] = (\E v \in MembersOf(r) : knows[v] \/ loose[v])
              /\ Place(u) = Place(r) + 1
              /\ \A k \in 1..Place(u) :
                   Clock(u, k)' = Clock(u, k) + (IF k = Place(r) THEN SpanAt(k) ELSE 0)
        /\ \A u \in Tasks : u \notin MembersOf(r) => Rests(u) /\ knows'[u] = knows[u]
    BY <1>11, OpenEffect
  <2>2. q \notin MembersOf(r)
    BY <1>2, <2>1 DEF Plain
  <2>3. CASE q # r
    <3>1. \A u \in MembersOf(q) : u \notin MembersOf(r)
      BY <1>3, <2>3, <1>11, Tree
    <3> QED BY <1>2, <1>3, <1>4, <1>5, <2>1, <2>2, <3>1
  <2>4. CASE q = r
    <3>1. AgreesBelow(r, t) /\ \A u \in MembersOf(r) : AgreesBeside(r, t, u) /\ Exists(u)
      BY <1>1, <1>2, <2>1, <2>4
    <3>2. \A k : Clock(r, k)' = Clock(r, k)
      BY <2>1, Resting DEF Rests
    <3>3. /\ SpanAt(Place(r)) \in Nat
          /\ \A u \in MembersOf(r) : \A k \in 1..Place(u) : Clock(u, k) \in Nat
          /\ Clock(r, Place(r)) \in Nat
      <4>1. \A u \in MembersOf(r) : \A k \in 1..Place(u) : Clock(u, k) \in Nat
        BY <1>3, <2>1, <2>4, <3>1, TimesKnown DEF Spelling
      <4>2. Exists(r) /\ Place(r) \in 1..Place(r)
        <5>1. Exists(r)
          BY <1>11, OpenEffect
        <5> QED BY <1>3, <2>4, <5>1
      <4>3. Clock(r, Place(r)) \in Nat
        BY <2>1, <4>2, TimesKnown DEF Spelling
      <4>4. SpanAt(Place(r)) \in Nat
        BY <2>4, Dues DEF Strong, Labelled, Control, ControlTypes
      <4> QED BY <4>1, <4>3, <4>4
    <3>4. AgreesBelow(r, t)'
      <4>1. \A k \in 1..Len(r) : Clock(t, k)' = Clock(r, k)'
        <5> SUFFICES ASSUME NEW k \in 1..Len(r) PROVE Clock(t, k)' = Clock(r, k)'
          OBVIOUS
        <5>1. k \in 1..Place(t) /\ k # Place(r)
          BY <1>3, <2>4
        <5>2. Clock(t, k)' = Clock(t, k) + 0 /\ Clock(t, k) \in Nat
          BY <1>2, <2>1, <2>4, <3>3, <5>1
        <5> QED BY <3>1, <3>2, <5>2 DEF AgreesBelow
      <4>2. Clock(r, Place(r))' <= Clock(t, Place(r))'
        <5>1. Clock(t, Place(r))' = Clock(t, Place(r)) + SpanAt(Place(r)) /\ Clock(t, Place(r)) \in Nat
          BY <1>2, <1>3, <2>1, <2>4, <3>3
        <5>2. Clock(r, Place(r)) <= Clock(t, Place(r))
          BY <3>1 DEF AgreesBelow
        <5> QED BY <3>2, <3>3, <5>1, <5>2
      <4>3. knows'[r] => knows'[t]
        <5>1. knows[r] => knows[t]
          BY <3>1 DEF AgreesBelow
        <5> QED BY <1>2, <2>1, <2>4, <5>1
      <4> QED BY <4>1, <4>2, <4>3 DEF AgreesBelow
    <3>5. ASSUME NEW u \in MembersOf(r) PROVE AgreesBeside(r, t, u)'
      <4>1. Clock(u, Place(r)) = Clock(t, Place(r))
        BY <3>1 DEF AgreesBeside
      <4>2. /\ Clock(u, Place(r))' = Clock(u, Place(r)) + SpanAt(Place(r))
            /\ Clock(t, Place(r))' = Clock(t, Place(r)) + SpanAt(Place(r))
        BY <1>2, <1>3, <2>1, <2>4
      <4> QED BY <2>1, <4>1, <4>2 DEF AgreesBeside
    <3> QED BY <2>4, <3>4, <3>5
  <2> QED BY <2>3, <2>4
<1>12. ASSUME NEW v \in Tasks, ImplicitTaskBegin(v)
       PROVE  AgreesBelow(q, t)' /\ \A u \in MembersOf(q) : AgreesBeside(q, t, u)'
  <2>1. /\ v # Root /\ TeamOf(v) # v /\ at[v] = "starting" /\ at'[v] = "free" /\ Exists(v)'
        /\ open' = open /\ open[TeamOf(v)] /\ Place(TeamOf(v)) = Len(v)
        /\ \A u \in Tasks : u # v => Rests(u) /\ knows'[u] = knows[u]
        /\ knows'[v] = knows[TeamOf(v)]
        /\ \A k \in 1..Len(v) : Clock(v, k)' = Clock(TeamOf(v), k)
    BY <1>12, BeginEffect
  <2>2. q # v
    BY <1>2, <2>1 DEF Plain
  <2>3. CASE q # TeamOf(v)
    <3>1. \A u \in MembersOf(q) : u # v
      BY <1>3, <2>3
    <3> HIDE DEF SameClocks
    <3> QED BY <1>2, <1>3, <1>4, <1>5, <2>1, <2>2, <3>1
  <2>4. CASE q = TeamOf(v)
    <3>1. v \in MembersOf(q) /\ Len(v) = Place(q) /\ Place(q) \in 1..Len(v)
      <4>1. v \in MembersOf(q)
        BY <2>1, <2>4, Tree
      <4> QED BY <1>3, <2>1, <2>4, <4>1
    <3>2. /\ \A k : Clock(q, k)' = Clock(q, k)
          /\ \A u \in MembersOf(q) : u # v => \A k : Clock(u, k)' = Clock(u, k)
          /\ \A u \in MembersOf(q) : u # v => (Exists(u)' <=> Exists(u)) /\ at'[u] = at[u]
      BY <1>3, <2>1, <2>2, Resting DEF Rests
    <3>3. Clock(q, Place(q)) \in Nat
      <4>1. Exists(q) /\ Place(q) \in 1..Place(q)
        BY <1>3, <1>12, <2>4, BeginEffect
      <4> QED BY <1>3, <4>1, TimesKnown DEF Spelling
    <3>4. Clock(v, Place(q))' = Clock(q, Place(q)) /\ \A k \in 1..Len(q) : Clock(v, k)' = Clock(q, k)
      <4>1. \A k \in 1..Len(q) : k \in 1..Len(v)
        BY <1>3, <3>1
      <4> QED BY <2>1, <2>4, <3>1, <4>1
    <3>5. \A u \in MembersOf(q) : Exists(u) => Clock(u, Place(q)) = Clock(q, Place(q))
      BY <1>1, <2>1, <2>4, <3>1 DEF AgreesBeside
    <3>6. knows'[q] = knows[q]
      BY <1>3, <2>1, <2>2
    <3>7. CASE t = v
      <4>1. AgreesBelow(q, v)'
        BY <2>1, <2>4, <3>2, <3>3, <3>4, <3>6 DEF AgreesBelow
      <4>2. ASSUME NEW u \in MembersOf(q) PROVE AgreesBeside(q, v, u)'
        BY <3>2, <3>4, <3>5 DEF AgreesBeside
      <4> QED BY <3>7, <4>1, <4>2
    <3>8. CASE t # v
      <4>1. Exists(t) /\ AgreesBelow(q, t) /\ \A u \in MembersOf(q) : AgreesBeside(q, t, u)
        BY <1>1, <1>2, <2>1, <2>4, <3>2, <3>8
      <4>2. AgreesBelow(q, t)'
        BY <1>2, <1>3, <2>1, <3>2, <3>6, <3>8, <4>1 DEF AgreesBelow
      <4>3. ASSUME NEW u \in MembersOf(q) PROVE AgreesBeside(q, t, u)'
        <5>1. CASE u = v
          BY <1>2, <2>1, <3>2, <3>4, <3>5, <3>8, <4>1, <5>1 DEF AgreesBeside
        <5>2. CASE u # v
          BY <1>2, <3>2, <3>8, <4>1, <5>2 DEF AgreesBeside
        <5> QED BY <5>1, <5>2
      <4> QED BY <4>2, <4>3
    <3> QED BY <3>7, <3>8
  <2> QED BY <2>3, <2>4
<1>13. ASSUME NEW v \in Tasks, ImplicitTaskEndMaster(v)
       PROVE  AgreesBelow(q, t)' /\ \A u \in MembersOf(q) : AgreesBeside(q, t, u)'
  <2> DEFINE r == TeamOf(v)
  <2>1. /\ v # Root /\ r # v /\ r \in Teams /\ r \in Tasks /\ v \in MembersOf(r) /\ open[r]
        /\ at[v] = "ending" /\ at'[v] = "none" /\ ~ Exists(v)' /\ at[r] = "free" /\ at'[r] = "free"
        /\ Exists(v) /\ Exists(r) /\ Place(r) = Len(v)
        /\ ~ open'[r] /\ \A p \in Teams : p # r => open'[p] = open[p]
        /\ \A u \in Tasks : u \notin {v, r} => Rests(u) /\ knows'[u] = knows[u]
        /\ (knows[r] => knows'[r])
        /\ \A k \in 1..Len(v) : Clock(r, k)' = Clock(v, k)
    BY <1>13, MasterEffect
  <2>2. q # r /\ open[q] /\ q # v /\ q \notin {v, r}
    BY <1>2, <2>1 DEF Plain
  <2>3. SameClocks(r, Len(r))
    <3>1. \A k \in 1..Len(r) : Clock(v, k) = Clock(r, k)
      BY <1>1, <2>1 DEF AgreesBelow
    <3>2. \A k \in 1..Len(r) : k \in 1..Len(v)
      <4>1. Place(r) = Len(r) + 1 /\ Len(r) \in Nat
        BY <2>1, Spans
      <4> QED BY <2>1, <4>1
    <3> HIDE DEF r
    <3> QED BY <2>1, <3>1, <3>2
  <2>4. \A u \in MembersOf(q) : u # v
    BY <1>3, <2>2
  <2> HIDE DEF r
  <2>5. ASSUME NEW u \in MembersOf(q)
        PROVE  /\ SameClocks(u, Place(q)) /\ (Exists(u)' => Exists(u))
               /\ (at'[u] = "starting" => at[u] = "starting") /\ (knows[u] => knows'[u])
    <3>1. CASE u = r
      <4>1. Len(r) = Place(q)
        BY <1>3, <3>1
      <4>2. SameClocks(u, Place(q))
        BY <2>3, <3>1, <4>1
      <4> HIDE DEF SameClocks
      <4> QED BY <2>1, <3>1, <4>2
    <3>2. CASE u # r
      <4>1. Rests(u) /\ knows'[u] = knows[u]
        BY <1>3, <2>1, <2>4, <3>2
      <4>2. u \in Tasks
        BY <1>3
      <4> HIDE DEF SameClocks
      <4> QED BY <1>5, <4>1, <4>2
    <3> QED BY <3>1, <3>2
  <2>6. SameClocks(q, Place(q)) /\ knows'[q] = knows[q]
    BY <1>3, <1>5, <2>1, <2>2
  <2> HIDE DEF SameClocks
  <2> QED BY <1>4, <2>2, <2>5, <2>6
<1> HIDE DEF SameClocks
<1> QED BY <1>6, <1>7, <1>8, <1>9, <1>10, <1>11, <1>12, <1>13, StepKinds

(* A tame program starts like this ...                                     *)
LEMMA TimedInit ==
  ASSUME Init, Tame(program)
  PROVE  Timed
<1>1. Strong
  BY Initially
<1> USE DEF Init
<1>2. /\ Root \in Tasks /\ \A t \in Tasks \ {Root} : at[t] = "none" /\ ~ Exists(t)
      /\ at[Root] = "free"
  BY Tree DEF Exists
<1>3. \A r \in Teams : ~ open[r] /\ forks[r] = 0 /\ script[r] = <<>>
  OBVIOUS
<1>4. \A t \in Tasks : ~ knows[t] /\ ~ inWork[t] /\ ~ loose[t]
  OBVIOUS
<1>5. /\ label[Root] = <<ImplicitSegment(0, 1)>> /\ Place(Root) = 1 /\ Len(label[Root]) = 1
      /\ ConstructDepth(Root) = 0
  <2>1. Place(Root) = 1
    BY <1>2, Paths DEF Place
  <2>2. label[Root] = <<ImplicitSegment(0, 1)>>
    BY <1>2 DEF GenInitTaskLabel
  <2> QED BY <1>2, <2>1, <2>2 DEF ConstructDepth, InLoop, InSingle, WorkPlaces
<1>6. /\ ImplicitSegment(0, 1) \in OwnType(1) /\ ImplicitSegment(0, 1).offset = 0
      /\ ImplicitSegment(0, 1).loopCount = 0
  <2>1. \A n \in Nat : /\ ImplicitSegment(n, 1) \in OwnType(1)
                       /\ ImplicitSegment(n, 1).offset = n
                       /\ ImplicitSegment(n, 1).loopCount = 0
    BY OwnSegments
  <2>2. 0 \in Nat
    OBVIOUS
  <2> QED BY <2>1, <2>2
<1>7. Spelling
  <2>1. Spelled(Root)
    <3>1. label[Root][1] = ImplicitSegment(0, 1)
      BY <1>5
    <3>2. SpanAt(1) = 1
      BY DEF SpanAt
    <3>3. \A k \in 1..1 : k = 1
      OBVIOUS
    <3> QED BY <1>5, <1>6, <3>1, <3>2, <3>3 DEF Spelled
  <2>2. \A t \in Tasks \ {Root} : Spelled(t)
    BY <1>2 DEF Spelled
  <2> QED BY <2>1, <2>2 DEF Spelling
<1>8. Plain
  <2>1. \A r \in Teams : ~ open[r] /\ Len(script[r]) = 0
    BY <1>3
  <2> QED BY <1>2, <1>4, <2>1 DEF Plain
<1>9. Counted
  <2> SUFFICES ASSUME NEW r \in Teams PROVE CountedIn(r)
    BY DEF Counted
  <2>1. \A t \in MembersOf(r) : at[t] = "none"
    BY <1>2, Tree
  <2>2. Exists(r) => r = Root
    BY <1>2, Tree
  <2>3. r = Root => label[r][Place(r)].offset <= Due(r, forks[r] * Region)
    <3> SUFFICES ASSUME r = Root PROVE label[r][Place(r)].offset <= Due(r, forks[r] * Region)
      OBVIOUS
    <3>1. label[r][Place(r)].offset = 0
      BY <1>5, <1>6
    <3>2. 0 \in 0..program.regions
      BY ProgramBounds DEF Strong, Labelled, Control, ControlTypes
    <3>3. 0 * Region \in Nat
      BY <3>2, Dues
    <3> DEFINE n == 0 * Region
    <3> HIDE DEF n
    <3>4. n \in Nat
      BY <3>3 DEF n
    <3>5. Due(r, n) \in Nat
      BY <3>4, Dues
    <3> QED BY <1>3, <3>1, <3>5 DEF n
  <2> QED BY <1>3, <2>1, <2>2, <2>3 DEF CountedIn
<1>10. TeamsAgree
  BY <1>3 DEF TeamsAgree, AgreeIn
<1> QED BY <1>1, <1>7, <1>8, <1>9, <1>10 DEF Timed

(* ... and goes on like this.                                              *)
LEMMA TimedStep ==
  ASSUME Timed, [Next]_vars
  PROVE  Timed'
<1>1. Strong'
  BY StrongStep DEF Timed
<1>2. Tame(program)'
  <2>1. program' = program
    BY ProgramStays
  <2> QED BY <2>1 DEF Timed
<1> QED BY <1>1, <1>2, SpellingStep, PlainStep, CountedStep, AgreeStep DEF Timed

-----------------------------------------------------------------------------
(* The time of the recorded access                                         *)

\* The recorded label: its last place that is not a construct, and the times in it.
HistPlace == IF Last(hist).type = "workshare" THEN Len(hist) - 1 ELSE Len(hist)
TimeAt(k) == hist[k].offset
CountAt(k) == hist[k].loopCount

\* The clocks of t, down to place k, stand where the record was made.
SameTime(t, k) == \A j \in 1..k : Clock(t, j) = TimeAt(j)
SameMember(t, k) == k = 1 \/ TimeAt(k) % SpanAt(k) = t[k-1]

\* In the team at place k the task that recorded, or its ancestor, is t or its ancestor.
Meets(t, k) == k <= HistPlace /\ SameTime(t, k-1) /\ SameMember(t, k)
Later(t) == \E k \in 1..Place(t) : Meets(t, k) /\ Clock(t, k) > TimeAt(k)
Around(t) == HistPlace <= Place(t) /\ SameTime(t, HistPlace)
\* ... and the record was made by t itself, inside of a construct.
Marked(t) == Around(t) /\ HistPlace = Place(t) /\ Len(hist) > HistPlace
Matches(t) == /\ Marked(t) /\ Count(t, HistPlace) = CountAt(HistPlace)
              /\ Last(label[t]) = Last(hist)

\* The region of t goes on; all members of the team that t forked have started.
Active(t) == Exists(t) /\ (t # Root => open[TeamOf(t)])
Waits(t) == t \in Teams /\ open[t] /\ \A u \in MembersOf(t) : at[u] # "starting"

Nothing == \A t \in Tasks : ~ knows[t] /\ ~ inWork[t] /\ ~ loose[t]
HistOK ==
  /\ hist \in Seq(SegmentType)
  /\ HistPlace \in 2..Depth+1 /\ Len(hist) \in {HistPlace, HistPlace + 1}
  /\ CountAt(1) = 0
  /\ \A k \in 1..HistPlace : hist[k] \in OwnType(SpanAt(k))
  /\ Len(hist) > HistPlace =>
       \/ Last(hist) \in {PlaceHolderSegment, SingleSegment(SingleExec)}
       \/ \E id \in Nat : Last(hist) \in {IterationSegment(id), SectionSegment(id)}

NotEarlier(t) ==
  ~ Waits(t) => \A k \in 1..Place(t) : Meets(t, k) => Clock(t, k) >= TimeAt(k)
Knowing(t) ==
  /\ knows[t] => Later(t) \/ Around(t)
  /\ Later(t) => knows[t]
  /\ Around(t) /\ Len(hist) = HistPlace => knows[t]
  /\ Around(t) /\ HistPlace < Place(t) => Len(hist) = HistPlace
  /\ loose[t] => Later(t) \/ Around(t)
\* t is past the barrier that ends its region.
Leaving(t) == at[t] = "ending" \/ (at[t] = "released" /\ Construct(t) = "end")
Joined(t) ==
  /\ ~ Forked(t) /\ HistPlace > Place(t) => ~ SameTime(t, Place(t))
  /\ Leaving(t) /\ HistPlace > Len(t) => ~ SameTime(t, Len(t))
Unstarted(t) ==
  at[t] = "starting" =>
    ~ (HistPlace > Len(t) /\ SameTime(TeamOf(t), Len(t)) /\ SameMember(t, Place(t)))
CountsStay(t) ==
  Depth = 2 /\ t # Root /\ SameTime(t, 2) /\ (at[t] # "barrier" \/ Len(t) = 2) =>
    Count(t, 2) = CountAt(2)
InWork(t) == inWork[t] <=> at[t] = "work" /\ (knows[t] \/ Matches(t))

\* Where the task that recorded inside of a construct is, as long as no barrier opened.
InPart(t) == at[t] \in {"chunk", "single"} /\ Matches(t) /\ knows[t]
OtherPart(t) ==
  /\ at[t] = "work" /\ ~ knows[t] /\ (inWork[t] \/ loose[t])
  /\ \E id \in 0..taken[TeamOf(t)][step[t]]-1 : Last(hist) = Kind(Construct(t), id)
PastPart(t) ==
  Depth = 1 /\ ~ knows[t] /\ loose[t] /\ \E id \in Nat : Last(hist) = IterationSegment(id)
Marks(t) ==
  Marked(t) =>
    /\ CountAt(HistPlace) <= Count(t, HistPlace)
    /\ at[t] = "barrier" => knows[t] \/ loose[t]
    /\ at[t] # "barrier" =>
         IF Count(t, HistPlace) = CountAt(HistPlace) THEN InPart(t) \/ OtherPart(t) ELSE PastPart(t)

TimelyIn(t) ==
  /\ Active(t) => NotEarlier(t) /\ Knowing(t) /\ Joined(t) /\ CountsStay(t) /\ Marks(t)
  /\ Unstarted(t) /\ InWork(t)
Seen == HistOK /\ \A t \in Tasks : TimelyIn(t)
Timely == IF hist = <<>> THEN Nothing ELSE Seen

(* What the recorded label holds.                                          *)
LEMMA HistKnown ==
  ASSUME Tame(program), HistOK
  PROVE  /\ HistPlace \in Nat /\ HistPlace \in 2..Depth+1 /\ HistPlace \in 1..Len(hist)
         /\ \A k \in 1..HistPlace : TimeAt(k) \in Nat /\ CountAt(k) \in Nat
         /\ Len(hist) \in Nat /\ Len(hist) \in {HistPlace, HistPlace + 1}
<1>1. Depth \in {1, 2}
  BY Spans
<1>2. HistPlace \in 2..Depth+1 /\ Len(hist) \in {HistPlace, HistPlace + 1}
  BY DEF HistOK
<1>3. HistPlace \in Nat /\ HistPlace \in 1..Len(hist) /\ Len(hist) \in Nat
  BY <1>1, <1>2
<1>4. ASSUME NEW k \in 1..HistPlace PROVE TimeAt(k) \in Nat /\ CountAt(k) \in Nat
  <2>1. hist[k] \in OwnType(SpanAt(k))
    BY DEF HistOK
  <2> QED BY <2>1, OwnSegments DEF TimeAt, CountAt
<1> QED BY <1>2, <1>3, <1>4

(* Two tasks with the same clocks and path, one before and one after a     *)
(* step, see the recorded access alike.                                    *)
LEMMA SameView ==
  ASSUME hist' = hist, NEW t, NEW u, NEW n \in Nat,
         \A k \in 1..n : Clock(t, k)' = Clock(u, k),
         \A k \in 1..n-1 : t[k] = u[k]
  PROVE  /\ HistPlace' = HistPlace
         /\ \A k : TimeAt(k)' = TimeAt(k) /\ CountAt(k)' = CountAt(k)
         /\ \A k \in 0..n : SameTime(t, k)' <=> SameTime(u, k)
         /\ \A k \in 1..n : Meets(t, k)' <=> Meets(u, k)
<1>1. HistPlace' = HistPlace /\ \A k : TimeAt(k)' = TimeAt(k) /\ CountAt(k)' = CountAt(k)
  BY DEF HistPlace, TimeAt, CountAt
<1>2. ASSUME NEW k \in 0..n PROVE SameTime(t, k)' <=> SameTime(u, k)
  <2>1. \A j \in 1..k : j \in 1..n
    OBVIOUS
  <2> QED BY <1>1, <2>1 DEF SameTime
<1>3. ASSUME NEW k \in 1..n PROVE Meets(t, k)' <=> Meets(u, k)
  <2>1. SameTime(t, k-1)' <=> SameTime(u, k-1)
    <3>1. k-1 \in 0..n
      OBVIOUS
    <3> QED BY <1>2, <3>1
  <2>2. SameMember(t, k)' <=> SameMember(u, k)
    <3>1. CASE k = 1
      BY <3>1 DEF SameMember
    <3>2. CASE k # 1
      <4>1. t[k-1] = u[k-1]
        <5>1. k-1 \in 1..n-1
          BY <3>2
        <5> QED BY <5>1
      <4>2. SpanAt(k)' = SpanAt(k)
        BY DEF SpanAt
      <4> QED BY <1>1, <3>2, <4>1, <4>2 DEF SameMember
    <3> QED BY <3>1, <3>2
  <2> QED BY <1>1, <2>1, <2>2 DEF Meets
<1> QED BY <1>1, <1>2, <1>3

(* ... and two tasks in one state likewise.                                *)
LEMMA SameViewNow ==
  ASSUME NEW t, NEW u, NEW n \in Nat,
         \A k \in 1..n : Clock(t, k) = Clock(u, k),
         \A k \in 1..n-1 : t[k] = u[k]
  PROVE  /\ \A k \in 0..n : SameTime(t, k) <=> SameTime(u, k)
         /\ \A k \in 1..n : Meets(t, k) <=> Meets(u, k)
<1>2. ASSUME NEW k \in 0..n PROVE SameTime(t, k) <=> SameTime(u, k)
  <2>1. \A j \in 1..k : j \in 1..n
    OBVIOUS
  <2> QED BY <2>1 DEF SameTime
<1>3. ASSUME NEW k \in 1..n PROVE Meets(t, k) <=> Meets(u, k)
  <2>1. SameTime(t, k-1) <=> SameTime(u, k-1)
    <3>1. k-1 \in 0..n
      OBVIOUS
    <3> QED BY <1>2, <3>1
  <2>2. SameMember(t, k) <=> SameMember(u, k)
    <3>1. CASE k = 1
      BY <3>1 DEF SameMember
    <3>2. CASE k # 1
      <4>1. t[k-1] = u[k-1]
        <5>1. k-1 \in 1..n-1
          BY <3>2
        <5> QED BY <5>1
      <4> QED BY <3>2, <4>1 DEF SameMember
    <3> QED BY <3>1, <3>2
  <2> QED BY <2>1, <2>2 DEF Meets
<1> QED BY <1>2, <1>3

(* ... so what the places say of the record passes from one to the other.  *)
LEMMA ViewKept ==
  ASSUME Tame(program), HistOK, hist' = hist, NEW t \in Tasks,
         \A k \in 1..Place(t) : Clock(t, k)' = Clock(t, k)
  PROVE  /\ HistPlace' = HistPlace
         /\ \A k : TimeAt(k)' = TimeAt(k) /\ CountAt(k)' = CountAt(k)
         /\ \A k \in 0..Place(t) : SameTime(t, k)' <=> SameTime(t, k)
         /\ \A k \in 1..Place(t) : Meets(t, k)' <=> Meets(t, k)
         /\ Later(t)' <=> Later(t)
         /\ Around(t)' <=> Around(t)
         /\ Marked(t)' <=> Marked(t)
<1>1. Place(t) \in Nat /\ Place(t)' = Place(t)
  BY Spans DEF Place
<1>2. /\ HistPlace' = HistPlace
      /\ \A k : TimeAt(k)' = TimeAt(k) /\ CountAt(k)' = CountAt(k)
      /\ \A k \in 0..Place(t) : SameTime(t, k)' <=> SameTime(t, k)
      /\ \A k \in 1..Place(t) : Meets(t, k)' <=> Meets(t, k)
  <2> DEFINE n == Place(t)
  <2>1. n \in Nat /\ \A k \in 1..n : Clock(t, k)' = Clock(t, k)
    BY <1>1
  <2> HIDE DEF n
  <2>2. /\ HistPlace' = HistPlace
        /\ \A k : TimeAt(k)' = TimeAt(k) /\ CountAt(k)' = CountAt(k)
        /\ \A k \in 0..n : SameTime(t, k)' <=> SameTime(t, k)
        /\ \A k \in 1..n : Meets(t, k)' <=> Meets(t, k)
    BY <2>1, SameView
  <2> QED BY <2>2 DEF n
<1>3. Later(t)' <=> Later(t)
  BY <1>1, <1>2 DEF Later
<1>4. Around(t)' <=> Around(t)
  BY <1>1, <1>2, HistKnown DEF Around
<1>5. Marked(t)' <=> Marked(t)
  BY <1>1, <1>2, <1>4 DEF Marked
<1> QED BY <1>2, <1>3, <1>4, <1>5
\* A step of another task that u does not notice.
Unnoticed(u) ==
  /\ Rests(u) /\ knows'[u] = knows[u]
  /\ Active(u)' => Active(u)
  /\ Waits(u) => Waits(u)'
  /\ Forked(u) => Forked(u)'
  /\ at[u] \in {"work", "released"} => Construct(u)' = Construct(u)
  /\ at[u] = "work" => /\ taken[TeamOf(u)][step[u]] \in Nat
                       /\ taken'[TeamOf(u)][step[u]] \in Nat
                       /\ taken[TeamOf(u)][step[u]] <= taken'[TeamOf(u)][step[u]]
  /\ at[u] = "starting" => \A k \in 1..Len(u) : Clock(TeamOf(u), k)' = Clock(TeamOf(u), k)

(* What u does not notice leaves it in time.                               *)
LEMMA Unmoved ==
  ASSUME Tame(program), HistOK, hist' = hist, NEW u \in Tasks, TimelyIn(u), Unnoticed(u)
  PROVE  TimelyIn(u)'
<1> DEFINE H == HistPlace
           P == Place(u)
<1>1. /\ \A k : Clock(u, k)' = Clock(u, k) /\ Count(u, k)' = Count(u, k)
      /\ label'[u] = label[u] /\ at'[u] = at[u] /\ knows'[u] = knows[u]
      /\ inWork'[u] = inWork[u] /\ loose'[u] = loose[u] /\ step'[u] = step[u]
  BY Resting DEF Unnoticed, Rests
<1>2. /\ HistPlace' = HistPlace
      /\ \A k : TimeAt(k)' = TimeAt(k) /\ CountAt(k)' = CountAt(k)
      /\ \A k \in 0..P : SameTime(u, k)' <=> SameTime(u, k)
      /\ \A k \in 1..P : Meets(u, k)' <=> Meets(u, k)
      /\ Later(u)' <=> Later(u)
      /\ Around(u)' <=> Around(u)
      /\ Marked(u)' <=> Marked(u)
  BY <1>1, ViewKept
<1>3. P \in Nat /\ P \in 1..Depth+1 /\ P' = P /\ P = Len(u) + 1 /\ Len(u) \in Nat /\ Len(u)' = Len(u)
  BY Spans DEF Place
<1>4. Matches(u)' <=> Matches(u)
  BY <1>1, <1>2 DEF Matches
<1>5. ASSUME Active(u)'
      PROVE  NotEarlier(u)' /\ Knowing(u)' /\ Joined(u)' /\ CountsStay(u)' /\ Marks(u)'
  <2>1. NotEarlier(u) /\ Knowing(u) /\ Joined(u) /\ CountsStay(u) /\ Marks(u)
    BY <1>5 DEF Unnoticed, TimelyIn
  <2>2. NotEarlier(u)'
    BY <1>1, <1>2, <1>3, <2>1 DEF NotEarlier, Unnoticed
  <2>3. Knowing(u)'
    BY <1>1, <1>2, <1>3, <2>1 DEF Knowing
  <2>4. Joined(u)'
    <3>1. Forked(u) => Forked(u)'
      BY DEF Unnoticed
    <3>2. SameTime(u, P)' <=> SameTime(u, P)
      BY <1>2, <1>3
    <3>3. SameTime(u, Len(u))' <=> SameTime(u, Len(u))
      BY <1>2, <1>3
    <3>4. Leaving(u)' => Leaving(u)
      BY <1>1 DEF Leaving, Unnoticed
    <3> QED BY <1>2, <1>3, <2>1, <3>1, <3>2, <3>3, <3>4 DEF Joined
  <2>5. CountsStay(u)'
    <3> SUFFICES ASSUME (Depth = 2 /\ u # Root /\ SameTime(u, 2) /\ (at[u] # "barrier" \/ Len(u) = 2))'
                 PROVE  (Count(u, 2) = CountAt(2))'
      BY DEF CountsStay
    <3>1. SameTime(u, 2)
      <4>1. P >= 2
        <5>1. Len(u) # 0
          BY Paths
        <5> QED BY <1>3, <5>1
      <4>2. 2 \in 0..P
        BY <1>3, <4>1
      <4> QED BY <1>2, <4>2
    <3> QED BY <1>1, <1>2, <1>3, <2>1, <3>1 DEF CountsStay
  <2>6. Marks(u)'
    <3> SUFFICES ASSUME Marked(u)'
                 PROVE  /\ CountAt(H)' <= Count(u, H)'
                        /\ at'[u] = "barrier" => knows'[u] \/ loose'[u]
                        /\ at'[u] # "barrier" =>
                             IF Count(u, H)' = CountAt(H)' THEN InPart(u)' \/ OtherPart(u)' ELSE PastPart(u)'
      BY <1>2 DEF Marks
    <3>1. InPart(u) => InPart(u)'
      BY <1>1, <1>4 DEF InPart
    <3>2. PastPart(u) => PastPart(u)'
      BY <1>1 DEF PastPart
    <3>3. OtherPart(u) => OtherPart(u)'
      <4> SUFFICES ASSUME OtherPart(u) PROVE OtherPart(u)'
        OBVIOUS
      <4>1. PICK id \in 0..taken[TeamOf(u)][step[u]]-1 : Last(hist) = Kind(Construct(u), id)
        BY DEF OtherPart
      <4>2. at[u] = "work" /\ ~ knows[u] /\ (inWork[u] \/ loose[u])
        BY DEF OtherPart
      <4>3. Construct(u)' = Construct(u) /\ TeamOf(u)' = TeamOf(u)
        BY <4>2 DEF Unnoticed, TeamOf
      <4>4. id \in 0..taken'[TeamOf(u)][step'[u]]-1
        BY <1>1, <4>2 DEF Unnoticed
      <4>5. Last(hist') = Kind(Construct(u)', id)
        BY <4>1, <4>3
      <4> QED BY <1>1, <4>2, <4>3, <4>4, <4>5 DEF OtherPart, Kind
    <3> QED BY <1>1, <1>2, <2>1, <3>1, <3>2, <3>3 DEF Marks
  <2> QED BY <2>2, <2>3, <2>4, <2>5, <2>6
<1>6. Unstarted(u)'
  <2> SUFFICES ASSUME at'[u] = "starting", (HistPlace > Len(u) /\ SameTime(TeamOf(u), Len(u))
                                            /\ SameMember(u, Place(u)))'
               PROVE  FALSE
    BY DEF Unstarted
  <2>1. at[u] = "starting" /\ \A k \in 1..Len(u) : Clock(TeamOf(u), k)' = Clock(TeamOf(u), k)
    BY <1>1 DEF Unnoticed
  <2>2. SameTime(TeamOf(u), Len(u))
    BY <1>2, <1>3, <2>1 DEF SameTime, TeamOf
  <2>3. SameMember(u, P)
    BY <1>2, <1>3 DEF SameMember, SpanAt
  <2> QED BY <1>2, <1>3, <2>1, <2>2, <2>3 DEF TimelyIn, Unstarted
<1>7. InWork(u)'
  BY <1>1, <1>4 DEF InWork, TimelyIn
<1> QED BY <1>5, <1>6, <1>7 DEF TimelyIn

(* What a team has handed out of the construct that a task works on.       *)
LEMMA TakenKnown ==
  ASSUME Timed, NEW u \in Tasks, at[u] = "work"
  PROVE  /\ u # Root /\ TeamOf(u) \in Teams /\ step[u] \in 1..program.length+1
         /\ taken[TeamOf(u)][step[u]] \in Nat
<1> USE DEF Timed, Strong, Labelled, Control
<1>1. u # Root
  BY DEF PlacesFit
<1>2. step[u] \in 1..Len(script[TeamOf(u)]) /\ TeamOf(u) \in Teams
  BY <1>1, ConstructKnown DEF Exists
<1>3. Len(script[TeamOf(u)]) <= program.length + 1 /\ program.length \in Nat
  BY <1>2, ProgramBounds DEF ScriptsEnd, ControlTypes
<1>4. Len(script[TeamOf(u)]) \in Nat
  BY <1>2 DEF ControlTypes
<1>5. step[u] \in 1..program.length+1
  BY <1>2, <1>3, <1>4
<1>6. taken \in [Teams -> [1..program.length+1 -> Nat]]
  BY DEF LabelTypes
<1> QED BY <1>1, <1>2, <1>5, <1>6

(* ... and goes on handing out.                                            *)
LEMMA TakenGrows ==
  ASSUME Timed, NEW t \in Tasks, Quiet(t), NEW u \in Tasks, u # t, at[u] = "work"
  PROVE  /\ taken'[TeamOf(u)][step[u]] >= taken[TeamOf(u)][step[u]]
         /\ taken'[TeamOf(u)][step[u]] \in Nat
<1>1. t # Root /\ TeamOf(t) \in Teams
  BY QuietFrame DEF Timed
<1>2. taken \in [Teams -> [1..program.length+1 -> Nat]]
  BY DEF Timed, Strong, Labelled, LabelTypes
<1>3. \/ taken' = taken
      \/ taken' = [taken EXCEPT ![TeamOf(t)][step[t]] = @ + 1]
      \/ /\ taken[TeamOf(t)][step[t] + 1] = 0
         /\ taken' = [taken EXCEPT ![TeamOf(t)][step[t] + 1] = 1]
  BY DEF Quiet, Reaching, Inside, BeginLoop, BeginSections, BeginSingleExecutor,
     BeginSingleOther, ReachBarrier, Dispatch, OrderedAcquired, OrderedReleased, EndLoop,
     EndSections, EndSingle, BarrierEnd, ImplicitTaskBegin, teamVars
<1> DEFINE a == TeamOf(u)
           b == step[u]
           c == TeamOf(t)
           d == step[t]
<1>4. a \in Teams /\ c \in Teams /\ b \in 1..program.length+1 /\ taken[a][b] \in Nat
  BY <1>1, TakenKnown
<1> HIDE DEF a, b, c, d
<1>5. CASE taken' = taken
  BY <1>4, <1>5 DEF a, b
<1>6. CASE taken' = [taken EXCEPT ![c][d] = @ + 1]
  <2>1. taken'[a][b] = IF a = c /\ b = d THEN taken[a][b] + 1 ELSE taken[a][b]
    BY <1>2, <1>4, <1>6
  <2> QED BY <1>4, <2>1 DEF a, b
<1>7. CASE taken[c][d + 1] = 0 /\ taken' = [taken EXCEPT ![c][d + 1] = 1]
  <2>1. taken'[a][b] = IF a = c /\ b = d + 1 THEN 1 ELSE taken[a][b]
    BY <1>2, <1>4, <1>7
  <2> QED BY <1>4, <1>7, <2>1 DEF a, b
<1> QED BY <1>3, <1>5, <1>6, <1>7 DEF c, d

(* The times that matter are numbers.                                      *)
LEMMA ClocksKnown ==
  ASSUME Timed, NEW t \in Tasks, Exists(t)
  PROVE  \A k \in 1..Place(t) :
           Clock(t, k) \in Nat /\ Count(t, k) \in Nat /\ label[t][k].offset \in Nat
<1>1. Strong /\ Tame(program) /\ Spelled(t)
  BY DEF Timed, Spelling
<1> QED BY <1>1, TimesKnown

(* A member that starts sees the record as the task that forked does.      *)
LEMMA BeginSeen ==
  ASSUME Timed, Seen, NEW t \in Tasks, ImplicitTaskBegin(t)
  PROVE  \A u \in Tasks : TimelyIn(u)'
<1> DEFINE r == TeamOf(t)
           P == Place(t)
           H == HistPlace
<1>1. Tame(program) /\ HistOK /\ \A u \in Tasks : TimelyIn(u)
  BY DEF Timed, Seen
<1>2. /\ t # Root /\ r \in Teams /\ r \in Tasks /\ t \in MembersOf(r)
      /\ open[r] /\ at[r] = "free" /\ Exists(r) /\ at[t] = "starting" /\ Place(r) = Len(t)
      /\ at'[t] = "free" /\ Exists(t)'
      /\ \A u \in Tasks : u # t => Rests(u) /\ knows'[u] = knows[u]
      /\ knows'[t] = knows[r] /\ inWork'[t] = inWork[t] /\ loose'[t] = loose[t]
      /\ UNCHANGED <<program, open, forks, step, script, taken, hist>>
      /\ \A k \in 1..Len(t) :
            Clock(t, k)' = Clock(r, k) /\ Count(t, k)' = Count(r, k)
      /\ Clock(t, P)' = Last(t)
  BY BeginEffect
<1>3. /\ \A q \in Teams : open[q] => at[q] = "free"
      /\ \A u \in Tasks : /\ loose[u] => at[u] \notin {"none", "starting", "released", "ending"}
                          /\ inWork[u] => at[u] = "work"
  BY DEF Timed, Plain
<1>4. /\ P = Len(t) + 1 /\ Len(t) \in Nat \ {0} /\ P \in Nat /\ P' = P /\ Len(t)' = Len(t) /\ P \in 2..Depth+1
      /\ \A k \in 1..Len(t)-1 : t[k] = r[k]
      /\ t[Len(t)] = Last(t)
      /\ Last(t) \in 0..SpanAt(P)-1 /\ SpanAt(P) \in Nat \ {0}
      /\ Depth \in {1, 2}
  <2>1. P = Len(t) + 1 /\ Len(t) \in Nat /\ Len(t) # 0 /\ P \in 1..Depth+1 /\ Depth \in {1, 2}
    BY <1>1, <1>2, Spans, Paths
  <2>2. /\ \A k \in 1..Len(t)-1 : t[k] = r[k]
        /\ t[Len(t)] = Last(t)
        /\ Last(t) \in 0..TeamSizes[Len(t)]-1
    BY <1>2, Paths
  <2>3. SpanAt(P) = TeamSizes[Len(t)] /\ SpanAt(P) \in Nat \ {0}
    <3>1. P \in 2..Depth+1 /\ P-1 = Len(t)
      BY <2>1
    <3>2. OffsetLimit \in Nat
      BY Widths
    <3>3. SpanAt(P) = TeamSizes[P-1] /\ SpanAt(P) \in 1..OffsetLimit-1
      <4> DEFINE p == P
      <4>1. p \in 2..Depth+1 /\ p \in 1..Depth+1
        BY <2>1, <3>1
      <4> HIDE DEF p
      <4>2. SpanAt(p) = TeamSizes[p-1] /\ SpanAt(p) \in 1..OffsetLimit-1
        BY <1>1, <4>1, Spans
      <4> QED BY <4>2 DEF p
    <3> QED BY <3>1, <3>2, <3>3
  <2> QED BY <2>1, <2>2, <2>3 DEF Place
<1>5. H \in Nat /\ H \in 2..Depth+1 /\ \A k \in 1..H : TimeAt(k) \in Nat
  BY <1>1, HistKnown
<1>6. /\ HistPlace' = H
      /\ \A k : TimeAt(k)' = TimeAt(k) /\ CountAt(k)' = CountAt(k)
      /\ \A k \in 0..Len(t) : SameTime(t, k)' <=> SameTime(r, k)
      /\ \A k \in 1..Len(t) : Meets(t, k)' <=> Meets(r, k)
  <2> DEFINE n == Len(t)
  <2>1. n \in Nat /\ \A k \in 1..n : Clock(t, k)' = Clock(r, k)
    BY <1>2, <1>4
  <2>2. \A k \in 1..n-1 : t[k] = r[k]
    BY <1>4
  <2> HIDE DEF n, r
  <2>3. /\ HistPlace' = HistPlace
        /\ \A k : TimeAt(k)' = TimeAt(k) /\ CountAt(k)' = CountAt(k)
        /\ \A k \in 0..n : SameTime(t, k)' <=> SameTime(r, k)
        /\ \A k \in 1..n : Meets(t, k)' <=> Meets(r, k)
    BY <1>2, <2>1, <2>2, SameView
  <2> QED BY <2>3 DEF n
<1>7. ~ (H >= P /\ SameTime(r, Len(t)) /\ SameMember(t, P))
  <2>1. Unstarted(t)
    BY <1>1 DEF TimelyIn
  <2> QED BY <1>2, <1>4, <1>5, <2>1 DEF Unstarted
<1>8. ~ Meets(t, P)' /\ (H >= P => ~ SameTime(t, P)')
  <2>1. SameMember(t, P)' <=> SameMember(t, P)
    BY <1>4, <1>6 DEF SameMember, SpanAt
  <2>2. SameTime(t, P-1)' <=> SameTime(r, Len(t))
    BY <1>4, <1>6
  <2>3. ~ Meets(t, P)'
    BY <1>4, <1>5, <1>6, <1>7, <2>1, <2>2 DEF Meets
  <2>4. ASSUME H >= P, SameTime(t, P)' PROVE FALSE
    <3>1. SameTime(t, P-1)'
      BY <1>4, <2>4 DEF SameTime
    <3>2. TimeAt(P) = Last(t)
      BY <1>2, <1>4, <1>6, <2>4 DEF SameTime
    <3>3. Last(t) % SpanAt(P) = Last(t)
      <4> DEFINE n == Last(t)
                 s == SpanAt(P)
      <4>1. s \in Nat \ {0} /\ n \in Nat /\ n < s
        BY <1>4
      <4> HIDE DEF n, s
      <4>2. n % s = n
        BY <4>1, Turns
      <4> QED BY <4>2 DEF n, s
    <3>4. SameMember(t, P)
      BY <1>4, <3>2, <3>3 DEF SameMember
    <3> QED BY <1>7, <2>2, <2>4, <3>1, <3>4
  <2> QED BY <2>3, <2>4
<1>9. NotEarlier(r) /\ Knowing(r) /\ CountsStay(r) /\ Marks(r) /\ ~ Waits(r)
  <2>1. Active(r)
    <3>1. r # Root => open[TeamOf(r)]
      <4>1. Control
        BY DEF Timed, Strong, Labelled
      <4> HIDE DEF r
      <4> QED BY <1>2, <4>1, OpenAround
    <3> HIDE DEF r
    <3> QED BY <1>2, <3>1 DEF Active
  <2>2. ~ Waits(r)
    <3> HIDE DEF r
    <3> QED BY <1>2 DEF Waits
  <2> HIDE DEF r
  <2> QED BY <1>1, <1>2, <2>1, <2>2 DEF TimelyIn
<1>10. Place(r) = Len(t) /\ Place(r) \in Nat /\ r # t
  BY <1>2, <1>4, Tree
<1> HIDE DEF r
<1>11. Later(t)' <=> Later(r)
  <2>1. ASSUME Later(t)' PROVE Later(r)
    <3>1. PICK k \in 1..P : Meets(t, k)' /\ Clock(t, k)' > TimeAt(k)
      BY <1>4, <1>6, <2>1 DEF Later
    <3>2. k # P
      BY <1>8, <3>1
    <3>3. k \in 1..Len(t)
      BY <1>4, <3>2
    <3> QED BY <1>2, <1>6, <1>10, <3>1, <3>3 DEF Later
  <2>2. ASSUME Later(r) PROVE Later(t)'
    <3>1. PICK k \in 1..Place(r) : Meets(r, k) /\ Clock(r, k) > TimeAt(k)
      BY <2>2 DEF Later
    <3>2. k \in 1..Len(t) /\ k \in 1..P
      BY <1>4, <1>10
    <3> QED BY <1>2, <1>4, <1>6, <3>1, <3>2 DEF Later
  <2> QED BY <2>1, <2>2
<1>12. /\ Around(t)' <=> Around(r)
       /\ Around(t)' => H <= Len(t) /\ H < P
  <2>1. ASSUME Around(t)' PROVE Around(r) /\ H <= Len(t)
    <3>1. H <= P /\ SameTime(t, H)'
      BY <1>4, <1>6, <2>1 DEF Around
    <3>2. H # P
      BY <1>4, <1>5, <1>6, <1>8, <3>1 DEF SameTime
    <3>3. H <= Len(t) /\ H \in 0..Len(t)
      BY <1>4, <1>5, <3>1, <3>2
    <3> QED BY <1>6, <1>10, <3>1, <3>3 DEF Around
  <2>2. ASSUME Around(r) PROVE Around(t)'
    <3>1. H <= Len(t) /\ SameTime(r, H) /\ H \in 0..Len(t)
      BY <1>4, <1>5, <1>10, <2>2 DEF Around
    <3> QED BY <1>4, <1>6, <3>1 DEF Around
  <2> QED BY <1>4, <1>5, <2>1, <2>2
<1>13. ~ inWork'[t] /\ ~ loose'[t]
  BY <1>2, <1>3
<1>14. ~ Marked(t)' /\ ~ Matches(t)'
  BY <1>4, <1>6, <1>8, <1>12, <1>5 DEF Marked, Matches
<1>15. NotEarlier(t)'
  <2> SUFFICES ASSUME NEW k \in 1..P, Meets(t, k)' PROVE Clock(t, k)' >= TimeAt(k)
    BY <1>4, <1>6 DEF NotEarlier
  <2>1. k \in 1..Len(t)
    BY <1>4, <1>8
  <2> QED BY <1>2, <1>6, <1>9, <1>10, <2>1 DEF NotEarlier
<1>16. Knowing(t)'
  <2>1. /\ knows'[t] => Later(t)' \/ Around(t)'
        /\ Later(t)' => knows'[t]
        /\ Around(t)' /\ Len(hist') = HistPlace' => knows'[t]
    BY <1>2, <1>6, <1>9, <1>11, <1>12 DEF Knowing
  <2>2. ASSUME Around(t)', HistPlace' < Place(t)' PROVE Len(hist') = HistPlace'
    <3>1. Around(r) /\ H <= Place(r)
      BY <1>10, <1>12, <2>2
    <3>2. CASE H < Place(r)
      BY <1>2, <1>6, <1>9, <3>1, <3>2 DEF Knowing
    <3>3. CASE H = Place(r) /\ Len(hist) # H
      <4>1. Marked(r)
        BY <1>1, <3>1, <3>3, HistKnown DEF Marked
      <4>2. at[r] = "free"
        BY <1>2
      <4>3. PastPart(r)
        BY <1>9, <4>1, <4>2 DEF Marks, InPart, OtherPart
      <4>4. Depth = 1
        BY <4>3 DEF PastPart
      <4>5. Len(r) < Depth /\ Place(r) = Len(r) + 1 /\ Len(r) \in Nat
        BY <1>1, <1>2, Paths, Spans
      <4> QED BY <1>5, <3>3, <4>4, <4>5
    <3> QED BY <1>2, <1>5, <1>6, <1>10, <3>1, <3>2, <3>3
  <2> QED BY <1>13, <2>1, <2>2 DEF Knowing
<1>17. Joined(t)'
  <2>1. ~ Leaving(t)'
    BY <1>2 DEF Leaving
  <2> QED BY <1>4, <1>5, <1>6, <1>8, <2>1 DEF Joined
<1>18. CountsStay(t)'
  <2> SUFFICES ASSUME Depth = 2, SameTime(t, 2)' PROVE Count(t, 2)' = CountAt(2)
    BY <1>6 DEF CountsStay
  <2>1. P # 2
    BY <1>5, <1>8
  <2>2. 2 \in 1..Len(t) /\ 2 \in 0..Len(t)
    BY <1>4, <2>1
  <2>3. SameTime(r, 2) /\ Count(t, 2)' = Count(r, 2)
    BY <1>2, <1>6, <2>2
  <2>4. r # Root
    <3>1. Place(Root) = 1
      BY Paths, Tree DEF Place
    <3> QED BY <1>4, <1>10, <2>1, <3>1
  <2>5. at[r] # "barrier"
    BY <1>2
  <2> QED BY <1>9, <2>3, <2>4, <2>5 DEF CountsStay
<1>19. Marks(t)' /\ Unstarted(t)' /\ InWork(t)'
  BY <1>2, <1>13, <1>14 DEF Marks, Unstarted, InWork
<1>20. ASSUME NEW u \in Tasks, u # t PROVE TimelyIn(u)'
  <2>1. Rests(u) /\ knows'[u] = knows[u]
    BY <1>2, <1>20
  <2>2. Active(u)' => Active(u)
    BY <1>2, <2>1, Resting DEF Active, Rests, TeamOf
  <2>3. Waits(u) => Waits(u)'
    <3> SUFFICES ASSUME Waits(u) PROVE Waits(u)'
      OBVIOUS
    <3>1. \A v \in MembersOf(u) : at'[v] # "starting"
      <4> SUFFICES ASSUME NEW v \in MembersOf(u) PROVE at'[v] # "starting"
        OBVIOUS
      <4>1. v \in Tasks /\ at[v] # "starting"
        BY Tree DEF Waits
      <4>2. v # t => at'[v] = at[v]
        BY <1>2, <4>1 DEF Rests
      <4> QED BY <1>2, <4>1, <4>2
    <3>2. MembersOf(u)' = MembersOf(u)
      BY DEF MembersOf, Indices
    <3> QED BY <1>2, <3>1, <3>2 DEF Waits
  <2>4. Forked(u) => Forked(u)'
    BY <1>2 DEF Forked
  <2>5. Construct(u)' = Construct(u)
    BY <1>2 DEF Construct, TeamOf
  <2>6. at[u] = "work" => taken[TeamOf(u)][step[u]] \in Nat
    BY TakenKnown
  <2>7. at[u] = "starting" => \A k \in 1..Len(u) : Clock(TeamOf(u), k)' = Clock(TeamOf(u), k)
    <3> SUFFICES ASSUME at[u] = "starting" PROVE TeamOf(u) \in Tasks /\ TeamOf(u) # t
      BY <1>2, Resting DEF Rests
    <3>1. u # Root
      BY DEF Timed, Strong, Labelled, Control, PlacesFit
    <3>2. open[TeamOf(u)] /\ TeamOf(u) \in Teams /\ TeamOf(u) \in Tasks
      <4>1. Control
        BY DEF Timed, Strong, Labelled
      <4> QED BY <3>1, <4>1, OpenAround, Tree
    <3> QED BY <1>2, <1>3, <3>2
  <2>8. Unnoticed(u)
    BY <1>2, <2>1, <2>2, <2>3, <2>4, <2>5, <2>6, <2>7 DEF Unnoticed
  <2> QED BY <1>1, <1>2, <2>8, Unmoved
<1>21. TimelyIn(t)'
  BY <1>15, <1>16, <1>17, <1>18, <1>19 DEF TimelyIn
<1> QED BY <1>20, <1>21

(* A task that runs is in a region that goes on.                           *)
LEMMA RunnerActive ==
  ASSUME Timed, NEW t \in Tasks, Exists(t), at[t] \notin {"released", "ending"}
  PROVE  Active(t)
<1>1. Control
  BY DEF Timed, Strong, Labelled
<1>2. t # Root => open[TeamOf(t)]
  BY <1>1, OpenAround DEF Exists
<1> QED BY <1>2 DEF Active

(* A task that starts belongs to a region that is open.                    *)
LEMMA StarterBelongs ==
  ASSUME Timed, NEW t \in Tasks, at[t] = "starting"
  PROVE  /\ t # Root /\ TeamOf(t) \in Teams /\ TeamOf(t) \in Tasks /\ TeamOf(t) # t
         /\ open[TeamOf(t)] /\ at[TeamOf(t)] = "free" /\ t \in MembersOf(TeamOf(t))
         /\ ~ Exists(t)
<1>1. Control
  BY DEF Timed, Strong, Labelled
<1>2. t # Root
  BY <1>1 DEF Control, PlacesFit
<1>3. open[TeamOf(t)] /\ TeamOf(t) \in Teams /\ TeamOf(t) \in Tasks /\ TeamOf(t) # t
      /\ t \in MembersOf(TeamOf(t))
  BY <1>1, <1>2, OpenAround, Tree
<1> QED BY <1>2, <1>3 DEF Timed, Plain, Exists

(* The members of a team that is about to start see nothing yet.           *)
LEMMA ForkSeen ==
  ASSUME Timed, Seen, NEW r \in Teams, Fork(r)
  PROVE  \A u \in Tasks : TimelyIn(u)'
<1>1. Tame(program) /\ HistOK /\ \A u \in Tasks : TimelyIn(u)
  BY DEF Timed, Seen
<1>2. /\ r \in Tasks /\ at[r] = "free" /\ ~ open[r] /\ Exists(r)
      /\ \A u \in MembersOf(r) : at[u] = "none" /\ at'[u] = "starting"
      /\ \A u \in Tasks : u \notin MembersOf(r) => Rests(u)
      /\ \A q \in Teams : q # r => /\ script'[q] = script[q] /\ taken'[q] = taken[q]
                                   /\ open'[q] = open[q]
      /\ open'[r]
      /\ UNCHANGED <<label, step, hist, knows, inWork>>
      /\ r \notin MembersOf(r)
      /\ \A u \in Tasks \ {Root} : u \notin MembersOf(r) => TeamOf(u) # r
  BY ForkEffect
<1>3. ASSUME NEW u \in Tasks, u \notin MembersOf(r) PROVE TimelyIn(u)'
  <2>1. Rests(u) /\ knows'[u] = knows[u]
    BY <1>2, <1>3
  <2>2. u # Root => TeamOf(u) \in Teams /\ TeamOf(u) # r
    BY <1>2, <1>3, Tree
  <2>3. Active(u)' => Active(u)
    BY <1>2, <2>1, <2>2, Resting DEF Active, Rests, TeamOf
  <2>4. Waits(u) => Waits(u)'
    <3> SUFFICES ASSUME Waits(u) PROVE Waits(u)'
      OBVIOUS
    <3>1. u \in Teams /\ open[u] /\ u # r /\ \A v \in MembersOf(u) : at[v] # "starting"
      BY <1>2 DEF Waits
    <3>2. ASSUME NEW v \in MembersOf(u) PROVE at'[v] # "starting"
      <4>1. v \in Tasks /\ v \notin MembersOf(r)
        BY <3>1, Tree
      <4>2. at'[v] = at[v]
        BY <1>2, <4>1 DEF Rests
      <4> QED BY <3>1, <4>2
    <3>3. MembersOf(u)' = MembersOf(u)
      BY DEF MembersOf, Indices
    <3> QED BY <1>2, <3>1, <3>2, <3>3 DEF Waits
  <2>5. Forked(u) => Forked(u)'
    BY <1>2 DEF Forked
  <2>6. at[u] \in {"work", "released"} => u # Root
    BY DEF Timed, Strong, Labelled, Control, PlacesFit
  <2>7. at[u] \in {"work", "released"} => Construct(u)' = Construct(u)
    BY <1>2, <2>2, <2>6 DEF Construct, TeamOf
  <2>8. at[u] = "work" => /\ taken[TeamOf(u)][step[u]] \in Nat
                          /\ taken'[TeamOf(u)][step[u]] = taken[TeamOf(u)][step[u]]
    BY <1>2, <2>2, <2>6, TakenKnown
  <2>9. at[u] = "starting" => \A k \in 1..Len(u) : Clock(TeamOf(u), k)' = Clock(TeamOf(u), k)
    <3> SUFFICES ASSUME at[u] = "starting" PROVE TeamOf(u) \in Tasks /\ TeamOf(u) \notin MembersOf(r)
      BY <1>2, Resting DEF Rests
    <3> QED BY <1>2, StarterBelongs
  <2>10. Unnoticed(u)
    BY <2>1, <2>3, <2>4, <2>5, <2>7, <2>8, <2>9 DEF Unnoticed
  <2> QED BY <1>1, <1>2, <2>10, Unmoved
<1>4. ASSUME NEW u \in MembersOf(r) PROVE TimelyIn(u)'
  <2>1. u \in Tasks /\ u # Root /\ TeamOf(u) = r /\ Len(u) = Place(r) /\ Len(u) \in Nat
    <3>1. u \in Tasks \ {Root} /\ TeamOf(u) = r
      BY Tree
    <3>2. Len(u) = Len(TeamOf(u)) + 1 /\ Len(u) \in Nat
      BY <1>1, <3>1, Paths, Spans
    <3> QED BY <3>1, <3>2 DEF Place
  <2>2. ~ Exists(u)' /\ at'[u] = "starting" /\ ~ inWork'[u]
    BY <1>2, <1>4, <2>1 DEF Exists, Timed, Plain
  <2>3. Joined(r)
    <3>1. Active(r)
      BY <1>2, RunnerActive
    <3> QED BY <1>1, <1>2, <3>1 DEF TimelyIn
  <2>4. ~ (HistPlace > Place(r) /\ SameTime(r, Place(r)))
    BY <1>2, <2>3 DEF Joined, Forked
  <2>5. HistPlace' = HistPlace /\ (SameTime(r, Len(u))' <=> SameTime(r, Len(u)))
    <3>1. \A k : Clock(r, k)' = Clock(r, k)
      BY <1>2, Resting DEF Rests
    <3>2. \A k \in 0..Place(r) : SameTime(r, k)' <=> SameTime(r, k)
      BY <1>1, <1>2, <3>1, ViewKept
    <3>3. HistPlace' = HistPlace
      BY <1>1, <1>2, <3>1, ViewKept
    <3>4. Len(u) \in 0..Place(r)
      BY <2>1
    <3> QED BY <3>2, <3>3, <3>4
  <2>6. Unstarted(u)'
    BY <2>1, <2>4, <2>5 DEF Unstarted
  <2>7. InWork(u)'
    BY <2>2 DEF InWork
  <2> QED BY <2>2, <2>6, <2>7 DEF TimelyIn, Active
<1> QED BY <1>3, <1>4

(* The end of a member moves nobody else.                                  *)
LEMMA WorkerSeen ==
  ASSUME Timed, Seen, NEW t \in Tasks, ImplicitTaskEndWorker(t)
  PROVE  \A u \in Tasks : TimelyIn(u)'
<1>1. Tame(program) /\ HistOK /\ \A u \in Tasks : TimelyIn(u)
  BY DEF Timed, Seen
<1>2. /\ t # Root /\ at[t] = "ending" /\ at'[t] = "none" /\ ~ Exists(t)'
      /\ inWork' = inWork
      /\ \A u \in Tasks : u # t => Rests(u) /\ knows'[u] = knows[u]
      /\ UNCHANGED <<program, open, forks, script, taken, hist>>
  BY WorkerEffect
<1>3. ASSUME NEW u \in Tasks, u # t PROVE TimelyIn(u)'
  <2>1. Rests(u) /\ knows'[u] = knows[u]
    BY <1>2, <1>3
  <2>2. Active(u)' => Active(u)
    BY <1>2, <2>1, Resting DEF Active, Rests, TeamOf
  <2>3. Waits(u) => Waits(u)'
    <3> SUFFICES ASSUME Waits(u) PROVE Waits(u)'
      OBVIOUS
    <3>1. \A v \in MembersOf(u) : at'[v] # "starting"
      <4> SUFFICES ASSUME NEW v \in MembersOf(u) PROVE at'[v] # "starting"
        OBVIOUS
      <4>1. v \in Tasks /\ at[v] # "starting"
        BY Tree DEF Waits
      <4>2. v # t => at'[v] = at[v]
        BY <1>2, <4>1 DEF Rests
      <4> QED BY <1>2, <4>1, <4>2
    <3>2. MembersOf(u)' = MembersOf(u)
      BY DEF MembersOf, Indices
    <3> QED BY <1>2, <3>1, <3>2 DEF Waits
  <2>4. Forked(u) => Forked(u)'
    BY <1>2 DEF Forked
  <2>5. Construct(u)' = Construct(u)
    BY <1>2, <2>1 DEF Construct, TeamOf, Rests
  <2>6. at[u] = "work" => taken[TeamOf(u)][step[u]] \in Nat
    BY TakenKnown
  <2>7. at[u] = "starting" => \A k \in 1..Len(u) : Clock(TeamOf(u), k)' = Clock(TeamOf(u), k)
    <3> SUFFICES ASSUME at[u] = "starting" PROVE TeamOf(u) \in Tasks /\ TeamOf(u) # t
      BY <1>2, Resting DEF Rests
    <3> QED BY <1>2, StarterBelongs
  <2>8. Unnoticed(u)
    BY <1>2, <2>1, <2>2, <2>3, <2>4, <2>5, <2>6, <2>7 DEF Unnoticed
  <2> QED BY <1>1, <1>2, <2>8, Unmoved
<1>4. TimelyIn(t)'
  <2>1. Unstarted(t)' /\ ~ Active(t)'
    BY <1>2 DEF Unstarted, Active
  <2>2. InWork(t)'
    BY <1>2 DEF InWork, Timed, Plain
  <2> QED BY <2>1, <2>2 DEF TimelyIn
<1> QED BY <1>3, <1>4

(* A task at the time of the record meets the record there.                *)
LEMMA TimeMeets ==
  ASSUME Timed, NEW t \in Tasks, Exists(t), NEW k \in 1..Place(t), SameTime(t, k)
  PROVE  /\ SameMember(t, k) /\ (k <= HistPlace => Meets(t, k))
         /\ \A j \in 0..k : SameTime(t, j)
<1>1. Strong /\ Tame(program) /\ Spelled(t) /\ Place(t) \in Nat
  BY Spans DEF Timed, Spelling
<1>2. TimeAt(k) = Clock(t, k)
  BY <1>1 DEF SameTime
<1>3. SameMember(t, k)
  <2>1. CASE k = 1
    BY <2>1 DEF SameMember
  <2>2. CASE k # 1
    <3>1. k \in 2..Place(t)
      BY <1>1, <2>2
    <3>2. Clock(t, k) % SpanAt(k) = t[k-1]
      BY <1>1, <3>1, TimesKnown
    <3> QED BY <1>2, <3>2 DEF SameMember
  <2> QED BY <2>1, <2>2
<1>4. \A j \in 0..k : SameTime(t, j)
  <2> SUFFICES ASSUME NEW j \in 0..k PROVE SameTime(t, j)
    OBVIOUS
  <2>1. \A i \in 1..j : i \in 1..k
    BY <1>1
  <2> QED BY <2>1 DEF SameTime
<1>5. SameTime(t, k-1)
  <2>1. k-1 \in 0..k
    BY <1>1
  <2> QED BY <1>4, <2>1
<1> QED BY <1>3, <1>4, <1>5 DEF Meets

(* The members of a team see the parts above their own alike.              *)
LEMMA TeamView ==
  ASSUME Timed, NEW r \in Teams, open[r], NEW t \in MembersOf(r), NEW u \in MembersOf(r),
         Exists(t), Exists(u)
  PROVE  /\ \A k \in 1..Place(r) : Clock(t, k) = Clock(u, k)
         /\ \A k \in 0..Place(r) : SameTime(t, k) <=> SameTime(u, k)
         /\ \A k \in 1..Place(r) : Meets(t, k) <=> Meets(u, k)
<1>1. AgreeIn(r)
  BY DEF Timed, TeamsAgree
<1>2. Place(r) = Len(r) + 1 /\ Len(r) \in Nat
  BY Spans, Tree DEF Timed
<1>3. \A k \in 1..Place(r) : Clock(t, k) = Clock(u, k)
  <2> SUFFICES ASSUME NEW k \in 1..Place(r) PROVE Clock(t, k) = Clock(u, k)
    OBVIOUS
  <2>1. CASE k = Place(r)
    BY <1>1, <2>1 DEF AgreeIn
  <2>2. CASE k # Place(r)
    <3>1. k \in 1..Len(r)
      BY <1>2, <2>2
    <3>2. Clock(t, k) = Clock(r, k) /\ Clock(u, k) = Clock(r, k)
      BY <1>1, <3>1 DEF AgreeIn
    <3> QED BY <3>2
  <2> QED BY <2>1, <2>2
<1>4. \A k \in 1..Place(r)-1 : t[k] = u[k]
  <2>1. /\ t \in Tasks \ {Root} /\ TeamOf(t) = r /\ u \in Tasks \ {Root} /\ TeamOf(u) = r
    BY Tree
  <2>2. Len(t) = Len(r) + 1 /\ Len(u) = Len(r) + 1
    BY <2>1, Paths
  <2>3. /\ \A k \in 1..Len(t)-1 : t[k] = r[k]
        /\ \A k \in 1..Len(u)-1 : u[k] = r[k]
    <3>1. \A x \in Tasks \ {Root} : \A k \in 1..Len(x)-1 : x[k] = TeamOf(x)[k]
      BY Paths
    <3> QED BY <2>1, <3>1
  <2>4. Len(t) = Place(r) /\ Len(u) = Place(r)
    BY <1>2, <2>2
  <2> QED BY <2>3, <2>4
<1> DEFINE n == Place(r)
<1>5. n \in Nat
  BY <1>2
<1>6. \A k \in 1..n : Clock(t, k) = Clock(u, k)
  BY <1>3
<1>7. \A k \in 1..n-1 : t[k] = u[k]
  BY <1>4
<1> HIDE DEF n
<1>8. /\ \A k \in 0..n : SameTime(t, k) <=> SameTime(u, k)
      /\ \A k \in 1..n : Meets(t, k) <=> Meets(u, k)
  BY <1>5, <1>6, <1>7, SameViewNow
<1> QED BY <1>3, <1>8 DEF n

(* A barrier opens: what one member has in its past all have, and the      *)
(* clocks say so.                                                          *)
LEMMA OpenSeenOutside ==
  ASSUME Timed, Seen, NEW r \in Teams, OpenBarrier(r), NEW u \in Tasks, u \notin MembersOf(r)
  PROVE  TimelyIn(u)'
<1>1. Tame(program) /\ HistOK /\ TimelyIn(u)
  BY DEF Timed, Seen
<1>2. /\ \A v \in MembersOf(r) : v \in Tasks /\ at[v] = "barrier" /\ at'[v] = "released"
      /\ \A v \in Tasks : v \notin MembersOf(r) => Rests(v) /\ knows'[v] = knows[v]
      /\ UNCHANGED <<program, label, open, forks, script, taken, step, iter, hist, inWork>>
      /\ \A v \in Tasks : Exists(v)' <=> Exists(v)
  BY OpenEffect
<1>3. Active(u)' => Active(u)
  BY <1>2 DEF Active, TeamOf
<1>4. Waits(u) => Waits(u)'
  <2> SUFFICES ASSUME Waits(u) PROVE Waits(u)'
    OBVIOUS
  <2>1. \A v \in MembersOf(u) : at'[v] # "starting"
    <3> SUFFICES ASSUME NEW v \in MembersOf(u) PROVE at'[v] # "starting"
      OBVIOUS
    <3>1. v \in Tasks /\ at[v] # "starting"
      BY Tree DEF Waits
    <3>2. v \notin MembersOf(r) => at'[v] = at[v]
      BY <1>2, <3>1 DEF Rests
    <3> QED BY <1>2, <3>1, <3>2
  <2>2. MembersOf(u)' = MembersOf(u)
    BY DEF MembersOf, Indices
  <2> QED BY <1>2, <2>1, <2>2 DEF Waits
<1>5. Forked(u) => Forked(u)'
  BY <1>2 DEF Forked
<1>6. Construct(u)' = Construct(u)
  BY <1>2 DEF Construct, TeamOf
<1>7. at[u] = "work" => taken[TeamOf(u)][step[u]] \in Nat
  BY TakenKnown
<1>8. at[u] = "starting" => \A k \in 1..Len(u) : Clock(TeamOf(u), k)' = Clock(TeamOf(u), k)
  <2> SUFFICES ASSUME at[u] = "starting" PROVE TeamOf(u) \in Tasks /\ TeamOf(u) \notin MembersOf(r)
    BY <1>2, Resting DEF Rests
  <2> QED BY <1>2, StarterBelongs
<1>9. Unnoticed(u)
  BY <1>2, <1>3, <1>4, <1>5, <1>6, <1>7, <1>8 DEF Unnoticed
<1> QED BY <1>1, <1>2, <1>9, Unmoved
\* In the teams down to place p, t is past the record once the team at p moves on.
MovesPast(t, p) == \E k \in 1..p : Meets(t, k) /\ (k < p => Clock(t, k) > TimeAt(k))

(* A team that waits at a barrier has the record in the past of one of its *)
(* members if, and only if, opening the barrier puts the record in the     *)
(* past of them all.                                                       *)
LEMMA PastMoves ==
  ASSUME Timed, Seen, NEW r \in Teams, OpenBarrier(r), NEW t \in MembersOf(r)
  PROVE  (\E v \in MembersOf(r) : knows[v] \/ loose[v]) <=> MovesPast(t, Place(r))
<1> DEFINE M == MembersOf(r)
           p == Place(r)
           H == HistPlace
<1>1. Tame(program) /\ HistOK /\ \A u \in Tasks : TimelyIn(u)
  BY DEF Timed, Seen
<1>2. /\ open[r] /\ r \in Tasks
      /\ \A u \in M : /\ u \in Tasks /\ at[u] = "barrier" /\ Exists(u)
                      /\ Place(u) = p + 1 /\ ConstructDepth(u) = 0
  BY OpenEffect
<1>3. /\ p = Len(r) + 1 /\ Len(r) \in Nat /\ p \in Nat /\ p \in 1..2
  <2>1. p = Len(r) + 1 /\ Len(r) \in Nat /\ Depth \in {1, 2} /\ Len(r) < Depth
    BY <1>1, <1>2, Spans, Paths
  <2> QED BY <2>1
<1>4. H \in Nat /\ H >= 2 /\ H \in 1..Len(hist) /\ Len(hist) \in {H, H + 1}
      /\ \A k \in 1..H : TimeAt(k) \in Nat
  BY <1>1, HistKnown
<1>5. ASSUME NEW u \in M
      PROVE  /\ NotEarlier(u) /\ Knowing(u) /\ Joined(u) /\ Marks(u) /\ ~ Waits(u) /\ ~ Forked(u)
             /\ \A k \in 1..Place(u) : Clock(u, k) \in Nat
  <2>1. Active(u)
    BY <1>2, RunnerActive
  <2>2. u \in Teams => ~ open[u]
    BY <1>2 DEF Timed, Plain
  <2> QED BY <1>1, <1>2, <2>1, <2>2, ClocksKnown DEF TimelyIn, Waits, Forked
<1>6. ASSUME NEW u \in M, NEW v \in M
      PROVE  /\ \A k \in 1..p : Clock(u, k) = Clock(v, k)
             /\ \A k \in 0..p : SameTime(u, k) <=> SameTime(v, k)
             /\ \A k \in 1..p : Meets(u, k) <=> Meets(v, k)
  BY <1>2, TeamView
<1>7. ASSUME NEW u \in M PROVE MovesPast(u, p) => MovesPast(t, p)
  BY <1>6 DEF MovesPast
<1> HIDE DEF M, p
<1>8. ASSUME NEW u \in M, SameTime(u, p) PROVE MovesPast(u, p)
  <2>1. p \in 1..Place(u) /\ p <= H
    BY <1>2, <1>3, <1>4
  <2>2. Meets(u, p)
    BY <1>2, <1>8, <2>1, TimeMeets
  <2> QED BY <1>3, <2>2 DEF MovesPast
<1>9. ASSUME NEW v \in M, knows[v] \/ loose[v] PROVE MovesPast(v, p)
  <2>1. Later(v) \/ Around(v)
    BY <1>5, <1>9 DEF Knowing
  <2>2. ASSUME Later(v) PROVE MovesPast(v, p)
    <3>1. PICK k \in 1..Place(v) : Meets(v, k) /\ Clock(v, k) > TimeAt(k)
      BY <2>2 DEF Later
    <3>2. CASE k \in 1..p
      BY <3>1, <3>2 DEF MovesPast
    <3>3. CASE k \notin 1..p
      <4>1. k = p + 1
        BY <1>2, <1>3, <3>3
      <4>2. SameTime(v, p)
        BY <1>3, <3>1, <4>1 DEF Meets
      <4> QED BY <1>8, <4>2
    <3> QED BY <3>2, <3>3
  <2>3. ASSUME Around(v) PROVE MovesPast(v, p)
    <3>1. H <= Place(v) /\ SameTime(v, H)
      BY <2>3 DEF Around
    <3>2. H \in 1..Place(v) /\ p \in 0..H
      BY <1>2, <1>3, <1>4, <3>1
    <3>3. SameTime(v, p)
      BY <1>2, <3>1, <3>2, TimeMeets
    <3> QED BY <1>8, <3>3
  <2> QED BY <2>1, <2>2, <2>3
<1>10. ASSUME MovesPast(t, p) PROVE \E v \in M : knows[v] \/ loose[v]
  <2>0. t \in M
    BY DEF M
  <2>1. PICK k \in 1..p : Meets(t, k) /\ (k < p => Clock(t, k) > TimeAt(k))
    BY <1>10 DEF MovesPast
  <2>2. k \in 1..Place(t) /\ k \in 1..H
    BY <1>2, <1>3, <1>4, <2>0
  <2>3. CASE Clock(t, k) > TimeAt(k)
    <3>1. Later(t)
      BY <2>1, <2>2, <2>3 DEF Later
    <3> QED BY <1>5, <2>0, <3>1 DEF Knowing
  <2>4. CASE ~ (Clock(t, k) > TimeAt(k))
    <3>1. k = p
      BY <1>3, <2>1, <2>4
    <3>2. Clock(t, p) = TimeAt(p)
      <4>1. Clock(t, k) >= TimeAt(k)
        BY <1>5, <2>0, <2>1, <2>2 DEF NotEarlier
      <4>2. Clock(t, k) \in Nat /\ TimeAt(k) \in Nat
        BY <1>4, <1>5, <2>0, <2>2
      <4> QED BY <2>4, <3>1, <4>1, <4>2
    <3>3. SameTime(t, p)
      <4>1. SameTime(t, p-1)
        BY <2>1, <3>1 DEF Meets
      <4>2. \A j \in 1..p : j \in 1..p-1 \/ j = p
        BY <1>3
      <4> QED BY <3>2, <4>1, <4>2 DEF SameTime
    <3>4. CASE H = p
      <4>1. Around(t) /\ H < Place(t)
        BY <1>2, <1>3, <2>0, <3>3, <3>4 DEF Around
      <4> QED BY <1>5, <2>0, <4>1 DEF Knowing
    <3>5. CASE H # p
      <4> DEFINE P == p + 1
                 i == TimeAt(P) % SpanAt(P)
                 v == Append(r, i)
      <4>1. P \in 1..H /\ TimeAt(P) \in Nat /\ P \in 2..Depth+1
        <5>1. P \in 1..H
          BY <1>3, <1>4, <3>5
        <5>2. H \in 2..Depth+1 /\ Depth \in {1, 2}
          BY <1>1, HistKnown, Spans
        <5> QED BY <1>3, <1>4, <5>1, <5>2
      <4>2. SpanAt(P) = TeamSizes[p] /\ SpanAt(P) \in Nat \ {0}
        <5> HIDE DEF P
        <5>1. SpanAt(P) = TeamSizes[P-1] /\ SpanAt(P) > 1 /\ SpanAt(P) \in Nat
          <6>1. P \in 1..Depth+1 /\ OffsetLimit \in Nat
            BY <4>1, Widths
          <6> QED BY <1>1, <4>1, <6>1, Spans
        <5>2. P-1 = p
          BY <1>3 DEF P
        <5> QED BY <5>1, <5>2
      <4>3. i \in 0..TeamSizes[p]-1
        <5> DEFINE s == SpanAt(P)
                   n == TimeAt(P)
        <5>1. s \in Nat \ {0} /\ n \in Nat
          BY <4>1, <4>2
        <5> HIDE DEF s, n
        <5>2. n % s \in 0..s-1
          BY <5>1
        <5> QED BY <4>2, <5>2 DEF s, n
      <4> HIDE DEF i
      <4>4. v \in M /\ Last(v) = i
        BY <1>3, <4>3, Paths DEF M, p, Place
      <4> HIDE DEF v
      <4>5. v \in Tasks /\ v # Root /\ Len(v) = p /\ v[p] = i
        <5>1. v \in Tasks \ {Root} /\ TeamOf(v) = r
          BY <4>4, Tree DEF M
        <5>2. Len(v) = Len(r) + 1 /\ v[Len(v)] = Last(v)
          BY <5>1, Paths
        <5> QED BY <1>3, <4>4, <5>1, <5>2
      <4>6. SameTime(v, p) /\ Place(v) = P
        BY <1>2, <1>3, <1>6, <2>0, <3>3, <4>4
      <4>7. Meets(v, P)
        <5>1. P - 1 = p
          BY <1>3
        <5>2. SameMember(v, P)
          BY <4>5, <5>1 DEF SameMember, i
        <5> HIDE DEF P
        <5> QED BY <4>1, <4>6, <5>1, <5>2 DEF Meets
      <4>8. Clock(v, P) >= TimeAt(P) /\ Clock(v, P) \in Nat
        <5>1. P \in 1..Place(v)
          BY <4>1, <4>6
        <5> HIDE DEF P
        <5> QED BY <1>5, <4>4, <4>7, <5>1 DEF NotEarlier
      <4>9. CASE Clock(v, P) > TimeAt(P)
        <5>1. Later(v)
          BY <4>1, <4>6, <4>7, <4>9 DEF Later
        <5> QED BY <1>5, <4>4, <5>1 DEF Knowing
      <4>10. CASE ~ (Clock(v, P) > TimeAt(P))
        <5>1. Clock(v, P) = TimeAt(P)
          BY <4>1, <4>8, <4>10
        <5>2. SameTime(v, P)
          <6>1. \A j \in 1..P : j \in 1..p \/ j = P
            BY <1>3
          <6> HIDE DEF P
          <6> QED BY <4>6, <5>1, <6>1 DEF SameTime
        <5>3. H = P
          <6>1. ~ (H > Place(v))
            BY <1>5, <4>4, <4>6, <5>2 DEF Joined
          <6> QED BY <1>4, <4>1, <4>6, <6>1
        <5>4. Around(v)
          BY <4>6, <5>2, <5>3, <1>4 DEF Around
        <5>5. CASE Len(hist) = H
          BY <1>5, <4>4, <5>4, <5>5 DEF Knowing
        <5>6. CASE Len(hist) # H
          <6>1. Marked(v)
            BY <1>4, <4>6, <5>3, <5>4, <5>6 DEF Marked
          <6> QED BY <1>2, <1>5, <4>4, <6>1 DEF Marks
        <5> QED BY <5>5, <5>6
      <4> QED BY <4>9, <4>10
    <3> QED BY <3>4, <3>5
  <2> QED BY <2>3, <2>4
<1> QED BY <1>7, <1>9, <1>10 DEF M, p

(* The members that a barrier releases.                                    *)
LEMMA OpenSeen ==
  ASSUME Timed, Seen, NEW r \in Teams, OpenBarrier(r)
  PROVE  \A u \in Tasks : TimelyIn(u)'
<1> SUFFICES ASSUME NEW t \in MembersOf(r) PROVE TimelyIn(t)'
  BY OpenSeenOutside
<1> DEFINE M == MembersOf(r)
           p == Place(r)
           H == HistPlace
<1>1. Tame(program) /\ HistOK /\ \A u \in Tasks : TimelyIn(u)
  BY DEF Timed, Seen
<1>2. /\ open[r] /\ r \in Tasks
      /\ t \in Tasks /\ at[t] = "barrier" /\ at'[t] = "released" /\ Exists(t) /\ Exists(t)'
      /\ knows'[t] = (\E v \in MembersOf(r) : knows[v] \/ loose[v]) /\ ~ loose'[t]
      /\ Place(t) = p + 1 /\ Len(t) = p
      /\ \A k \in 1..Place(t) :
           Clock(t, k)' = Clock(t, k) + (IF k = p THEN SpanAt(k) ELSE 0)
      /\ inWork' = inWork /\ hist' = hist
  BY OpenEffect
<1>3. /\ p = Len(r) + 1 /\ Len(r) \in Nat /\ p \in Nat /\ p \in 1..2
      /\ SpanAt(p) \in Nat \ {0} /\ p' = p /\ Place(t)' = Place(t) /\ Len(t)' = Len(t)
  <2>1. p = Len(r) + 1 /\ Len(r) \in Nat /\ Depth \in {1, 2} /\ Len(r) < Depth
    BY <1>1, <1>2, Spans, Paths
  <2>2. SpanAt(p) \in Nat \ {0}
    BY Dues DEF Timed, Strong, Labelled, Control, ControlTypes
  <2> QED BY <2>1, <2>2 DEF Place
<1>4. H \in Nat /\ H >= 2 /\ H \in 1..Len(hist) /\ Len(hist) \in {H, H + 1}
      /\ \A k \in 1..H : TimeAt(k) \in Nat
  BY <1>1, HistKnown
<1>5. /\ NotEarlier(t) /\ ~ Waits(t)
      /\ \A k \in 1..Place(t) : Clock(t, k) \in Nat
  <2>1. Active(t)
    BY <1>2, RunnerActive
  <2>2. t \in Teams => ~ open[t]
    BY <1>2 DEF Timed, Plain
  <2> QED BY <1>1, <1>2, <2>1, <2>2, ClocksKnown DEF TimelyIn, Waits
<1>6. /\ HistPlace' = H /\ \A k : TimeAt(k)' = TimeAt(k) /\ CountAt(k)' = CountAt(k)
      /\ \A k \in 0..p-1 : SameTime(t, k)' <=> SameTime(t, k)
      /\ \A k \in 1..p : Meets(t, k)' <=> Meets(t, k)
  <2>1. \A k \in 1..p-1 : Clock(t, k)' = Clock(t, k)
    <3> SUFFICES ASSUME NEW k \in 1..p-1 PROVE Clock(t, k)' = Clock(t, k)
      OBVIOUS
    <3>1. k \in 1..Place(t) /\ k # p
      BY <1>2, <1>3
    <3>2. Clock(t, k)' = Clock(t, k) + 0
      BY <1>2, <3>1
    <3> QED BY <1>5, <3>1, <3>2
  <2> DEFINE n == p - 1
  <2>2. n \in Nat /\ \A k \in 1..n : Clock(t, k)' = Clock(t, k)
    BY <1>3, <2>1
  <2> HIDE DEF n
  <2>3. /\ HistPlace' = H /\ \A k : TimeAt(k)' = TimeAt(k) /\ CountAt(k)' = CountAt(k)
        /\ \A k \in 0..n : SameTime(t, k)' <=> SameTime(t, k)
    BY <1>2, <2>2, SameView
  <2>4. ASSUME NEW k \in 1..p PROVE Meets(t, k)' <=> Meets(t, k)
    <3>1. SameTime(t, k-1)' <=> SameTime(t, k-1)
      <4>1. k-1 \in 0..n
        BY <1>3 DEF n
      <4> QED BY <2>3, <4>1
    <3>2. SameMember(t, k)' <=> SameMember(t, k)
      BY <2>3 DEF SameMember, SpanAt
    <3> QED BY <2>3, <3>1, <3>2 DEF Meets
  <2> QED BY <2>3, <2>4 DEF n
<1>7. Meets(t, p) => Clock(t, p)' > TimeAt(p)
  <2>1. p \in 1..Place(t) /\ p \in 1..H
    BY <1>2, <1>3, <1>4
  <2>2. Meets(t, p) => Clock(t, p) >= TimeAt(p)
    BY <1>5, <2>1 DEF NotEarlier
  <2>3. Clock(t, p)' = Clock(t, p) + SpanAt(p) /\ Clock(t, p) \in Nat /\ TimeAt(p) \in Nat
    BY <1>2, <1>4, <1>5, <2>1
  <2> QED BY <1>3, <2>2, <2>3
<1>8. ~ SameTime(t, p)'
  <2> SUFFICES ASSUME SameTime(t, p)' PROVE FALSE
    OBVIOUS
  <2>1. SameTime(t, p-1)
    <3>1. SameTime(t, p-1)'
      BY <1>3 DEF SameTime
    <3>2. p-1 \in 0..p-1
      BY <1>3
    <3> QED BY <1>6, <3>1, <3>2
  <2>2. Clock(t, p)' = TimeAt(p)
    BY <1>3, <1>6 DEF SameTime
  <2>3. p \in 1..Place(t) /\ p \in 1..H
    BY <1>2, <1>3, <1>4
  <2>4. TimeAt(p) = Clock(t, p) + SpanAt(p) /\ Clock(t, p) \in Nat /\ TimeAt(p) \in Nat
    BY <1>2, <1>4, <1>5, <2>2, <2>3
  <2>5. SameMember(t, p)
    <3>1. CASE p = 1
      BY <3>1 DEF SameMember
    <3>2. CASE p # 1
      <4>1. Clock(t, p) % SpanAt(p) = t[p-1]
        <5>1. p \in 2..Place(t)
          BY <1>3, <2>3, <3>2
        <5> QED BY <1>1, <1>2, <5>1, TimesKnown DEF Timed, Spelling
      <4>2. TimeAt(p) % SpanAt(p) = Clock(t, p) % SpanAt(p)
        <5> DEFINE c == Clock(t, p)
                   s == SpanAt(p)
        <5>1. c \in Nat /\ s \in Nat \ {0} /\ TimeAt(p) = c + s
          BY <1>3, <2>4
        <5> HIDE DEF c, s
        <5>2. TimeAt(p) % s = c % s
          BY <5>1, Turns
        <5> QED BY <5>2 DEF c, s
      <4> QED BY <4>1, <4>2 DEF SameMember
    <3> QED BY <3>1, <3>2
  <2>6. Meets(t, p)
    BY <1>3, <2>1, <2>3, <2>5 DEF Meets
  <2> QED BY <1>3, <1>7, <2>2, <2>4, <2>6
<1>9. \A k \in p..H : ~ SameTime(t, k)'
  <2> SUFFICES ASSUME NEW k \in p..H, SameTime(t, k)' PROVE FALSE
    OBVIOUS
  <2>1. \A j \in 1..p : j \in 1..k
    BY <1>3, <1>4
  <2>2. SameTime(t, p)'
    BY <1>3, <2>1 DEF SameTime
  <2> QED BY <1>8, <2>2
<1> HIDE DEF M, p
<1>10. ~ Meets(t, p+1)'
  <2>1. (p + 1) - 1 = p
    BY <1>3
  <2> QED BY <1>3, <1>8, <2>1 DEF Meets
<1>11. Later(t)' <=> MovesPast(t, p)
  <2>1. ASSUME Later(t)' PROVE MovesPast(t, p)
    <3>1. PICK k \in 1..Place(t) : Meets(t, k)' /\ Clock(t, k)' > TimeAt(k)
      BY <1>3, <1>6, <2>1 DEF Later
    <3>2. k # p + 1
      BY <1>10, <3>1
    <3>3. k \in 1..p
      BY <1>2, <1>3, <3>2
    <3>4. k < p => Clock(t, k)' = Clock(t, k) + 0 /\ Clock(t, k) \in Nat
      BY <1>2, <1>3, <1>5, <3>3
    <3> QED BY <1>6, <3>1, <3>3, <3>4 DEF MovesPast
  <2>2. ASSUME MovesPast(t, p) PROVE Later(t)'
    <3>1. PICK k \in 1..p : Meets(t, k) /\ (k < p => Clock(t, k) > TimeAt(k))
      BY <2>2 DEF MovesPast
    <3>2. k \in 1..Place(t)
      BY <1>2, <1>3
    <3>3. k < p => Clock(t, k)' = Clock(t, k) + 0 /\ Clock(t, k) \in Nat
      BY <1>2, <1>3, <1>5, <3>2
    <3>4. Clock(t, k)' > TimeAt(k)
      <4>1. CASE k < p
        BY <3>1, <3>3, <4>1
      <4>2. CASE k = p
        BY <1>7, <3>1, <4>2
      <4> QED BY <1>3, <4>1, <4>2
    <3> QED BY <1>3, <1>6, <3>1, <3>2, <3>4 DEF Later
  <2> QED BY <2>1, <2>2
<1>12. ~ Around(t)' /\ ~ Marked(t)' /\ ~ Matches(t)'
  <2>1. ~ SameTime(t, H)'
    <3>1. H \in p..H
      BY <1>3, <1>4
    <3> QED BY <1>6, <1>9, <3>1 DEF SameTime
  <2>2. ~ Around(t)'
    BY <1>6, <2>1 DEF Around, SameTime
  <2> QED BY <2>2 DEF Marked, Matches
<1>13. NotEarlier(t)'
  <2> SUFFICES ASSUME NEW k \in 1..Place(t), Meets(t, k)' PROVE Clock(t, k)' >= TimeAt(k)
    BY <1>3, <1>6 DEF NotEarlier
  <2>1. k \in 1..p
    BY <1>2, <1>3, <1>10
  <2>2. Meets(t, k)
    BY <1>6, <2>1
  <2>3. Clock(t, k) >= TimeAt(k)
    BY <1>5, <2>2 DEF NotEarlier
  <2>4. /\ Clock(t, k)' = Clock(t, k) + (IF k = p THEN SpanAt(k) ELSE 0) /\ Clock(t, k) \in Nat
        /\ TimeAt(k) \in Nat
    BY <1>2, <1>3, <1>4, <1>5, <2>1
  <2> QED BY <1>3, <2>3, <2>4
<1>14. Knowing(t)'
  <2>1. knows'[t] <=> Later(t)'
    BY <1>2, <1>11, PastMoves DEF p
  <2> QED BY <1>2, <1>12, <2>1 DEF Knowing
<1>15. Joined(t)'
  <2>1. H > Place(t) => ~ SameTime(t, Place(t))'
    BY <1>2, <1>3, <1>4, <1>9
  <2>2. H > Len(t) => ~ SameTime(t, Len(t))'
    BY <1>2, <1>3, <1>4, <1>8
  <2> QED BY <1>3, <1>6, <2>1, <2>2 DEF Joined
<1>16. CountsStay(t)'
  <2>1. ~ SameTime(t, 2)'
    <3>1. 2 \in p..H
      BY <1>3, <1>4
    <3> QED BY <1>9, <3>1
  <2> QED BY <2>1 DEF CountsStay
<1>17. Marks(t)' /\ Unstarted(t)' /\ InWork(t)'
  <2>1. ~ inWork[t]
    BY <1>2 DEF Timed, Plain
  <2> QED BY <1>2, <1>12, <2>1 DEF Marks, Unstarted, InWork
<1> QED BY <1>13, <1>14, <1>15, <1>16, <1>17 DEF TimelyIn

(* The task that forked sees the record as the member that resumes it.     *)
LEMMA MasterSeen ==
  ASSUME Timed, Seen, NEW t \in Tasks, ImplicitTaskEndMaster(t)
  PROVE  \A u \in Tasks : TimelyIn(u)'
<1> DEFINE r == TeamOf(t)
           H == HistPlace
<1>1. Tame(program) /\ HistOK /\ \A u \in Tasks : TimelyIn(u)
  BY DEF Timed, Seen
<1>2. /\ t # Root /\ r \in Teams /\ r \in Tasks /\ t \in MembersOf(r) /\ r # t
      /\ open[r] /\ at[r] = "free" /\ Exists(r) /\ Exists(t)
      /\ at[t] = "ending" /\ Construct(t) = "end" /\ Place(r) = Len(t)
      /\ at'[t] = "none" /\ ~ Exists(t)' /\ at'[r] = "free"
      /\ inWork' = inWork /\ loose' = loose
      /\ \A u \in Tasks : u # t => at'[u] = at[u]
      /\ \A u \in Tasks : u \notin {t, r} => Rests(u) /\ knows'[u] = knows[u]
      /\ knows'[r] = (knows[r] \/ knows[t])
      /\ ~ open'[r] /\ \A q \in Teams : q # r => open'[q] = open[q]
      /\ UNCHANGED <<program, forks, script, taken, hist>>
      /\ \A k \in 1..Len(t) : Clock(r, k)' = Clock(t, k) /\ Count(r, k)' = Count(t, k)
  BY MasterEffect
<1>3. /\ Place(t) = Len(t) + 1 /\ Len(t) \in Nat \ {0} /\ Place(t) \in Nat
      /\ Place(r) = Len(r) + 1 /\ Len(r) \in Nat
      /\ Place(r)' = Place(r)
      /\ \A k \in 1..Len(t)-1 : t[k] = r[k]
  <2>1. Len(t) # 0 /\ \A k \in 1..Len(t)-1 : t[k] = r[k]
    BY <1>2, Paths
  <2> QED BY <1>1, <1>2, <2>1, Spans DEF Place
<1>4. H \in Nat /\ H >= 2 /\ H \in 1..Len(hist) /\ Len(hist) \in {H, H + 1}
      /\ \A k \in 1..H : TimeAt(k) \in Nat
  BY <1>1, HistKnown
<1>5. /\ NotEarlier(t) /\ Knowing(t) /\ Joined(t) /\ CountsStay(t) /\ ~ Waits(t)
      /\ \A k \in 1..Place(t) : Clock(t, k) \in Nat
  <2>1. Active(t)
    BY <1>2 DEF Active
  <2>2. t \in Teams => ~ open[t]
    BY <1>2 DEF Timed, Plain
  <2> QED BY <1>1, <1>2, <2>1, <2>2, ClocksKnown DEF TimelyIn, Waits
<1>6. Knowing(r) /\ \A k \in 1..Place(r) : Clock(r, k) \in Nat
  <2> HIDE DEF r
  <2>1. Active(r)
    BY <1>2, RunnerActive
  <2> QED BY <1>1, <1>2, <2>1, ClocksKnown DEF TimelyIn
<1>7. /\ \A k \in 1..Len(r) : Clock(t, k) = Clock(r, k)
      /\ Clock(r, Place(r)) <= Clock(t, Place(r))
      /\ knows[r] => knows[t]
  <2> HIDE DEF r
  <2> QED BY <1>2 DEF Timed, TeamsAgree, AgreeIn
<1> HIDE DEF r
<1>8. /\ HistPlace' = H /\ \A k : TimeAt(k)' = TimeAt(k) /\ CountAt(k)' = CountAt(k)
      /\ \A k \in 0..Len(t) : SameTime(r, k)' <=> SameTime(t, k)
      /\ \A k \in 1..Len(t) : Meets(r, k)' <=> Meets(t, k)
  <2> DEFINE n == Len(t)
  <2>1. n \in Nat /\ \A k \in 1..n : Clock(r, k)' = Clock(t, k)
    BY <1>2, <1>3
  <2>2. \A k \in 1..n-1 : r[k] = t[k]
    BY <1>3
  <2> HIDE DEF n
  <2>3. /\ HistPlace' = HistPlace
        /\ \A k : TimeAt(k)' = TimeAt(k) /\ CountAt(k)' = CountAt(k)
        /\ \A k \in 0..n : SameTime(r, k)' <=> SameTime(t, k)
        /\ \A k \in 1..n : Meets(r, k)' <=> Meets(t, k)
    BY <1>2, <2>1, <2>2, SameView
  <2> QED BY <2>3 DEF n
<1>9. H > Len(t) => ~ SameTime(t, Len(t))
  BY <1>2, <1>5 DEF Joined, Leaving
<1>10. Later(r)' <=> Later(t)
  <2>1. ASSUME Later(r)' PROVE Later(t)
    <3>1. PICK k \in 1..Place(r) : Meets(r, k)' /\ Clock(r, k)' > TimeAt(k)
      BY <1>3, <1>8, <2>1 DEF Later
    <3>2. k \in 1..Len(t) /\ k \in 1..Place(t)
      BY <1>2, <1>3
    <3> QED BY <1>2, <1>8, <3>1, <3>2 DEF Later
  <2>2. ASSUME Later(t) PROVE Later(r)'
    <3>1. PICK k \in 1..Place(t) : Meets(t, k) /\ Clock(t, k) > TimeAt(k)
      BY <2>2 DEF Later
    <3>2. k # Place(t)
      <4> SUFFICES ASSUME k = Place(t) PROVE FALSE
        OBVIOUS
      <4>1. k - 1 = Len(t) /\ k > Len(t)
        BY <1>3
      <4>2. k <= H /\ SameTime(t, Len(t))
        BY <3>1, <4>1 DEF Meets
      <4>3. H > Len(t)
        BY <1>3, <1>4, <4>1, <4>2
      <4> QED BY <1>9, <4>2, <4>3
    <3>3. k \in 1..Len(t) /\ k \in 1..Place(r)
      BY <1>2, <1>3, <3>2
    <3> QED BY <1>2, <1>3, <1>8, <3>1, <3>3 DEF Later
  <2> QED BY <2>1, <2>2
<1>11. Around(t) => H <= Len(t) /\ SameTime(t, H)
  <2> SUFFICES ASSUME Around(t) PROVE H <= Len(t)
    BY DEF Around
  <2>1. H <= Place(t) /\ SameTime(t, H)
    BY DEF Around
  <2>2. H # Place(t)
    <3> SUFFICES ASSUME H = Place(t) PROVE FALSE
      OBVIOUS
    <3>1. SameTime(t, Len(t)) /\ H > Len(t)
      BY <1>3, <2>1 DEF SameTime
    <3> QED BY <1>9, <3>1
  <2> QED BY <1>3, <1>4, <2>1, <2>2
<1>12. Around(r)' <=> Around(t)
  <2>1. ASSUME Around(r)' PROVE Around(t)
    <3>1. H <= Len(t) /\ SameTime(r, H)'
      BY <1>2, <1>3, <1>8, <2>1 DEF Around, SameTime
    <3>2. H \in 0..Len(t)
      BY <1>3, <1>4, <3>1
    <3> QED BY <1>3, <1>4, <1>8, <3>1, <3>2 DEF Around
  <2>2. ASSUME Around(t) PROVE Around(r)'
    <3>1. H \in 0..Len(t) /\ H <= Place(r) /\ SameTime(t, H)
      BY <1>2, <1>3, <1>4, <1>11, <2>2
    <3> QED BY <1>3, <1>8, <3>1 DEF Around
  <2> QED BY <2>1, <2>2
<1>13. Later(r) \/ Around(r) => Later(t) \/ Around(t)
  <2>1. \A k \in 1..Place(r) : Meets(r, k) => Meets(t, k)
    <3> SUFFICES ASSUME NEW k \in 1..Place(r), Meets(r, k) PROVE Meets(t, k)
      OBVIOUS
    <3>1. SameTime(t, k-1)
      <4>1. \A j \in 1..k-1 : j \in 1..Len(r)
        BY <1>3
      <4> QED BY <1>7, <4>1 DEF Meets, SameTime
    <3>2. SameMember(t, k)
      <4>1. CASE k = 1
        BY <4>1 DEF SameMember
      <4>2. CASE k # 1
        <5>1. k-1 \in 1..Len(t)-1
          BY <1>2, <1>3, <4>2
        <5>2. t[k-1] = r[k-1]
          BY <1>3, <5>1
        <5> QED BY <4>2, <5>2 DEF Meets, SameMember
      <4> QED BY <4>1, <4>2
    <3> QED BY <3>1, <3>2 DEF Meets
  <2>2. \A k \in 1..Place(r) : k \in 1..Place(t) /\ Clock(r, k) <= Clock(t, k)
    <3> SUFFICES ASSUME NEW k \in 1..Place(r) PROVE k \in 1..Place(t) /\ Clock(r, k) <= Clock(t, k)
      OBVIOUS
    <3>1. k \in 1..Len(r) \/ k = Place(r)
      BY <1>3
    <3>2. k \in 1..Place(t)
      BY <1>2, <1>3
    <3>3. CASE k \in 1..Len(r)
      BY <1>5, <1>7, <3>2, <3>3
    <3>4. CASE k = Place(r)
      BY <1>7, <3>2, <3>4
    <3> QED BY <3>1, <3>2, <3>3, <3>4
  <2>3. ASSUME Later(r) PROVE Later(t)
    <3>1. PICK k \in 1..Place(r) : Meets(r, k) /\ Clock(r, k) > TimeAt(k)
      BY <2>3 DEF Later
    <3>2. k \in 1..Place(t) /\ Clock(r, k) <= Clock(t, k) /\ Meets(t, k) /\ k <= H
      BY <2>1, <2>2, <3>1 DEF Meets
    <3>3. k \in 1..H
      BY <1>4, <3>2
    <3>4. Clock(t, k) > TimeAt(k)
      BY <1>4, <1>5, <1>6, <3>1, <3>2, <3>3
    <3> QED BY <3>2, <3>4 DEF Later
  <2>4. ASSUME Around(r) PROVE Later(t) \/ Around(t)
    <3>1. H <= Place(r) /\ SameTime(r, H) /\ H \in 1..Place(r) /\ H \in 1..Place(t)
      BY <1>2, <1>3, <1>4, <2>4 DEF Around
    <3>2. Meets(r, H)
      BY <1>2, <1>4, <3>1, TimeMeets
    <3>3. Meets(t, H)
      BY <2>1, <3>1, <3>2
    <3>4. Clock(r, H) = TimeAt(H)
      BY <1>4, <3>1 DEF SameTime
    <3>5. CASE Clock(t, H) = TimeAt(H)
      <4>1. SameTime(t, H-1)
        BY <3>3 DEF Meets
      <4>2. \A j \in 1..H : j \in 1..H-1 \/ j = H
        BY <1>4
      <4>3. SameTime(t, H)
        BY <3>5, <4>1, <4>2 DEF SameTime
      <4> QED BY <1>3, <1>4, <3>1, <4>3 DEF Around
    <3>6. CASE Clock(t, H) # TimeAt(H)
      <4>1. Clock(r, H) <= Clock(t, H) /\ Clock(t, H) \in Nat /\ TimeAt(H) \in Nat
        BY <1>4, <1>5, <2>2, <3>1
      <4>2. Clock(t, H) > TimeAt(H)
        BY <3>4, <3>6, <4>1
      <4> QED BY <3>1, <3>3, <4>2 DEF Later
    <3> QED BY <3>5, <3>6
  <2> QED BY <2>3, <2>4
<1>14. TimelyIn(r)'
  <2>1. NotEarlier(r)'
    <3> SUFFICES ASSUME NEW k \in 1..Place(r), Meets(r, k)' PROVE Clock(r, k)' >= TimeAt(k)
      BY <1>3, <1>8 DEF NotEarlier
    <3>1. k \in 1..Len(t) /\ k \in 1..Place(t)
      BY <1>2, <1>3
    <3> QED BY <1>2, <1>5, <1>8, <3>1 DEF NotEarlier
  <2>2. Knowing(r)'
    <3>1. knows'[r] = knows[t]
      <4>1. knows[r] \in BOOLEAN /\ knows[t] \in BOOLEAN
        BY <1>2 DEF Timed, Strong, TruthTypes
      <4> QED BY <1>2, <1>7, <4>1
    <3>2. loose'[r] => Later(t) \/ Around(t)
      BY <1>2, <1>6, <1>13 DEF Knowing
    <3>3. Around(t) /\ H < Place(r) => Len(hist) = H
      BY <1>2, <1>3, <1>4, <1>5 DEF Knowing
    <3> QED BY <1>2, <1>3, <1>5, <1>8, <1>10, <1>12, <3>1, <3>2, <3>3 DEF Knowing
  <2>3. Joined(r)'
    <3>1. SameTime(r, Place(r))' <=> SameTime(t, Len(t))
      BY <1>2, <1>3, <1>8 DEF SameTime
    <3>2. ~ Leaving(r)'
      BY <1>2 DEF Leaving
    <3> QED BY <1>2, <1>3, <1>8, <1>9, <3>1, <3>2 DEF Joined
  <2>4. CountsStay(r)'
    <3> SUFFICES ASSUME Depth = 2, r # Root, SameTime(r, 2)' PROVE Count(r, 2)' = CountAt(2)
      BY <1>8 DEF CountsStay
    <3>1. 2 \in 1..Len(t) /\ 2 \in 0..Len(t)
      <4>1. Len(r) # 0
        BY <1>2, Paths
      <4> QED BY <1>2, <1>3, <4>1
    <3>2. SameTime(t, 2) /\ Count(r, 2)' = Count(t, 2)
      BY <1>2, <1>8, <3>1
    <3> QED BY <1>2, <1>5, <3>2 DEF CountsStay
  <2>5. ~ Marked(r)' /\ ~ Matches(r)'
    <3> SUFFICES ASSUME Around(r)', HistPlace' = Place(r)', Len(hist') > HistPlace' PROVE FALSE
      BY DEF Marked, Matches
    <3>1. H < Place(t)
      BY <1>2, <1>3, <1>8
    <3>2. Len(hist) = H
      BY <1>5, <1>12, <3>1 DEF Knowing
    <3> QED BY <1>2, <1>4, <1>8, <3>2
  <2>6. Marks(r)' /\ Unstarted(r)' /\ InWork(r)'
    <3>1. ~ inWork[r]
      BY <1>2 DEF Timed, Plain
    <3> QED BY <1>2, <2>5, <3>1 DEF Marks, Unstarted, InWork
  <2> QED BY <2>1, <2>2, <2>3, <2>4, <2>6 DEF TimelyIn
<1>15. TimelyIn(t)'
  <2>1. Unstarted(t)' /\ ~ Active(t)'
    BY <1>2 DEF Unstarted, Active
  <2>2. InWork(t)'
    BY <1>2 DEF InWork, Timed, Plain
  <2> QED BY <2>1, <2>2 DEF TimelyIn
<1>16. ASSUME NEW u \in Tasks, u \notin {t, r} PROVE TimelyIn(u)'
  <2>1. Rests(u) /\ knows'[u] = knows[u]
    BY <1>2, <1>16
  <2>2. Active(u)' => Active(u)
    <3>1. u # Root => TeamOf(u) \in Teams
      BY Tree
    <3> QED BY <1>2, <2>1, <3>1, Resting DEF Active, Rests, TeamOf
  <2>3. Waits(u) => Waits(u)'
    <3> SUFFICES ASSUME Waits(u) PROVE Waits(u)'
      OBVIOUS
    <3>1. \A v \in MembersOf(u) : at'[v] # "starting"
      <4> SUFFICES ASSUME NEW v \in MembersOf(u) PROVE at'[v] # "starting"
        OBVIOUS
      <4>1. v \in Tasks /\ at[v] # "starting"
        BY Tree DEF Waits
      <4> QED BY <1>2, <4>1
    <3>2. MembersOf(u)' = MembersOf(u)
      BY DEF MembersOf, Indices
    <3> QED BY <1>2, <1>16, <3>1, <3>2 DEF Waits
  <2>4. Forked(u) => Forked(u)'
    BY <1>2, <1>16 DEF Forked
  <2>5. Construct(u)' = Construct(u)
    BY <1>2, <2>1 DEF Construct, TeamOf, Rests
  <2>6. at[u] = "work" => taken[TeamOf(u)][step[u]] \in Nat
    BY TakenKnown
  <2>7. at[u] = "starting" => \A k \in 1..Len(u) : Clock(TeamOf(u), k)' = Clock(TeamOf(u), k)
    <3> SUFFICES ASSUME at[u] = "starting" PROVE TeamOf(u) \in Tasks /\ TeamOf(u) \notin {t, r}
      BY <1>2, Resting DEF Rests
    <3>1. TeamOf(u) \in Tasks /\ TeamOf(u) # t /\ u \in MembersOf(TeamOf(u))
      BY <1>2, StarterBelongs
    <3>2. TeamOf(u) # r
      <4>1. \A v \in MembersOf(r) : at[v] \in {"none", "released", "ending"}
        BY <1>2, Finished DEF Timed, Strong, Labelled, r
      <4> QED BY <3>1, <4>1
    <3> QED BY <3>1, <3>2
  <2>8. Unnoticed(u)
    BY <1>2, <2>1, <2>2, <2>3, <2>4, <2>5, <2>6, <2>7 DEF Unnoticed
  <2> QED BY <1>1, <1>2, <2>8, Unmoved
<1> QED BY <1>14, <1>15, <1>16

(* A number tells two iterations, or two sections, apart.                  *)
LEMMA KindsDiffer ==
  ASSUME NEW c, NEW a \in Int, NEW b \in Int, Kind(c, a) = Kind(c, b)
  PROVE  a = b
<1>1. \A id \in Int : IterationSegment(id).workShareId = id /\ SectionSegment(id).workShareId = id
  BY DEF IterationSegment, SectionSegment, Segment
<1> QED BY <1>1 DEF Kind

(* A step of one task inside of its region moves nobody else.              *)
LEMMA QuietSeenOutside ==
  ASSUME Timed, Seen, NEW t \in Tasks, Quiet(t), NEW u \in Tasks, u # t
  PROVE  TimelyIn(u)'
<1>1. Tame(program) /\ HistOK /\ TimelyIn(u) /\ Strong /\ Plain
  BY DEF Timed, Seen
<1>2. /\ t # Root /\ ~ Forked(t) /\ open' = open /\ hist' = hist /\ knows' = knows
      /\ \A v \in Tasks : v # t => Rests(v)
      /\ \A v \in Tasks \ {Root} : v # t /\ step[v] > 0 => Construct(v)' = Construct(v)
  BY <1>1, QuietFrame
<1>3. at'[t] # "starting" /\ at[t] # "starting"
  BY QuietTimes DEF Exists
<1>4. Rests(u)
  BY <1>2
<1>5. Active(u)' => Active(u)
  BY <1>2, <1>4, Resting DEF Active, Rests, TeamOf
<1>6. Waits(u) => Waits(u)'
  <2> SUFFICES ASSUME Waits(u) PROVE Waits(u)'
    OBVIOUS
  <2>1. \A v \in MembersOf(u) : at'[v] # "starting"
    <3> SUFFICES ASSUME NEW v \in MembersOf(u) PROVE at'[v] # "starting"
      OBVIOUS
    <3>1. v \in Tasks /\ at[v] # "starting"
      BY Tree DEF Waits
    <3>2. v # t => at'[v] = at[v]
      BY <1>2, <3>1 DEF Rests
    <3> QED BY <1>3, <3>1, <3>2
  <2>2. MembersOf(u)' = MembersOf(u)
    BY DEF MembersOf, Indices
  <2> QED BY <1>2, <2>1, <2>2 DEF Waits
<1>7. Forked(u) => Forked(u)'
  BY <1>2 DEF Forked
<1>8. at[u] \in {"work", "released"} => Construct(u)' = Construct(u)
  <2>1. at[u] \in {"work", "released"} => u # Root /\ step[u] > 0
    BY <1>1 DEF Strong, Labelled, Control, PlacesFit, Exists
  <2> QED BY <1>2, <2>1
<1>9. at[u] = "work" => /\ taken[TeamOf(u)][step[u]] \in Nat
                        /\ taken'[TeamOf(u)][step[u]] \in Nat
                        /\ taken[TeamOf(u)][step[u]] <= taken'[TeamOf(u)][step[u]]
  BY TakenKnown, TakenGrows
<1>10. at[u] = "starting" => \A k \in 1..Len(u) : Clock(TeamOf(u), k)' = Clock(TeamOf(u), k)
  <2> SUFFICES ASSUME at[u] = "starting" PROVE TeamOf(u) \in Tasks /\ TeamOf(u) # t
    BY <1>2, Resting DEF Rests
  <2> QED BY <1>2, StarterBelongs DEF Forked
<1>11. Unnoticed(u)
  BY <1>2, <1>4, <1>5, <1>6, <1>7, <1>8, <1>9, <1>10 DEF Unnoticed
<1> QED BY <1>1, <1>2, <1>11, Unmoved

(* A step of a task inside of its region keeps it in time.                 *)
LEMMA QuietSeen ==
  ASSUME Timed, Seen, NEW t \in Tasks, Quiet(t)
  PROVE  \A u \in Tasks : TimelyIn(u)'
<1> SUFFICES TimelyIn(t)'
  BY QuietSeenOutside
<1> DEFINE P == Place(t)
           H == HistPlace
           c == Count(t, H)
           h == CountAt(H)
<1>1. Tame(program) /\ HistOK /\ TimelyIn(t) /\ Strong /\ Plain
  BY DEF Timed, Seen
<1>2. /\ t # Root /\ ~ Forked(t) /\ open' = open /\ hist' = hist /\ knows' = knows
  BY <1>1, QuietFrame
<1>3. /\ Exists(t) /\ Exists(t)'
      /\ \A k \in 1..P : Clock(t, k)' = Clock(t, k)
      /\ \A k \in 1..Len(t) : Count(t, k)' = Count(t, k)
      /\ Count(t, P)' = Count(t, P) + Left(t)
  BY QuietTimes
<1>4. /\ HistPlace' = HistPlace
      /\ \A k : TimeAt(k)' = TimeAt(k) /\ CountAt(k)' = CountAt(k)
      /\ \A k \in 0..P : SameTime(t, k)' <=> SameTime(t, k)
      /\ \A k \in 1..P : Meets(t, k)' <=> Meets(t, k)
      /\ Later(t)' <=> Later(t)
      /\ Around(t)' <=> Around(t)
      /\ Marked(t)' <=> Marked(t)
  BY <1>1, <1>2, <1>3, ViewKept
<1>5. /\ P = Len(t) + 1 /\ Len(t) \in Nat \ {0} /\ P \in Nat /\ P' = P /\ Len(t)' = Len(t)
  BY <1>1, <1>2, Spans, Paths DEF Place
<1>6. H \in Nat /\ H >= 2 /\ h \in Nat
  <2>1. H \in 1..H /\ H \in Nat /\ H >= 2
    BY <1>1, HistKnown
  <2> QED BY <1>1, <2>1, HistKnown
<1>7. \A k \in 1..P : Count(t, k) \in Nat
  BY <1>3, ClocksKnown
<1>8. /\ loose[t] => at[t] \notin {"none", "starting", "released", "ending"}
      /\ inWork[t] => at[t] = "work"
  BY <1>1 DEF Plain
<1> DEFINE Reach == /\ at[t] = "free" /\ at'[t] \in {"barrier", "chunk", "preamble", "single", "other"}
                    /\ inWork'[t] = inWork[t] /\ loose'[t] = loose[t] /\ Left(t) = 0
           Dispatched == /\ at[t] \in {"preamble", "work"} /\ at'[t] = "work"
                         /\ inWork'[t] = knows[t] /\ (loose'[t] <=> loose[t] \/ inWork[t])
                         /\ Left(t) = 0
                         /\ taken[TeamOf(t)][step[t]] \in Nat
                         /\ taken'[TeamOf(t)][step'[t]] = taken[TeamOf(t)][step[t]] + 1
                         /\ Construct(t)' = Construct(t)
                         /\ Last(label'[t]) = Kind(Construct(t), taken[TeamOf(t)][step[t]])
           LoopEnded == /\ at[t] \in {"preamble", "work", "chunk"}
                        /\ \/ at'[t] = "barrier"
                           \/ /\ at'[t] = "free" /\ Depth = 1 /\ at[t] # "chunk"
                              /\ Construct(t) \notin Sections
                        /\ ~ inWork'[t] /\ (loose'[t] <=> loose[t] \/ inWork[t])
                        /\ Left(t) = 1
           SingleEnded == /\ at[t] \in {"single", "other"} /\ at'[t] = "barrier"
                          /\ inWork'[t] = inWork[t] /\ loose'[t] = loose[t] /\ Left(t) = 0
           Released == /\ at[t] = "released"
                       /\ at'[t] = IF Construct(t) = "end" THEN "ending" ELSE "free"
                       /\ inWork'[t] = inWork[t] /\ loose'[t] = loose[t] /\ Left(t) = 0
<1>9. Reach \/ Dispatched \/ LoopEnded \/ SingleEnded \/ Released
  <2>1. CASE /\ Reaching(t) /\ at[t] = "free" /\ UNCHANGED <<iter, inWork, loose>>
             /\ at'[t] \in {"barrier", "chunk", "preamble", "single", "other"}
    <3>1. Left(t) = 0
      BY <2>1 DEF Left, InLoop, WorkPlaces
    <3> QED BY <2>1, <3>1
  <2>2. CASE /\ Dispatch(t) /\ at[t] \in {"preamble", "work"} /\ at'[t] = "work"
             /\ iter'[t] = taken[TeamOf(t)][step[t]]
             /\ taken'[TeamOf(t)][step[t]] = taken[TeamOf(t)][step[t]] + 1
             /\ taken[TeamOf(t)][step[t]] \in Nat
             /\ label'[t] = ReplaceLast(label[t], Kind(Construct(t), iter'[t]))
             /\ Construct(t)' = Construct(t)
             /\ inWork'[t] = knows[t] /\ (loose'[t] <=> loose[t] \/ inWork[t])
    <3>1. Left(t) = 0
      BY <2>2 DEF Left, InLoop, WorkPlaces
    <3>2. step'[t] = step[t]
      BY <2>2 DEF Dispatch
    <3>3. Last(label'[t]) = Kind(Construct(t), taken[TeamOf(t)][step[t]])
      <4>1. Len(label[t]) \in Nat \ {0} /\ label[t] \in Seq(SegmentType)
        BY <1>1, <1>3, TimesKnown DEF Timed, Spelling
      <4>2. Kind(Construct(t), iter'[t]) \in SegmentType
        <5>1. \A n \in Nat : IterationSegment(n) \in SegmentType /\ SectionSegment(n) \in SegmentType
          BY NewSegments DEF Fresh
        <5> QED BY <2>2, <5>1 DEF Kind
      <4>3. Front(label[t]) \in Seq(SegmentType)
        BY <4>1, Fronts
      <4> QED BY <2>2, <4>2, <4>3, Ends DEF ReplaceLast
    <3> QED BY <2>2, <3>1, <3>2, <3>3
  <2>3. CASE /\ EndLoop(t) \/ EndSections(t)
             /\ at[t] \in {"preamble", "work", "chunk"}
             /\ \/ at'[t] = "barrier"
                \/ /\ at'[t] = "free" /\ Depth = 1 /\ at[t] # "chunk"
                   /\ Construct(t) \notin Sections
             /\ ~ inWork'[t] /\ (loose'[t] <=> loose[t] \/ inWork[t])
    <3>1. Left(t) = 1
      BY <2>3 DEF Left, InLoop, WorkPlaces
    <3> QED BY <2>3, <3>1
  <2>4. CASE EndSingle(t) /\ InSingle(t) /\ at'[t] = "barrier" /\ UNCHANGED <<inWork, loose>>
    <3>1. Left(t) = 0
      BY <2>4 DEF Left, InLoop, InSingle, WorkPlaces
    <3> QED BY <2>4, <3>1 DEF InSingle
  <2>5. CASE /\ BarrierEnd(t) /\ at[t] = "released"
             /\ at'[t] = IF Construct(t) = "end" THEN "ending" ELSE "free"
             /\ UNCHANGED <<inWork, loose>>
    <3>1. Left(t) = 0
      BY <2>5 DEF Left, InLoop, WorkPlaces
    <3> QED BY <2>5, <3>1
  <2> HIDE DEF Reach, Dispatched, LoopEnded, SingleEnded, Released
  <2> QED BY <1>1, <2>1, <2>2, <2>3, <2>4, <2>5, QuietPlaces
<1>10. /\ at[t] # "barrier" /\ at'[t] # "released" /\ Left(t) \in {0, 1}
  BY <1>9
<1>11. ASSUME Marked(t)
       PROVE  /\ Active(t) => Marks(t) /\ h <= c
              /\ H = P /\ c \in Nat /\ Count(t, H)' = c + Left(t)
  <2>1. H = P
    BY <1>11 DEF Marked
  <2> QED BY <1>1, <1>3, <1>4, <1>5, <1>7, <1>11, <2>1 DEF TimelyIn, Marks
<1>12. InWork(t)'
  <2>1. ASSUME ~ Dispatched PROVE at'[t] # "work" /\ ~ inWork'[t]
    BY <1>8, <1>9, <2>1
  <2>2. ASSUME Dispatched, Active(t) PROVE ~ Matches(t)'
    <3> SUFFICES ASSUME Matches(t)' PROVE FALSE
      OBVIOUS
    <3>1. Marked(t) /\ Count(t, H)' = h /\ Last(label'[t]) = Last(hist)
      BY <1>2, <1>4 DEF Matches
    <3>2. c = h
      BY <1>6, <1>11, <2>2, <3>1
    <3>3. OtherPart(t)
      BY <1>10, <1>11, <2>2, <3>1, <3>2 DEF Marks, InPart
    <3>4. PICK id \in 0..taken[TeamOf(t)][step[t]]-1 : Last(hist) = Kind(Construct(t), id)
      BY <3>3 DEF OtherPart
    <3>5. Kind(Construct(t), id) = Kind(Construct(t), taken[TeamOf(t)][step[t]])
      BY <2>2, <3>1, <3>4
    <3>6. id = taken[TeamOf(t)][step[t]]
      BY <2>2, <3>4, <3>5, KindsDiffer
    <3> QED BY <2>2, <3>4, <3>6
  <2>3. Dispatched => Active(t)
    BY <1>3, RunnerActive
  <2> HIDE DEF Reach, LoopEnded, SingleEnded, Released
  <2> QED BY <1>2, <2>1, <2>2, <2>3 DEF InWork
<1>13. Unstarted(t)'
  BY <1>3 DEF Unstarted, Exists
<1> SUFFICES ASSUME Active(t)'
             PROVE  NotEarlier(t)' /\ Knowing(t)' /\ Joined(t)' /\ CountsStay(t)' /\ Marks(t)'
  BY <1>12, <1>13 DEF TimelyIn
<1>14. Active(t) /\ NotEarlier(t) /\ Knowing(t) /\ Joined(t) /\ CountsStay(t) /\ Marks(t) /\ InWork(t)
  <2>1. Active(t)
    BY <1>2, <1>3 DEF Active, TeamOf
  <2> QED BY <1>1, <2>1 DEF TimelyIn
<1>15. NotEarlier(t)'
  <2>1. ~ Waits(t)
    BY <1>2 DEF Waits, Forked
  <2> QED BY <1>3, <1>4, <1>5, <1>14, <2>1 DEF NotEarlier
<1>16. Knowing(t)'
  <2>1. loose'[t] => Later(t) \/ Around(t)
    <3>1. loose'[t] => loose[t] \/ inWork[t]
      BY <1>9
    <3>2. inWork[t] => knows[t] \/ Around(t)
      BY <1>14 DEF InWork, Matches, Marked
    <3> QED BY <1>14, <3>1, <3>2 DEF Knowing
  <2> QED BY <1>2, <1>4, <1>5, <1>14, <2>1 DEF Knowing
<1>17. Joined(t)'
  <2>1. Leaving(t)' => Leaving(t)
    BY <1>9, <1>10 DEF Leaving
  <2>2. /\ SameTime(t, P)' <=> SameTime(t, P)
        /\ SameTime(t, Len(t))' <=> SameTime(t, Len(t))
    BY <1>4, <1>5
  <2> QED BY <1>2, <1>4, <1>5, <1>14, <2>1, <2>2 DEF Joined
<1>18. CountsStay(t)'
  <2> SUFFICES ASSUME Depth = 2, SameTime(t, 2)', at'[t] # "barrier" \/ Len(t) = 2
               PROVE  Count(t, 2)' = CountAt(2)
    BY <1>4, <1>5 DEF CountsStay
  <2>1. SameTime(t, 2)
    BY <1>4, <1>5
  <2>2. Count(t, 2) = CountAt(2)
    BY <1>2, <1>10, <1>14, <2>1 DEF CountsStay
  <2>3. CASE 2 \in 1..Len(t)
    BY <1>3, <2>2, <2>3
  <2>4. CASE 2 \notin 1..Len(t)
    <3>1. P = 2 /\ at'[t] # "barrier"
      BY <1>5, <2>4
    <3>2. Left(t) = 0
      BY <1>9, <3>1
    <3> QED BY <1>3, <1>7, <2>2, <3>1, <3>2
  <2> QED BY <2>3, <2>4
<1>19. Marks(t)'
  <2> SUFFICES ASSUME Marked(t)
               PROVE  /\ h <= Count(t, H)'
                      /\ at'[t] = "barrier" => knows[t] \/ loose'[t]
                      /\ at'[t] # "barrier" =>
                           IF Count(t, H)' = h THEN InPart(t)' \/ OtherPart(t)' ELSE PastPart(t)'
    BY <1>2, <1>4 DEF Marks
  <2>1. /\ H = P /\ c \in Nat /\ Count(t, H)' = c + Left(t) /\ h <= c
        /\ IF c = h THEN InPart(t) \/ OtherPart(t) ELSE PastPart(t)
    BY <1>10, <1>11, <1>14 DEF Marks
  <2>2. h <= Count(t, H)'
    BY <1>6, <1>10, <2>1
  <2>3. ASSUME PastPart(t), loose'[t] PROVE PastPart(t)'
    BY <1>2, <2>3 DEF PastPart
  <2>4. PastPart(t) => loose[t]
    BY DEF PastPart
  <2>5. CASE Reach
    <3>1. PastPart(t) /\ c # h
      BY <2>1, <2>5 DEF InPart, OtherPart
    <3> QED BY <1>6, <2>1, <2>2, <2>3, <2>4, <2>5, <3>1
  <2>6. CASE Dispatched
    <3>1. ~ InPart(t)
      BY <2>6 DEF InPart
    <3>2. CASE c = h
      <4>0. OtherPart(t)
        BY <2>1, <3>1, <3>2
      <4>1. PICK id \in 0..taken[TeamOf(t)][step[t]]-1 : Last(hist) = Kind(Construct(t), id)
        BY <4>0 DEF OtherPart
      <4>2. id \in 0..taken'[TeamOf(t)][step'[t]]-1
        BY <2>6, <4>1
      <4>3. Last(hist') = Kind(Construct(t)', id)
        BY <1>2, <2>6, <4>1
      <4>4. OtherPart(t)'
        BY <1>2, <2>6, <4>0, <4>2, <4>3 DEF OtherPart, Kind, TeamOf
      <4>5. Count(t, H)' = h
        BY <1>6, <2>1, <2>6, <3>2
      <4> QED BY <2>2, <2>6, <4>4, <4>5
    <3>3. CASE c # h
      BY <1>6, <2>1, <2>2, <2>3, <2>4, <2>6, <3>3
    <3> QED BY <3>2, <3>3
  <2>7. CASE LoopEnded
    <3>1. Count(t, H)' # h
      BY <1>6, <2>1, <2>7
    <3>2. knows[t] \/ loose'[t]
      BY <2>1, <2>7 DEF InPart, OtherPart, PastPart
    <3>3. at'[t] # "barrier" => PastPart(t)'
      <4> SUFFICES ASSUME at'[t] # "barrier" PROVE PastPart(t)'
        OBVIOUS
      <4>1. Depth = 1 /\ at[t] # "chunk" /\ Construct(t) \notin Sections
        BY <2>7
      <4>2. CASE PastPart(t)
        BY <2>3, <2>4, <2>7, <4>2
      <4>3. CASE OtherPart(t)
        <5>1. PICK id \in 0..taken[TeamOf(t)][step[t]]-1 : Last(hist) = Kind(Construct(t), id)
          BY <4>3 DEF OtherPart
        <5>2. Last(hist) = IterationSegment(id) /\ id \in Nat
          BY <4>1, <5>1 DEF Kind
        <5> QED BY <1>2, <2>7, <4>1, <4>3, <5>2 DEF PastPart, OtherPart
      <4>4. ~ InPart(t)
        BY <2>7, <4>1 DEF InPart
      <4> QED BY <2>1, <4>2, <4>3, <4>4
    <3> QED BY <2>2, <3>1, <3>2, <3>3
  <2>8. CASE SingleEnded
    <3>1. knows[t] \/ loose'[t]
      BY <2>1, <2>8 DEF InPart, OtherPart, PastPart
    <3> QED BY <2>2, <2>8, <3>1
  <2>9. CASE Released
    BY <1>8, <2>1, <2>9 DEF InPart, OtherPart, PastPart
  <2> HIDE DEF Reach, Dispatched, LoopEnded, SingleEnded, Released
  <2> QED BY <1>9, <2>5, <2>6, <2>7, <2>8, <2>9
<1> QED BY <1>15, <1>16, <1>17, <1>18, <1>19
-----------------------------------------------------------------------------
(* The record of an access                                                 *)

(* Equal paths are one path, and paths that differ in their last index     *)
(* belong to one team.                                                     *)
LEMMA Lineage ==
  /\ Depth \in {1, 2}
  /\ \A t \in Tasks \ {Root} : /\ Len(t) \in 1..Depth /\ TeamOf(t) \in Tasks /\ TeamOf(t) \in Teams
                               /\ t \in MembersOf(TeamOf(t)) /\ Len(TeamOf(t)) = Len(t) - 1
  /\ \A t \in Tasks : Len(t) = 0 <=> t = Root
  /\ \A t \in Tasks : Len(t) = 1 => TeamOf(t) = Root
  /\ \A t, u \in Tasks : Len(t) = 1 /\ Len(u) = 1 /\ t[1] = u[1] => t = u
  /\ \A t, u \in Tasks : Len(t) = 2 /\ Len(u) = 1 /\ t[1] = u[1] => TeamOf(t) = u
  /\ \A t, u \in Tasks : Len(t) = 2 /\ Len(u) = 2 /\ t[1] = u[1] => TeamOf(t) = TeamOf(u)
  /\ \A t, u \in Tasks : Len(t) = 2 /\ Len(u) = 2 /\ t[1] = u[1] /\ t[2] = u[2] => t = u
<1>1. Depth \in {1, 2}
  BY TeamSizesAssumption
<1>2. \A t \in Tasks : Len(t) = 0 <=> t = Root
  BY Paths
<1>3. ASSUME NEW t \in Tasks \ {Root}
      PROVE  /\ Len(t) \in 1..Depth /\ TeamOf(t) \in Tasks /\ TeamOf(t) \in Teams
             /\ t \in MembersOf(TeamOf(t)) /\ Len(TeamOf(t)) = Len(t) - 1
             /\ t[Len(t)] = Last(t) /\ \A k \in 1..Len(t)-1 : t[k] = TeamOf(t)[k]
  <2>1. Len(t) \in 0..Depth /\ Len(t) # 0
    BY <1>2, Paths
  <2>2. TeamOf(t) \in Tasks /\ TeamOf(t) \in Teams /\ t \in MembersOf(TeamOf(t))
    BY Tree
  <2>3. /\ Len(t) = Len(TeamOf(t)) + 1 /\ t[Len(t)] = Last(t)
        /\ \A k \in 1..Len(t)-1 : t[k] = TeamOf(t)[k]
    BY Paths
  <2>4. Len(TeamOf(t)) \in 0..Depth
    BY <2>2, Paths
  <2> QED BY <1>1, <2>1, <2>2, <2>3, <2>4
<1>4. ASSUME NEW t \in Tasks, Len(t) = 1 PROVE t \in Tasks \ {Root} /\ TeamOf(t) = Root /\ Last(t) = t[1]
  <2>1. t \in Tasks \ {Root}
    BY <1>2, <1>4
  <2>2. Len(TeamOf(t)) = 0 /\ TeamOf(t) \in Tasks /\ t[1] = Last(t)
    BY <1>3, <1>4, <2>1
  <2> QED BY <1>2, <2>1, <2>2
<1>5. ASSUME NEW t \in Tasks, NEW u \in Tasks, Len(t) = 1, Len(u) = 1, t[1] = u[1] PROVE t = u
  BY <1>4, <1>5, Tree
<1>6. ASSUME NEW t \in Tasks, Len(t) = 2
      PROVE  /\ t \in Tasks \ {Root} /\ TeamOf(t) \in Tasks /\ Len(TeamOf(t)) = 1
             /\ TeamOf(t)[1] = t[1] /\ Last(t) = t[2]
  <2>1. t \in Tasks \ {Root}
    BY <1>2, <1>6
  <2>2. /\ TeamOf(t) \in Tasks /\ Len(TeamOf(t)) = Len(t) - 1 /\ t[Len(t)] = Last(t)
        /\ \A k \in 1..Len(t)-1 : t[k] = TeamOf(t)[k]
    BY <1>3, <2>1
  <2>3. 1 \in 1..Len(t)-1 /\ Len(t) - 1 = 1
    BY <1>6
  <2> QED BY <1>6, <2>1, <2>2, <2>3
<1>7. ASSUME NEW t \in Tasks, NEW u \in Tasks, Len(t) = 2, Len(u) = 1, t[1] = u[1] PROVE TeamOf(t) = u
  BY <1>5, <1>6, <1>7
<1>8. ASSUME NEW t \in Tasks, NEW u \in Tasks, Len(t) = 2, Len(u) = 2, t[1] = u[1]
      PROVE  TeamOf(t) = TeamOf(u)
  BY <1>5, <1>6, <1>8
<1>9. ASSUME NEW t \in Tasks, NEW u \in Tasks, Len(t) = 2, Len(u) = 2, t[1] = u[1], t[2] = u[2]
      PROVE  t = u
  BY <1>6, <1>8, <1>9, Tree
<1> QED BY <1>1, <1>2, <1>3, <1>4, <1>5, <1>7, <1>8, <1>9

(* Tasks with the same clocks have the same path above the last of them.   *)
LEMMA SamePath ==
  ASSUME Timed, NEW t \in Tasks, Exists(t), NEW u \in Tasks, Exists(u), NEW n \in Nat,
         n <= Place(t), n <= Place(u), \A j \in 1..n : Clock(u, j) = Clock(t, j)
  PROVE  \A j \in 1..n-1 : u[j] = t[j]
<1> SUFFICES ASSUME NEW j \in 1..n-1 PROVE u[j] = t[j]
  OBVIOUS
<1>1. Strong /\ Tame(program) /\ Spelled(t) /\ Spelled(u) /\ Place(t) \in Nat /\ Place(u) \in Nat
  BY Spans DEF Timed, Spelling
<1> DEFINE k == j + 1
<1>2. k \in 2..Place(t) /\ k \in 2..Place(u) /\ k \in 1..n /\ k - 1 = j
  BY <1>1
<1> HIDE DEF k
<1>3. Clock(t, k) % SpanAt(k) = t[k-1] /\ Clock(u, k) % SpanAt(k) = u[k-1]
  BY <1>1, <1>2, TimesKnown
<1> QED BY <1>2, <1>3

(* An active task's ancestors are there and in their regions.              *)
LEMMA Ancestors ==
  ASSUME Timed, NEW t \in Tasks \ {Root}, open[TeamOf(t)]
  PROVE  /\ at[TeamOf(t)] = "free" /\ Exists(TeamOf(t)) /\ Active(TeamOf(t)) /\ open[Root]
         /\ Exists(Root)
<1>1. TeamOf(t) \in Teams /\ TeamOf(t) \in Tasks
  BY Tree
<1>2. at[TeamOf(t)] = "free"
  BY <1>1 DEF Timed, Plain
<1>3. Exists(TeamOf(t))
  BY <1>2 DEF Exists
<1> DEFINE r == TeamOf(t)
<1>4. r \in Tasks /\ at[r] = "free" /\ Exists(r)
  BY <1>1, <1>2, <1>3
<1> HIDE DEF r
<1>5. Active(r)
  BY <1>4, RunnerActive
<1>6. open[Root]
  <2>1. CASE r = Root
    BY <2>1 DEF r
  <2>2. CASE r # Root
    <3>1. open[TeamOf(r)] /\ Len(r) = 1
      <4>1. open[TeamOf(r)]
        BY <1>5, <2>2 DEF Active
      <4>2. Len(r) = Len(t) - 1 /\ Len(t) \in 1..Depth /\ Depth \in {1, 2} /\ Len(r) \in 1..Depth
        BY <1>4, <2>2, Lineage DEF r
      <4> QED BY <4>1, <4>2
    <3>2. TeamOf(r) = Root
      BY <1>4, <3>1, Lineage
    <3> QED BY <3>1, <3>2
  <2> QED BY <2>1, <2>2
<1>7. Exists(Root)
  BY DEF Timed, Strong, Labelled, Control, PlacesFit, Exists
<1> QED BY <1>2, <1>3, <1>5, <1>6, <1>7 DEF r

(* All members of all teams are at one time at the top.                    *)
LEMMA TopClocks ==
  ASSUME Timed, NEW t \in Tasks \ {Root}, Active(t)
  PROVE  /\ Clock(Root, 1) <= Clock(t, 1)
         /\ \A u \in Tasks \ {Root} : Active(u) => Clock(u, 1) = Clock(t, 1)
         /\ ~ Waits(Root) => Clock(Root, 1) = Clock(t, 1)
<1>1. Root \in Teams /\ Place(Root) = 1 /\ Len(Root) = 0
  BY Tree, Paths DEF Place
<1>2. ASSUME NEW u \in Tasks \ {Root}, Active(u)
      PROVE  \E v \in MembersOf(Root) : Exists(v) /\ Clock(u, 1) = Clock(v, 1)
  <2>1. open[TeamOf(u)] /\ Exists(u)
    BY <1>2 DEF Active
  <2>2. TeamOf(u) \in Teams /\ TeamOf(u) \in Tasks /\ u \in MembersOf(TeamOf(u))
    BY Tree
  <2>3. CASE TeamOf(u) = Root
    BY <2>1, <2>2, <2>3
  <2>4. CASE TeamOf(u) # Root
    <3> DEFINE q == TeamOf(u)
    <3>1. q \in Tasks \ {Root} /\ Exists(q) /\ Len(q) = 1
      <4>1. Exists(q)
        BY <2>1, Ancestors
      <4>2. Len(q) = Len(u) - 1 /\ Len(u) \in 1..Depth /\ Depth \in {1, 2} /\ Len(q) \in 1..Depth
        BY <2>2, <2>4, Lineage
      <4>3. Len(q) = 1
        BY <4>2
      <4> QED BY <2>2, <2>4, <4>1, <4>3
    <3>2. q \in MembersOf(Root)
      <4> HIDE DEF q
      <4> QED BY <3>1, Lineage
    <3>3. Clock(u, 1) = Clock(q, 1)
      <4>1. AgreeIn(q) /\ u \in MembersOf(q) /\ open[q] /\ 1 \in 1..Len(q)
        BY <2>1, <2>2, <3>1 DEF Timed, TeamsAgree
      <4> HIDE DEF q
      <4> QED BY <2>1, <4>1 DEF AgreeIn
    <3> QED BY <3>1, <3>2, <3>3
  <2> QED BY <2>3, <2>4
<1>3. PICK v \in MembersOf(Root) : Exists(v) /\ Clock(t, 1) = Clock(v, 1)
  BY <1>2
<1>4. open[Root]
  BY Ancestors DEF Active
<1>5. /\ Clock(Root, 1) <= Clock(v, 1)
      /\ \A u \in MembersOf(Root) : /\ Exists(u) => Clock(u, 1) = Clock(v, 1)
                                    /\ at[u] = "starting" => Clock(v, 1) = Clock(Root, 1)
  <2>1. AgreeIn(Root)
    BY <1>1 DEF Timed, TeamsAgree
  <2> QED BY <1>1, <1>3, <1>4, <2>1 DEF AgreeIn
<1>6. ASSUME NEW u \in Tasks \ {Root}, Active(u) PROVE Clock(u, 1) = Clock(t, 1)
  BY <1>2, <1>3, <1>5, <1>6
<1>7. ~ Waits(Root) => Clock(Root, 1) = Clock(t, 1)
  BY <1>1, <1>3, <1>4, <1>5 DEF Waits
<1> QED BY <1>3, <1>5, <1>6, <1>7

(* No task is ahead of a task that runs, in the teams that they share, and *)
(* only one that waits for its team is behind.                             *)
LEMMA Kin ==
  ASSUME Timed, NEW t \in Tasks \ {Root}, Active(t), ~ Forked(t), NEW u \in Tasks, Active(u),
         NEW k \in 1..Place(u), k <= Place(t), \A j \in 1..k-1 : u[j] = t[j]
  PROVE  Clock(u, k) <= Clock(t, k) /\ (~ Waits(u) => Clock(u, k) = Clock(t, k))
<1>1. /\ Place(u) = Len(u) + 1 /\ Len(u) \in Nat /\ Place(t) = Len(t) + 1 /\ Len(t) \in Nat
      /\ Depth \in {1, 2} /\ Len(t) \in 1..2 /\ Len(u) \in 0..2
  <2>1. /\ Place(u) = Len(u) + 1 /\ Len(u) \in Nat /\ Place(t) = Len(t) + 1 /\ Len(t) \in Nat
        /\ Depth \in {1, 2} /\ Len(u) \in 0..Depth /\ Len(t) \in 1..Depth
    BY Spans, Paths, Lineage DEF Timed
  <2>2. CASE Depth = 1
    BY <2>1, <2>2
  <2>3. CASE Depth = 2
    BY <2>1, <2>3
  <2> QED BY <2>1, <2>2, <2>3
<1>2. Exists(t) /\ Exists(u) /\ Clock(t, k) \in Nat /\ Clock(u, k) \in Nat
  <2>1. Exists(t) /\ Exists(u) /\ k \in 1..Place(t)
    BY <1>1 DEF Active
  <2> QED BY <2>1, ClocksKnown
<1>3. CASE k = 1
  <2>1. CASE u = Root
    BY <1>3, <2>1, TopClocks
  <2>2. CASE u # Root
    <3>1. Clock(u, 1) = Clock(t, 1)
      BY <2>2, TopClocks
    <3> QED BY <1>2, <1>3, <3>1
  <2> QED BY <2>1, <2>2
<1>4. CASE k = 2
  <2>1. u[1] = t[1] /\ Len(u) \in 1..2
    BY <1>1, <1>4
  <2>2. u # Root
    BY <2>1, Paths
  <2>3. CASE Len(t) = 1 /\ Len(u) = 1
    <3>1. u = t
      BY <2>1, <2>3, Lineage
    <3> QED BY <1>2, <3>1
  <2>4. CASE Len(t) = 1 /\ Len(u) = 2
    <3>1. TeamOf(u) = t
      BY <2>1, <2>4, Lineage
    <3>2. open[TeamOf(u)] /\ TeamOf(u) \in Teams
      BY <2>2, Tree DEF Active
    <3> QED BY <3>1, <3>2 DEF Forked
  <2>5. CASE Len(t) = 2 /\ Len(u) = 1
    <3>1. TeamOf(t) = u
      BY <2>1, <2>5, Lineage
    <3>2. open[u] /\ u \in Teams /\ t \in MembersOf(u)
      <4>1. open[TeamOf(t)] /\ TeamOf(t) \in Teams /\ t \in MembersOf(TeamOf(t))
        BY Tree DEF Active
      <4> QED BY <3>1, <4>1
    <3>3. AgreeIn(u) /\ Place(u) = 2
      BY <1>1, <2>5, <3>2 DEF Timed, TeamsAgree
    <3>4. /\ Clock(u, 2) <= Clock(t, 2)
          /\ \A v \in MembersOf(u) : at[v] = "starting" => Clock(t, 2) = Clock(u, 2)
      BY <1>2, <3>2, <3>3 DEF AgreeIn
    <3> QED BY <1>4, <3>2, <3>4 DEF Waits
  <2>6. CASE Len(t) = 2 /\ Len(u) = 2
    <3> DEFINE q == TeamOf(t)
    <3>1. q \in Teams /\ open[q] /\ t \in MembersOf(q) /\ u \in MembersOf(q)
      <4>1. TeamOf(t) \in Teams /\ t \in MembersOf(TeamOf(t)) /\ open[TeamOf(t)]
        BY Tree DEF Active
      <4>2. TeamOf(u) = TeamOf(t) /\ u \in MembersOf(TeamOf(u))
        BY <2>1, <2>2, <2>6, Lineage
      <4> QED BY <4>1, <4>2
    <3>2. Place(q) = 2
      <4>1. Len(q) = Len(t) - 1
        BY Lineage
      <4> QED BY <2>6, <4>1 DEF Place
    <3> HIDE DEF q
    <3>3. Clock(t, 2) = Clock(u, 2)
      <4>1. 2 \in 1..Place(q)
        BY <3>2
      <4> QED BY <1>2, <3>1, <4>1, TeamView
    <3> QED BY <1>2, <1>4, <3>3
  <2> QED BY <1>1, <2>1, <2>3, <2>4, <2>5, <2>6
<1>5. CASE k = 3
  <2>1. u[1] = t[1] /\ u[2] = t[2] /\ Len(u) = 2 /\ Len(t) = 2
    BY <1>1, <1>5
  <2>2. u = t
    BY <2>1, Lineage
  <2> QED BY <1>2, <2>2
<1> QED BY <1>1, <1>3, <1>4, <1>5

(* What the record of an access is.                                        *)
LEMMA RecordKnown ==
  ASSUME Timed, NEW t \in Tasks, Record(t)
  PROVE  /\ HistPlace' = Place(t) /\ Place(t) \in 2..Depth+1 /\ Place(t) \in Nat
         /\ Len(hist') = Place(t) + ConstructDepth(t) /\ ConstructDepth(t) \in {0, 1}
         /\ hist' = label[t]
         /\ \A k \in 1..Place(t) : TimeAt(k)' = Clock(t, k) /\ CountAt(k)' = Count(t, k)
         /\ ConstructDepth(t) = IF at[t] = "free" THEN 0 ELSE 1
         /\ at[t] # "free" => hist'[Place(t) + 1] = SegmentAt(t)
         /\ at[t] # "free" => Last(hist') = SegmentAt(t)
         /\ HistOK'
<1> DEFINE P == Place(t)
<1>1. /\ t # Root /\ Exists(t) /\ at[t] \in {"free", "chunk", "single", "work"} /\ hist' = label[t]
      /\ program' = program
  BY RecordEffect
<1>2. Strong /\ Tame(program) /\ Spelled(t) /\ Plain
  BY DEF Timed, Spelling
<1>3. /\ label[t] \in Seq(SegmentType) /\ P \in 1..Len(label[t])
      /\ ConstructDepth(t) \in {0, 1} /\ Len(label[t]) = P + ConstructDepth(t)
      /\ \A k \in 1..P : Clock(t, k) = label[t][k].offset
  BY <1>1, <1>2, TimesKnown
<1>4. P \in Nat /\ P \in 2..Depth+1 /\ P = Len(t) + 1
  <2>1. Len(t) \in 1..Depth /\ Depth \in {1, 2}
    BY <1>1, Lineage
  <2>2. P = Len(t) + 1 /\ Len(t) \in Nat /\ P \in 1..Depth+1
    BY <1>2, Spans
  <2> QED BY <2>1, <2>2
<1>5. ConstructDepth(t) = IF at[t] = "free" THEN 0 ELSE 1
  BY <1>1 DEF ConstructDepth, InLoop, InSingle, WorkPlaces
<1>6. \A k \in 1..P : label[t][k] \in OwnType(SpanAt(k))
  BY <1>1, <1>2 DEF Spelled
<1>7. Last(label[t]) = label[t][Len(label[t])]
  BY DEF Last
<1>8. /\ SegmentAt(t).type = "workshare" \/ at[t] = "free"
      /\ at[t] # "free" =>
           \/ SegmentAt(t) \in {PlaceHolderSegment, SingleSegment(SingleExec)}
           \/ \E id \in Nat : SegmentAt(t) \in {IterationSegment(id), SectionSegment(id)}
  <2>1. CASE at[t] = "free"
    BY <2>1
  <2>2. CASE at[t] = "chunk"
    <3>1. SegmentAt(t) = PlaceHolderSegment
      BY <2>2 DEF SegmentAt
    <3> QED BY <3>1 DEF PlaceHolderSegment, Segment
  <2>3. CASE at[t] = "single"
    <3>1. SegmentAt(t) = SingleSegment(SingleExec)
      BY <2>3 DEF SegmentAt
    <3> QED BY <3>1 DEF SingleSegment, Segment
  <2>4. CASE at[t] = "work"
    <3>1. SegmentAt(t) = Kind(Construct(t), iter[t])
      BY <2>4 DEF SegmentAt
    <3>2. iter[t] \in Nat
      BY <1>2 DEF Strong, Labelled, LabelTypes
    <3>3. Kind(Construct(t), iter[t]).type = "workshare"
      BY DEF Kind, IterationSegment, SectionSegment, Segment
    <3>4. Kind(Construct(t), iter[t]) \in {IterationSegment(iter[t]), SectionSegment(iter[t])}
      BY DEF Kind
    <3> HIDE DEF Kind
    <3> QED BY <3>1, <3>2, <3>3, <3>4
  <2> QED BY <1>1, <2>1, <2>2, <2>3, <2>4
<1>9. at[t] # "free" => /\ hist'[P + 1] = SegmentAt(t) /\ Last(hist') = SegmentAt(t)
                        /\ Len(label[t]) = P + 1
  BY <1>1, <1>2, <1>3, <1>4, <1>5, <1>7 DEF Spelled
<1>10. HistPlace' = P
  <2>1. HistPlace' = IF Last(label[t]).type = "workshare" THEN Len(label[t]) - 1 ELSE Len(label[t])
    BY <1>1 DEF HistPlace
  <2>2. CASE at[t] = "free"
    <3>1. Last(label[t]) = label[t][P] /\ P \in 1..P /\ Len(label[t]) = P
      BY <1>3, <1>4, <1>5, <1>7, <2>2
    <3>2. Last(label[t]).type = "implicit"
      BY <1>6, <3>1, OwnSegments
    <3> QED BY <2>1, <3>1, <3>2
  <2>3. CASE at[t] # "free"
    BY <1>1, <1>4, <1>8, <1>9, <2>1, <2>3
  <2> QED BY <2>2, <2>3
<1>11. \A k \in 1..P : TimeAt(k)' = Clock(t, k) /\ CountAt(k)' = Count(t, k)
  BY <1>1, <1>3 DEF TimeAt, CountAt, Count
<1>12. HistOK'
  <2>1. CountAt(1)' = 0
    BY <1>1, <1>2 DEF CountAt, Spelled
  <2>2. Len(hist') \in {P, P + 1} /\ (Len(hist') > P => at[t] # "free")
    BY <1>1, <1>3, <1>4, <1>5
  <2>3. \A k \in 1..HistPlace' : hist'[k] \in OwnType(SpanAt(k))
    BY <1>1, <1>6, <1>10
  <2>4. \A k \in 1..HistPlace' : hist'[k] \in OwnType(SpanAt(k))'
    BY <2>3 DEF OwnType, SpanAt
  <2>5. Len(hist') > P => \/ Last(hist') \in {PlaceHolderSegment, SingleSegment(SingleExec)}
                          \/ \E id \in Nat : Last(hist') \in {IterationSegment(id), SectionSegment(id)}
    BY <1>8, <1>9, <2>2
  <2> QED BY <1>1, <1>3, <1>4, <1>10, <2>1, <2>2, <2>4, <2>5 DEF HistOK
<1> QED BY <1>1, <1>3, <1>4, <1>5, <1>9, <1>10, <1>11, <1>12

(* Who meets a record that has just been made: nobody is ahead of it, only *)
(* a task that waits for its team is behind it, and only t is at it.       *)
LEMMA RecordMet ==
  ASSUME Timed, NEW t \in Tasks, Record(t), NEW u \in Tasks
  PROVE  /\ \A k \in 0..Place(t) : SameTime(u, k)' <=> \A j \in 1..k : Clock(u, j) = Clock(t, j)
         /\ Exists(u) => \A k \in 1..Place(u) : k <= Place(t) /\ SameTime(u, k)' =>
              \A j \in 1..k-1 : u[j] = t[j]
         /\ Active(u) => \A k \in 1..Place(u) : Meets(u, k)' =>
              /\ k <= Place(t) /\ Clock(u, k) <= Clock(t, k)
              /\ ~ Waits(u) => Clock(u, k) = Clock(t, k)
         /\ Active(u) /\ Around(u)' => u = t
         /\ Around(t)' /\ Active(t)
<1> DEFINE P == Place(t)
<1>1. /\ t # Root /\ Exists(t) /\ ~ Forked(t) /\ at[t] \in {"free", "chunk", "single", "work"}
      /\ UNCHANGED <<label, at, open>>
  BY RecordEffect
<1>2. /\ HistPlace' = P /\ P \in Nat /\ P \in 2..Depth+1
      /\ \A k \in 1..P : TimeAt(k)' = Clock(t, k)
  BY RecordKnown
<1>3. \A v : \A k : Clock(v, k)' = Clock(v, k)
  BY <1>1 DEF Clock
<1>4. /\ Place(u) = Len(u) + 1 /\ Len(u) \in Nat /\ P = Len(t) + 1 /\ Len(t) \in 1..2 /\ Len(u) \in 0..2
      /\ Place(u)' = Place(u)
  <2>1. /\ Place(u) = Len(u) + 1 /\ Len(u) \in Nat /\ P = Len(t) + 1 /\ Len(t) \in Nat
        /\ Depth \in {1, 2} /\ Len(u) \in 0..Depth /\ Len(t) \in 1..Depth
    BY <1>1, Spans, Paths, Lineage DEF Timed
  <2>2. CASE Depth = 1
    BY <2>1, <2>2 DEF Place
  <2>3. CASE Depth = 2
    BY <2>1, <2>3 DEF Place
  <2> QED BY <2>1, <2>2, <2>3
<1>5. Active(t)
  BY <1>1, RunnerActive
<1>6. ASSUME NEW v \in Tasks, NEW k \in 0..P
      PROVE  SameTime(v, k)' <=> \A j \in 1..k : Clock(v, j) = Clock(t, j)
  <2>1. \A j \in 1..k : j \in 1..P
    BY <1>2
  <2> QED BY <1>2, <1>3, <2>1 DEF SameTime
<1>7. ASSUME Exists(u), NEW k \in Nat, k <= Place(u), k <= P, \A j \in 1..k : Clock(u, j) = Clock(t, j)
      PROVE  \A j \in 1..k-1 : u[j] = t[j]
  <2> HIDE DEF P
  <2> QED BY <1>1, <1>7, SamePath DEF P
<1>8. ASSUME Active(u), NEW k \in 1..Place(u), Meets(u, k)'
      PROVE  /\ k <= P /\ Clock(u, k) <= Clock(t, k)
             /\ ~ Waits(u) => Clock(u, k) = Clock(t, k)
  <2>1. k <= P /\ SameTime(u, k-1)' /\ SameMember(u, k)'
    BY <1>2, <1>8 DEF Meets
  <2>2. \A j \in 1..k-1 : Clock(u, j) = Clock(t, j)
    <3>1. k-1 \in 0..P
      BY <1>2, <2>1
    <3> QED BY <1>6, <2>1, <3>1
  <2>3. \A j \in 1..(k-1)-1 : u[j] = t[j]
    <3>1. k-1 \in Nat /\ k-1 <= Place(u) /\ k-1 <= P
      BY <1>2, <1>4, <2>1
    <3>2. Exists(u)
      BY <1>8 DEF Active
    <3> QED BY <1>7, <2>2, <3>1, <3>2
  <2>4. k # 1 => u[k-1] = t[k-1]
    <3> SUFFICES ASSUME k # 1 PROVE u[k-1] = t[k-1]
      OBVIOUS
    <3>1. k \in 2..P /\ k \in 1..P
      BY <1>2, <1>4, <2>1
    <3>2. TimeAt(k)' % SpanAt(k) = u[k-1]
      BY <2>1 DEF SameMember, SpanAt
    <3>3. Clock(t, k) % SpanAt(k) = t[k-1]
      BY <1>1, <3>1, TimesKnown DEF Timed, Spelling
    <3> QED BY <1>2, <3>1, <3>2, <3>3
  <2>5. \A j \in 1..k-1 : u[j] = t[j]
    <3> SUFFICES ASSUME NEW j \in 1..k-1 PROVE u[j] = t[j]
      OBVIOUS
    <3>1. CASE j = k-1
      BY <2>4, <3>1
    <3>2. CASE j # k-1
      <4>1. j \in 1..(k-1)-1
        BY <3>2
      <4> QED BY <2>3, <4>1
    <3> QED BY <3>1, <3>2
  <2> QED BY <1>1, <1>5, <1>8, <2>1, <2>5, Kin
<1>9. ASSUME Active(u), Around(u)' PROVE u = t
  <2>1. P <= Place(u) /\ SameTime(u, P)'
    BY <1>2, <1>3, <1>4, <1>9 DEF Around, SameTime
  <2>2. \A j \in 1..P : Clock(u, j) = Clock(t, j)
    BY <1>2, <1>6, <2>1
  <2>3. \A j \in 1..P-1 : u[j] = t[j]
    BY <1>2, <1>7, <1>9, <2>1, <2>2 DEF Active
  <2>4. \A j \in 1..Len(t) : u[j] = t[j]
    BY <1>4, <2>3
  <2>5. CASE Len(t) = 1 /\ Len(u) = 1
    BY <2>4, <2>5, Lineage
  <2>6. CASE Len(t) = 1 /\ Len(u) = 2
    <3>1. TeamOf(u) = t /\ u # Root
      BY <2>4, <2>6, Lineage
    <3>2. open[TeamOf(u)] /\ TeamOf(u) \in Teams
      BY <1>9, <3>1, Tree DEF Active
    <3> QED BY <1>1, <3>1, <3>2 DEF Forked
  <2>7. CASE Len(t) = 2 /\ Len(u) = 2
    BY <2>4, <2>7, Lineage
  <2>8. Len(t) + 1 <= Len(u) + 1
    BY <1>4, <2>1
  <2>9. \/ Len(t) = 1 /\ Len(u) = 1
        \/ Len(t) = 1 /\ Len(u) = 2
        \/ Len(t) = 2 /\ Len(u) = 2
    <3> DEFINE m == Len(t)
               n == Len(u)
    <3>1. (m = 1 \/ m = 2) /\ (n = 0 \/ n = 1 \/ n = 2) /\ m + 1 <= n + 1
      BY <1>4, <2>8
    <3> HIDE DEF m, n
    <3>2. (m = 1 /\ n = 1) \/ (m = 1 /\ n = 2) \/ (m = 2 /\ n = 2)
      BY <3>1
    <3> QED BY <3>2 DEF m, n
  <2> QED BY <2>5, <2>6, <2>7, <2>9
<1>10. Around(t)'
  <2>1. \A j \in 1..P : Clock(t, j)' = TimeAt(j)'
    BY <1>2, <1>3
  <2> QED BY <1>2, <2>1 DEF Around, SameTime, Place
<1>11. Exists(u) => \A k \in 1..Place(u) : k <= P /\ SameTime(u, k)' => \A j \in 1..k-1 : u[j] = t[j]
  <2> SUFFICES ASSUME Exists(u), NEW k \in 1..Place(u), k <= P, SameTime(u, k)'
               PROVE  \A j \in 1..k-1 : u[j] = t[j]
    OBVIOUS
  <2>1. k \in Nat /\ k \in 0..P /\ k <= Place(u)
    BY <1>2, <1>4
  <2> QED BY <1>6, <1>7, <2>1
<1> QED BY <1>5, <1>6, <1>8, <1>9, <1>10, <1>11

(* Two tasks whose paths agree above the last index of one of them: the    *)
(* other one, or its creator, is in the team of the first.                 *)
LEMMA Teammate ==
  ASSUME NEW t \in Tasks \ {Root}, NEW u \in Tasks \ {Root}, Len(u) <= Len(t),
         \A j \in 1..Len(u)-1 : u[j] = t[j]
  PROVE  \E v \in MembersOf(TeamOf(u)) :
           /\ v \in Tasks \ {Root}
           /\ (v = t /\ Len(u) = Len(t)) \/ (v = TeamOf(t) /\ Len(u) = 1 /\ Len(t) = 2)
           /\ u[Len(u)] = t[Len(u)] => u = v
<1>1. /\ Len(t) = 1 \/ Len(t) = 2
      /\ Len(u) = 1 \/ Len(u) = 2
  <2>1. Depth \in {1, 2} /\ Len(t) \in 1..Depth /\ Len(u) \in 1..Depth
    BY Lineage
  <2>2. CASE Depth = 1
    BY <2>1, <2>2
  <2>3. CASE Depth = 2
    BY <2>1, <2>3
  <2> QED BY <2>1, <2>2, <2>3
<1>2. CASE Len(u) = 1 /\ Len(t) = 1
  <2>1. TeamOf(u) = Root /\ TeamOf(t) = Root /\ t \in MembersOf(TeamOf(t))
    BY <1>2, Lineage
  <2>2. t \in MembersOf(TeamOf(u))
    BY <2>1
  <2>3. u[1] = t[1] => u = t
    BY <1>2, Lineage
  <2> QED BY <1>2, <2>2, <2>3
<1>3. CASE Len(u) = 1 /\ Len(t) = 2
  <2> DEFINE v == TeamOf(t)
  <2>1. v \in Tasks /\ Len(v) = 1
    BY <1>3, Lineage
  <2>2. u[1] = t[1] => v = u
    BY <1>3, Lineage
  <2> HIDE DEF v
  <2>3. v \in Tasks \ {Root} /\ TeamOf(v) = Root /\ TeamOf(u) = Root
    BY <1>3, <2>1, Lineage
  <2>4. v \in MembersOf(TeamOf(u))
    BY <2>3, Lineage
  <2> QED BY <1>3, <2>2, <2>3, <2>4 DEF v
<1>4. CASE Len(u) = 2 /\ Len(t) = 2
  <2>1. 1 \in 1..Len(u)-1
    BY <1>4
  <2>2. u[1] = t[1]
    BY <2>1
  <2>3. TeamOf(u) = TeamOf(t) /\ t \in MembersOf(TeamOf(t))
    BY <1>4, <2>2, Lineage
  <2>4. u[2] = t[2] => u = t
    BY <1>4, <2>2, Lineage
  <2> QED BY <1>4, <2>3, <2>4
<1> DEFINE m == Len(t)
           n == Len(u)
<1>5. (m = 1 \/ m = 2) /\ (n = 1 \/ n = 2) /\ n <= m
  BY <1>1
<1> HIDE DEF m, n
<1>6. (n = 1 /\ m = 1) \/ (n = 1 /\ m = 2) \/ (n = 2 /\ m = 2)
  BY <1>5
<1> QED BY <1>2, <1>3, <1>4, <1>6 DEF m, n

(* No task has joined, or is about to leave, the regions that t is in.     *)
LEMMA RecordJoined ==
  ASSUME Timed, NEW t \in Tasks, Record(t), NEW u \in Tasks, Active(u)
  PROVE  Joined(u)'
<1> DEFINE P == Place(t)
<1>1. /\ t # Root /\ Exists(t) /\ ~ Forked(t) /\ at[t] \in {"free", "chunk", "single", "work"}
      /\ UNCHANGED <<label, at, open, script, step>>
  BY RecordEffect
<1>2. HistPlace' = P /\ P \in Nat /\ Active(t)
  BY RecordKnown, RecordMet
<1>3. /\ Place(u) = Len(u) + 1 /\ Len(u) \in Nat /\ P = Len(t) + 1 /\ Len(t) \in Nat
      /\ Place(u)' = Place(u) /\ Exists(u) /\ P \in Nat /\ Place(u) \in Nat
  BY Spans DEF Timed, Place, Active
<1>4. \A k \in 1..Place(u) : k <= P /\ SameTime(u, k)' => \A j \in 1..k-1 : u[j] = t[j]
  BY <1>3, RecordMet
<1>5. open[TeamOf(t)] /\ at[TeamOf(t)] = "free" /\ open[Root] /\ Control
  BY <1>1, <1>2, Ancestors DEF Active, Timed, Strong, Labelled
<1>6. ASSUME ~ Forked(u), P > Place(u), SameTime(u, Place(u))' PROVE FALSE
  <2>1. \A j \in 1..Len(u) : u[j] = t[j]
    <3> DEFINE k == Place(u)
    <3>1. k \in 1..Place(u) /\ k <= P /\ SameTime(u, k)' /\ k-1 = Len(u)
      BY <1>3, <1>6
    <3> HIDE DEF k
    <3> QED BY <1>4, <3>1
  <2>2. CASE u = Root
    BY <1>5, <1>6, <2>2, Tree DEF Forked
  <2>3. CASE u # Root
    <3>1. Len(u) <= Len(t) /\ Len(u) # Len(t) /\ Len(u) \in 1..Len(u)
      <4>1. Len(u) # 0
        BY <2>3, Paths
      <4> QED BY <1>3, <1>6, <4>1
    <3>2. \A j \in 1..Len(u)-1 : u[j] = t[j]
      BY <1>3, <2>1
    <3>3. u = TeamOf(t)
      BY <1>1, <2>1, <2>3, <3>1, <3>2, Teammate
    <3> QED BY <1>1, <1>5, <1>6, <3>3, Tree DEF Forked
  <2> QED BY <2>2, <2>3
<1>7. ASSUME Leaving(u), P > Len(u), SameTime(u, Len(u))' PROVE FALSE
  <2>1. at[u] \in {"ending", "released"} /\ u # Root
    BY <1>5, <1>7 DEF Leaving, Control, PlacesFit
  <2>2. Construct(u) = "end"
    BY <1>5, <1>7, <2>1 DEF Leaving, Control, PlacesFit
  <2>3. Len(u) # 0
    BY <2>1, Paths
  <2>4. \A j \in 1..Len(u)-1 : u[j] = t[j]
    <3>1. Len(u) \in 1..Place(u) /\ Len(u) <= P
      BY <1>3, <1>7, <2>3
    <3> QED BY <1>4, <1>7, <3>1
  <2>5. Len(u) <= Len(t)
    BY <1>3, <1>7
  <2>6. PICK v \in MembersOf(TeamOf(u)) : v = t \/ v = TeamOf(t)
    BY <1>1, <2>1, <2>4, <2>5, Teammate
  <2>7. at[v] \in {"none", "released", "ending"}
    BY <1>5, <2>1, <2>2, <2>6, Finished
  <2> QED BY <1>1, <1>5, <2>6, <2>7
<1>8. (Forked(u)' <=> Forked(u)) /\ (Leaving(u)' <=> Leaving(u)) /\ Len(u)' = Len(u)
  BY <1>1 DEF Forked, Leaving, Construct
<1>9. ~ (~ Forked(u) /\ P > Place(u) /\ SameTime(u, Place(u))')
  BY <1>6
<1>10. ~ (Leaving(u) /\ P > Len(u) /\ SameTime(u, Len(u))')
  BY <1>7
<1> QED BY <1>2, <1>3, <1>8, <1>9, <1>10 DEF Joined

(* No member of the teams that t is in has yet to start where t is.        *)
LEMMA RecordUnstarted ==
  ASSUME Timed, NEW t \in Tasks, Record(t), NEW u \in Tasks
  PROVE  Unstarted(u)'
<1> DEFINE P == Place(t)
           r == TeamOf(u)
<1>1. /\ t # Root /\ Exists(t) /\ ~ Forked(t) /\ at[t] \in {"free", "chunk", "single", "work"}
      /\ UNCHANGED <<label, at, open, script, step>>
  BY RecordEffect
<1>2. /\ HistPlace' = P /\ P \in Nat /\ Active(t)
      /\ \A k \in 1..P : TimeAt(k)' = Clock(t, k)
  BY RecordKnown, RecordMet
<1>3. ASSUME at[u] = "starting", P > Len(u), SameTime(r, Len(u))', SameMember(u, Place(u))'
      PROVE  FALSE
  <2>1. /\ u # Root /\ r \in Tasks /\ ~ Exists(u) /\ at[r] = "free"
    BY <1>3, StarterBelongs
  <2>2. Exists(r)
    BY <2>1 DEF Exists
  <2>3. /\ Len(u) \in Nat /\ Len(u) # 0 /\ Len(r) = Len(u) - 1 /\ Place(r) = Len(r) + 1 /\ P = Len(t) + 1
        /\ Len(t) \in Nat /\ Place(u) = Len(u) + 1 /\ \A j \in 1..Len(u)-1 : u[j] = r[j]
    <3>1. Len(u) \in Nat /\ Len(t) \in Nat
      BY Spans DEF Timed
    <3>2. Len(r) = Len(u) - 1 /\ Len(u) # 0 /\ \A j \in 1..Len(u)-1 : u[j] = r[j]
      BY <2>1, Paths, Lineage
    <3> QED BY <3>1, <3>2 DEF Place
  <2>4. \A j \in 1..Len(u)-1 : r[j] = t[j]
    <3> DEFINE k == Len(u)
    <3>1. k \in 1..Place(r) /\ k <= P /\ SameTime(r, k)'
      BY <1>2, <1>3, <2>3
    <3> HIDE DEF k, r
    <3>2. \A j \in 1..k-1 : r[j] = t[j]
      BY <2>1, <2>2, <3>1, RecordMet
    <3> QED BY <3>2 DEF k
  <2>5. \A j \in 1..Len(u)-1 : u[j] = t[j]
    BY <2>3, <2>4
  <2>6. u[Len(u)] = t[Len(u)]
    <3> DEFINE k == Place(u)
    <3>1. k \in 2..P /\ k \in 1..P /\ k - 1 = Len(u) /\ k # 1
      BY <1>2, <1>3, <2>3
    <3>2. Clock(t, k) % SpanAt(k) = t[k-1]
      <4> HIDE DEF k
      <4> QED BY <1>1, <3>1, TimesKnown DEF Timed, Spelling
    <3>3. TimeAt(k)' % SpanAt(k)' = u[k-1]
      <4>1. SameMember(u, k)'
        BY <1>3 DEF Place
      <4> HIDE DEF k
      <4> QED BY <3>1, <4>1 DEF SameMember
    <3>4. TimeAt(k)' = Clock(t, k) /\ SpanAt(k)' = SpanAt(k)
      BY <1>2, <3>1 DEF SpanAt
    <3> QED BY <3>1, <3>2, <3>3, <3>4
  <2>7. Len(u) <= Len(t)
    BY <1>3, <2>3
  <2>8. u = t \/ u = TeamOf(t)
    BY <1>1, <2>1, <2>5, <2>6, <2>7, Teammate
  <2>9. Exists(TeamOf(t))
    BY <1>1, <1>2, Ancestors DEF Active
  <2> QED BY <1>1, <2>1, <2>8, <2>9
<1>4. ~ (at[u] = "starting" /\ P > Len(u) /\ SameTime(r, Len(u))' /\ SameMember(u, Place(u))')
  BY <1>3
<1> QED BY <1>1, <1>2, <1>4 DEF Unstarted

(* A count that a task shares with t stays the one that t recorded.        *)
LEMMA RecordCounts ==
  ASSUME Timed, NEW t \in Tasks, Record(t), NEW u \in Tasks, Active(u)
  PROVE  CountsStay(u)'
<1> DEFINE P == Place(t)
<1>1. /\ t # Root /\ Exists(t) /\ ~ Forked(t) /\ at[t] \in {"free", "chunk", "single", "work"}
      /\ UNCHANGED <<label, at, open, script, step>>
  BY RecordEffect
<1>2. /\ Active(t) /\ P = Len(t) + 1 /\ Exists(u) /\ open[TeamOf(t)]
      /\ \A k \in 1..P : CountAt(k)' = Count(t, k)
  BY <1>1, RecordKnown, RecordMet DEF Active, Place
<1>3. /\ Place(u) = Len(u) + 1 /\ Len(u) \in Nat /\ P = Len(t) + 1 /\ Len(t) \in Nat
  BY Spans DEF Timed, Place
<1>4. ASSUME Depth = 2, u # Root, SameTime(u, 2)'
      PROVE  Count(u, 2) = Count(t, 2) /\ CountAt(2)' = Count(t, 2)
  <2>1. Len(t) \in 1..Depth /\ Len(u) \in 1..Depth /\ open[TeamOf(u)]
    BY <1>1, <1>2, <1>4, Lineage DEF Active
  <2>2. (Len(t) = 1 \/ Len(t) = 2) /\ (Len(u) = 1 \/ Len(u) = 2) /\ 2 \in 1..P /\ 2 \in 1..Place(u)
    <3> DEFINE m == Len(t)
               n == Len(u)
               d == Depth
    <3>1. m \in 1..d /\ n \in 1..d /\ d = 2 /\ P = m + 1 /\ Place(u) = n + 1
      BY <1>3, <1>4, <2>1
    <3> HIDE DEF m, n, d, P
    <3>2. (m = 1 \/ m = 2) /\ (n = 1 \/ n = 2) /\ 2 \in 1..P /\ 2 \in 1..Place(u)
      BY <3>1
    <3> QED BY <3>2 DEF m, n
  <2>3. u[1] = t[1]
    <3>1. 2 <= P
      BY <2>2
    <3>2. \A j \in 1..2-1 : u[j] = t[j]
      BY <1>2, <1>4, <2>2, <3>1, RecordMet
    <3>3. 1 \in 1..2-1
      OBVIOUS
    <3> QED BY <3>2, <3>3
  <2>4. ASSUME NEW v \in Tasks \ {Root}, Len(v) = 2, Exists(v), open[TeamOf(v)]
        PROVE  Count(v, 2) = Count(TeamOf(v), 2)
    <3> DEFINE q == TeamOf(v)
    <3>1. q \in Tasks /\ Exists(q) /\ Len(q) = 1
      <4>1. Exists(q)
        BY <2>4, Ancestors
      <4>2. q \in Tasks /\ Len(q) = Len(v) - 1
        BY Lineage
      <4> QED BY <2>4, <4>1, <4>2
    <3>2. 2 \in 1..Len(label[q])
      <4> HIDE DEF q
      <4>1. Strong /\ Tame(program) /\ Spelled(q) /\ Place(q) = 2
        BY <3>1 DEF Timed, Spelling, Place
      <4>2. Place(q) \in 1..Len(label[q])
        BY <3>1, <4>1, TimesKnown
      <4> QED BY <4>1, <4>2
    <3>3. SameCounts(label[v][2], label[q][2])
      BY <2>4, <3>2 DEF Timed, Strong, Labelled, LabelsNest
    <3> QED BY <3>3 DEF SameCounts, Count
  <2>5. CASE Len(t) = 1 /\ Len(u) = 1
    <3>1. u = t
      BY <2>3, <2>5, Lineage
    <3> QED BY <1>2, <2>2, <3>1
  <2>6. CASE Len(t) = 2 /\ Len(u) = 1
    <3>1. TeamOf(t) = u
      BY <2>3, <2>6, Lineage
    <3>2. Count(t, 2) = Count(TeamOf(t), 2)
      BY <1>1, <1>2, <2>4, <2>6
    <3> QED BY <1>2, <2>2, <3>1, <3>2
  <2>7. CASE Len(t) = 1 /\ Len(u) = 2
    <3>1. TeamOf(u) = t
      BY <2>3, <2>7, Lineage
    <3>2. t \in Teams
      BY <1>4, <3>1, Tree
    <3> QED BY <1>1, <2>1, <3>1, <3>2 DEF Forked
  <2>8. CASE Len(t) = 2 /\ Len(u) = 2
    <3>1. TeamOf(t) = TeamOf(u)
      BY <2>3, <2>8, Lineage
    <3>2. Count(t, 2) = Count(TeamOf(t), 2)
      BY <1>1, <1>2, <2>4, <2>8
    <3>3. Count(u, 2) = Count(TeamOf(u), 2)
      BY <1>2, <1>4, <2>1, <2>4, <2>8
    <3> QED BY <1>2, <2>2, <3>1, <3>2, <3>3
  <2> QED BY <2>2, <2>5, <2>6, <2>7, <2>8
<1>5. Count(u, 2)' = Count(u, 2)
  BY <1>1 DEF Count
<1>6. CASE Depth = 2 /\ u # Root /\ SameTime(u, 2)'
  BY <1>4, <1>5, <1>6 DEF CountsStay
<1>7. CASE ~ (Depth = 2 /\ u # Root /\ SameTime(u, 2)')
  BY <1>7 DEF CountsStay
<1> QED BY <1>6, <1>7

(* Only t has the recorded access in its past, and it is where it was made. *)
LEMMA RecordKnowing ==
  ASSUME Timed, Nothing, NEW t \in Tasks, Record(t), NEW u \in Tasks, Active(u)
  PROVE  NotEarlier(u)' /\ Knowing(u)'
<1> DEFINE P == Place(t)
<1>1. /\ at[t] \in {"free", "chunk", "single", "work"} /\ loose' = loose
      /\ knows'[t] = (knows[t] \/ at[t] # "work")
      /\ \A v \in Tasks : v # t => knows'[v] = knows[v]
      /\ UNCHANGED <<label, at, open>>
  BY RecordEffect
<1>2. /\ HistPlace' = P /\ P \in Nat /\ Len(hist') = P + ConstructDepth(t)
      /\ ConstructDepth(t) = IF at[t] = "free" THEN 0 ELSE 1
      /\ \A k \in 1..P : TimeAt(k)' = Clock(t, k)
  BY RecordKnown
<1>3. Place(u)' = Place(u) /\ (Waits(u)' <=> Waits(u)) /\ \A k : Clock(u, k)' = Clock(u, k)
  BY <1>1 DEF Place, Waits, Clock
<1>4. ~ knows[u] /\ ~ knows[t] /\ ~ loose[u]
  BY DEF Nothing
<1>5. ASSUME NEW k \in 1..Place(u), Meets(u, k)'
      PROVE  /\ TimeAt(k)' \in Nat /\ Clock(u, k)' \in Nat /\ Clock(u, k)' <= TimeAt(k)'
             /\ ~ Waits(u) => Clock(u, k)' = TimeAt(k)'
  <2>1. k <= P /\ Clock(u, k) <= Clock(t, k) /\ (~ Waits(u) => Clock(u, k) = Clock(t, k))
    BY <1>5, RecordMet
  <2>2. Exists(t) /\ Exists(u) /\ Place(u) \in Nat
    BY RecordEffect, Spans DEF Active, Timed
  <2>3. k \in 1..P
    BY <1>2, <2>1, <2>2
  <2>4. Clock(t, k) \in Nat /\ Clock(u, k) \in Nat
    BY <2>2, <2>3, ClocksKnown
  <2> QED BY <1>2, <1>3, <2>1, <2>3, <2>4
<1>6. NotEarlier(u)'
  <2> SUFFICES ASSUME ~ Waits(u)', NEW k \in 1..Place(u)', Meets(u, k)'
               PROVE  Clock(u, k)' >= TimeAt(k)'
    BY DEF NotEarlier
  <2>1. k \in 1..Place(u) /\ ~ Waits(u)
    BY <1>3
  <2>2. Clock(u, k)' = TimeAt(k)' /\ Clock(u, k)' \in Nat
    BY <1>5, <2>1
  <2> QED BY <2>2
<1>7. ~ Later(u)'
  <2> SUFFICES ASSUME NEW k \in 1..Place(u)', Meets(u, k)', Clock(u, k)' > TimeAt(k)'
               PROVE  FALSE
    BY DEF Later
  <2>1. k \in 1..Place(u)
    BY <1>3
  <2>2. TimeAt(k)' \in Nat /\ Clock(u, k)' \in Nat /\ Clock(u, k)' <= TimeAt(k)'
    BY <1>5, <2>1
  <2> QED BY <2>2
<1>8. Around(u)' => u = t
  BY RecordMet
<1>9. knows'[u] => Around(u)'
  <2>1. knows'[u] => u = t
    BY <1>1, <1>4
  <2> QED BY <2>1, RecordMet
<1>10. Around(u)' /\ Len(hist') = P => knows'[u]
  <2> SUFFICES ASSUME Around(u)', Len(hist') = P PROVE knows'[u]
    OBVIOUS
  <2>1. u = t
    BY <1>8
  <2>2. ConstructDepth(t) # 1
    BY <1>2
  <2>3. at[t] = "free"
    BY <1>2, <2>2
  <2> QED BY <1>1, <2>1, <2>3
<1>11. ~ (Around(u)' /\ P < Place(u))
  BY <1>2, <1>8
<1> QED BY <1>1, <1>2, <1>3, <1>4, <1>6, <1>7, <1>9, <1>10, <1>11 DEF Knowing

(* The construct that the access was recorded in is that of t.             *)
LEMMA RecordMarks ==
  ASSUME Timed, Nothing, NEW t \in Tasks, Record(t), NEW u \in Tasks
  PROVE  InWork(u)' /\ (Active(u) => Marks(u)')
<1> DEFINE P == Place(t)
<1>1. /\ t # Root /\ at[t] \in {"free", "chunk", "single", "work"} /\ hist' = label[t]
      /\ knows'[t] = (knows[t] \/ at[t] # "work") /\ inWork'[t] = (inWork[t] \/ at[t] = "work")
      /\ \A v \in Tasks : v # t => knows'[v] = knows[v] /\ inWork'[v] = inWork[v]
      /\ UNCHANGED <<label, at, open, script, step, iter, taken>>
  BY RecordEffect DEF Rests
<1>2. /\ HistPlace' = P /\ P \in Nat /\ P \in 2..Depth+1 /\ Len(hist') = P + ConstructDepth(t)
      /\ ConstructDepth(t) = IF at[t] = "free" THEN 0 ELSE 1
      /\ CountAt(P)' = Count(t, P)
      /\ at[t] # "free" => Last(hist') = SegmentAt(t)
  <2>1. P \in 1..P
    BY RecordKnown
  <2> QED BY <2>1, RecordKnown
<1>3. ~ knows[u] /\ ~ inWork[u] /\ ~ knows[t] /\ ~ inWork[t]
  BY DEF Nothing
<1>4. Active(u) /\ Marked(u)' => u = t /\ at[t] # "free"
  <2>1. Active(u) /\ Marked(u)' => u = t /\ Len(hist') > P
    BY <1>2, RecordMet DEF Marked
  <2>2. at[t] = "free" => ~ Len(hist') > P
    BY <1>2
  <2> QED BY <2>1, <2>2
<1>5. at[t] # "free" => Matches(t)'
  <2> SUFFICES ASSUME at[t] # "free" PROVE Matches(t)'
    OBVIOUS
  <2>1. Len(hist') > P /\ Place(t)' = P
    BY <1>2 DEF Place
  <2>2. Marked(t)'
    BY <1>2, <2>1, RecordMet DEF Marked
  <2>3. Count(t, P)' = Count(t, P) /\ Last(label'[t]) = Last(hist')
    BY <1>1 DEF Count
  <2> HIDE DEF P
  <2>4. Count(t, HistPlace)' = CountAt(HistPlace)'
    BY <1>2, <2>3 DEF Count, CountAt
  <2> QED BY <2>2, <2>3, <2>4 DEF Matches
<1>6. InWork(u)'
  <2>1. CASE u = t
    <3>1. CASE at[t] = "work"
      BY <1>1, <1>5, <2>1, <3>1 DEF InWork
    <3>2. CASE at[t] # "work"
      BY <1>1, <1>3, <2>1, <3>2 DEF InWork
    <3> QED BY <3>1, <3>2
  <2>2. CASE u # t
    <3>1. ~ inWork'[u] /\ ~ knows'[u] /\ at'[u] = at[u]
      BY <1>1, <1>3, <2>2
    <3>2. at[u] = "work" => ~ Matches(u)'
      <4>1. at[u] = "work" => Active(u)
        BY RunnerActive DEF Exists
      <4> QED BY <1>4, <2>2, <4>1 DEF Matches
    <3> QED BY <3>1, <3>2 DEF InWork
  <2> QED BY <2>1, <2>2
<1>7. ASSUME Active(u), Marked(u)' PROVE Marks(u)'
  <2>1. u = t /\ at[t] # "free" /\ Matches(t)'
    BY <1>4, <1>5, <1>7
  <2>2. Count(t, HistPlace)' = CountAt(HistPlace)' /\ CountAt(HistPlace)' \in Nat
    <3>1. Count(t, P) \in Nat
      <4>1. P \in 1..Place(t) /\ Exists(t)
        BY <1>2, RecordEffect
      <4> HIDE DEF P
      <4> QED BY <4>1, ClocksKnown
    <3> HIDE DEF P
    <3>2. CountAt(HistPlace)' \in Nat
      BY <1>2, <3>1 DEF CountAt
    <3> QED BY <2>1, <3>2 DEF Matches
  <2>3. CASE at[t] \in {"chunk", "single"}
    <3>1. InPart(t)'
      BY <1>1, <2>1, <2>3 DEF InPart
    <3> QED BY <1>1, <2>1, <2>2, <2>3, <3>1 DEF Marks
  <2>4. CASE at[t] = "work"
    <3>1. iter[t] < taken[TeamOf(t)][step[t]]
      BY <1>1, <2>4 DEF Timed, Plain
    <3>2. taken[TeamOf(t)][step[t]] \in Nat /\ iter[t] \in Nat
      <4>1. iter[t] \in Nat
        BY DEF Timed, Strong, Labelled, LabelTypes
      <4> QED BY <2>4, <4>1, TakenKnown
    <3>3. iter[t] \in 0..taken[TeamOf(t)][step[t]]-1
      BY <3>1, <3>2
    <3>4. Last(hist') = Kind(Construct(t), iter[t])
      BY <1>2, <2>1, <2>4 DEF SegmentAt
    <3>5. /\ iter[t] \in 0..taken'[TeamOf(t)][step'[t]]-1
          /\ Last(hist') = Kind(Construct(t)', iter[t])
      BY <1>1, <3>3, <3>4 DEF Construct
    <3>6. \E id \in 0..taken'[TeamOf(t)][step'[t]]-1 : Last(hist') = Kind(Construct(t)', id)
      BY <3>5
    <3>7. at'[t] = "work" /\ ~ knows'[t] /\ inWork'[t]
      BY <1>1, <1>3, <2>4
    <3>8. OtherPart(t)'
      <4>1. Kind(Construct(t), 0)' = Kind(Construct(t)', 0)
        BY DEF Kind
      <4> QED BY <3>6, <3>7 DEF OtherPart, Kind
    <3> QED BY <1>1, <2>1, <2>2, <2>4, <3>8 DEF Marks
  <2> QED BY <1>1, <2>1, <2>3, <2>4
<1> QED BY <1>6, <1>7 DEF Marks

(* The record of an access starts the time of the record.                  *)
LEMMA RecordSeen ==
  ASSUME Timed, Nothing, NEW t \in Tasks, Record(t)
  PROVE  Seen'
<1>1. HistOK'
  BY RecordKnown
<1>2. \A u \in Tasks : Active(u)' <=> Active(u)
  BY RecordEffect DEF Active, Exists
<1>3. ASSUME NEW u \in Tasks PROVE TimelyIn(u)'
  <2>1. Unstarted(u)' /\ InWork(u)'
    BY RecordUnstarted, RecordMarks
  <2>2. Active(u) => NotEarlier(u)' /\ Knowing(u)' /\ Joined(u)' /\ CountsStay(u)' /\ Marks(u)'
    BY RecordKnowing, RecordJoined, RecordCounts, RecordMarks
  <2> QED BY <1>2, <2>1, <2>2 DEF TimelyIn
<1> QED BY <1>1, <1>3 DEF Seen
-----------------------------------------------------------------------------
(* The invariant                                                           *)

(* While no access is recorded, nobody has it in his past.                 *)
LEMMA NothingStays ==
  ASSUME Timed, Nothing, [Next]_vars, \A t \in Tasks : ~ Record(t)
  PROVE  Nothing'
<1>1. \A u \in Tasks : ~ knows[u] /\ ~ inWork[u] /\ ~ loose[u]
  BY DEF Nothing
<1>2. ASSUME NEW t \in Tasks, ImplicitTaskBegin(t) PROVE Nothing'
  <2>1. /\ \A u \in Tasks : u # t => Rests(u) /\ knows'[u] = knows[u]
        /\ knows'[t] = knows[TeamOf(t)] /\ inWork'[t] = inWork[t] /\ loose'[t] = loose[t]
        /\ TeamOf(t) \in Tasks
    BY <1>2, BeginEffect
  <2> QED BY <1>1, <2>1 DEF Nothing, Rests
<1>3. ASSUME NEW t \in Tasks, Quiet(t) PROVE Nothing'
  <2>1. knows' = knows /\ \A u \in Tasks : u # t => Rests(u)
    BY <1>3, QuietFrame DEF Timed
  <2>2. \/ UNCHANGED <<inWork, loose>>
        \/ inWork'[t] = knows[t] /\ (loose'[t] <=> loose[t] \/ inWork[t])
        \/ ~ inWork'[t] /\ (loose'[t] <=> loose[t] \/ inWork[t])
    <3>1. Strong /\ Tame(program) /\ Plain
      BY DEF Timed
    <3> QED BY <1>3, <3>1, QuietPlaces
  <2>3. ~ inWork'[t] /\ ~ loose'[t]
    BY <1>1, <2>2
  <2> QED BY <1>1, <2>1, <2>3 DEF Nothing, Rests
<1>4. ASSUME NEW t \in Tasks, ImplicitTaskEndMaster(t) PROVE Nothing'
  <2> DEFINE r == TeamOf(t)
  <2>1. /\ inWork' = inWork /\ loose' = loose
        /\ \A u \in Tasks : u \notin {t, r} => knows'[u] = knows[u]
        /\ knows'[r] = (knows[r] \/ knows[t]) /\ r \in Tasks /\ r # t
    BY <1>4, MasterEffect
  <2>2. ~ knows'[t]
    <3>1. knows \in [Tasks -> BOOLEAN] /\ at[r] \notin WorkPlaces
      <4>1. at[r] = "free"
        BY <1>4, MasterEffect
      <4> QED BY <4>1 DEF Timed, Strong, TruthTypes, WorkPlaces
    <3>2. knows' = [knows EXCEPT ![r] = @ \/ knows[t], ![t] = FALSE]
      BY <1>4, <3>1 DEF ImplicitTaskEndMaster
    <3> QED BY <2>1, <3>1, <3>2
  <2> HIDE DEF r
  <2>3. \A u \in Tasks : ~ knows'[u]
    BY <1>1, <2>1, <2>2
  <2> QED BY <1>1, <2>1, <2>3 DEF Nothing
<1>5. ASSUME NEW t \in Tasks, ImplicitTaskEndWorker(t) PROVE Nothing'
  <2>1. /\ inWork' = inWork /\ loose' = loose
        /\ \A u \in Tasks : u # t => knows'[u] = knows[u]
    BY <1>5, WorkerEffect
  <2>2. ~ knows'[t]
    <3>1. knows \in [Tasks -> BOOLEAN]
      BY DEF Timed, Strong, TruthTypes
    <3> QED BY <1>5, <3>1 DEF ImplicitTaskEndWorker
  <2> QED BY <1>1, <2>1, <2>2 DEF Nothing
<1>6. ASSUME NEW r \in Teams, Fork(r) PROVE Nothing'
  <2>1. UNCHANGED <<knows, inWork, loose>>
    BY <1>6, ForkEffect
  <2> QED BY <1>1, <2>1 DEF Nothing
<1>7. ASSUME NEW r \in Teams, OpenBarrier(r) PROVE Nothing'
  <2>1. /\ \A u \in MembersOf(r) : /\ u \in Tasks /\ ~ loose'[u]
                                   /\ knows'[u] = (\E v \in MembersOf(r) : knows[v] \/ loose[v])
        /\ \A u \in Tasks : u \notin MembersOf(r) => Rests(u) /\ knows'[u] = knows[u]
        /\ inWork' = inWork
    BY <1>7, OpenEffect
  <2>2. ~ \E v \in MembersOf(r) : knows[v] \/ loose[v]
    BY <1>1, <2>1
  <2>3. \A u \in Tasks : ~ knows'[u] /\ ~ loose'[u]
    BY <1>1, <2>1, <2>2 DEF Rests
  <2> QED BY <1>1, <2>1, <2>3 DEF Nothing
<1>8. ASSUME UNCHANGED vars PROVE Nothing'
  BY <1>1, <1>8 DEF Nothing, vars, truth
<1> QED BY <1>2, <1>3, <1>4, <1>5, <1>6, <1>7, <1>8, StepKinds

(* At the start nothing is recorded.                                       *)
LEMMA TimelyInit ==
  ASSUME Init
  PROVE  Timely
BY DEF Init, Timely, Nothing

(* The time of the record is kept by every step.                           *)
LEMMA TimelyStep ==
  ASSUME Timed, Timely, [Next]_vars
  PROVE  Timely'
<1>1. ASSUME NEW t \in Tasks, Record(t) PROVE Timely'
  <2>1. hist = <<>> /\ hist' = label[t]
    BY <1>1, RecordEffect
  <2>2. hist' # <<>>
    <3>1. Len(hist') = Place(t) + ConstructDepth(t) /\ Place(t) \in 2..Depth+1 /\ Place(t) \in Nat
          /\ ConstructDepth(t) \in {0, 1}
      BY <1>1, RecordKnown
    <3>2. Len(hist') # 0
      BY <3>1
    <3> QED BY <3>2
  <2>3. Seen'
    BY <1>1, <2>1, RecordSeen DEF Timely
  <2> QED BY <2>2, <2>3 DEF Timely
<1>2. ASSUME \A t \in Tasks : ~ Record(t) PROVE Timely'
  <2>1. hist' = hist /\ program' = program
    <3>1. hist' = hist
      <4>1. ASSUME NEW t \in Tasks, Quiet(t) PROVE hist' = hist
        BY <4>1, QuietFrame DEF Timed
      <4> QED BY <1>2, <4>1, StepKinds, BeginEffect, MasterEffect, WorkerEffect, ForkEffect, OpenEffect
              DEF vars
    <3> QED BY <3>1, ProgramStays
  <2>2. CASE hist = <<>>
    BY <1>2, <2>1, <2>2, NothingStays DEF Timely
  <2>3. CASE hist # <<>>
    <3>1. Seen
      BY <2>3 DEF Timely
    <3>2. HistOK'
      <4>1. HistOK
        BY <3>1 DEF Seen
      <4> QED BY <2>1, <4>1 DEF HistOK, HistPlace, CountAt, OwnType, SpanAt
    <3>3. \A u \in Tasks : TimelyIn(u)'
      <4>1. CASE UNCHANGED vars
        <5>1. ASSUME NEW u \in Tasks PROVE TimelyIn(u)'
          <6>1. TimelyIn(u)
            BY <3>1 DEF Seen
          <6>2. UNCHANGED <<label, at, open, step, script, taken, iter, hist, knows, inWork, loose>>
            BY <4>1 DEF vars, truth, teamVars
          <6>3. Unnoticed(u)
            <7>1. at[u] = "work" => taken[TeamOf(u)][step[u]] \in Nat
              BY TakenKnown
            <7> QED BY <6>2, <7>1 DEF Unnoticed, Rests, Active, Exists, Waits, Forked, Construct, Clock
          <6> QED BY <2>1, <3>1, <6>1, <6>3, Unmoved DEF Timed, Seen
        <5> QED BY <5>1
      <4>2. CASE ~ UNCHANGED vars
        BY <1>2, <3>1, <4>2, StepKinds, BeginSeen, QuietSeen, MasterSeen, WorkerSeen, ForkSeen, OpenSeen
      <4> QED BY <4>1, <4>2
    <3> QED BY <2>1, <2>3, <3>2, <3>3 DEF Timely, Seen
  <2> QED BY <2>2, <2>3
<1> QED BY <1>1, <1>2
-----------------------------------------------------------------------------
(* The verdict                                                             *)

(* What an access of t is compared with.                                   *)
LEMMA Compared ==
  ASSUME Timed, Seen, NEW t \in Tasks, Checks(t)
  PROVE  /\ t # Root /\ Exists(t) /\ Active(t) /\ ~ Forked(t) /\ ~ Waits(t)
         /\ at[t] \in {"free", "chunk", "single", "work"}
         /\ NotEarlier(t) /\ Knowing(t) /\ Joined(t) /\ CountsStay(t) /\ Marks(t) /\ InWork(t)
         /\ Knows(t) <=> knows[t] \/ (at[t] = "work" /\ Matches(t))
         /\ hist \in Seq(SegmentType) /\ label[t] \in Seq(SegmentType)
         /\ Depth \in {1, 2} /\ HistPlace \in 2..Depth+1 /\ Place(t) \in 2..Depth+1
         /\ HistPlace \in Nat /\ Place(t) \in Nat
         /\ Len(hist) \in {HistPlace, HistPlace + 1} /\ Len(hist) \in Nat
         /\ Len(label[t]) = Place(t) + ConstructDepth(t)
         /\ ConstructDepth(t) = IF at[t] = "free" THEN 0 ELSE 1
         /\ \A k \in 1..Place(t) : label[t][k] \in OwnType(SpanAt(k)) /\ Clock(t, k) = label[t][k].offset
         /\ \A k \in 1..HistPlace : hist[k] \in OwnType(SpanAt(k))
         /\ CountAt(1) = 0 /\ Count(t, 1) = 0
<1>1. /\ HistOK /\ TimelyIn(t) /\ Strong /\ Tame(program) /\ Spelled(t) /\ Plain
  BY DEF Timed, Seen, Spelling
<1>2. t # Root /\ Runs(t) /\ at[t] \notin {"ordered", "past"} /\ ~ Forked(t)
  BY <1>1 DEF Checks, Plain, Runs
<1>3. /\ at[t] \in {"free", "chunk", "single", "work"}
      /\ at[t] \in WorkPlaces <=> at[t] = "work"
  BY <1>2 DEF Runs, CodePlaces, WorkPlaces
<1>4. Exists(t) /\ Active(t)
  BY <1>3, RunnerActive DEF Exists
<1>5. ~ Waits(t)
  BY <1>2 DEF Waits, Forked
<1>6. NotEarlier(t) /\ Knowing(t) /\ Joined(t) /\ CountsStay(t) /\ Marks(t) /\ InWork(t)
  BY <1>1, <1>4 DEF TimelyIn
<1>7. Knows(t) <=> knows[t] \/ (at[t] = "work" /\ Matches(t))
  <2>1. CASE at[t] = "work"
    BY <1>3, <1>6, <2>1 DEF Knows, InWork
  <2>2. CASE at[t] # "work"
    BY <1>3, <2>2 DEF Knows
  <2> QED BY <2>1, <2>2
<1>8. /\ label[t] \in Seq(SegmentType) /\ Len(label[t]) = Place(t) + ConstructDepth(t)
      /\ \A k \in 1..Place(t) : Clock(t, k) = label[t][k].offset
  BY <1>1, <1>3, <1>4, TimesKnown
<1>9. \A k \in 1..Place(t) : label[t][k] \in OwnType(SpanAt(k))
  BY <1>1, <1>4 DEF Spelled
<1>10. ConstructDepth(t) = IF at[t] = "free" THEN 0 ELSE 1
  BY <1>3 DEF ConstructDepth, InLoop, InSingle, WorkPlaces
<1>11. Place(t) \in Nat /\ Place(t) \in 2..Depth+1 /\ Depth \in {1, 2}
  <2>1. Len(t) \in 1..Depth /\ Depth \in {1, 2}
    BY <1>2, Lineage
  <2>2. Place(t) = Len(t) + 1 /\ Len(t) \in Nat
    BY <1>1, Spans
  <2> QED BY <2>1, <2>2
<1>12. /\ hist \in Seq(SegmentType) /\ CountAt(1) = 0
       /\ \A k \in 1..HistPlace : hist[k] \in OwnType(SpanAt(k))
  BY <1>1 DEF HistOK
<1>13. HistPlace \in 2..Depth+1 /\ HistPlace \in Nat
       /\ Len(hist) \in {HistPlace, HistPlace + 1} /\ Len(hist) \in Nat
  BY <1>1, HistKnown
<1>14. Count(t, 1) = 0
  BY <1>1, <1>4 DEF Spelled, Count
<1> QED BY <1>2, <1>3, <1>4, <1>5, <1>6, <1>7, <1>8, <1>9, <1>10, <1>11, <1>12, <1>13, <1>14

(* What the two labels have in common.                                     *)
LEMMA CommonPlaces ==
  ASSUME Timed, Seen, NEW t \in Tasks, Checks(t), NEW k \in 1..HistPlace, k <= Place(t)
  PROVE  /\ hist[k].type = "implicit" /\ label[t][k].type = "implicit"
         /\ hist[k].span = SpanAt(k) /\ label[t][k].span = SpanAt(k)
         /\ hist[k].offset = TimeAt(k) /\ label[t][k].offset = Clock(t, k)
         /\ TimeAt(k) \in Nat /\ Clock(t, k) \in Nat
         /\ SameSegment(hist[k], label[t][k]) <=> Clock(t, k) = TimeAt(k) /\ Count(t, k) = CountAt(k)
         /\ k < HistPlace \/ k < Place(t) => (SameTime(t, k) => SameSegment(hist[k], label[t][k]))
         /\ SpanAt(k) = 1 <=> k = 1
         /\ SpanAt(k) \in Nat \ {0}
<1>1. /\ hist[k] \in OwnType(SpanAt(k)) /\ label[t][k] \in OwnType(SpanAt(k))
      /\ Clock(t, k) = label[t][k].offset /\ k \in 1..Place(t)
  <2>1. k \in 1..Place(t)
    BY Compared
  <2> QED BY <2>1, Compared
<1>2. /\ hist[k].type = "implicit" /\ label[t][k].type = "implicit"
      /\ hist[k].span = SpanAt(k) /\ label[t][k].span = SpanAt(k)
      /\ hist[k].offset \in Nat /\ label[t][k].offset \in Nat
      /\ SameSegment(hist[k], label[t][k]) <=>
           hist[k].offset = label[t][k].offset /\ hist[k].loopCount = label[t][k].loopCount
  <2> DEFINE span == SpanAt(k)
  <2>1. hist[k] \in OwnType(span) /\ label[t][k] \in OwnType(span)
    BY <1>1
  <2> HIDE DEF span
  <2>2. /\ hist[k].type = "implicit" /\ hist[k].span = span /\ hist[k].offset \in Nat
        /\ label[t][k].type = "implicit" /\ label[t][k].span = span /\ label[t][k].offset \in Nat
    BY <2>1 DEF OwnType
  <2>3. SameSegment(hist[k], label[t][k]) <=>
          hist[k].offset = label[t][k].offset /\ hist[k].loopCount = label[t][k].loopCount
    <3>1. \A seg, other \in OwnType(span) :
            SameSegment(seg, other) <=> seg.offset = other.offset /\ seg.loopCount = other.loopCount
      BY OwnSegments
    <3> QED BY <2>1, <3>1
  <2> QED BY <2>2, <2>3 DEF span
<1>3. k < HistPlace \/ k < Place(t) =>
        (SameTime(t, k) => Clock(t, k) = TimeAt(k) /\ Count(t, k) = CountAt(k))
  <2> SUFFICES ASSUME k < HistPlace \/ k < Place(t), SameTime(t, k)
               PROVE  Clock(t, k) = TimeAt(k) /\ Count(t, k) = CountAt(k)
    OBVIOUS
  <2>1. k \in 1..k
    BY Compared
  <2>2. Clock(t, k) = TimeAt(k)
    BY <2>1 DEF SameTime
  <2>3. CASE k = 1
    BY <2>2, <2>3, Compared
  <2>4. CASE k # 1
    <3>1. Depth = 2 /\ k = 2
      <4>1. k < Depth + 1 /\ Depth \in {1, 2} /\ k \in Nat /\ k >= 1
        BY Compared
      <4> QED BY <2>4, <4>1
    <3>2. t # Root /\ at[t] # "barrier" /\ CountsStay(t)
      BY Compared
    <3> QED BY <2>2, <3>1, <3>2 DEF CountsStay
  <2> QED BY <2>3, <2>4
<1>4. (SpanAt(k) = 1 <=> k = 1) /\ SpanAt(k) \in Nat \ {0}
  <2>1. k = 1 \/ k \in 2..Depth+1
    BY Compared
  <2>2. Tame(program) /\ OffsetLimit \in Nat
    BY Widths DEF Timed
  <2>3. SpanAt(1) = 1
    BY <2>2, Spans
  <2>4. k \in 2..Depth+1 => SpanAt(k) > 1 /\ SpanAt(k) \in 1..OffsetLimit-1
    <3>1. k \in 2..Depth+1 => k \in 1..Depth+1
      BY Compared
    <3> QED BY <2>2, <3>1, Spans
  <2> QED BY <2>1, <2>2, <2>3, <2>4
<1> QED BY <1>1, <1>2, <1>3, <1>4 DEF TimeAt, CountAt, Count

(* What constructs put at the end of a label.                              *)
LEMMA ConstructSegments ==
  /\ \A id \in Int : \A seg \in {PlaceHolderSegment, SingleSegment(id), IterationSegment(id), SectionSegment(id)} :
       seg.type = "workshare" /\ seg.phase = 0 /\ seg.span = 1
  /\ \A id \in Int : /\ IterationSegment(id).workShareId = id /\ SectionSegment(id).workShareId = id
                     /\ IterationSegment(id).bit2 = FALSE
BY DEF PlaceHolderSegment, SingleSegment, IterationSegment, SectionSegment, Segment

(* Constructs without ordered regions put nothing in order.                *)
LEMMA NothingOrdered ==
  ASSUME NEW h, NEW c, NEW k, h[k].phase = 0, c[k].phase = 0
  PROVE  AnalyzeOrderedSection(h, c, k) = Concurrent
<1>1. ComputeExitRank(0) = 0 /\ ComputeEnterRank(0) = 0
  BY DEF ComputeExitRank, ComputeEnterRank
<1> QED BY <1>1 DEF AnalyzeOrderedSection

(* The last segments of the two labels, when they are those of constructs. *)
LEMMA LastParts ==
  ASSUME Timed, Seen, NEW t \in Tasks, Checks(t)
  PROVE  /\ Len(hist) > HistPlace =>
              /\ Len(hist) = HistPlace + 1 /\ hist[HistPlace + 1] = Last(hist)
              /\ Last(hist).type = "workshare" /\ Last(hist).phase = 0 /\ Last(hist).span = 1
         /\ at[t] # "free" =>
              /\ Len(label[t]) = Place(t) + 1 /\ label[t][Place(t) + 1] = Last(label[t])
              /\ Last(label[t]) = SegmentAt(t)
              /\ Last(label[t]).type = "workshare" /\ Last(label[t]).phase = 0
              /\ Last(label[t]).span = 1
         /\ at[t] = "free" => Len(label[t]) = Place(t)
<1>1. ASSUME Len(hist) > HistPlace
      PROVE  /\ Len(hist) = HistPlace + 1 /\ hist[HistPlace + 1] = Last(hist)
             /\ Last(hist).type = "workshare" /\ Last(hist).phase = 0 /\ Last(hist).span = 1
  <2>1. Len(hist) = HistPlace + 1
    BY <1>1, Compared
  <2>2. Last(hist) = hist[HistPlace + 1]
    BY <2>1 DEF Last
  <2>3. \/ Last(hist) \in {PlaceHolderSegment, SingleSegment(SingleExec)}
        \/ \E id \in Nat : Last(hist) \in {IterationSegment(id), SectionSegment(id)}
    BY <1>1 DEF Seen, HistOK
  <2>4. SingleExec \in Int
    BY DEF SingleExec
  <2>5. \E id \in Int : Last(hist) \in {PlaceHolderSegment, SingleSegment(id), IterationSegment(id), SectionSegment(id)}
    BY <2>3, <2>4
  <2>6. Last(hist).type = "workshare" /\ Last(hist).phase = 0 /\ Last(hist).span = 1
    BY <2>5, ConstructSegments
  <2> QED BY <2>1, <2>2, <2>6
<1>2. ASSUME at[t] # "free"
      PROVE  /\ Len(label[t]) = Place(t) + 1 /\ label[t][Place(t) + 1] = Last(label[t])
             /\ Last(label[t]) = SegmentAt(t)
             /\ Last(label[t]).type = "workshare" /\ Last(label[t]).phase = 0
             /\ Last(label[t]).span = 1
  <2>1. ConstructDepth(t) = 1 /\ Len(label[t]) = Place(t) + 1
    <3>1. ConstructDepth(t) = 1
      BY <1>2, Compared
    <3> QED BY <3>1, Compared
  <2>2. Last(label[t]) = label[t][Place(t) + 1]
    BY <2>1 DEF Last
  <2>3. label[t][Place(t) + 1] = SegmentAt(t)
    <3>1. Spelled(t) /\ Exists(t)
      BY Compared DEF Timed, Spelling
    <3> QED BY <2>1, <3>1 DEF Spelled
  <2>4. \E id \in Int : SegmentAt(t) \in {PlaceHolderSegment, SingleSegment(id), IterationSegment(id), SectionSegment(id)}
    <3>1. CASE at[t] = "chunk"
      <4>1. SegmentAt(t) = PlaceHolderSegment
        BY <3>1 DEF SegmentAt
      <4> QED BY <4>1, 0 \in Int
    <3>2. CASE at[t] = "single"
      <4>1. SegmentAt(t) = SingleSegment(SingleExec) /\ SingleExec \in Int
        BY <3>2 DEF SegmentAt, SingleExec
      <4> QED BY <4>1
    <3>3. CASE at[t] = "work"
      <4>1. SegmentAt(t) = Kind(Construct(t), iter[t]) /\ iter[t] \in Int
        BY <3>3 DEF SegmentAt, Timed, Strong, Labelled, LabelTypes
      <4> QED BY <4>1 DEF Kind
    <3> QED BY <1>2, <3>1, <3>2, <3>3, Compared
  <2>5. SegmentAt(t).type = "workshare" /\ SegmentAt(t).phase = 0 /\ SegmentAt(t).span = 1
    BY <2>4, ConstructSegments
  <2> QED BY <2>1, <2>2, <2>3, <2>5
<1>3. ASSUME at[t] = "free" PROVE Len(label[t]) = Place(t)
  <2>1. ConstructDepth(t) = 0
    BY <1>3, Compared
  <2> QED BY <2>1, Compared
<1> QED BY <1>1, <1>2, <1>3

(* A task whose clocks differ from the record: it is ordered after it when *)
(* the first that differs is the clock of the team in which the task that  *)
(* recorded is t or its ancestor, and otherwise in a part of the team that *)
(* the record does not precede.                                            *)
LEMMA JudgedApart ==
  ASSUME Timed, Seen, NEW t \in Tasks, Checks(t), NEW k \in 1..HistPlace, k <= Place(t),
         SameTime(t, k-1), Clock(t, k) # TimeAt(k)
  PROVE  Verdict(t) = IF Knows(t) THEN Before ELSE Concurrent
<1> DEFINE h == hist
           c == label[t]
           H == HistPlace
           P == Place(t)
<1>1. /\ H \in Nat /\ P \in Nat /\ Len(h) \in {H, H + 1} /\ Len(c) \in {P, P + 1}
      /\ h \in Seq(SegmentType) /\ c \in Seq(SegmentType) /\ k \in Nat /\ k <= H
      /\ k \in 1..Len(h) /\ k <= Len(c) /\ k \in 1..P
  <2>1. /\ H \in Nat /\ P \in Nat /\ Len(h) \in {H, H + 1}
        /\ Len(c) = P + ConstructDepth(t) /\ ConstructDepth(t) \in {0, 1}
        /\ h \in Seq(SegmentType) /\ c \in Seq(SegmentType)
    BY Compared
  <2> HIDE DEF H, P, h, c
  <2>2. k \in Nat /\ k <= H /\ k >= 1
    BY <2>1 DEF H
  <2> QED BY <2>1, <2>2 DEF P
<1>2. \A j \in 1..k-1 : SameSegment(h[j], c[j])
  <2> SUFFICES ASSUME NEW j \in 1..k-1 PROVE SameSegment(h[j], c[j])
    OBVIOUS
  <2>1. j \in 1..H /\ j <= P /\ j < H
    BY <1>1
  <2>2. SameTime(t, j)
    <3>1. \A i \in 1..j : i \in 1..k-1
      BY <1>1
    <3> QED BY <3>1 DEF SameTime
  <2> QED BY <2>1, <2>2, CommonPlaces
<1>3. /\ h[k].type = "implicit" /\ c[k].type = "implicit"
      /\ h[k].span = SpanAt(k) /\ c[k].span = SpanAt(k)
      /\ h[k].offset = TimeAt(k) /\ c[k].offset = Clock(t, k)
      /\ TimeAt(k) \in Nat /\ Clock(t, k) \in Nat
      /\ ~ SameSegment(h[k], c[k]) /\ (SpanAt(k) = 1 <=> k = 1)
  BY <1>1, CommonPlaces
<1>4. Verdict(t) = AnalyzeAt(h, c, k)
  <2> HIDE DEF h, c
  <2>1. HB(h, c) = AnalyzeAt(h, c, k)
    BY <1>1, <1>2, <1>3, VerdictAtDifference
  <2> QED BY <2>1 DEF Verdict, h, c
<1>5. ~ Around(t)
  <2> SUFFICES ASSUME Around(t) PROVE FALSE
    OBVIOUS
  <2>1. SameTime(t, HistPlace) /\ k \in 1..HistPlace
    BY DEF Around
  <2>2. Clock(t, k) = TimeAt(k)
    BY <2>1 DEF SameTime
  <2> QED BY <2>2
<1>6. Knows(t) <=> knows[t]
  <2>1. ~ Matches(t)
    BY <1>5 DEF Matches, Marked
  <2> QED BY <2>1, Compared
<1>7. Meets(t, k) <=> SameMember(t, k)
  BY <1>1 DEF Meets
<1>8. ASSUME Meets(t, k) PROVE knows[t] /\ TimeAt(k) < Clock(t, k)
  <2>1. Clock(t, k) >= TimeAt(k)
    BY <1>1, <1>8, Compared DEF NotEarlier
  <2>2. Clock(t, k) > TimeAt(k)
    BY <1>3, <2>1
  <2>3. Later(t)
    BY <1>1, <1>8, <2>2 DEF Later
  <2>4. Knowing(t)
    BY Compared
  <2> QED BY <1>3, <2>2, <2>3, <2>4 DEF Knowing
<1>9. ASSUME ~ Meets(t, k) PROVE ~ knows[t]
  <2>1. ~ Later(t)
    <3> SUFFICES ASSUME NEW j \in 1..P, Meets(t, j), Clock(t, j) > TimeAt(j) PROVE FALSE
      BY DEF Later
    <3>1. SameTime(t, j-1) /\ j \in Nat /\ j <= H
      BY <1>1 DEF Meets
    <3>2. CASE j > k
      <4>1. k \in 1..j-1
        BY <1>1, <3>1, <3>2
      <4> QED BY <3>1, <4>1 DEF SameTime
    <3>3. CASE j = k
      BY <1>9, <3>3
    <3>4. CASE j < k
      <4>1. j \in 1..k-1 /\ j \in 1..H
        BY <1>1, <3>1, <3>4
      <4>2. Clock(t, j) = TimeAt(j)
        BY <4>1 DEF SameTime
      <4>3. TimeAt(j) \in Nat
        BY <1>1, <4>1, CommonPlaces
      <4> QED BY <4>2, <4>3
    <3> QED BY <1>1, <3>1, <3>2, <3>3, <3>4
  <2>2. Knowing(t)
    BY Compared
  <2> QED BY <1>5, <2>1, <2>2 DEF Knowing
<1>10. CASE k = 1
  <2>1. Meets(t, k)
    BY <1>7, <1>10 DEF SameMember
  <2>2. AnalyzeAt(h, c, k) = Before
    <3>1. AnalyzeAt(h, c, k) = AnalyzeLoneTask(h, c, k)
      BY <1>3, <1>10 DEF AnalyzeAt, Require
    <3>2. h[k].offset < c[k].offset
      BY <1>3, <1>8, <2>1
    <3> QED BY <1>3, <3>1, <3>2 DEF AnalyzeLoneTask, Require
  <2> QED BY <1>4, <1>6, <1>8, <2>1, <2>2
<1>11. CASE k # 1
  <2>1. SameMember(t, k) <=> TimeAt(k) % SpanAt(k) = Clock(t, k) % SpanAt(k)
    <3>1. Clock(t, k) % SpanAt(k) = t[k-1]
      <4>1. k \in 2..P /\ Exists(t) /\ Spelled(t)
        BY <1>1, <1>11, Compared DEF Timed, Spelling
      <4> HIDE DEF P
      <4> QED BY <4>1, TimesKnown DEF Timed, P
    <3> QED BY <1>11, <3>1 DEF SameMember
  <2>2. AnalyzeAt(h, c, k) = AnalyzeTeam(h, c, k)
    BY <1>3, <1>11 DEF AnalyzeAt, Require
  <2>3. CASE SameMember(t, k)
    <3>1. h[k].offset < c[k].offset /\ h[k].offset # c[k].offset
      BY <1>3, <1>7, <1>8, <2>3
    <3>2. h[k].offset % h[k].span = c[k].offset % h[k].span
      BY <1>3, <2>1, <2>3
    <3>3. AnalyzeTeam(h, c, k) = Before
      BY <3>1, <3>2 DEF AnalyzeTeam, Require
    <3> QED BY <1>4, <1>6, <1>7, <1>8, <2>2, <2>3, <3>3
  <2>4. CASE ~ SameMember(t, k)
    <3>1. AnalyzeTeam(h, c, k) = AnalyzeSiblingImpTask(h, c, k)
      <4>1. h[k].offset % h[k].span # c[k].offset % h[k].span /\ h[k].offset # c[k].offset
        BY <1>3, <2>1, <2>4
      <4> QED BY <4>1 DEF AnalyzeTeam
    <3>2. AnalyzeSiblingImpTask(h, c, k) = Concurrent
      <4>1. CASE /\ ~ IsLeaf(h, k) /\ ~ IsLeaf(c, k)
                 /\ h[k+1].type = "workshare" /\ c[k+1].type = "workshare"
        <5>1. k + 1 <= Len(h) /\ k + 1 <= Len(c)
          BY <1>1, <4>1 DEF IsLeaf
        <5>2. k = H
          <6>1. CASE k + 1 <= H
            <7>1. k + 1 \in 1..H
              BY <1>1, <6>1
            <7>2. h[k+1].type = "implicit"
              BY <7>1, Compared, OwnSegments
            <7> QED BY <4>1, <7>2
          <6> QED BY <1>1, <6>1
        <5>3. k = P
          <6>1. CASE k + 1 <= P
            <7>1. k + 1 \in 1..P
              BY <1>1, <6>1
            <7>2. c[k+1].type = "implicit"
              BY <7>1, Compared, OwnSegments
            <7> QED BY <4>1, <7>2
          <6> QED BY <1>1, <6>1
        <5>4. h[k+1].phase = 0
          <6>1. Len(h) > H
            BY <1>1, <5>1, <5>2
          <6> QED BY <5>2, <6>1, LastParts
        <5>5. c[k+1].phase = 0
          <6>1. at[t] # "free"
            <7>1. at[t] = "free" => Len(c) = P
              BY LastParts
            <7> QED BY <1>1, <5>1, <5>3, <7>1
          <6> QED BY <5>3, <6>1, LastParts
        <5>6. AnalyzeOrderedSection(h, c, k + 1) = Concurrent
          <6> DEFINE n == k + 1
          <6> HIDE DEF h, c
          <6>1. h[n].phase = 0 /\ c[n].phase = 0
            BY <5>4, <5>5
          <6> HIDE DEF n
          <6>2. AnalyzeOrderedSection(h, c, n) = Concurrent
            BY <6>1, NothingOrdered
          <6> QED BY <6>2 DEF n
        <5> QED BY <5>6 DEF AnalyzeSiblingImpTask
      <4>2. CASE ~ (/\ ~ IsLeaf(h, k) /\ ~ IsLeaf(c, k)
                    /\ h[k+1].type = "workshare" /\ c[k+1].type = "workshare")
        BY <4>2 DEF AnalyzeSiblingImpTask
      <4> QED BY <4>1, <4>2
    <3> QED BY <1>4, <1>6, <1>7, <1>9, <2>2, <2>4, <3>1, <3>2
  <2> QED BY <2>3, <2>4
<1> QED BY <1>10, <1>11

(* A task at the time of the record, whose own access it was or that of a  *)
(* task that forked its team, outside of a construct: in order.            *)
LEMMA JudgedWithin ==
  ASSUME Timed, Seen, NEW t \in Tasks, Checks(t), Around(t), Len(hist) = HistPlace
  PROVE  Verdict(t) = Before /\ Knows(t)
<1> DEFINE h == hist
           c == label[t]
           H == HistPlace
           P == Place(t)
<1>1. /\ H \in Nat /\ P \in Nat /\ Len(h) = H /\ Len(c) \in {P, P + 1} /\ H >= 2 /\ H <= P
      /\ h \in Seq(SegmentType) /\ c \in Seq(SegmentType) /\ SameTime(t, H)
  <2>1. /\ H \in Nat /\ P \in Nat /\ H \in 2..Depth+1
        /\ Len(c) = P + ConstructDepth(t) /\ ConstructDepth(t) \in {0, 1}
        /\ h \in Seq(SegmentType) /\ c \in Seq(SegmentType)
    BY Compared
  <2>2. H <= P /\ SameTime(t, H)
    BY DEF Around
  <2> HIDE DEF H, P, h, c
  <2> QED BY <2>1, <2>2 DEF H, h
<1>2. Knows(t)
  <2>1. knows[t]
    BY Compared DEF Knowing
  <2> QED BY <2>1, Compared
<1>3. \A j \in 1..H-1 : SameSegment(h[j], c[j])
  <2> SUFFICES ASSUME NEW j \in 1..H-1 PROVE SameSegment(h[j], c[j])
    OBVIOUS
  <2>1. j \in 1..H /\ j <= P /\ j < H
    BY <1>1
  <2>2. SameTime(t, j)
    <3>1. \A i \in 1..j : i \in 1..H
      BY <1>1
    <3> QED BY <1>1, <3>1 DEF SameTime
  <2> QED BY <2>1, <2>2, CommonPlaces
<1>4. /\ H \in 1..H /\ H \in 1..Len(h) /\ H <= Len(c) /\ H # 1
  BY <1>1
<1>5. /\ h[H].span = SpanAt(H) /\ c[H].span = SpanAt(H) /\ SpanAt(H) # 1
      /\ h[H].offset = c[H].offset
  <2>1. Clock(t, H) = TimeAt(H)
    BY <1>1, <1>4 DEF SameTime
  <2> DEFINE k == H
  <2>2. k \in 1..HistPlace /\ k <= Place(t)
    BY <1>1, <1>4
  <2> HIDE DEF k, H, P, h, c
  <2>3. /\ hist[k].span = SpanAt(k) /\ label[t][k].span = SpanAt(k)
        /\ hist[k].offset = TimeAt(k) /\ label[t][k].offset = Clock(t, k)
        /\ SpanAt(k) = 1 <=> k = 1
    BY <2>2, CommonPlaces
  <2> QED BY <1>4, <2>1, <2>3 DEF k, h, c
<1>6. CASE SameSegment(h[H], c[H])
  <2>1. \A j \in 1..Len(h) : j <= Len(c) => SameSegment(h[j], c[j])
    <3> SUFFICES ASSUME NEW j \in 1..Len(h) PROVE SameSegment(h[j], c[j])
      OBVIOUS
    <3>1. j = H \/ j \in 1..H-1
      BY <1>1
    <3> QED BY <1>3, <1>6, <3>1
  <2> HIDE DEF h, c
  <2>2. HB(h, c) = Before
    BY <1>1, <1>4, <2>1, VerdictWithoutDifference
  <2> QED BY <1>2, <2>2 DEF Verdict, h, c
<1>7. CASE ~ SameSegment(h[H], c[H])
  <2> HIDE DEF h, c, H
  <2>1. HB(h, c) = AnalyzeAt(h, c, H)
    BY <1>1, <1>3, <1>4, <1>7, VerdictAtDifference
  <2>2. AnalyzeAt(h, c, H) = AnalyzeSameTask(h, c, H)
    BY <1>5 DEF AnalyzeAt, AnalyzeTeam, Require
  <2>3. AnalyzeSameTask(h, c, H) = Before
    BY <1>1 DEF AnalyzeSameTask, IsLeaf
  <2> QED BY <1>2, <2>1, <2>2, <2>3 DEF Verdict, h, c
<1> QED BY <1>6, <1>7

(* The task whose access was recorded inside of a construct: what it does  *)
(* in that part of the construct is in order, the rest up to the next      *)
(* barrier is not.                                                         *)
LEMMA JudgedMarked ==
  ASSUME Timed, Seen, NEW t \in Tasks, Checks(t), Marked(t)
  PROVE  Verdict(t) = IF Knows(t) THEN Before ELSE Concurrent
<1> DEFINE h == hist
           c == label[t]
           H == HistPlace
<1>1. /\ H \in Nat /\ H >= 2 /\ H = Place(t) /\ Len(h) = H + 1 /\ Len(c) \in {H, H + 1}
      /\ h \in Seq(SegmentType) /\ c \in Seq(SegmentType) /\ SameTime(t, H)
  <2>1. /\ H \in Nat /\ H \in 2..Depth+1 /\ Len(h) \in {H, H + 1}
        /\ Len(c) = Place(t) + ConstructDepth(t) /\ ConstructDepth(t) \in {0, 1}
        /\ h \in Seq(SegmentType) /\ c \in Seq(SegmentType)
    BY Compared
  <2>2. H = Place(t) /\ SameTime(t, H) /\ Len(h) > H
    BY DEF Marked, Around
  <2> HIDE DEF H, h, c
  <2> QED BY <2>1, <2>2
<1>2. \A j \in 1..H-1 : SameSegment(h[j], c[j])
  <2> SUFFICES ASSUME NEW j \in 1..H-1 PROVE SameSegment(h[j], c[j])
    OBVIOUS
  <2>1. j \in 1..H /\ j <= Place(t) /\ j < H
    BY <1>1
  <2>2. SameTime(t, j)
    <3>1. \A i \in 1..j : i \in 1..H
      BY <1>1
    <3> QED BY <1>1, <3>1 DEF SameTime
  <2> QED BY <2>1, <2>2, CommonPlaces
<1>3. /\ H \in 1..Len(h) /\ H <= Len(c) /\ H # 1 /\ H + 1 \in 1..Len(h) /\ H \in 1..H
  BY <1>1
<1>4. /\ h[H].span = SpanAt(H) /\ c[H].span = SpanAt(H) /\ SpanAt(H) # 1
      /\ h[H].offset = c[H].offset /\ h[H].type = "implicit"
      /\ SameSegment(h[H], c[H]) <=> Count(t, H) = CountAt(H)
  <2>1. Clock(t, H) = TimeAt(H)
    BY <1>1, <1>3 DEF SameTime
  <2> DEFINE k == H
  <2>2. k \in 1..HistPlace /\ k <= Place(t)
    BY <1>1, <1>3
  <2> HIDE DEF k, H, h, c
  <2>3. /\ hist[k].span = SpanAt(k) /\ label[t][k].span = SpanAt(k)
        /\ hist[k].offset = TimeAt(k) /\ label[t][k].offset = Clock(t, k) /\ hist[k].type = "implicit"
        /\ SpanAt(k) = 1 <=> k = 1
        /\ SameSegment(hist[k], label[t][k]) <=> Clock(t, k) = TimeAt(k) /\ Count(t, k) = CountAt(k)
    BY <2>2, CommonPlaces
  <2> QED BY <1>3, <2>1, <2>3 DEF k, h, c
<1>5. h[H+1] = Last(h) /\ Last(h).type = "workshare" /\ Last(h).phase = 0 /\ Last(h).span = 1
  BY <1>1, LastParts
<1>6. at[t] # "barrier" /\ Marks(t) /\ InWork(t)
  BY Compared
<1>7. CASE Count(t, H) # CountAt(H)
  <2>1. PastPart(t)
    BY <1>6, <1>7 DEF Marks
  <2>2. PICK id \in Nat : Last(h) = IterationSegment(id)
    BY <2>1 DEF PastPart
  <2>3. ~ Knows(t)
    <3>1. ~ knows[t] /\ ~ Matches(t)
      BY <1>7, <2>1 DEF PastPart, Matches
    <3> QED BY <3>1, Compared
  <2>4. ~ Last(h).bit2
    BY <2>2, ConstructSegments
  <2> HIDE DEF h, c, H
  <2>5. HB(h, c) = AnalyzeAt(h, c, H)
    BY <1>1, <1>2, <1>3, <1>4, <1>7, VerdictAtDifference
  <2>6. AnalyzeAt(h, c, H) = AnalyzeSameTask(h, c, H)
    BY <1>4 DEF AnalyzeAt, AnalyzeTeam, Require
  <2>7. ~ IsLeaf(h, H)
    BY <1>1 DEF IsLeaf
  <2>8. AnalyzeSameTask(h, c, H) = Concurrent
    <3>1. CASE IsLeaf(c, H)
      <4>1. AnalyzeSameTask(h, c, H) = AnalyzeAncestor(h, c, H)
        BY <2>7, <3>1 DEF AnalyzeSameTask
      <4>2. AnalyzeAncestor(h, c, H) = Claim(IsPlaceHolder(h[H+1]))
        <5>1. h[H+1].type = "workshare"
          BY <1>5
        <5> QED BY <5>1 DEF AnalyzeAncestor
      <4>3. ~ IsPlaceHolder(h[H+1])
        BY <1>5, <2>4 DEF IsPlaceHolder
      <4> QED BY <4>1, <4>2, <4>3 DEF Claim
    <3>2. CASE ~ IsLeaf(c, H)
      <4>1. h[H+1].type = "workshare"
        BY <1>5
      <4>2. AnalyzeSameTask(h, c, H) = DispatchAnalysis(h, c, H)
        BY <2>7, <3>2, <4>1 DEF AnalyzeSameTask, Require
      <4> QED BY <4>1, <4>2 DEF DispatchAnalysis
    <3> QED BY <3>1, <3>2
  <2> QED BY <2>3, <2>5, <2>6, <2>8 DEF Verdict, h, c
<1>8. CASE Count(t, H) = CountAt(H)
  <2>1. InPart(t) \/ OtherPart(t)
    BY <1>6, <1>8 DEF Marks
  <2>2. /\ Len(c) = H + 1 /\ c[H+1] = Last(c) /\ Last(c) = SegmentAt(t) /\ Last(c).type = "workshare"
        /\ Last(c).phase = 0 /\ Last(c).span = 1 /\ at[t] # "free"
    <3>1. at[t] # "free"
      BY <2>1 DEF InPart, OtherPart
    <3> QED BY <1>1, <3>1, LastParts
  <2>3. Matches(t) <=> Last(c) = Last(h)
    BY <1>8 DEF Matches
  <2>4. CASE Matches(t)
    <3>1. Knows(t)
      <4>1. knows[t] \/ at[t] = "work"
        BY <2>1 DEF InPart, OtherPart
      <4> QED BY <2>4, <4>1, Compared
    <3>2. \A j \in 1..Len(h) : j <= Len(c) => SameSegment(h[j], c[j])
      <4> SUFFICES ASSUME NEW j \in 1..Len(h) PROVE SameSegment(h[j], c[j])
        OBVIOUS
      <4>1. j = H + 1 \/ j = H \/ j \in 1..H-1
        BY <1>1
      <4>2. SameSegment(h[H+1], c[H+1])
        BY <1>5, <2>2, <2>3, <2>4 DEF SameSegment
      <4> QED BY <1>2, <1>4, <1>8, <4>1, <4>2
    <3> HIDE DEF h, c, H
    <3>3. HB(h, c) = Before
      <4>1. Len(h) <= Len(c)
        BY <1>1, <2>2
      <4> QED BY <1>1, <3>2, <4>1, VerdictWithoutDifference
    <3> QED BY <3>1, <3>3 DEF Verdict, h, c
  <2>5. CASE ~ Matches(t)
    <3>1. OtherPart(t)
      BY <2>1, <2>5 DEF InPart
    <3>2. ~ Knows(t)
      <4>1. ~ knows[t]
        BY <3>1 DEF OtherPart
      <4> QED BY <2>5, <4>1, Compared
    <3>3. PICK id \in 0..taken[TeamOf(t)][step[t]]-1 : Last(h) = Kind(Construct(t), id)
      BY <3>1 DEF OtherPart
    <3>4. at[t] = "work" /\ id \in Nat /\ iter[t] \in Nat
      <4>1. iter[t] \in Nat
        BY DEF Timed, Strong, Labelled, LabelTypes
      <4> QED BY <3>1, <4>1 DEF OtherPart
    <3>5. Last(c) = Kind(Construct(t), iter[t])
      BY <2>2, <3>4 DEF SegmentAt
    <3>6. id # iter[t]
      BY <2>3, <2>5, <3>3, <3>5
    <3>7. Last(h).workShareId = id /\ Last(c).workShareId = iter[t]
      BY <3>3, <3>4, <3>5, ConstructSegments DEF Kind
    <3>8. h[H+1].workShareId = id /\ c[H+1].workShareId = iter[t]
      BY <1>5, <2>2, <3>7
    <3>9. ~ SameSegment(h[H+1], c[H+1])
      <4> DEFINE x == h[H+1]
                 y == c[H+1]
      <4>1. x \in SegmentType /\ y \in SegmentType
        <5> HIDE DEF h, c, H
        <5>1. H + 1 \in 1..Len(h) /\ H + 1 \in 1..Len(c)
          BY <1>1, <1>3, <2>2
        <5> QED BY <1>1, <5>1, ElementOfSeq
      <4>2. x.workShareId # y.workShareId
        BY <3>6, <3>8
      <4> HIDE DEF x, y
      <4>3. Value(x).workShareId = x.workShareId /\ Value(y).workShareId = y.workShareId
        BY <4>1 DEF Value, SegmentType
      <4> HIDE DEF Value
      <4>4. Value(x) # Value(y)
        BY <4>2, <4>3
      <4> QED BY <4>4 DEF SameSegment, x, y
    <3>10. \A j \in 1..(H+1)-1 : SameSegment(h[j], c[j])
      <4> SUFFICES ASSUME NEW j \in 1..(H+1)-1 PROVE SameSegment(h[j], c[j])
        OBVIOUS
      <4>1. j = H \/ j \in 1..H-1
        BY <1>1
      <4> QED BY <1>2, <1>4, <1>8, <4>1
    <3> DEFINE n == H + 1
    <3>11. /\ n \in 1..Len(h) /\ n <= Len(c) /\ \A j \in 1..n-1 : SameSegment(h[j], c[j])
           /\ ~ SameSegment(h[n], c[n])
           /\ h[n].type = "workshare" /\ c[n].type = "workshare" /\ h[n].phase = 0 /\ c[n].phase = 0
           /\ h[n].span = 1 /\ c[n].span = 1 /\ ~ IsSingleExecutor(h[n])
      <4>1. ~ IsSingleExecutor(h[n])
        <5>1. id # -1
          BY <3>4
        <5> QED BY <3>8, <5>1 DEF IsSingleExecutor, SingleExec
      <4>2. n \in 1..Len(h) /\ n <= Len(c)
        <5> HIDE DEF h, c, H
        <5> QED BY <1>1, <1>3, <2>2
      <4> QED BY <1>5, <2>2, <3>9, <3>10, <4>1, <4>2
    <3> HIDE DEF n, h, c, H
    <3>12. HB(h, c) = AnalyzeAt(h, c, n)
      BY <1>1, <3>11, VerdictAtDifference
    <3>13. AnalyzeAt(h, c, n) = AnalyzeLoneTask(h, c, n)
      BY <3>11 DEF AnalyzeAt, Require
    <3>14. AnalyzeLoneTask(h, c, n) = AnalyzeOrderedSection(h, c, n)
      BY <3>11 DEF AnalyzeLoneTask, Require
    <3>15. AnalyzeOrderedSection(h, c, n) = Concurrent
      BY <3>11, NothingOrdered
    <3> QED BY <3>2, <3>12, <3>13, <3>14, <3>15 DEF Verdict, h, c
  <2> QED BY <2>4, <2>5
<1> QED BY <1>7, <1>8

(* The analysis answers with the truth.                                    *)
LEMMA Judged ==
  ASSUME Timed, Timely, NEW t \in Tasks, Checks(t)
  PROVE  Verdict(t) = IF Knows(t) THEN Before ELSE Concurrent
<1>1. Seen
  BY DEF Checks, Timely
<1> DEFINE H == HistPlace
           P == Place(t)
           T == {k \in 1..H : k <= P /\ Clock(t, k) # TimeAt(k)}
<1>2. H \in Nat /\ P \in Nat /\ Len(hist) \in {H, H + 1}
  BY <1>1, Compared
<1>3. CASE T # {}
  <2>1. T \in SUBSET Nat
    BY <1>2
  <2>2. PICK k \in T : \A j \in T : k <= j
    <3> HIDE DEF T
    <3> QED BY <1>3, <2>1, Least
  <2>3. k \in 1..H /\ k <= P /\ Clock(t, k) # TimeAt(k)
    BY <2>2
  <2>4. SameTime(t, k-1)
    <3> SUFFICES ASSUME NEW j \in 1..k-1 PROVE Clock(t, j) = TimeAt(j)
      BY DEF SameTime
    <3>1. j \in 1..H /\ j <= P /\ ~ (k <= j)
      BY <1>2, <2>3
    <3>2. j \notin T
      BY <2>2, <3>1
    <3> QED BY <3>1, <3>2
  <2> QED BY <1>1, <2>3, <2>4, JudgedApart
<1>4. CASE T = {}
  <2>1. \A k \in 1..H : k <= P => Clock(t, k) = TimeAt(k)
    BY <1>4
  <2>2. H <= P
    <3> SUFFICES ASSUME H > P PROVE FALSE
      BY <1>2
    <3>1. SameTime(t, P)
      <4> SUFFICES ASSUME NEW j \in 1..P PROVE Clock(t, j) = TimeAt(j)
        BY DEF SameTime
      <4>1. j \in 1..H /\ j <= P
        BY <1>2
      <4> QED BY <2>1, <4>1
    <3>2. Joined(t) /\ ~ Forked(t)
      BY <1>1, Compared
    <3> QED BY <3>1, <3>2 DEF Joined
  <2>3. Around(t)
    <3>1. SameTime(t, H)
      <4> SUFFICES ASSUME NEW j \in 1..H PROVE Clock(t, j) = TimeAt(j)
        BY DEF SameTime
      <4>1. j <= P
        BY <1>2, <2>2
      <4> QED BY <2>1, <4>1
    <3> QED BY <2>2, <3>1 DEF Around
  <2>4. CASE Len(hist) = H
    <3>1. Verdict(t) = Before /\ Knows(t)
      BY <1>1, <2>3, <2>4, JudgedWithin
    <3> QED BY <3>1
  <2>5. CASE Len(hist) # H
    <3>1. Len(hist) > H
      BY <1>2, <2>5
    <3>2. H = P
      <4>1. ~ (H < P)
        BY <1>1, <2>3, <2>5, Compared DEF Knowing
      <4> QED BY <1>2, <2>2, <4>1
    <3>3. Marked(t)
      BY <2>3, <3>1, <3>2 DEF Marked
    <3> QED BY <1>1, <3>3, JudgedMarked
  <2> QED BY <2>4, <2>5
<1> QED BY <1>3, <1>4

-----------------------------------------------------------------------------
(* The theorems                                                            *)

TameTruth == Tame(program) => Timed /\ Timely

(* In a tame program the labels tell the time and the time the truth, in   *)
(* every state.                                                            *)
THEOREM TimesAreTrue == Spec => []TameTruth
<1>1. Init => TameTruth
  BY TimedInit, TimelyInit DEF TameTruth
<1>2. Strong /\ TameTruth /\ [Next]_vars => TameTruth'
  <2> SUFFICES ASSUME Strong, TameTruth, [Next]_vars, Tame(program)' PROVE (Timed /\ Timely)'
    BY DEF TameTruth
  <2>1. program' = program
    BY ProgramStays
  <2>2. Tame(program)
    BY <2>1
  <2>3. Timed /\ Timely
    BY <2>2 DEF TameTruth
  <2> QED BY <2>3, TimedStep, TimelyStep
<1>3. Init => Strong
  BY Initially
<1>4. Strong /\ [Next]_vars => Strong'
  BY StrongStep
<1> QED BY <1>1, <1>2, <1>3, <1>4, PTL DEF Spec

(* What the analysis of Core.cpp answers, in every state of a tame program. *)
THEOREM VerdictsAreTrue ==
  Spec => [](Tame(program) => \A t \in Tasks :
               Checks(t) => Verdict(t) = IF Knows(t) THEN Before ELSE Concurrent)
<1>1. TameTruth => (Tame(program) => \A t \in Tasks :
        Checks(t) => Verdict(t) = IF Knows(t) THEN Before ELSE Concurrent)
  BY Judged DEF TameTruth
<1> QED BY <1>1, TimesAreTrue, PTL

(* No race between members of teams is missed: what the analysis of        *)
(* Core.cpp calls ordered is so by the happens-before relation of OpenMP,  *)
(* for teams of all sizes and all tame programs.                           *)
THEOREM NoRaceIsMissed == Spec => [](Tame(program) => NoMissedRace)
<1>1. (Tame(program) => \A t \in Tasks :
        Checks(t) => Verdict(t) = IF Knows(t) THEN Before ELSE Concurrent)
      => (Tame(program) => NoMissedRace)
  <2>1. Before # Concurrent
    BY DEF Before, Concurrent
  <2> QED BY <2>1 DEF NoMissedRace
<1> QED BY <1>1, VerdictsAreTrue, PTL

(* No false alarm is raised: accesses in order are called ordered.         *)
THEOREM NoAlarmIsFalse == Spec => [](Tame(program) => NoFalseAlarm)
<1>1. (Tame(program) => \A t \in Tasks :
        Checks(t) => Verdict(t) = IF Knows(t) THEN Before ELSE Concurrent)
      => (Tame(program) => NoFalseAlarm)
  BY DEF NoFalseAlarm
<1> QED BY <1>1, VerdictsAreTrue, PTL

(* The analysis never ends the program with a pair of labels that its      *)
(* RAW_CHECKs rule out.                                                    *)
THEOREM NoPairIsFatal == Spec => [](Tame(program) => NeverFatal)
<1>1. (Tame(program) => \A t \in Tasks :
        Checks(t) => Verdict(t) = IF Knows(t) THEN Before ELSE Concurrent)
      => (Tame(program) => NeverFatal)
  <2>1. Before # Fatal /\ Concurrent # Fatal
    BY DEF Before, Concurrent, Fatal
  <2> QED BY <2>1 DEF NeverFatal
<1> QED BY <1>1, VerdictsAreTrue, PTL
=============================================================================
