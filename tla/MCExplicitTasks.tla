--------------------------- MODULE MCExplicitTasks ---------------------------
(* ExplicitTasks on a team of two whose first member creates tasks.        *)
EXTENDS ExplicitTasks

First == {<<0>>}

Program(tasks, nesting, waits, taskgroups, barriers, clauses, construct) ==
  [tasks |-> tasks, nesting |-> nesting, waits |-> waits, groups |-> taskgroups,
   barriers |-> barriers, clauses |-> clauses, construct |-> construct]

\* Clauses on two variables, of every type on one of them; out is as inout.
SomeClauses == {c \in Clauses : c["x"] # "out" /\ c["y"] \in {NoDep, "inout"}}

Waits    == Program(3, 3, 1, 0, 0, {NamesNone}, "none")
Barriers == Program(2, 1, 1, 0, 1, {NamesNone}, "none")
Groups   == Program(2, 2, 0, 1, 0, {NamesNone}, "none")
Depends  == Program(3, 1, 0, 0, 0, SomeClauses, "none")
Single   == Program(2, 2, 1, 0, 1, {NamesNone}, "single")
Loop     == Program(1, 1, 1, 0, 1, {NamesNone}, "ordered")
LoopTree == Program(2, 2, 0, 0, 1, {NamesNone}, "ordered")
AllPrograms == {Waits, Barriers, Groups, Depends, Single, Loop, LoopTree}
OneTask  == {Program(1, 1, 0, 0, 0, {NamesNone}, "none")}
Orphans  == {Program(3, 2, 1, 0, 0, {NamesNone}, "none")}
=============================================================================
