------------------------------ MODULE MCTeams ------------------------------
(* LabelledTeams on small teams.  TLC configurations cannot write sequences. *)
EXTENDS LabelledTeams

Two == <<2>>
Three == <<3>>
TwoByTwo == <<2, 2>>

Program(constructs, length, regions, iterations, forkPlaces) ==
  [constructs |-> constructs, length |-> length, regions |-> regions,
   iterations |-> iterations, chunk |-> 1, forkPlaces |-> forkPlaces]
InChunks(n, p) == [p EXCEPT !.chunk = n]

WorkSharing == {Program({"barrier", "static", "dynamic", "dynamic nowait", "sections", "single"},
                        2, 1, 2, {}),
                Program({"dynamic", "single"}, 3, 1, 1, {})}
Ordered == {Program({"ordered nowait"}, 2, 1, 3, {}),
            InChunks(2, Program({"ordered nowait"}, 1, 1, 4, {})),
            InChunks(3, Program({"ordered nowait"}, 1, 1, 3, {}))}

\* A loop at either level of nesting, and two regions after one another.
Nested == {Program({"dynamic"}, 1, 1, 1, {"free"}), Program({}, 0, 2, 0, {"free"})}

SectionsNoWait == {Program({"sections nowait"}, 1, 1, 2, {})}
=============================================================================
