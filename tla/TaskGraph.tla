------------------------------ MODULE TaskGraph ------------------------------
(***************************************************************************)
(* The dependence graph of the explicit tasks of one parallel region       *)
(* (RompLib/src/TaskDepGraph.cpp), fed by the callbacks task_create and    *)
(* dependences and asked by the analysis for a path between two tasks.     *)
(* Both are done under the lock of the region (McsLock), so each is one    *)
(* step.  A task that names no dependence has no callback for them.        *)
(*                                                                         *)
(* Beside the graph the module keeps the life of the tasks: the runtime    *)
(* starts a task when the earlier tasks of the same creator on which it    *)
(* depends are complete.                                                   *)
(***************************************************************************)
EXTENDS Integers, Sequences

CONSTANTS ExpTasks,   \* the explicit tasks of the region
          Creator,    \* Creator[t]: the task that creates t
          Variables   \* the storage locations of depend clauses

DepTypes == {"in", "out", "inout", "mutexinoutset"}
NoDep == "none"  \* no clause names the variable
NamesNone == [v \in Variables |-> NoDep]
Clauses == [Variables -> DepTypes \cup {NoDep}]

VARIABLES
  expTaskCount, \* ParRegionData::expTaskCount
  expLocalId,   \* expLocalId[t]: TaskData::expLocalId
  deps,         \* deps[v]: TaskDepGraph::_deps, <<>> when v is not a key of it
  graph,        \* graph[t]: TaskDepGraph::_graph, {} when t is not a key of it
  \* The tasks.
  life,         \* life[t]: how far t has come
  named,        \* named[t]: the depend clauses of t
  earlier       \* earlier[t]: the tasks that the creator of t created before t

graphVars == <<expTaskCount, expLocalId, deps, graph, life, named, earlier>>

GraphInit ==
  /\ expTaskCount = 0
  /\ expLocalId = [t \in ExpTasks |-> 0]
  /\ deps = [v \in Variables |-> <<>>]
  /\ graph = [t \in ExpTasks |-> {}]
  /\ life = [t \in ExpTasks |-> "none"]
  /\ named = [t \in ExpTasks |-> NamesNone]
  /\ earlier = [t \in ExpTasks |-> {}]

Started(t)  == life[t] \in {"started", "complete"}
Complete(t) == life[t] = "complete"

-----------------------------------------------------------------------------
(* The order that OpenMP gives to the tasks of one creator *)

\* Two clauses on one variable leave the tasks unordered when both read or both
\* exclude each other.
Unordered(type, other) == type = other /\ type \in {"in", "mutexinoutset"}

\* s, created earlier, must be complete when t starts.
MustPrecede(s, t) ==
  \E v \in Variables : /\ named[s][v] # NoDep /\ named[t][v] # NoDep
                       /\ ~ Unordered(named[s][v], named[t][v])

Excludes(s, t) ==
  \E v \in Variables : named[s][v] = "mutexinoutset" /\ named[t][v] = "mutexinoutset"

\* Two explicit tasks of one creator.
Siblings(s, t) == Creator[s] = Creator[t]

-----------------------------------------------------------------------------
(* TaskDepGraph::addDeps and hasPath *)

\* Seeded fault: the types of the clauses are not looked at.
HasEdgeAlways(type, other) == TRUE

\* An entry of _deps with the type other has an edge to a task with this type.
HasEdge(type, other) ==
  \/ type = "in" /\ other \in {"out", "inout", "mutexinoutset"}
  \/ type \in {"out", "inout"}
  \/ type = "mutexinoutset" /\ other \in {"in", "inout", "out"}

Entries(v) == {deps[v][i] : i \in DOMAIN deps[v]}

\* The tasks that addDeps makes the predecessors of t for its clause on v.
Predecessors(t, v) ==
  {e.task : e \in {d \in Entries(v) :
     expLocalId[t] > expLocalId[d.task] /\ HasEdge(named[t][v], d.type)}}

\* Seeded fault: the last task is remembered.
RegisteredLast(t, v) ==
  IF named[t][v] # NoDep THEN <<[task |-> t, type |-> named[t][v]]>> ELSE deps[v]

\* Only the first task that names a variable is remembered.
Registered(t, v) ==
  IF named[t][v] # NoDep /\ deps[v] = <<>>
  THEN <<[task |-> t, type |-> named[t][v]]>>
  ELSE deps[v]

AddDeps(t) ==
  /\ deps' = [v \in Variables |-> Registered(t, v)]
  /\ graph' = [s \in ExpTasks |->
       IF \E v \in Variables : named[t][v] # NoDep /\ s \in Predecessors(t, v)
       THEN graph[s] \cup {t} ELSE graph[s]]

Nodes == {n \in ExpTasks : graph[n] # {} \/ \E m \in ExpTasks : n \in graph[m]}

\* The depth-first search visits the least set of tasks that holds `from` and
\* the successors of its members.
HasPath(from, to) ==
  /\ graph[from] # {}
  /\ \A S \in SUBSET Nodes :
       from \in S /\ (\A n \in S : graph[n] \subseteq S) => to \in S

-----------------------------------------------------------------------------
\* The creator of t is between task_create and dependences of a task.
CreatorIsBusy(t) ==
  \E s \in ExpTasks : Siblings(s, t) /\ life[s] = "created" /\ named[s] # NamesNone

\* task_create, with the clauses the program has put on the task.
TaskCreate(t, clauses) ==
  /\ life[t] = "none" /\ ~ CreatorIsBusy(t)
  /\ life' = [life EXCEPT ![t] = "created"]
  /\ named' = [named EXCEPT ![t] = clauses]
  /\ earlier' = [earlier EXCEPT ![t] = {s \in ExpTasks : Siblings(s, t) /\ life[s] # "none"}]
  /\ expLocalId' = [expLocalId EXCEPT ![t] = expTaskCount]
  /\ expTaskCount' = expTaskCount + 1
  /\ UNCHANGED <<deps, graph>>

Dependences(t) ==
  /\ life[t] = "created" /\ named[t] # NamesNone
  /\ AddDeps(t)
  /\ life' = [life EXCEPT ![t] = "registered"]
  /\ UNCHANGED <<expTaskCount, expLocalId, named, earlier>>

\* The runtime starts a task.
TaskBegin(t) ==
  /\ life[t] = IF named[t] = NamesNone THEN "created" ELSE "registered"
  /\ \A s \in earlier[t] : MustPrecede(s, t) => Complete(s)
  /\ \A s \in ExpTasks \ {t} :
       Siblings(s, t) /\ life[s] = "started" => ~ Excludes(s, t)
  /\ life' = [life EXCEPT ![t] = "started"]
  /\ UNCHANGED <<expTaskCount, expLocalId, deps, graph, named, earlier>>

TaskComplete(t) ==
  /\ life[t] = "started"
  /\ life' = [life EXCEPT ![t] = "complete"]
  /\ UNCHANGED <<expTaskCount, expLocalId, deps, graph, named, earlier>>

GraphNext ==
  \E t \in ExpTasks :
    \/ \E clauses \in Clauses : TaskCreate(t, clauses)
    \/ Dependences(t)
    \/ TaskBegin(t)
    \/ TaskComplete(t)

GraphSpec == GraphInit /\ [][GraphNext]_graphVars

-----------------------------------------------------------------------------
GraphTypeOK ==
  /\ expTaskCount \in Nat
  /\ expLocalId \in [ExpTasks -> Nat]
  /\ deps \in [Variables -> Seq([task : ExpTasks, type : DepTypes])]
  /\ graph \in [ExpTasks -> SUBSET ExpTasks]
  /\ life \in [ExpTasks -> {"none", "created", "registered", "started", "complete"}]
  /\ named \in [ExpTasks -> Clauses]
  /\ earlier \in [ExpTasks -> SUBSET ExpTasks]

\* Only one task creates tasks that name dependences, so all of them are siblings.
DependentTasksAreSiblings ==
  \A s, t \in ExpTasks :
    named[s] # NamesNone /\ named[t] # NamesNone => Siblings(s, t)

(* Where hasPath finds a path the accesses of the two tasks are not        *)
(* compared: the first task must be complete when the second one runs.     *)
(* The code looks at the whole region, so this asks for siblings only.     *)
PathsAreOrdered ==
  DependentTasksAreSiblings =>
    \A s, t \in ExpTasks :
      s # t /\ HasPath(s, t) /\ Started(t) => Complete(s)

(* A task that runs is reached from the first task that named one of its   *)
(* variables, when that one must precede it: between the two there is no   *)
(* false alarm, whatever order the callbacks of the region come in.        *)
FirstTaskIsFound ==
  \A t \in ExpTasks : Started(t) =>
    \A v \in Variables, s \in earlier[t] :
      /\ named[s][v] # NoDep /\ named[t][v] # NoDep
      /\ ~ Unordered(named[s][v], named[t][v])
      /\ \A r \in ExpTasks \ {s, t} : named[r][v] = NoDep \/ s \in earlier[r]
      => HasPath(s, t)

(* Every order that depend clauses give is found: the comment of addDeps   *)
(* says that it looks up all pairs of the variable.                        *)
EveryDependenceIsFound ==
  \A t \in ExpTasks : Started(t) =>
    \A s \in earlier[t] : MustPrecede(s, t) => HasPath(s, t)
=============================================================================
