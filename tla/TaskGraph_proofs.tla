--------------------------- MODULE TaskGraph_proofs ---------------------------
(***************************************************************************)
(* Theorems about TaskGraph, for any set of tasks, creators and variables: *)
(* a path that hasPath finds between siblings is an order of the tasks,    *)
(* and the first task that names a variable is found.                      *)
(***************************************************************************)
EXTENDS TaskGraph, SequenceTheorems, TLAPS

Exists(t) == life[t] # "none"
IsRegistered(t) == life[t] \in {"registered", "started", "complete"}

(* The ids are in the order of creation, and the tasks before a task that  *)
(* have clauses were registered before it was created.                     *)
IdsFollowCreation ==
  \A s, t \in ExpTasks :
    /\ Exists(s) => expLocalId[s] < expTaskCount
    /\ Exists(s) /\ Exists(t) /\ Siblings(s, t) /\ expLocalId[s] < expLocalId[t]
         => s \in earlier[t]
    /\ s \in earlier[t] =>
         /\ Exists(s) /\ Exists(t) /\ Siblings(s, t) /\ expLocalId[s] < expLocalId[t]
         /\ named[s] # NamesNone => IsRegistered(s)

(* Each entry of _deps is a task with its clause on the variable.          *)
EntriesAreTasks ==
  \A v \in Variables : \A e \in Entries(v) :
    /\ Exists(e.task)
    /\ named[e.task][v] = e.type
    /\ \A s \in earlier[e.task] : named[s][v] = NoDep

(* A variable that a registered task names has an entry, with an edge to   *)
(* every registered task that must wait for it.                            *)
EntriesHaveEdges ==
  \A t \in ExpTasks, v \in Variables :
    IsRegistered(t) /\ named[t][v] # NoDep =>
      /\ deps[v] # <<>>
      /\ \A e \in Entries(v) :
           expLocalId[e.task] < expLocalId[t] /\ HasEdge(named[t][v], e.type)
           => t \in graph[e.task]

(* An edge leads from a task to one that names the same variable and must  *)
(* wait for it.                                                            *)
EdgesAreDependences ==
  \A s \in ExpTasks : \A t \in graph[s] :
    /\ Exists(s) /\ Exists(t) /\ MustPrecede(s, t)
    /\ Siblings(s, t) => s \in earlier[t]
    /\ Siblings(s, t) /\ Started(t) => Complete(s)

IInv == /\ GraphTypeOK
        /\ IdsFollowCreation
        /\ EntriesAreTasks
        /\ EntriesHaveEdges
        /\ EdgesAreDependences

-----------------------------------------------------------------------------
(* addDeps makes an edge exactly where the two clauses order the tasks.    *)
LEMMA HasEdgeIsOrder ==
  ASSUME NEW type \in DepTypes, NEW other \in DepTypes
  PROVE  HasEdge(type, other) <=> ~ Unordered(other, type)
  BY DEF DepTypes, HasEdge, Unordered

(* The types of an entry, without the sequences.                           *)
LEMMA EntryTypes ==
  ASSUME GraphTypeOK, NEW v \in Variables
  PROVE  /\ \A e \in Entries(v) : e.task \in ExpTasks /\ e.type \in DepTypes
         /\ deps[v] # <<>> => \E e \in Entries(v) : TRUE
<1>1. deps[v] \in Seq([task : ExpTasks, type : DepTypes])
  BY DEF GraphTypeOK
<1>2. DOMAIN deps[v] = 1..Len(deps[v])
  BY <1>1
<1>3. \A e \in Entries(v) : e \in [task : ExpTasks, type : DepTypes]
  <2>1. ASSUME NEW i \in 1..Len(deps[v])
        PROVE  deps[v][i] \in [task : ExpTasks, type : DepTypes]
    BY <1>1, ElementOfSeq
  <2> QED BY <1>2, <2>1 DEF Entries
<1>4. ASSUME deps[v] # <<>> PROVE deps[v][1] \in Entries(v)
  BY <1>1, <1>2, <1>4, EmptySeq DEF Entries
<1> QED BY <1>3, <1>4

(* What addDeps does to _deps: it adds an entry only for a variable        *)
(* without one.                                                            *)
LEMMA EntriesAfterAddDeps ==
  ASSUME GraphTypeOK, NEW t \in ExpTasks, AddDeps(t), NEW v \in Variables
  PROVE  /\ deps[v] # <<>> => deps'[v] = deps[v] /\ Entries(v)' = Entries(v)
         /\ deps[v] = <<>> /\ named[t][v] # NoDep =>
              deps'[v] # <<>> /\ Entries(v)' = {[task |-> t, type |-> named[t][v]]}
         /\ deps[v] = <<>> /\ named[t][v] = NoDep =>
              deps'[v] = <<>> /\ Entries(v)' = {}
<1>1. deps'[v] = Registered(t, v)
  BY DEF AddDeps
<1>2. CASE deps[v] # <<>>
  BY <1>1, <1>2 DEF Registered, Entries
<1>3. CASE deps[v] = <<>> /\ named[t][v] # NoDep
  BY <1>1, <1>3 DEF Registered, Entries
<1>4. CASE deps[v] = <<>> /\ named[t][v] = NoDep
  BY <1>1, <1>4 DEF Registered, Entries
<1> QED BY <1>2, <1>3, <1>4
-----------------------------------------------------------------------------
\* The graph starts with the right types.
LEMMA TypeInit == GraphInit => GraphTypeOK
  BY DEF GraphInit, GraphTypeOK, NamesNone, Clauses, NoDep

\* Every step of the graph keeps the types.
LEMMA TypeStep == GraphTypeOK /\ [GraphNext]_graphVars => GraphTypeOK'
<1> SUFFICES ASSUME GraphTypeOK, [GraphNext]_graphVars PROVE GraphTypeOK'
  OBVIOUS
<1>1. ASSUME NEW t \in ExpTasks, NEW clauses \in Clauses, TaskCreate(t, clauses)
      PROVE  GraphTypeOK'
  <2> USE DEF GraphTypeOK, TaskCreate
  <2>1. expTaskCount' \in Nat /\ expLocalId' \in [ExpTasks -> Nat]
    BY <1>1
  <2>2. /\ deps' \in [Variables -> Seq([task : ExpTasks, type : DepTypes])]
        /\ graph' \in [ExpTasks -> SUBSET ExpTasks]
    BY <1>1
  <2>3. /\ life' \in [ExpTasks -> {"none", "created", "registered", "started", "complete"}]
        /\ named' \in [ExpTasks -> Clauses]
    BY <1>1
  <2>4. earlier' \in [ExpTasks -> SUBSET ExpTasks]
    BY <1>1
  <2> QED BY <2>1, <2>2, <2>3, <2>4
<1>2. ASSUME NEW t \in ExpTasks, Dependences(t) PROVE GraphTypeOK'
  <2> USE DEF GraphTypeOK, Dependences
  <2>1. deps' \in [Variables -> Seq([task : ExpTasks, type : DepTypes])]
    <3> SUFFICES ASSUME NEW v \in Variables
                 PROVE  Registered(t, v) \in Seq([task : ExpTasks, type : DepTypes])
      BY <1>2 DEF AddDeps
    <3>1. CASE named[t][v] # NoDep /\ deps[v] = <<>>
      <4>1. [task |-> t, type |-> named[t][v]] \in [task : ExpTasks, type : DepTypes]
        BY <3>1 DEF Clauses
      <4> QED BY <3>1, <4>1 DEF Registered
    <3>2. CASE ~ (named[t][v] # NoDep /\ deps[v] = <<>>)
      BY <3>2 DEF Registered
    <3> QED BY <3>1, <3>2
  <2>2. graph' \in [ExpTasks -> SUBSET ExpTasks]
    BY <1>2 DEF AddDeps
  <2> QED BY <1>2, <2>1, <2>2
<1>3. ASSUME NEW t \in ExpTasks, TaskBegin(t) PROVE GraphTypeOK'
  BY <1>3 DEF GraphTypeOK, TaskBegin
<1>4. ASSUME NEW t \in ExpTasks, TaskComplete(t) PROVE GraphTypeOK'
  BY <1>4 DEF GraphTypeOK, TaskComplete
<1>5. CASE UNCHANGED graphVars
  BY <1>5 DEF GraphTypeOK, graphVars
<1> QED BY <1>1, <1>2, <1>3, <1>4, <1>5 DEF GraphNext

(* A task that names a variable has clauses.                               *)
LEMMA NamingIsAClause ==
  ASSUME NEW t \in ExpTasks, NEW v \in Variables, named[t][v] # NoDep
  PROVE  named[t] # NamesNone
  BY DEF NamesNone

\* The inductive invariant holds of the empty graph.
LEMMA InvInit == GraphInit => IInv
<1> SUFFICES ASSUME GraphInit PROVE IInv
  OBVIOUS
<1>1. GraphTypeOK
  BY TypeInit
<1>2. IdsFollowCreation /\ EntriesHaveEdges /\ EdgesAreDependences
  BY DEF GraphInit, IdsFollowCreation, EntriesHaveEdges, EdgesAreDependences, Exists, IsRegistered
<1>3. EntriesAreTasks
  BY DEF GraphInit, EntriesAreTasks, Entries
<1> QED BY <1>1, <1>2, <1>3 DEF IInv

-----------------------------------------------------------------------------
(* A task that is created has the largest id, and no entry or edge yet.    *)
LEMMA TaskCreateKeeps ==
  ASSUME IInv, GraphTypeOK', NEW t \in ExpTasks, NEW clauses \in Clauses,
         TaskCreate(t, clauses)
  PROVE  IInv'
<1> USE DEF IInv
<1>1. /\ ~ Exists(t) /\ Exists(t)' /\ ~ IsRegistered(t)' /\ ~ Started(t)'
      /\ expTaskCount \in Nat /\ expTaskCount' = expTaskCount + 1
      /\ expLocalId'[t] = expTaskCount
      /\ earlier'[t] = {s \in ExpTasks : Siblings(s, t) /\ Exists(s)}
  BY DEF TaskCreate, GraphTypeOK, Exists, IsRegistered, Started
<1>2. ASSUME NEW s \in ExpTasks, s # t
      PROVE  /\ life'[s] = life[s] /\ named'[s] = named[s] /\ earlier'[s] = earlier[s]
             /\ expLocalId'[s] = expLocalId[s] /\ expLocalId[s] \in Nat
  BY <1>2 DEF TaskCreate, GraphTypeOK
<1>3. deps' = deps /\ graph' = graph
  BY DEF TaskCreate
<1>4. \A s \in ExpTasks : Siblings(s, t) /\ Exists(s) /\ named[s] # NamesNone => IsRegistered(s)
  BY DEF TaskCreate, CreatorIsBusy, Exists, IsRegistered, GraphTypeOK
<1>5. \A s, u \in ExpTasks : s \in earlier[u] => s # t /\ u # t
  BY <1>1 DEF IdsFollowCreation
<1>6. IdsFollowCreation'
  <2> SUFFICES ASSUME NEW s \in ExpTasks, NEW u \in ExpTasks
      PROVE  /\ Exists(s)' => expLocalId'[s] < expTaskCount'
             /\ Exists(s)' /\ Exists(u)' /\ Siblings(s, u) /\ expLocalId'[s] < expLocalId'[u]
                  => s \in earlier'[u]
             /\ s \in earlier'[u] =>
                  /\ Exists(s)' /\ Exists(u)' /\ Siblings(s, u)
                  /\ expLocalId'[s] < expLocalId'[u]
                  /\ named'[s] # NamesNone => IsRegistered(s)'
    BY DEF IdsFollowCreation, Siblings
  <2>1. CASE s # t /\ u # t
    BY <1>1, <1>2, <2>1 DEF IdsFollowCreation, Exists, IsRegistered
  <2>2. CASE s # t /\ u = t
    BY <1>1, <1>2, <1>4, <2>2 DEF IdsFollowCreation, Exists, IsRegistered, Siblings
  <2>3. CASE s = t /\ u # t
    BY <1>1, <1>2, <1>5, <2>3 DEF IdsFollowCreation, Exists
  <2>4. CASE s = t /\ u = t
    BY <1>1, <2>4
  <2> QED BY <2>1, <2>2, <2>3, <2>4
<1>7. EntriesAreTasks'
  <2> SUFFICES ASSUME NEW v \in Variables, NEW e \in Entries(v)
               PROVE  /\ Exists(e.task)' /\ named'[e.task][v] = e.type
                      /\ \A s \in earlier'[e.task] : named'[s][v] = NoDep
    BY <1>3 DEF EntriesAreTasks, Entries
  <2>1. e.task \in ExpTasks /\ e.task # t
    BY <1>1, EntryTypes DEF EntriesAreTasks
  <2>2. \A s \in earlier[e.task] : s \in ExpTasks /\ s # t
    BY <2>1, <1>5 DEF GraphTypeOK
  <2> QED BY <1>2, <2>1, <2>2 DEF EntriesAreTasks, Exists
<1>8. EntriesHaveEdges'
  <2> SUFFICES ASSUME NEW u \in ExpTasks, NEW v \in Variables,
                      IsRegistered(u)', named'[u][v] # NoDep
               PROVE  /\ deps[v] # <<>>
                      /\ \A e \in Entries(v) :
                           expLocalId'[e.task] < expLocalId'[u] /\ HasEdge(named'[u][v], e.type)
                           => u \in graph[e.task]
    BY <1>3 DEF EntriesHaveEdges, Entries
  <2>1. u # t
    BY <1>1
  <2>2. \A e \in Entries(v) : e.task \in ExpTasks /\ e.task # t
    BY <1>1, EntryTypes DEF EntriesAreTasks
  <2> QED BY <1>2, <2>1, <2>2 DEF EntriesHaveEdges, IsRegistered
<1>9. EdgesAreDependences'
  <2> SUFFICES ASSUME NEW s \in ExpTasks, NEW u \in graph[s]
               PROVE  /\ Exists(s)' /\ Exists(u)' /\ MustPrecede(s, u)'
                      /\ Siblings(s, u) => s \in earlier'[u]
                      /\ Siblings(s, u) /\ Started(u)' => Complete(s)'
    BY <1>3 DEF EdgesAreDependences, Siblings
  <2>1. u \in ExpTasks /\ s # t /\ u # t
    BY <1>1 DEF EdgesAreDependences, GraphTypeOK
  <2>2. MustPrecede(s, u)' <=> MustPrecede(s, u)
    BY <1>2, <2>1 DEF MustPrecede, Unordered
  <2> QED BY <1>2, <2>1, <2>2 DEF EdgesAreDependences, Exists, Started, Complete
<1> QED BY <1>6, <1>7, <1>8, <1>9

-----------------------------------------------------------------------------
(* A task is registered: it becomes the entry of the variables without one *)
(* and gets an edge from the entries of the others.                        *)
LEMMA DependencesKeeps ==
  ASSUME IInv, GraphTypeOK', NEW t \in ExpTasks, Dependences(t)
  PROVE  IInv'
<1> USE DEF IInv
<1>1. /\ life[t] = "created" /\ IsRegistered(t)' /\ ~ Started(t)'
      /\ UNCHANGED <<expTaskCount, expLocalId, named, earlier>>
  BY DEF Dependences, GraphTypeOK, IsRegistered, Started
<1>2. ASSUME NEW s \in ExpTasks
      PROVE  /\ s # t => life'[s] = life[s]
             /\ Exists(s)' <=> Exists(s)
             /\ IsRegistered(s) => IsRegistered(s)'
             /\ Started(s)' <=> Started(s)
             /\ Complete(s)' <=> Complete(s)
  BY DEF Dependences, GraphTypeOK, Exists, IsRegistered, Started, Complete
<1>3. AddDeps(t)
  BY DEF Dependences
<1>4. IdsFollowCreation'
  BY <1>1, <1>2 DEF IdsFollowCreation, Siblings, GraphTypeOK
<1>5. EntriesAreTasks'
  <2> SUFFICES ASSUME NEW v \in Variables, NEW e \in Entries(v)'
               PROVE  /\ Exists(e.task)' /\ named[e.task][v] = e.type
                      /\ \A s \in earlier[e.task] : named[s][v] = NoDep
    BY <1>1 DEF EntriesAreTasks
  <2>1. CASE deps[v] # <<>>
    <3>1. e \in Entries(v)
      BY <1>3, <2>1, EntriesAfterAddDeps
    <3> QED BY <1>2, <3>1, EntryTypes DEF EntriesAreTasks
  <2>2. CASE deps[v] = <<>>
    <3>1. e = [task |-> t, type |-> named[t][v]]
      BY <1>3, <2>2, EntriesAfterAddDeps
    <3>2. \A s \in earlier[t] : named[s][v] = NoDep
      BY <2>2, NamingIsAClause DEF IdsFollowCreation, EntriesHaveEdges, GraphTypeOK
    <3> QED BY <1>1, <1>2, <3>1, <3>2 DEF Exists
  <2> QED BY <2>1, <2>2
<1>6. EntriesHaveEdges'
  <2> SUFFICES ASSUME NEW u \in ExpTasks, NEW v \in Variables,
                      IsRegistered(u)', named[u][v] # NoDep
               PROVE  /\ deps'[v] # <<>>
                      /\ \A e \in Entries(v)' :
                           expLocalId[e.task] < expLocalId[u] /\ HasEdge(named[u][v], e.type)
                           => u \in graph'[e.task]
    BY <1>1 DEF EntriesHaveEdges, HasEdge
  <2>1. ASSUME NEW s \in ExpTasks PROVE graph[s] \subseteq graph'[s]
    BY <1>3 DEF AddDeps
  <2>2. CASE u # t
    <3>1. IsRegistered(u)
      BY <1>2, <2>2 DEF IsRegistered
    <3>2. deps[v] # <<>> /\ deps'[v] = deps[v] /\ Entries(v)' = Entries(v)
      BY <1>3, <3>1, EntriesAfterAddDeps DEF EntriesHaveEdges
    <3> QED BY <2>1, <3>1, <3>2, EntryTypes DEF EntriesHaveEdges
  <2>3. CASE u = t /\ deps[v] # <<>>
    <3>1. deps'[v] # <<>> /\ Entries(v)' = Entries(v)
      BY <1>3, <2>3, EntriesAfterAddDeps
    <3>2. ASSUME NEW e \in Entries(v), expLocalId[e.task] < expLocalId[t],
                 HasEdge(named[t][v], e.type)
          PROVE  t \in graph'[e.task]
      <4>1. e.task \in Predecessors(t, v) /\ e.task \in ExpTasks
        BY <3>2, EntryTypes DEF Predecessors, GraphTypeOK
      <4> QED BY <1>3, <2>3, <4>1 DEF AddDeps
    <3> QED BY <2>3, <3>1, <3>2
  <2>4. CASE u = t /\ deps[v] = <<>>
    <3>1. deps'[v] # <<>> /\ \A e \in Entries(v)' : e.task = t
      BY <1>3, <2>4, EntriesAfterAddDeps
    <3> QED BY <2>4, <3>1 DEF GraphTypeOK
  <2> QED BY <2>2, <2>3, <2>4
<1>7. EdgesAreDependences'
  <2> SUFFICES ASSUME NEW s \in ExpTasks, NEW u \in graph'[s]
               PROVE  /\ Exists(s)' /\ Exists(u)' /\ MustPrecede(s, u)
                      /\ Siblings(s, u) => s \in earlier[u]
                      /\ Siblings(s, u) /\ Started(u)' => Complete(s)'
    BY <1>1 DEF EdgesAreDependences, Siblings, MustPrecede, Unordered
  <2>1. CASE u \in graph[s]
    BY <1>2, <2>1 DEF EdgesAreDependences, GraphTypeOK
  <2>2. CASE u \notin graph[s]
    <3>1. u = t /\ \E v \in Variables : named[t][v] # NoDep /\ s \in Predecessors(t, v)
      BY <1>3, <2>2 DEF AddDeps
    <3>2. PICK v \in Variables : named[t][v] # NoDep /\ s \in Predecessors(t, v)
      BY <3>1
    <3>3. PICK e \in Entries(v) : /\ e.task = s /\ expLocalId[t] > expLocalId[s]
                                  /\ HasEdge(named[t][v], e.type)
      BY <3>2 DEF Predecessors
    <3>4. Exists(s) /\ named[s][v] = e.type /\ e.type \in DepTypes
      BY <3>3, EntryTypes DEF EntriesAreTasks
    <3>5. named[t][v] \in DepTypes
      BY <3>2 DEF GraphTypeOK, Clauses
    <3>6. MustPrecede(s, t)
      BY <3>2, <3>3, <3>4, <3>5, HasEdgeIsOrder DEF MustPrecede, DepTypes, NoDep
    <3>7. Siblings(s, t) => s \in earlier[t]
      BY <1>1, <3>3, <3>4 DEF IdsFollowCreation, Exists, GraphTypeOK
    <3> QED BY <1>1, <1>2, <3>1, <3>4, <3>6, <3>7 DEF Exists
  <2> QED BY <2>1, <2>2
<1> QED BY <1>4, <1>5, <1>6, <1>7

-----------------------------------------------------------------------------
(* What a step keeps that only moves the life of a started task on.        *)
LEMMA LifeKeeps ==
  ASSUME IInv, UNCHANGED <<expTaskCount, expLocalId, deps, graph, named, earlier>>,
         \A s \in ExpTasks :
           /\ Exists(s)' <=> Exists(s)
           /\ IsRegistered(s) => IsRegistered(s)'
           /\ named[s] # NamesNone /\ IsRegistered(s)' => IsRegistered(s)
  PROVE  IdsFollowCreation' /\ EntriesAreTasks' /\ EntriesHaveEdges'
<1> USE DEF IInv
<1>1. IdsFollowCreation'
  BY DEF IdsFollowCreation, Siblings
<1>2. EntriesAreTasks'
  BY EntryTypes DEF EntriesAreTasks, Entries
<1>3. EntriesHaveEdges'
  BY NamingIsAClause DEF EntriesHaveEdges, Entries, HasEdge
<1> QED BY <1>1, <1>2, <1>3

\* A task that starts has seen its predecessors complete.
LEMMA TaskBeginKeeps ==
  ASSUME IInv, GraphTypeOK', NEW t \in ExpTasks, TaskBegin(t)
  PROVE  IInv'
<1> USE DEF IInv
<1>1. /\ UNCHANGED <<expTaskCount, expLocalId, deps, graph, named, earlier>>
      /\ \A s \in ExpTasks :
           /\ Exists(s)' <=> Exists(s)
           /\ IsRegistered(s) => IsRegistered(s)'
           /\ named[s] # NamesNone /\ IsRegistered(s)' => IsRegistered(s)
  BY DEF TaskBegin, GraphTypeOK, Exists, IsRegistered
<1>2. /\ ~ Started(t) /\ ~ Complete(t) /\ ~ Complete(t)'
      /\ \A s \in ExpTasks \ {t} : life'[s] = life[s]
      /\ \A s \in earlier[t] : MustPrecede(s, t) => Complete(s)
  BY DEF TaskBegin, GraphTypeOK, Started, Complete
<1>3. EdgesAreDependences'
  <2> SUFFICES ASSUME NEW s \in ExpTasks, NEW u \in graph[s]
               PROVE  /\ Exists(s)' /\ Exists(u)' /\ MustPrecede(s, u)
                      /\ Siblings(s, u) => s \in earlier[u]
                      /\ Siblings(s, u) /\ Started(u)' => Complete(s)'
    BY <1>1 DEF EdgesAreDependences, Siblings, MustPrecede, Unordered
  <2>1. u \in ExpTasks
    BY DEF GraphTypeOK
  <2>2. ASSUME Siblings(s, u), Started(u)' PROVE Complete(s)'
    <3>1. Complete(s)
      BY <1>2, <2>1, <2>2 DEF EdgesAreDependences, Started
    <3> QED BY <1>2, <3>1 DEF Complete
  <2> QED BY <1>1, <2>1, <2>2 DEF EdgesAreDependences
<1> QED BY <1>1, <1>3, LifeKeeps

\* Completing a task only makes more tasks complete.
LEMMA TaskCompleteKeeps ==
  ASSUME IInv, GraphTypeOK', NEW t \in ExpTasks, TaskComplete(t)
  PROVE  IInv'
<1> USE DEF IInv
<1>1. /\ UNCHANGED <<expTaskCount, expLocalId, deps, graph, named, earlier>>
      /\ \A s \in ExpTasks :
           /\ Exists(s)' <=> Exists(s)
           /\ IsRegistered(s) => IsRegistered(s)'
           /\ named[s] # NamesNone /\ IsRegistered(s)' => IsRegistered(s)
  BY DEF TaskComplete, GraphTypeOK, Exists, IsRegistered
<1>2. \A s \in ExpTasks : (Started(s)' <=> Started(s)) /\ (Complete(s) => Complete(s)')
  BY DEF TaskComplete, GraphTypeOK, Started, Complete
<1>3. EdgesAreDependences'
  BY <1>1, <1>2 DEF EdgesAreDependences, Siblings, MustPrecede, Unordered, GraphTypeOK
<1> QED BY <1>1, <1>3, LifeKeeps

\* The invariant speaks of the variables of the graph only.
LEMMA StutterKeeps == IInv /\ UNCHANGED graphVars => IInv'
<1> SUFFICES ASSUME IInv, UNCHANGED graphVars PROVE IInv'
  OBVIOUS
<1> USE DEF IInv, graphVars
<1>1. GraphTypeOK'
  BY DEF GraphTypeOK
<1>2. IdsFollowCreation' /\ EntriesAreTasks' /\ EntriesHaveEdges'
  BY LifeKeeps DEF Exists, IsRegistered
<1>3. EdgesAreDependences'
  BY DEF EdgesAreDependences, Exists, Siblings, MustPrecede, Unordered, Started, Complete
<1> QED BY <1>1, <1>2, <1>3

\* Every step of the graph keeps the inductive invariant.
LEMMA InvStep == IInv /\ [GraphNext]_graphVars => IInv'
<1> SUFFICES ASSUME IInv, [GraphNext]_graphVars PROVE IInv'
  OBVIOUS
<1>1. GraphTypeOK'
  BY TypeStep DEF IInv
<1> QED BY <1>1, TaskCreateKeeps, DependencesKeeps, TaskBeginKeeps, TaskCompleteKeeps,
           StutterKeeps DEF GraphNext

(* The invariant of the dependence graph.                                  *)
THEOREM Invariance == GraphSpec => []IInv
  BY InvInit, InvStep, PTL DEF GraphSpec

(* The type invariant of the dependence graph and of the life of tasks.    *)
THEOREM TypeCorrectness == GraphSpec => []GraphTypeOK
<1>1. IInv => GraphTypeOK
  BY DEF IInv
<1> QED BY <1>1, Invariance, PTL

-----------------------------------------------------------------------------
(* From a task that is not complete a path leads only through tasks that   *)
(* have not started: they are closed under edges.                          *)
LEMMA PathsFollowEdges == IInv => PathsAreOrdered
<1> SUFFICES ASSUME IInv, DependentTasksAreSiblings,
                    NEW s \in ExpTasks, NEW t \in ExpTasks,
                    s # t, HasPath(s, t), Started(t), ~ Complete(s)
             PROVE  FALSE
  BY DEF PathsAreOrdered
<1> DEFINE S == {n \in Nodes : n = s \/ ~ Started(n)}
<1>1. s \in S
  BY DEF HasPath, Nodes
<1>2. ASSUME NEW n \in S, NEW m \in graph[n] PROVE m \in S
  <2>1. n \in ExpTasks /\ m \in ExpTasks /\ m \in Nodes
    BY DEF Nodes, IInv, GraphTypeOK
  <2>2. MustPrecede(n, m)
    BY <2>1 DEF IInv, EdgesAreDependences
  <2>3. named[n] # NamesNone /\ named[m] # NamesNone
    BY <2>1, <2>2, NamingIsAClause DEF MustPrecede
  <2>4. Siblings(n, m)
    BY <2>1, <2>3 DEF DependentTasksAreSiblings
  <2>5. Started(m) => Complete(n)
    BY <2>1, <2>4 DEF IInv, EdgesAreDependences
  <2>6. Complete(n) => Started(n)
    BY DEF Complete, Started
  <2> QED BY <2>1, <2>5, <2>6
<1>3. t \in S
  <2>1. S \in SUBSET Nodes
    OBVIOUS
  <2> HIDE DEF S
  <2> QED BY <1>1, <1>2, <2>1 DEF HasPath
<1> QED BY <1>3

(* A path of dependences between siblings, for which analyzeRaceCondition  *)
(* does not compare the accesses, is an order of the two tasks, whatever   *)
(* the order of the callbacks.                                             *)
THEOREM PathsOrder == GraphSpec => []PathsAreOrdered
  BY Invariance, PathsFollowEdges, PTL

(* An edge is a path.                                                      *)
LEMMA EdgeIsPath ==
  ASSUME GraphTypeOK, NEW s \in ExpTasks, NEW t \in graph[s]
  PROVE  HasPath(s, t)
  BY DEF HasPath

\* The first entry of a variable has an edge to whoever must wait for it.
LEMMA FirstEntryIsFound == IInv => FirstTaskIsFound
<1> SUFFICES ASSUME IInv, NEW t \in ExpTasks, Started(t), NEW v \in Variables,
                    NEW s \in earlier[t],
                    named[s][v] # NoDep, named[t][v] # NoDep,
                    ~ Unordered(named[s][v], named[t][v]),
                    \A r \in ExpTasks \ {s, t} : named[r][v] = NoDep \/ s \in earlier[r]
             PROVE  HasPath(s, t)
  BY DEF FirstTaskIsFound
<1> USE DEF IInv
<1>1. s \in ExpTasks
  BY DEF GraphTypeOK
<1>2. IsRegistered(t) /\ deps[v] # <<>>
  BY DEF Started, IsRegistered, EntriesHaveEdges
<1>3. PICK e \in Entries(v) : TRUE
  BY <1>2, EntryTypes
<1>4. /\ e.task \in ExpTasks /\ e.type \in DepTypes /\ named[e.task][v] = e.type
      /\ s \notin earlier[e.task]
  BY EntryTypes DEF EntriesAreTasks
<1>5. e.task = s
  BY <1>4 DEF DepTypes, NoDep
<1>6. HasEdge(named[t][v], e.type)
  <2>1. named[t][v] \in DepTypes
    BY DEF GraphTypeOK, Clauses
  <2> QED BY <1>4, <1>5, <2>1, HasEdgeIsOrder
<1>7. expLocalId[s] < expLocalId[t]
  BY <1>1 DEF IdsFollowCreation
<1>8. t \in graph[s]
  BY <1>2, <1>5, <1>6, <1>7 DEF EntriesHaveEdges
<1> QED BY <1>1, <1>8, EdgeIsPath

(* The first task that names a variable is found from every task that      *)
(* must wait for it.                                                       *)
THEOREM FirstIsFound == GraphSpec => []FirstTaskIsFound
  BY Invariance, FirstEntryIsFound, PTL
=============================================================================
