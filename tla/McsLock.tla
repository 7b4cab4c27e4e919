------------------------------- MODULE McsLock -------------------------------
(***************************************************************************)
(* The queueing lock of RompLib/src/McsLock.cpp, one action per access to  *)
(* a shared word.  Every critical section of the detector runs under it:   *)
(* the access history of a byte (RompLib.cpp:30), the task dependence      *)
(* graph of a region (Callbacks.cpp:570, Core.cpp:54) and the recycling of *)
(* memory (DataSharing.cpp:81).                                            *)
(*                                                                         *)
(* The McsNode of a call is a local variable of the code that locks, so a  *)
(* thread is its node: the fields of node t are next[t] and blocked[t].    *)
(* A new call finds whatever the stack held (RawNode), and after the call  *)
(* returns the words belong to somebody else (NodeUntouchedAfterReturn).   *)
(***************************************************************************)
EXTENDS Naturals, Sequences

CONSTANTS Threads,  \* the OpenMP threads that share the lock
          NIL       \* MCS_NIL, the null node pointer

ASSUME NilAssumption == NIL \notin Threads

VARIABLES tail,     \* McsLock::tail
          next,     \* next[t]: McsNode::next of the node of t
          blocked,  \* blocked[t]: McsNode::blocked of the node of t
          pred,     \* pred[t]: the local `predecessor` of mcsLock, NIL once it is dead
          succ,     \* succ[t]: the local `successor` of mcsUnlock, NIL once it is dead
          pc,       \* pc[t]: the access t is about to make
          queue     \* history: the order in which threads swapped into tail

vars == <<tail, next, blocked, pred, succ, pc, queue>>

\* The places in the code, in the order in which a call passes them.
Waiting == {"block", "link", "spin"}
Owning  == {"cs", "load", "cas", "await", "signal"}
Places  == {"idle", "init", "swap", "tryInit", "tryCas"} \cup Waiting \cup Owning

Init ==
  /\ tail = NIL
  /\ next \in [Threads -> {NIL}]
  /\ blocked \in [Threads -> {FALSE}]
  /\ pred = [t \in Threads |-> NIL]
  /\ succ = [t \in Threads |-> NIL]
  /\ pc = [t \in Threads |-> "idle"]
  /\ queue = <<>>

Goto(t, place) == pc' = [pc EXCEPT ![t] = place]

\* A node is a fresh local: both words hold what was on the stack.
RawNode(t) ==
  /\ \E n \in Threads \cup {NIL} : next' = [next EXCEPT ![t] = n]
  /\ \E b \in BOOLEAN : blocked' = [blocked EXCEPT ![t] = b]

-----------------------------------------------------------------------------
(* mcsLock *)

CallLock(t) ==
  /\ pc[t] = "idle"
  /\ RawNode(t)
  /\ Goto(t, "init")
  /\ UNCHANGED <<tail, pred, succ, queue>>

\* Seeded fault: the word keeps what the stack held.
InitNextForgotten(t) ==
  /\ pc[t] = "init"
  /\ Goto(t, "swap")
  /\ UNCHANGED <<tail, next, blocked, pred, succ, queue>>

InitNext(t) ==
  /\ pc[t] = "init"
  /\ next' = [next EXCEPT ![t] = NIL]
  /\ Goto(t, "swap")
  /\ UNCHANGED <<tail, blocked, pred, succ, queue>>

SwapTail(t) ==
  /\ pc[t] = "swap"
  /\ pred' = [pred EXCEPT ![t] = tail]
  /\ tail' = t
  /\ queue' = Append(queue, t)
  /\ Goto(t, IF tail = NIL THEN "cs" ELSE "block")
  /\ UNCHANGED <<next, blocked, succ>>

\* Seeded fault: the flag keeps what the stack held.
SetBlockedForgotten(t) ==
  /\ pc[t] = "block"
  /\ Goto(t, "link")
  /\ UNCHANGED <<tail, next, blocked, pred, succ, queue>>

SetBlocked(t) ==
  /\ pc[t] = "block"
  /\ blocked' = [blocked EXCEPT ![t] = TRUE]
  /\ Goto(t, "link")
  /\ UNCHANGED <<tail, next, pred, succ, queue>>

LinkBehind(t) ==
  /\ pc[t] = "link"
  /\ next' = [next EXCEPT ![pred[t]] = t]
  /\ Goto(t, "spin")
  /\ UNCHANGED <<tail, blocked, pred, succ, queue>>

StopSpinning(t) ==
  /\ pc[t] = "spin"
  /\ ~ blocked[t]
  /\ pred' = [pred EXCEPT ![t] = NIL]
  /\ Goto(t, "cs")
  /\ UNCHANGED <<tail, next, blocked, succ, queue>>

-----------------------------------------------------------------------------
(* mcsTryLock *)

CallTryLock(t) ==
  /\ pc[t] = "idle"
  /\ RawNode(t)
  /\ Goto(t, "tryInit")
  /\ UNCHANGED <<tail, pred, succ, queue>>

TryInitNext(t) ==
  /\ pc[t] = "tryInit"
  /\ next' = [next EXCEPT ![t] = NIL]
  /\ Goto(t, "tryCas")
  /\ UNCHANGED <<tail, blocked, pred, succ, queue>>

\* Seeded fault: an exchange where the code compares first.
TrySwapTail(t) ==
  /\ pc[t] = "tryCas"
  /\ tail' = t
  /\ queue' = Append(queue, t)
  /\ Goto(t, "cs")
  /\ UNCHANGED <<next, blocked, pred, succ>>

TryCasTail(t) ==
  /\ pc[t] = "tryCas"
  /\ \/ /\ tail = NIL
        /\ tail' = t
        /\ queue' = Append(queue, t)
        /\ Goto(t, "cs")
     \/ /\ tail # NIL
        /\ Goto(t, "idle")
        /\ UNCHANGED <<tail, queue>>
  /\ UNCHANGED <<next, blocked, pred, succ>>

-----------------------------------------------------------------------------
(* mcsUnlock *)

CallUnlock(t) ==
  /\ pc[t] = "cs"
  /\ Goto(t, "load")
  /\ UNCHANGED <<tail, next, blocked, pred, succ, queue>>

LoadNext(t) ==
  /\ pc[t] = "load"
  /\ succ' = [succ EXCEPT ![t] = next[t]]
  /\ Goto(t, IF next[t] = NIL THEN "cas" ELSE "signal")
  /\ UNCHANGED <<tail, next, blocked, pred, queue>>

\* Seeded fault: a store where the code compares first.
StoreTail(t) ==
  /\ pc[t] = "cas"
  /\ tail' = NIL
  /\ queue' = Tail(queue)
  /\ Goto(t, "idle")
  /\ UNCHANGED <<next, blocked, pred, succ>>

\* Seeded fault: returns although a successor is about to link itself.
CasTailReturnsAnyway(t) ==
  /\ pc[t] = "cas"
  /\ tail' = IF tail = t THEN NIL ELSE tail
  /\ queue' = Tail(queue)
  /\ Goto(t, "idle")
  /\ UNCHANGED <<next, blocked, pred, succ>>

\* Seeded fault: tries again instead of waiting for the successor to link.
CasTailRetries(t) ==
  /\ pc[t] = "cas"
  /\ \/ /\ tail = t
        /\ tail' = NIL
        /\ queue' = Tail(queue)
        /\ Goto(t, "idle")
     \/ /\ tail # t
        /\ UNCHANGED <<tail, queue, pc>>
  /\ UNCHANGED <<next, blocked, pred, succ>>

CasTail(t) ==
  /\ pc[t] = "cas"
  /\ \/ /\ tail = t
        /\ tail' = NIL
        /\ queue' = Tail(queue)
        /\ Goto(t, "idle")
     \/ /\ tail # t
        /\ Goto(t, "await")
        /\ UNCHANGED <<tail, queue>>
  /\ UNCHANGED <<next, blocked, pred, succ>>

\* Seeded fault: reads the link once instead of until it is set.
ReadNextOnce(t) ==
  /\ pc[t] = "await"
  /\ succ' = [succ EXCEPT ![t] = next[t]]
  /\ Goto(t, "signal")
  /\ UNCHANGED <<tail, next, blocked, pred, queue>>

AwaitNext(t) ==
  /\ pc[t] = "await"
  /\ next[t] # NIL
  /\ succ' = [succ EXCEPT ![t] = next[t]]
  /\ Goto(t, "signal")
  /\ UNCHANGED <<tail, next, blocked, pred, queue>>

Signal(t) ==
  /\ pc[t] = "signal"
  /\ blocked' = [blocked EXCEPT ![succ[t]] = FALSE]
  /\ queue' = Tail(queue)
  /\ succ' = [succ EXCEPT ![t] = NIL]
  /\ Goto(t, "idle")
  /\ UNCHANGED <<tail, next, pred>>

-----------------------------------------------------------------------------
Call(t) == CallLock(t) \/ CallTryLock(t)

\* What a thread does without being asked again.
Step(t) ==
  \/ InitNext(t) \/ SwapTail(t) \/ SetBlocked(t) \/ LinkBehind(t) \/ StopSpinning(t)
  \/ TryInitNext(t) \/ TryCasTail(t)
  \/ CallUnlock(t) \/ LoadNext(t) \/ CasTail(t) \/ AwaitNext(t) \/ Signal(t)

Next == \E t \in Threads : Call(t) \/ Step(t)

Spec == Init /\ [][Next]_vars

\* A thread inside a call keeps being scheduled; no critical section of the
\* detector blocks, so each one ends.  Nobody is obliged to call.
FairSpec == Spec /\ \A t \in Threads : WF_vars(Step(t))

-----------------------------------------------------------------------------
(* Type invariant: every word holds a node, a null pointer or a flag, and  *)
(* `predecessor` (McsLock.cpp:108) and `successor` (McsLock.cpp:183) are   *)
(* not null where the code dereferences them.                              *)
TypeOK ==
  /\ tail \in Threads \cup {NIL}
  /\ next \in [Threads -> Threads \cup {NIL}]
  /\ blocked \in [Threads -> BOOLEAN]
  /\ pred \in [Threads -> Threads \cup {NIL}]
  /\ succ \in [Threads -> Threads \cup {NIL}]
  /\ pc \in [Threads -> Places]
  /\ queue \in Seq(Threads)
  /\ \A t \in Threads : /\ pc[t] \in {"block", "link"} => pred[t] # NIL
                        /\ pc[t] = "signal" => succ[t] # NIL

(* From the return of mcsLock to the store that hands the lock on, no two  *)
(* threads are in the code that mcsLock and mcsUnlock bracket.             *)
MutualExclusion ==
  \A t, u \in Threads : pc[t] \in Owning /\ pc[u] \in Owning => t = u

(* The lock never writes to a node whose mcsUnlock has returned: LockGuard *)
(* and its node live on a stack frame that is gone by then, so a late      *)
(* `predecessor->next = me` or `successor->blocked = false` would land in  *)
(* somebody else's variable.                                               *)
NodeUntouchedAfterReturn ==
  [][\A t \in Threads : pc[t] = "idle" /\ pc'[t] = "idle" =>
        next'[t] = next[t] /\ blocked'[t] = blocked[t]]_vars

(* A thread that calls mcsLock gets the lock: no wake-up is lost between   *)
(* setting `blocked`, linking and signalling.                              *)
EveryLockCallReturns == \A t \in Threads : pc[t] = "init" ~> pc[t] = "cs"

(* mcsUnlock returns: the successor it waits for always links itself.      *)
EveryUnlockCallReturns == \A t \in Threads : pc[t] = "load" ~> pc[t] = "idle"

-----------------------------------------------------------------------------
(* The inductive invariant: what the words of the lock say about `queue`.  *)

Queued(t) == \E i \in 1..Len(queue) : queue[i] = t

\* Exactly the threads between their swap and their hand-over are queued, once each.
QueueIsMembers ==
  /\ \A i, j \in 1..Len(queue) : queue[i] = queue[j] => i = j
  /\ \A t \in Threads : pc[t] \in Waiting \cup Owning <=> Queued(t)

\* tail names the last of them, which nobody has linked behind.
TailIsLast ==
  /\ tail = IF queue = <<>> THEN NIL ELSE queue[Len(queue)]
  /\ queue # <<>> => next[queue[Len(queue)]] = NIL
  /\ \A t \in Threads : pc[t] \in {"swap", "tryCas"} => next[t] = NIL

\* Everyone but the first waits, blocked, behind its predecessor.
OthersWait ==
  \A i \in 2..Len(queue) :
    LET t == queue[i] IN
      /\ pc[t] \in Waiting
      /\ pred[t] = queue[i-1]
      /\ pc[t] # "block" => blocked[t]
      /\ next[queue[i-1]] = IF pc[t] = "spin" THEN t ELSE NIL

\* The first owns the lock, or spins on a flag that is already cleared.
FirstMayRun ==
  queue # <<>> =>
    /\ pc[queue[1]] \in Owning \cup {"spin"}
    /\ pc[queue[1]] = "spin" => ~ blocked[queue[1]]

\* An unlocker that does not leave alone has someone to wake.
SuccessorIsSecond ==
  \A t \in Threads :
    /\ pc[t] \in {"await", "signal"} => Len(queue) >= 2
    /\ pc[t] = "signal" => succ[t] = queue[2] /\ next[t] = queue[2]

QueueInvariant ==
  /\ QueueIsMembers
  /\ TailIsLast
  /\ OthersWait
  /\ FirstMayRun
  /\ SuccessorIsSecond

IInv == TypeOK /\ QueueInvariant

-----------------------------------------------------------------------------
(* The lock implements the abstract one: whoever has returned from mcsLock *)
(* and not yet handed over is an owner.                                    *)
Owners == {t \in Threads : pc[t] \in Owning}

Fifo == INSTANCE FifoLock WITH owners <- Owners

(* The lock admits one thread at a time, in the order in which the threads *)
(* swapped their nodes into tail, whatever the timing of the links.        *)
ImplementsFifoLock == Fifo!Safety

(* Under fair scheduling it also admits and releases everyone in turn.     *)
ImplementsFairFifoLock == Fifo!Spec
=============================================================================
