--------------------------- MODULE McsLock_proofs ---------------------------
(***************************************************************************)
(* Proofs about McsLock for every set of threads.  QueueInvariant is the   *)
(* strengthening that carries them: the history variable queue lists the   *)
(* threads between their swap and their hand-over, and the words of the    *)
(* lock say no more than what that list says.                              *)
(***************************************************************************)
EXTENDS McsLock, SequenceTheorems, TLAPS

(* The initial words are well typed. *)
LEMMA InitTypeOK == Init => TypeOK
<1> SUFFICES ASSUME Init PROVE TypeOK
  OBVIOUS
<1>1. /\ tail \in Threads \cup {NIL}
      /\ pred \in [Threads -> Threads \cup {NIL}]
      /\ succ \in [Threads -> Threads \cup {NIL}]
  BY DEF Init
<1>2. /\ next \in [Threads -> Threads \cup {NIL}]
      /\ blocked \in [Threads -> BOOLEAN]
  BY DEF Init
<1>3. pc \in [Threads -> Places]
  BY DEF Init, Places
<1>4. queue \in Seq(Threads)
  BY DEF Init
<1>5. \A t \in Threads : pc[t] = "idle"
  BY DEF Init
<1> QED
  BY <1>1, <1>2, <1>3, <1>4, <1>5 DEF TypeOK

(* A thread that owns the lock is the first of the queue. *)
LEMMA OwnerIsFirst ==
  ASSUME TypeOK, QueueInvariant, NEW t \in Threads, pc[t] \in Owning
  PROVE  queue # <<>> /\ queue[1] = t
<1>1. PICK i \in 1..Len(queue) : queue[i] = t
  BY DEF QueueInvariant, QueueIsMembers, Queued
<1>2. Len(queue) \in Nat
  BY DEF TypeOK
<1>3. i \notin 2..Len(queue)
  BY <1>1 DEF QueueInvariant, OthersWait, Waiting, Owning
<1> QED
  BY <1>1, <1>2, <1>3 DEF TypeOK

(* Every step keeps the words well typed: the queue is not empty when an   *)
(* unlocker removes its head.                                              *)
LEMMA TypeOKStep ==
  ASSUME TypeOK, QueueInvariant, [Next]_vars
  PROVE  TypeOK'
<1>1. ASSUME NEW t \in Threads, CallLock(t) PROVE TypeOK'
  BY <1>1 DEF CallLock, RawNode, TypeOK, Goto, Places, Waiting, Owning
<1>2. ASSUME NEW t \in Threads, CallTryLock(t) PROVE TypeOK'
  BY <1>2 DEF CallTryLock, RawNode, TypeOK, Goto, Places, Waiting, Owning
<1>3. ASSUME NEW t \in Threads, InitNext(t) PROVE TypeOK'
  BY <1>3 DEF InitNext, TypeOK, Goto, Places, Waiting, Owning
<1>4. ASSUME NEW t \in Threads, TryInitNext(t) PROVE TypeOK'
  BY <1>4 DEF TryInitNext, TypeOK, Goto, Places, Waiting, Owning
<1>5. ASSUME NEW t \in Threads, SwapTail(t) PROVE TypeOK'
  BY <1>5 DEF SwapTail, TypeOK, Goto, Places, Waiting, Owning
<1>6. ASSUME NEW t \in Threads, SetBlocked(t) PROVE TypeOK'
  BY <1>6 DEF SetBlocked, TypeOK, Goto, Places, Waiting, Owning
<1>7. ASSUME NEW t \in Threads, LinkBehind(t) PROVE TypeOK'
  BY <1>7 DEF LinkBehind, TypeOK, Goto, Places, Waiting, Owning
<1>8. ASSUME NEW t \in Threads, StopSpinning(t) PROVE TypeOK'
  BY <1>8 DEF StopSpinning, TypeOK, Goto, Places, Waiting, Owning
<1>9. ASSUME NEW t \in Threads, TryCasTail(t) PROVE TypeOK'
  <2>1. queue' \in Seq(Threads)
    BY <1>9, AppendProperties DEF TryCasTail, TypeOK
  <2>2. pc' \in [Threads -> Places]
    BY <1>9 DEF TryCasTail, TypeOK, Goto, Places, Waiting, Owning
  <2>3. tail' \in Threads \cup {NIL}
    BY <1>9 DEF TryCasTail, TypeOK
  <2>4. /\ next' \in [Threads -> Threads \cup {NIL}]
        /\ blocked' \in [Threads -> BOOLEAN]
        /\ pred' \in [Threads -> Threads \cup {NIL}]
        /\ succ' \in [Threads -> Threads \cup {NIL}]
    BY <1>9 DEF TryCasTail, TypeOK
  <2>5. \A u \in Threads : /\ pc'[u] \in {"block", "link"} => pred'[u] # NIL
                           /\ pc'[u] = "signal" => succ'[u] # NIL
    BY <1>9 DEF TryCasTail, Goto, TypeOK
  <2> QED
    BY <2>1, <2>2, <2>3, <2>4, <2>5 DEF TypeOK
<1>10. ASSUME NEW t \in Threads, CallUnlock(t) PROVE TypeOK'
  BY <1>10 DEF CallUnlock, TypeOK, Goto, Places, Waiting, Owning
<1>11. ASSUME NEW t \in Threads, LoadNext(t) PROVE TypeOK'
  BY <1>11 DEF LoadNext, TypeOK, Goto, Places, Waiting, Owning
<1>12. ASSUME NEW t \in Threads, CasTail(t) PROVE TypeOK'
  <2>0. queue # <<>>
    BY <1>12, OwnerIsFirst DEF CasTail, Owning
  <2>a. Tail(queue) \in Seq(Threads)
    BY <2>0, HeadTailProperties DEF TypeOK
  <2>b. queue' = Tail(queue) \/ queue' = queue
    BY <1>12 DEF CasTail
  <2>1. queue' \in Seq(Threads)
    BY <2>a, <2>b DEF TypeOK
  <2>2. pc' \in [Threads -> Places]
    BY <1>12 DEF CasTail, TypeOK, Goto, Places, Waiting, Owning
  <2>3. tail' \in Threads \cup {NIL}
    BY <1>12 DEF CasTail, TypeOK
  <2>4. /\ next' \in [Threads -> Threads \cup {NIL}]
        /\ blocked' \in [Threads -> BOOLEAN]
        /\ pred' \in [Threads -> Threads \cup {NIL}]
        /\ succ' \in [Threads -> Threads \cup {NIL}]
    BY <1>12 DEF CasTail, TypeOK
  <2>5. \A u \in Threads : /\ pc'[u] \in {"block", "link"} => pred'[u] # NIL
                           /\ pc'[u] = "signal" => succ'[u] # NIL
    BY <1>12 DEF CasTail, Goto, TypeOK
  <2> QED
    BY <2>1, <2>2, <2>3, <2>4, <2>5 DEF TypeOK
<1>13. ASSUME NEW t \in Threads, AwaitNext(t) PROVE TypeOK'
  BY <1>13 DEF AwaitNext, TypeOK, Goto, Places, Waiting, Owning
<1>14. ASSUME NEW t \in Threads, Signal(t) PROVE TypeOK'
  <2>0. queue # <<>>
    BY <1>14, OwnerIsFirst DEF Signal, Owning
  <2>1. queue' \in Seq(Threads)
    BY <1>14, <2>0, HeadTailProperties DEF Signal, TypeOK
  <2>2. pc' \in [Threads -> Places]
    BY <1>14 DEF Signal, TypeOK, Goto, Places, Waiting, Owning
  <2>3. tail' \in Threads \cup {NIL}
    BY <1>14 DEF Signal, TypeOK
  <2>4. /\ next' \in [Threads -> Threads \cup {NIL}]
        /\ blocked' \in [Threads -> BOOLEAN]
        /\ pred' \in [Threads -> Threads \cup {NIL}]
        /\ succ' \in [Threads -> Threads \cup {NIL}]
    BY <1>14 DEF Signal, TypeOK
  <2>5. \A u \in Threads : /\ pc'[u] \in {"block", "link"} => pred'[u] # NIL
                           /\ pc'[u] = "signal" => succ'[u] # NIL
    BY <1>14 DEF Signal, Goto, TypeOK
  <2> QED
    BY <2>1, <2>2, <2>3, <2>4, <2>5 DEF TypeOK
<1>15. CASE UNCHANGED vars
  BY <1>15 DEF vars, TypeOK
<1> QED
  BY <1>1, <1>2, <1>3, <1>4, <1>5, <1>6, <1>7, <1>8, <1>9, <1>10, <1>11, <1>12, <1>13, <1>14, <1>15
     DEF Next, Call, Step

(* Every step keeps the invariant about the queue. *)
LEMMA QueueInvariantStep ==
  ASSUME TypeOK, QueueInvariant, [Next]_vars, TypeOK'
  PROVE  QueueInvariant'
<1> USE NilAssumption DEF QueueInvariant, Queued
<1>1. ASSUME NEW t \in Threads, CallLock(t) PROVE QueueInvariant'
  <2>1. QueueIsMembers'
    BY <1>1 DEF CallLock, RawNode, QueueIsMembers,
       TypeOK, Goto, Waiting, Owning
  <2>2. TailIsLast'
    BY <1>1 DEF CallLock, RawNode, QueueIsMembers, TailIsLast,
       TypeOK, Goto, Waiting, Owning
  <2>3. OthersWait'
    BY <1>1 DEF CallLock, RawNode, QueueIsMembers, OthersWait,
       TypeOK, Goto, Waiting, Owning
  <2>4. FirstMayRun'
    BY <1>1 DEF CallLock, RawNode, FirstMayRun,
       TypeOK, Goto, Waiting, Owning
  <2>5. SuccessorIsSecond'
    BY <1>1 DEF CallLock, RawNode, SuccessorIsSecond,
       TypeOK, Goto, Waiting, Owning
  <2> QED
    BY <2>1, <2>2, <2>3, <2>4, <2>5
<1>2. ASSUME NEW t \in Threads, CallTryLock(t) PROVE QueueInvariant'
  <2>1. QueueIsMembers'
    BY <1>2 DEF CallTryLock, RawNode, QueueIsMembers,
       TypeOK, Goto, Waiting, Owning
  <2>2. TailIsLast'
    BY <1>2 DEF CallTryLock, RawNode, QueueIsMembers, TailIsLast,
       TypeOK, Goto, Waiting, Owning
  <2>3. OthersWait'
    BY <1>2 DEF CallTryLock, RawNode, QueueIsMembers, OthersWait,
       TypeOK, Goto, Waiting, Owning
  <2>4. FirstMayRun'
    BY <1>2 DEF CallTryLock, RawNode, FirstMayRun,
       TypeOK, Goto, Waiting, Owning
  <2>5. SuccessorIsSecond'
    BY <1>2 DEF CallTryLock, RawNode, SuccessorIsSecond,
       TypeOK, Goto, Waiting, Owning
  <2> QED
    BY <2>1, <2>2, <2>3, <2>4, <2>5
<1>3. ASSUME NEW t \in Threads, InitNext(t) PROVE QueueInvariant'
  <2>1. QueueIsMembers'
    BY <1>3 DEF InitNext, QueueIsMembers,
       TypeOK, Goto, Waiting, Owning
  <2>2. TailIsLast'
    BY <1>3 DEF InitNext, TailIsLast,
       TypeOK, Goto, Waiting, Owning
  <2>3. OthersWait'
    BY <1>3 DEF InitNext, QueueIsMembers, OthersWait,
       TypeOK, Goto, Waiting, Owning
  <2>4. FirstMayRun'
    BY <1>3 DEF InitNext, FirstMayRun,
       TypeOK, Goto, Waiting, Owning
  <2>5. SuccessorIsSecond'
    BY <1>3 DEF InitNext, SuccessorIsSecond,
       TypeOK, Goto, Waiting, Owning
  <2> QED
    BY <2>1, <2>2, <2>3, <2>4, <2>5
<1>4. ASSUME NEW t \in Threads, TryInitNext(t) PROVE QueueInvariant'
  <2>1. QueueIsMembers'
    BY <1>4 DEF TryInitNext, QueueIsMembers,
       TypeOK, Goto, Waiting, Owning
  <2>2. TailIsLast'
    BY <1>4 DEF TryInitNext, TailIsLast,
       TypeOK, Goto, Waiting, Owning
  <2>3. OthersWait'
    BY <1>4 DEF TryInitNext, QueueIsMembers, OthersWait,
       TypeOK, Goto, Waiting, Owning
  <2>4. FirstMayRun'
    BY <1>4 DEF TryInitNext, FirstMayRun,
       TypeOK, Goto, Waiting, Owning
  <2>5. SuccessorIsSecond'
    BY <1>4 DEF TryInitNext, SuccessorIsSecond,
       TypeOK, Goto, Waiting, Owning
  <2> QED
    BY <2>1, <2>2, <2>3, <2>4, <2>5
<1>5. ASSUME NEW t \in Threads, SwapTail(t) PROVE QueueInvariant'
  <2>1. QueueIsMembers'
    BY <1>5, AppendProperties DEF SwapTail, QueueIsMembers,
       TypeOK, Goto, Waiting, Owning
  <2>2. TailIsLast'
    BY <1>5, AppendProperties DEF SwapTail, TailIsLast,
       TypeOK, Goto, Waiting, Owning
  <2>3. OthersWait'
    BY <1>5, AppendProperties DEF SwapTail, QueueIsMembers, TailIsLast, OthersWait, FirstMayRun, SuccessorIsSecond,
       TypeOK, Goto, Waiting, Owning
  <2>4. FirstMayRun'
    BY <1>5, AppendProperties DEF SwapTail, QueueIsMembers, TailIsLast, OthersWait, FirstMayRun, SuccessorIsSecond,
       TypeOK, Goto, Waiting, Owning
  <2>5. SuccessorIsSecond'
    BY <1>5, AppendProperties DEF SwapTail, SuccessorIsSecond,
       TypeOK, Goto, Waiting, Owning
  <2> QED
    BY <2>1, <2>2, <2>3, <2>4, <2>5
<1>6. ASSUME NEW t \in Threads, SetBlocked(t) PROVE QueueInvariant'
  <2>1. QueueIsMembers'
    BY <1>6 DEF SetBlocked, QueueIsMembers,
       TypeOK, Goto, Waiting, Owning
  <2>2. TailIsLast'
    BY <1>6 DEF SetBlocked, TailIsLast,
       TypeOK, Goto, Waiting, Owning
  <2>3. OthersWait'
    BY <1>6 DEF SetBlocked, OthersWait,
       TypeOK, Goto, Waiting, Owning
  <2>4. FirstMayRun'
    BY <1>6 DEF SetBlocked, FirstMayRun,
       TypeOK, Goto, Waiting, Owning
  <2>5. SuccessorIsSecond'
    BY <1>6 DEF SetBlocked, SuccessorIsSecond,
       TypeOK, Goto, Waiting, Owning
  <2> QED
    BY <2>1, <2>2, <2>3, <2>4, <2>5
<1>7. ASSUME NEW t \in Threads, LinkBehind(t) PROVE QueueInvariant'
  <2>1. QueueIsMembers'
    BY <1>7 DEF LinkBehind, QueueIsMembers,
       TypeOK, Goto, Waiting, Owning
  <2>2. TailIsLast'
    BY <1>7, SMTT(30) DEF LinkBehind, QueueIsMembers, TailIsLast, OthersWait, FirstMayRun,
       TypeOK, Goto, Waiting, Owning
  <2>3. OthersWait'
    BY <1>7 DEF LinkBehind, QueueIsMembers, OthersWait, FirstMayRun,
       TypeOK, Goto, Waiting, Owning
  <2>4. FirstMayRun'
    BY <1>7 DEF LinkBehind, FirstMayRun,
       TypeOK, Goto, Waiting, Owning
  <2>5. SuccessorIsSecond'
    BY <1>7 DEF LinkBehind, QueueIsMembers, OthersWait, SuccessorIsSecond,
       TypeOK, Goto, Waiting, Owning
  <2> QED
    BY <2>1, <2>2, <2>3, <2>4, <2>5
<1>8. ASSUME NEW t \in Threads, StopSpinning(t) PROVE QueueInvariant'
  <2>1. QueueIsMembers'
    BY <1>8 DEF StopSpinning, QueueIsMembers, TailIsLast, OthersWait, FirstMayRun, SuccessorIsSecond,
       TypeOK, Goto, Waiting, Owning
  <2>2. TailIsLast'
    BY <1>8 DEF StopSpinning, TailIsLast,
       TypeOK, Goto, Waiting, Owning
  <2>3. OthersWait'
    BY <1>8 DEF StopSpinning, OthersWait,
       TypeOK, Goto, Waiting, Owning
  <2>4. FirstMayRun'
    BY <1>8 DEF StopSpinning, FirstMayRun,
       TypeOK, Goto, Waiting, Owning
  <2>5. SuccessorIsSecond'
    BY <1>8 DEF StopSpinning, SuccessorIsSecond,
       TypeOK, Goto, Waiting, Owning
  <2> QED
    BY <2>1, <2>2, <2>3, <2>4, <2>5
<1>9. ASSUME NEW t \in Threads, TryCasTail(t) PROVE QueueInvariant'
  <2>1. QueueIsMembers'
    BY <1>9 DEF TryCasTail, QueueIsMembers, TailIsLast, OthersWait, FirstMayRun, SuccessorIsSecond,
       TypeOK, Goto, Waiting, Owning
  <2>2. TailIsLast'
    BY <1>9 DEF TryCasTail, TailIsLast,
       TypeOK, Goto, Waiting, Owning
  <2>3. OthersWait'
    BY <1>9 DEF TryCasTail, QueueIsMembers, TailIsLast, OthersWait, FirstMayRun, SuccessorIsSecond,
       TypeOK, Goto, Waiting, Owning
  <2>4. FirstMayRun'
    BY <1>9 DEF TryCasTail, QueueIsMembers, TailIsLast, OthersWait, FirstMayRun, SuccessorIsSecond,
       TypeOK, Goto, Waiting, Owning
  <2>5. SuccessorIsSecond'
    BY <1>9, AppendProperties DEF TryCasTail, SuccessorIsSecond,
       TypeOK, Goto, Waiting, Owning
  <2> QED
    BY <2>1, <2>2, <2>3, <2>4, <2>5
<1>10. ASSUME NEW t \in Threads, CallUnlock(t) PROVE QueueInvariant'
  <2>1. QueueIsMembers'
    BY <1>10 DEF CallUnlock, QueueIsMembers,
       TypeOK, Goto, Waiting, Owning
  <2>2. TailIsLast'
    BY <1>10 DEF CallUnlock, TailIsLast,
       TypeOK, Goto, Waiting, Owning
  <2>3. OthersWait'
    BY <1>10 DEF CallUnlock, OthersWait,
       TypeOK, Goto, Waiting, Owning
  <2>4. FirstMayRun'
    BY <1>10 DEF CallUnlock, FirstMayRun,
       TypeOK, Goto, Waiting, Owning
  <2>5. SuccessorIsSecond'
    BY <1>10 DEF CallUnlock, SuccessorIsSecond,
       TypeOK, Goto, Waiting, Owning
  <2> QED
    BY <2>1, <2>2, <2>3, <2>4, <2>5
<1>11. ASSUME NEW t \in Threads, LoadNext(t) PROVE QueueInvariant'
  <2>1. QueueIsMembers'
    BY <1>11 DEF LoadNext, QueueIsMembers,
       TypeOK, Goto, Waiting, Owning
  <2>2. TailIsLast'
    BY <1>11 DEF LoadNext, TailIsLast,
       TypeOK, Goto, Waiting, Owning
  <2>3. OthersWait'
    BY <1>11 DEF LoadNext, OthersWait,
       TypeOK, Goto, Waiting, Owning
  <2>4. FirstMayRun'
    BY <1>11 DEF LoadNext, FirstMayRun,
       TypeOK, Goto, Waiting, Owning
  <2>5. SuccessorIsSecond'
    BY <1>11 DEF LoadNext, QueueIsMembers, TailIsLast, OthersWait, FirstMayRun, SuccessorIsSecond,
       TypeOK, Goto, Waiting, Owning
  <2> QED
    BY <2>1, <2>2, <2>3, <2>4, <2>5
<1>12. ASSUME NEW t \in Threads, CasTail(t) PROVE QueueInvariant'
  <2>1. queue # <<>> /\ queue[1] = t
    BY <1>12, OwnerIsFirst DEF CasTail, Owning
  <2>2. CASE tail = t
    <3>1. Len(queue) = 1
      <4>1. Len(queue) \in Nat \ {0}
        BY <2>1, EmptySeq DEF TypeOK
      <4>2. queue[Len(queue)] = queue[1]
        BY <2>1, <2>2 DEF TailIsLast
      <4>3. 1 \in 1..Len(queue) /\ Len(queue) \in 1..Len(queue)
        BY <4>1
      <4> QED
        BY <4>2, <4>3, Zenon DEF QueueIsMembers
    <3>a. queue' = Tail(queue) /\ tail' = NIL /\ pc' = [pc EXCEPT ![t] = "idle"]
      BY <1>12, <2>2 DEF CasTail, Goto
    <3>b. Tail(queue) \in Seq(Threads) /\ Len(Tail(queue)) = 0
      BY <2>1, <3>1, HeadTailProperties DEF TypeOK
    <3>2. queue' = <<>> /\ tail' = NIL /\ pc' = [pc EXCEPT ![t] = "idle"]
      BY <3>a, <3>b, EmptySeq
    <3>3. \A u \in Threads \ {t} : pc[u] \notin Waiting \cup Owning
      <4> SUFFICES ASSUME NEW u \in Threads, pc[u] \in Waiting \cup Owning PROVE u = t
        OBVIOUS
      <4>1. PICK i \in 1..Len(queue) : queue[i] = u
        BY DEF QueueIsMembers
      <4> QED
        BY <4>1, <2>1, <3>1
    <3> QED
      BY <1>12, <3>2, <3>3 DEF CasTail, QueueIsMembers, TailIsLast, OthersWait, FirstMayRun, SuccessorIsSecond,
       TypeOK, Goto, Waiting, Owning
  <2>3. CASE tail # t
    <3>1. queue' = queue /\ tail' = tail /\ next' = next /\ blocked' = blocked
          /\ pred' = pred /\ succ' = succ /\ pc' = [pc EXCEPT ![t] = "await"]
      BY <1>12, <2>3 DEF CasTail, Goto
    <3>2. QueueIsMembers'
      BY <1>12, <2>1, <2>3, <3>1 DEF CasTail, QueueIsMembers,
       TypeOK, Goto, Waiting, Owning
    <3>3. TailIsLast'
      BY <1>12, <2>1, <2>3, <3>1 DEF CasTail, TailIsLast,
       TypeOK, Goto, Waiting, Owning
    <3>4. OthersWait'
      BY <1>12, <2>1, <2>3, <3>1 DEF CasTail, OthersWait,
       TypeOK, Goto, Waiting, Owning
    <3>5. FirstMayRun'
      BY <1>12, <2>1, <2>3, <3>1 DEF CasTail, FirstMayRun,
       TypeOK, Goto, Waiting, Owning
    <3>6. SuccessorIsSecond'
      BY <1>12, <2>1, <2>3, <3>1 DEF CasTail, QueueIsMembers, TailIsLast, OthersWait, FirstMayRun, SuccessorIsSecond,
       TypeOK, Goto, Waiting, Owning
    <3> QED
      BY <3>2, <3>3, <3>4, <3>5, <3>6
  <2> QED
    BY <2>2, <2>3
<1>13. ASSUME NEW t \in Threads, AwaitNext(t) PROVE QueueInvariant'
  <2>1. QueueIsMembers'
    BY <1>13 DEF AwaitNext, QueueIsMembers,
       TypeOK, Goto, Waiting, Owning
  <2>2. TailIsLast'
    BY <1>13 DEF AwaitNext, TailIsLast,
       TypeOK, Goto, Waiting, Owning
  <2>3. OthersWait'
    BY <1>13 DEF AwaitNext, OthersWait,
       TypeOK, Goto, Waiting, Owning
  <2>4. FirstMayRun'
    BY <1>13 DEF AwaitNext, FirstMayRun,
       TypeOK, Goto, Waiting, Owning
  <2>5. SuccessorIsSecond'
    BY <1>13 DEF AwaitNext, QueueIsMembers, OthersWait, FirstMayRun, SuccessorIsSecond,
       TypeOK, Goto, Waiting, Owning
  <2> QED
    BY <2>1, <2>2, <2>3, <2>4, <2>5
<1>14. ASSUME NEW t \in Threads, Signal(t) PROVE QueueInvariant'
  <2>1. queue # <<>> /\ queue[1] = t
    BY <1>14, OwnerIsFirst DEF Signal, Owning
  <2>2. /\ Len(queue) \in Nat /\ Len(queue) >= 2
        /\ succ[t] = queue[2]
        /\ queue[2] \in Threads \ {t}
        /\ pc[queue[2]] = "spin"
    BY <1>14, <2>1 DEF Signal, QueueIsMembers, TailIsLast, OthersWait, FirstMayRun, SuccessorIsSecond,
       TypeOK, Goto, Waiting, Owning
  <2>3. /\ queue' \in Seq(Threads)
        /\ Len(queue') = Len(queue) - 1
        /\ \A i \in 1..Len(queue') : queue'[i] = queue[i+1]
        /\ queue' # <<>>
    <3>1. queue' = Tail(queue)
      BY <1>14 DEF Signal
    <3>2. /\ Tail(queue) \in Seq(Threads)
          /\ Len(Tail(queue)) = Len(queue) - 1
          /\ \A i \in 1..Len(Tail(queue)) : Tail(queue)[i] = queue[i+1]
      BY <2>1, HeadTailProperties DEF TypeOK
    <3>3. Tail(queue) # <<>>
      <4>1. Len(Tail(queue)) # 0
        BY <2>2, <3>2
      <4> QED
        BY <4>1, EmptySeq
    <3> QED
      BY <3>1, <3>2, <3>3
  <2>4. /\ pc' = [pc EXCEPT ![t] = "idle"]
        /\ blocked' = [blocked EXCEPT ![queue[2]] = FALSE]
        /\ succ' = [succ EXCEPT ![t] = NIL]
        /\ UNCHANGED <<tail, next, pred>>
    BY <1>14, <2>2 DEF Signal, Goto
  <2>5. \A u \in Threads : pc[u] \in Owning => u = t
    BY <2>1, OwnerIsFirst
  <2>6. QueueIsMembers'
    <3>1. \A i, j \in 1..Len(queue') : queue'[i] = queue'[j] => i = j
      BY <2>2, <2>3 DEF QueueIsMembers
    <3>2. ASSUME NEW u \in Threads PROVE Queued(u)' <=> Queued(u) /\ u # t
      <4>1. ASSUME NEW i \in 1..Len(queue'), queue'[i] = u
            PROVE  i+1 \in 1..Len(queue) /\ queue[i+1] = u /\ u # t
        BY <4>1, <2>1, <2>2, <2>3 DEF QueueIsMembers
      <4>2. ASSUME NEW i \in 1..Len(queue), queue[i] = u, u # t
            PROVE  i-1 \in 1..Len(queue') /\ queue'[i-1] = u
        BY <4>2, <2>1, <2>2, <2>3 DEF QueueIsMembers
      <4> QED
        BY <4>1, <4>2
    <3>3. \A u \in Threads : pc'[u] \in Waiting \cup Owning <=> pc[u] \in Waiting \cup Owning /\ u # t
      BY <2>4 DEF TypeOK, Waiting, Owning
    <3> QED
      BY <3>1, <3>2, <3>3 DEF QueueIsMembers
  <2>7. TailIsLast'
    BY <1>14, <2>1, <2>2, <2>3, <2>4, <2>5 DEF TailIsLast,
       TypeOK, Goto, Waiting, Owning
  <2>8. OthersWait'
    BY <1>14, <2>1, <2>2, <2>3, <2>4, <2>5 DEF QueueIsMembers, TailIsLast, OthersWait, FirstMayRun, SuccessorIsSecond,
       TypeOK, Goto, Waiting, Owning
  <2>9. FirstMayRun'
    BY <1>14, <2>1, <2>2, <2>3, <2>4, <2>5 DEF FirstMayRun,
       TypeOK, Goto, Waiting, Owning
  <2>10. SuccessorIsSecond'
    BY <1>14, <2>1, <2>2, <2>3, <2>4, <2>5 DEF SuccessorIsSecond,
       TypeOK, Goto, Waiting, Owning
  <2> QED
    BY <2>6, <2>7, <2>8, <2>9, <2>10
<1>15. CASE UNCHANGED vars
  BY <1>15 DEF vars, QueueIsMembers, TailIsLast, OthersWait, FirstMayRun, SuccessorIsSecond, Queued
<1> QED
  BY <1>1, <1>2, <1>3, <1>4, <1>5, <1>6, <1>7, <1>8, <1>9, <1>10, <1>11, <1>12, <1>13, <1>14, <1>15
     DEF Next, Call, Step

-----------------------------------------------------------------------------
(* The words are well typed in every reachable state, and say what the     *)
(* queue says: the strengthening that the results below rest on.           *)
THEOREM Invariance == Spec => []IInv
<1>1. Init => IInv
  <2>1. Init => QueueInvariant
    BY DEF Init, QueueInvariant, QueueIsMembers, TailIsLast, OthersWait, FirstMayRun,
           SuccessorIsSecond, Queued, Waiting, Owning
  <2> QED
    BY <2>1, InitTypeOK DEF IInv
<1>2. IInv /\ [Next]_vars => IInv'
  BY TypeOKStep, QueueInvariantStep DEF IInv
<1> QED
  BY <1>1, <1>2, PTL DEF Spec

(* Every reachable state is well typed. *)
THEOREM TypeCorrectness == Spec => []TypeOK
<1>1. IInv => TypeOK
  BY DEF IInv
<1> QED
  BY <1>1, Invariance, PTL

(* The words of the lock say what the queue of its users says: the tail is *)
(* the last node (McsLock.cpp:89), only the first may run, and a thread in *)
(* mcsUnlock that is about to wake its successor wakes the second.         *)
THEOREM QueueShape == Spec => []QueueInvariant
<1>1. IInv => QueueInvariant
  BY DEF IInv
<1> QED
  BY <1>1, Invariance, PTL

(* No two threads are between the return of mcsLock and the hand-over of   *)
(* mcsUnlock (McsLock.cpp:117 to McsLock.cpp:184), however many there are. *)
THEOREM Exclusion == Spec => []MutualExclusion
<1>1. IInv => MutualExclusion
  BY OwnerIsFirst DEF IInv, MutualExclusion
<1> QED
  BY <1>1, Invariance, PTL

(* No step of another thread writes to the node of a thread that is not    *)
(* in a call: `predecessor->next = me` hits a queued node, and             *)
(* `successor->blocked = false` the node of a thread that spins.           *)
THEOREM NodesOfReturnedCallsAreLeftAlone == Spec => NodeUntouchedAfterReturn
<1> DEFINE Untouched == \A t \in Threads : pc[t] = "idle" /\ pc'[t] = "idle" =>
                          next'[t] = next[t] /\ blocked'[t] = blocked[t]
<1>1. ASSUME IInv, [Next]_vars PROVE [Untouched]_vars
  <2> SUFFICES ASSUME Next, NEW t \in Threads, pc[t] = "idle", pc'[t] = "idle"
               PROVE  next'[t] = next[t] /\ blocked'[t] = blocked[t]
    BY <1>1
  <2>1. PICK u \in Threads : Call(u) \/ Step(u)
    BY DEF Next
  <2>2. CASE LinkBehind(u)
    <3>1. PICK i \in 1..Len(queue) : queue[i] = u
      BY <1>1, <2>2 DEF LinkBehind, IInv, QueueInvariant, QueueIsMembers, Queued, Waiting
    <3>2. i # 1
      BY <1>1, <2>2, <3>1 DEF LinkBehind, IInv, QueueInvariant, FirstMayRun, Owning, TypeOK
    <3>3. i \in 2..Len(queue) /\ i-1 \in 1..Len(queue) /\ pred[u] = queue[i-1]
      BY <1>1, <3>1, <3>2 DEF IInv, TypeOK, QueueInvariant, OthersWait
    <3>4. pc[pred[u]] # "idle"
      BY <1>1, <3>3 DEF IInv, TypeOK, QueueInvariant, QueueIsMembers, Queued, Waiting, Owning
    <3> QED
      BY <1>1, <2>2, <3>4 DEF LinkBehind, IInv, TypeOK
  <2>3. CASE Signal(u)
    <3>1. succ[u] = queue[2] /\ 2 \in 1..Len(queue)
      BY <1>1, <2>3 DEF Signal, IInv, TypeOK, QueueInvariant, SuccessorIsSecond
    <3>2. pc[succ[u]] # "idle"
      BY <1>1, <3>1 DEF IInv, TypeOK, QueueInvariant, OthersWait, Waiting
    <3> QED
      BY <1>1, <2>3, <3>2 DEF Signal, IInv, TypeOK
  <2>4. CASE CallLock(u) \/ CallTryLock(u)
    BY <1>1, <2>4 DEF CallLock, CallTryLock, RawNode, Goto, IInv, TypeOK
  <2>5. CASE InitNext(u) \/ TryInitNext(u) \/ SetBlocked(u)
    BY <1>1, <2>5 DEF InitNext, TryInitNext, SetBlocked, IInv, TypeOK
  <2>6. CASE \/ SwapTail(u) \/ StopSpinning(u) \/ TryCasTail(u) \/ CallUnlock(u)
             \/ LoadNext(u) \/ CasTail(u) \/ AwaitNext(u)
    BY <2>6 DEF SwapTail, StopSpinning, TryCasTail, CallUnlock, LoadNext, CasTail, AwaitNext
  <2> QED
    BY <2>1, <2>2, <2>3, <2>4, <2>5, <2>6 DEF Call, Step
<1> QED
  BY <1>1, Invariance, PTL DEF Spec, NodeUntouchedAfterReturn

(* McsLock implements the abstract lock: a swap is an arrival, the end of  *)
(* the spin an admission, the successful CAS on tail and the store to      *)
(* `blocked` are the two ways to leave, and every other access changes     *)
(* nothing the abstract lock shows.                                        *)
THEOREM Refinement == Spec => ImplementsFifoLock
<1>1. Init => Fifo!Init
  BY DEF Init, Fifo!Init, Owners, Owning
<1>2. ASSUME IInv, [Next]_vars PROVE [Fifo!Next]_(Fifo!vars)
  <2>1. CASE UNCHANGED vars
    BY <2>1 DEF vars, Fifo!vars, Owners
  <2>2. ASSUME NEW t \in Threads, Call(t) \/ Step(t)
        PROVE  [Fifo!Next]_(Fifo!vars)
    <3> USE DEF IInv, TypeOK
    <3>1. CASE SwapTail(t)
      <4>1. pc' = [pc EXCEPT ![t] = IF tail = NIL THEN "cs" ELSE "block"]
        BY <3>1 DEF SwapTail, Goto
      <4>2. queue' = Append(queue, t) /\ pc[t] = "swap"
        BY <3>1 DEF SwapTail
      <4>3. tail = NIL <=> queue = <<>>
        BY <1>2, NilAssumption, EmptySeq, ElementOfSeq DEF QueueInvariant, TailIsLast
      <4>4. CASE tail = NIL
        <5>1. queue' = <<t>>
          BY <4>2, <4>3, <4>4
        <5>2. Owners' = Owners \cup {t}
          BY <1>2, <4>1, <4>4 DEF Owners, Owning
        <5> QED
          BY <4>3, <4>4, <5>1, <5>2 DEF Fifo!Next, Fifo!ArriveFree
      <4>5. CASE tail # NIL
        <5>1. Owners' = Owners
          BY <1>2, <4>1, <4>2, <4>5 DEF Owners, Owning
        <5>2. ~ Fifo!Queued(t)
          BY <1>2, <4>2 DEF Fifo!Queued, QueueInvariant, QueueIsMembers, Queued, Waiting, Owning
        <5> QED
          BY <4>2, <4>3, <4>5, <5>1, <5>2 DEF Fifo!Next, Fifo!ArriveBusy
      <4> QED
        BY <4>4, <4>5
    <3>2. CASE StopSpinning(t)
      <4>1. queue # <<>> /\ queue[1] = t
        <5>1. PICK i \in 1..Len(queue) : queue[i] = t
          BY <1>2, <3>2 DEF StopSpinning, QueueInvariant, QueueIsMembers, Queued, Waiting
        <5>2. i \notin 2..Len(queue)
          BY <1>2, <3>2, <5>1 DEF StopSpinning, QueueInvariant, OthersWait
        <5> QED
          BY <1>2, <5>1, <5>2
      <4>2. t \notin Owners /\ Owners' = Owners \cup {t}
        BY <1>2, <3>2 DEF StopSpinning, Goto, Owners, Owning
      <4> QED
        BY <3>2, <4>1, <4>2 DEF StopSpinning, Fifo!Next, Fifo!Admit
    <3>3. CASE TryCasTail(t)
      <4>1. CASE tail = NIL
        <5>1. queue = <<>>
          BY <1>2, <4>1, NilAssumption, EmptySeq, ElementOfSeq DEF QueueInvariant, TailIsLast
        <5>2. queue' = <<t>> /\ pc' = [pc EXCEPT ![t] = "cs"]
          BY <3>3, <4>1, <5>1 DEF TryCasTail, Goto
        <5>3. Owners' = Owners \cup {t}
          BY <1>2, <5>2 DEF Owners, Owning
        <5> QED
          BY <5>1, <5>2, <5>3 DEF Fifo!Next, Fifo!ArriveFree
      <4>2. CASE tail # NIL
        <5>1. queue' = queue /\ pc' = [pc EXCEPT ![t] = "idle"] /\ pc[t] = "tryCas"
          BY <3>3, <4>2 DEF TryCasTail, Goto
        <5>2. Owners' = Owners
          BY <1>2, <5>1 DEF Owners, Owning
        <5> QED
          BY <5>1, <5>2 DEF Fifo!vars
      <4> QED
        BY <4>1, <4>2
    <3>4. CASE CasTail(t)
      <4>1. queue # <<>> /\ queue[1] = t
        BY <1>2, <3>4, OwnerIsFirst DEF CasTail, Owning
      <4>2. CASE tail = t
        <5>1. queue' = Tail(queue) /\ pc' = [pc EXCEPT ![t] = "idle"] /\ pc[t] = "cas"
          BY <3>4, <4>2 DEF CasTail, Goto
        <5>2. t \in Owners /\ Owners' = Owners \ {t}
          BY <1>2, <5>1 DEF Owners, Owning
        <5> QED
          BY <4>1, <5>1, <5>2 DEF Fifo!Next, Fifo!Leave
      <4>3. CASE tail # t
        <5>1. queue' = queue /\ pc' = [pc EXCEPT ![t] = "await"] /\ pc[t] = "cas"
          BY <3>4, <4>3 DEF CasTail, Goto
        <5>2. Owners' = Owners
          BY <1>2, <5>1 DEF Owners, Owning
        <5> QED
          BY <5>1, <5>2 DEF Fifo!vars
      <4> QED
        BY <4>2, <4>3
    <3>5. CASE Signal(t)
      <4>1. queue # <<>> /\ queue[1] = t
        BY <1>2, <3>5, OwnerIsFirst DEF Signal, Owning
      <4>2. queue' = Tail(queue) /\ pc' = [pc EXCEPT ![t] = "idle"] /\ pc[t] = "signal"
        BY <3>5 DEF Signal, Goto
      <4>3. t \in Owners /\ Owners' = Owners \ {t}
        BY <1>2, <4>2 DEF Owners, Owning
      <4> QED
        BY <4>1, <4>2, <4>3 DEF Fifo!Next, Fifo!Leave
    <3>6. CASE \/ CallLock(t) \/ CallTryLock(t) \/ InitNext(t) \/ TryInitNext(t)
               \/ SetBlocked(t) \/ LinkBehind(t)
      <4>1. /\ queue' = queue
            /\ pc[t] \notin Owning
            /\ \E p \in Places \ Owning : pc' = [pc EXCEPT ![t] = p]
        BY <3>6 DEF CallLock, CallTryLock, InitNext, TryInitNext, SetBlocked, LinkBehind,
                    Goto, Places, Waiting, Owning
      <4>2. Owners' = Owners
        BY <1>2, <4>1 DEF Owners
      <4> QED
        BY <4>1, <4>2 DEF Fifo!vars
    <3>7. CASE CallUnlock(t) \/ LoadNext(t) \/ AwaitNext(t)
      <4>1. /\ queue' = queue
            /\ pc[t] \in Owning
            /\ \E p \in Owning : pc' = [pc EXCEPT ![t] = p]
        BY <3>7 DEF CallUnlock, LoadNext, AwaitNext, Goto, Owning
      <4>2. Owners' = Owners
        BY <1>2, <4>1 DEF Owners
      <4> QED
        BY <4>1, <4>2 DEF Fifo!vars
    <3> QED
      BY <2>2, <3>1, <3>2, <3>3, <3>4, <3>5, <3>6, <3>7 DEF Call, Step
  <2> QED
    BY <1>2, <2>1, <2>2 DEF Next
<1> QED
  BY <1>1, <1>2, Invariance, PTL DEF Spec, ImplementsFifoLock, Fifo!Safety
=============================================================================
