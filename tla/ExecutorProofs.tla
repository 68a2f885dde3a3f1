---------------------------- MODULE ExecutorProofs ----------------------------
(***************************************************************************)
(* The safety of the executor for any number of threads and tasks.  Inv    *)
(* adds to the three invariants the facts that carry them from one step to *)
(* the next: where a task can be (Placed), who sleeps (Sleepers), and that *)
(* nobody leaves "exit" (Joined).                                          *)
(***************************************************************************)
EXTENDS Executor, SequenceTheorems, TLAPS

(* A task is unsubmitted, in waitingTasks at one place, or with one thread. *)
Placed ==
  /\ \A i \in 1..Len(waitingTasks) : waitingTasks[i] \notin unsubmitted
  /\ \A t \in Threads : next[t] \notin unsubmitted

(* The wait set of threadSync holds only threads that are in wait. *)
Sleepers == \A t \in threadSync : pc[t] = "asleep"

(* Past the join every thread has left exec. *)
Joined == mainPc \in {"clear", "done"} => \A t \in Threads : pc[t] = "exit"

Inv ==
  /\ TypeOK
  /\ ExclusiveTask
  /\ MutexMeansRunning
  /\ Placed
  /\ Sleepers
  /\ Joined

-----------------------------------------------------------------------------
(* What Append and Tail do to the elements of a queue. *)
LEMMA AppendElements ==
  ASSUME NEW S, NEW s \in Seq(S), NEW e \in S
  PROVE  /\ Append(s, e) \in Seq(S)
         /\ Len(Append(s, e)) = Len(s) + 1
         /\ \A i \in 1..Len(s) : Append(s, e)[i] = s[i]
         /\ Append(s, e)[Len(s) + 1] = e
  BY AppendProperties

LEMMA TailElements ==
  ASSUME NEW S, NEW s \in Seq(S), s # <<>>
  PROVE  /\ Head(s) \in S
         /\ Head(s) = s[1]
         /\ 1 \in 1..Len(s)
         /\ Tail(s) \in Seq(S)
         /\ Len(Tail(s)) = Len(s) - 1
         /\ \A i \in 1..Len(Tail(s)) : i + 1 \in 1..Len(s) /\ Tail(s)[i] = s[i + 1]
  <1>1. Len(s) \in Nat /\ Len(s) # 0
    BY EmptySeq, LenProperties
  <1>2. Tail(s) \in Seq(S) /\ Len(Tail(s)) = Len(s) - 1
    BY HeadTailProperties
  <1>3. \A i \in 1..Len(Tail(s)) : i + 1 \in 1..Len(s) /\ Tail(s)[i] = s[i + 1]
    BY <1>1, <1>2, HeadTailProperties
  <1>4. Head(s) = s[1] /\ Head(s) \in S
    BY HeadTailProperties, ElementOfSeq, <1>1
  <1> QED
    BY <1>1, <1>2, <1>3, <1>4

(* Removing an element leaves a queue of the same kind of elements. *)
LEMMA WithoutType ==
  ASSUME NEW S, NEW s \in Seq(S), NEW e
  PROVE  Without(s, e) \in Seq(S)
  <1>1. CASE \E i \in 1..Len(s) : s[i] = e
    <2> DEFINE i == CHOOSE j \in 1..Len(s) : s[j] = e
    <2>1. i \in 1..Len(s)
      BY <1>1
    <2>2. Len(s) \in Nat
      BY LenProperties
    <2>3. SubSeq(s, 1, i - 1) \in Seq(S)
      <3> HIDE DEF i
      <3> QED
        BY <2>1, <2>2, SubSeqProperties, ElementOfSeq
    <2>4. SubSeq(s, i + 1, Len(s)) \in Seq(S)
      <3> HIDE DEF i
      <3> QED
        BY <2>1, <2>2, SubSeqProperties, ElementOfSeq
    <2>5. Without(s, e) = SubSeq(s, 1, i - 1) \o SubSeq(s, i + 1, Len(s))
      BY <1>1 DEF Without
    <2> QED
      <3> HIDE DEF i
      <3> QED
        BY <2>3, <2>4, <2>5, ConcatProperties
  <1>2. CASE ~\E i \in 1..Len(s) : s[i] = e
    BY <1>2 DEF Without
  <1> QED
    BY <1>1, <1>2

-----------------------------------------------------------------------------
LEMMA InitInv == Init => Inv
  <1> SUFFICES ASSUME Init PROVE Inv
    OBVIOUS
  <1>1. TypeOK
    <2>1. <<>> \in Seq(Tasks)
      BY EmptySeq
    <2> QED
      BY <2>1 DEF Init, TypeOK, ThreadPc, MainPc
  <1>2. waitingTasks = <<>> /\ Len(waitingTasks) = 0
    BY EmptySeq DEF Init
  <1>3. \A t \in Threads : pc[t] = "top" /\ next[t] = NoTask
    BY DEF Init
  <1>4. ExclusiveTask
    BY <1>2, <1>3 DEF ExclusiveTask, Held
  <1>5. MutexMeansRunning
    BY <1>3 DEF Init, MutexMeansRunning, InRun
  <1>6. Placed
    BY <1>2, <1>3, ExecutorAssumption DEF Init, Placed, ExecutorAssumption
  <1>7. Sleepers /\ Joined
    BY DEF Init, Sleepers, Joined
  <1> QED
    BY <1>1, <1>4, <1>5, <1>6, <1>7 DEF Inv

(* A thread only ever moves from one named place of exec to another. *)
LEMMA GotoType ==
  ASSUME TypeOK, NEW t \in Threads, NEW from, NEW to \in ThreadPc,
         Goto(t, from, to)
  PROVE  /\ pc[t] = from
         /\ pc' \in [Threads -> ThreadPc]
         /\ pc'[t] = to
         /\ \A u \in Threads : u # t => pc'[u] = pc[u]
  BY DEF Goto, TypeOK

(* Steps of a pool thread that leave its task, the queues, the worker flags  *)
(* and main alone, and move between places that agree on Held and InRun.     *)
LEMMA QuietStep ==
  ASSUME Inv, NEW t \in Threads, NEW from, NEW to \in ThreadPc,
         Goto(t, from, to),
         from \notin {"asleep", "exit"},
         from \in {"loop", "stop"} <=> to \in {"loop", "stop"},
         from \in {"top", "get", "idle", "wait", "asleep", "exit"}
            <=> to \in {"top", "get", "idle", "wait", "asleep", "exit"},
         threadSync' = threadSync \/ (to = "asleep" /\ threadSync' = threadSync \cup {t}),
         runningTasks' \in Seq(Tasks),
         UNCHANGED <<waitingTasks, shutdown, next, workerVars, mainVars>>
  PROVE  Inv'
  <1> USE DEF Inv
  <1>0. /\ pc[t] = from
        /\ pc' \in [Threads -> ThreadPc]
        /\ pc'[t] = to
        /\ \A u \in Threads : u # t => pc'[u] = pc[u]
    BY GotoType
  <1>1. TypeOK'
    BY <1>0 DEF TypeOK, workerVars, mainVars
  <1>2. \A u \in Threads : (Held(u) <=> Held(u)') /\ (InRun(u) <=> InRun(u)')
    BY <1>0 DEF Held, InRun
  <1>3. ExclusiveTask'
    BY <1>2 DEF ExclusiveTask
  <1>4. MutexMeansRunning'
    BY <1>2 DEF MutexMeansRunning, workerVars
  <1>5. Placed'
    BY DEF Placed, mainVars
  <1>6. Sleepers'
    BY <1>0 DEF Sleepers, TypeOK
  <1>7. Joined'
    BY <1>0 DEF Joined, mainVars
  <1> QED
    BY <1>1, <1>3, <1>4, <1>5, <1>6, <1>7

LEMMA TopInv == ASSUME Inv, NEW t \in Threads, Top(t) PROVE Inv'
  <1>1. (IF shutdown THEN "exit" ELSE "get") \in {"exit", "get"}
    OBVIOUS
  <1> QED
    BY <1>1, QuietStep DEF Top, ThreadPc, Inv, TypeOK
LEMMA GetNothingInv == ASSUME Inv, NEW t \in Threads, GetNothing(t) PROVE Inv'
  BY QuietStep DEF GetNothing, ThreadPc, Inv, TypeOK
LEMMA AddRunningInv == ASSUME Inv, NEW t \in Threads, AddRunning(t) PROVE Inv'
  <1>1. next[t] \in Tasks
    BY DEF AddRunning, Goto, Inv, TypeOK, ExclusiveTask, Held
  <1>2. runningTasks' \in Seq(Tasks)
    BY <1>1, AppendElements DEF AddRunning, Inv, TypeOK
  <1> QED
    BY <1>2, QuietStep DEF AddRunning, ThreadPc
LEMMA IdleInv == ASSUME Inv, NEW t \in Threads, Idle(t) PROVE Inv'
  <1>1. (IF shutdown THEN "top" ELSE "wait") \in {"top", "wait"}
    OBVIOUS
  <1> QED
    BY <1>1, QuietStep DEF Idle, ThreadPc, Inv, TypeOK
LEMMA WaitInv == ASSUME Inv, NEW t \in Threads, Wait(t) PROVE Inv'
  BY QuietStep DEF Wait, ThreadPc, Inv, TypeOK
LEMMA LoopLeftInv ==
  ASSUME Inv, NEW t \in Threads, LoopCheck(t) \/ LoopEnds(t) PROVE Inv'
  BY QuietStep DEF LoopCheck, LoopEnds, ThreadPc, Inv, TypeOK

(* A thread that takes the front task takes it out of everybody's reach. *)
LEMMA GetTaskInv == ASSUME Inv, NEW t \in Threads, GetTask(t) PROVE Inv'
  <1> USE DEF Inv
  <1> DEFINE w == Head(waitingTasks)
  <1>0. /\ pc[t] = "get" /\ pc' \in [Threads -> ThreadPc] /\ pc'[t] = "add"
        /\ \A u \in Threads : u # t => pc'[u] = pc[u]
    <2>1. Goto(t, "get", "add") /\ "add" \in ThreadPc
      BY DEF GetTask, ThreadPc
    <2> QED
      BY <2>1, GotoType
  <1>1. /\ w \in Tasks
        /\ w = waitingTasks[1]
        /\ 1 \in 1..Len(waitingTasks)
        /\ waitingTasks' \in Seq(Tasks)
        /\ \A i \in 1..Len(waitingTasks') :
             i + 1 \in 1..Len(waitingTasks) /\ waitingTasks'[i] = waitingTasks[i + 1]
    BY TailElements DEF GetTask, TypeOK
  <1>2. /\ next' \in [Threads -> Tasks \cup {NoTask}]
        /\ next'[t] = w
        /\ \A u \in Threads : u # t => next'[u] = next[u]
    BY <1>1 DEF GetTask, TypeOK
  <1>3. w # NoTask
    BY <1>1, ExecutorAssumption DEF ExecutorAssumption
  <1>4. \A u \in Threads : next[u] # w
    BY <1>1 DEF ExclusiveTask
  <1> HIDE DEF w
  <1>5. TypeOK'
    BY <1>0, <1>1, <1>2 DEF TypeOK, GetTask, workerVars, mainVars
  <1>6. ExclusiveTask'
    <2>1. \A u \in Threads : (Held(u) <=> next[u] # NoTask)'
      BY <1>0, <1>2, <1>3 DEF ExclusiveTask, Held
    <2>2. \A u, v \in Threads : (u # v /\ Held(u) => next[u] # next[v])'
      <3>1. SUFFICES ASSUME NEW u \in Threads, NEW v \in Threads, u # v, Held(u)'
                     PROVE  next'[u] # next'[v]
        OBVIOUS
      <3>2. u # t => Held(u)
        BY <1>0, <3>1 DEF Held
      <3> QED
        BY <1>2, <1>4, <3>1, <3>2 DEF ExclusiveTask
    <2>3. \A i \in 1..Len(waitingTasks'), u \in Threads : waitingTasks'[i] # next'[u]
      <3>1. SUFFICES ASSUME NEW i \in 1..Len(waitingTasks'), NEW u \in Threads
                     PROVE  waitingTasks[i + 1] # next'[u]
        BY <1>1
      <3>2. i + 1 # 1 /\ i + 1 \in 1..Len(waitingTasks)
        BY <1>1
      <3>3. waitingTasks[i + 1] # w
        BY <3>2, <1>1 DEF ExclusiveTask
      <3>4. waitingTasks[i + 1] # next[u]
        BY <3>2 DEF ExclusiveTask
      <3> QED
        BY <3>3, <3>4, <1>2
    <2>4. \A i, j \in 1..Len(waitingTasks') : i # j => waitingTasks'[i] # waitingTasks'[j]
      BY <1>1 DEF ExclusiveTask
    <2> QED
      BY <2>1, <2>2, <2>3, <2>4 DEF ExclusiveTask
  <1>7. MutexMeansRunning'
    <2>1. \A u \in Threads : InRun(u)' <=> InRun(u)
      BY <1>0 DEF InRun
    <2>2. \A u \in Threads : InRun(u) => u # t
      BY <1>0 DEF InRun
    <2> QED
      BY <2>1, <2>2, <1>2 DEF MutexMeansRunning, GetTask, workerVars
  <1>8. Placed'
    BY <1>1, <1>2 DEF Placed, GetTask, mainVars
  <1>9. Sleepers' /\ Joined'
    BY <1>0 DEF Sleepers, Joined, GetTask, mainVars, TypeOK
  <1> QED
    BY <1>5, <1>6, <1>7, <1>8, <1>9

(* A thread that lets go of its task, or keeps it and moves on. *)
LEMMA ReleaseInv ==
  ASSUME Inv, NEW t \in Threads, Finished(t) \/ RemoveRunning(t) PROVE Inv'
  <1> USE DEF Inv
  <1>0. /\ pc[t] \in {"finished", "remove"}
        /\ pc' \in [Threads -> ThreadPc]
        /\ \A u \in Threads : u # t => pc'[u] = pc[u]
        /\ \/ pc'[t] = "top" /\ next' = [next EXCEPT ![t] = NoTask]
           \/ pc'[t] = "remove" /\ next' = next
    BY DEF Finished, RemoveRunning, Goto, TypeOK, ThreadPc
  <1>1. /\ next' \in [Threads -> Tasks \cup {NoTask}]
        /\ \A u \in Threads : u # t => next'[u] = next[u]
        /\ pc'[t] = "top" => next'[t] = NoTask
        /\ pc'[t] # "top" => next'[t] = next[t]
    BY <1>0 DEF TypeOK
  <1>2. /\ waitingTasks' = waitingTasks /\ aliveMutex' = aliveMutex
        /\ unsubmitted' = unsubmitted /\ mainPc' = mainPc
        /\ threadSync' = threadSync
    BY DEF Finished, RemoveRunning, workerVars, mainVars
  <1>3. TypeOK'
    <2>1. runningTasks' \in Seq(Tasks)
      BY WithoutType DEF Finished, RemoveRunning, TypeOK
    <2> QED
      BY <1>0, <1>1, <1>2, <2>1
         DEF TypeOK, Finished, RemoveRunning, workerVars, mainVars
  <1>4. NoTask \notin Tasks
    BY ExecutorAssumption DEF ExecutorAssumption
  <1>5. ExclusiveTask'
    <2>1. \A i \in 1..Len(waitingTasks) : waitingTasks[i] # NoTask
      BY <1>4, ElementOfSeq, LenProperties DEF TypeOK
    <2>2. \A u \in Threads : (Held(u) <=> next[u] # NoTask)'
      BY <1>0, <1>1 DEF ExclusiveTask, Held
    <2>3. \A u, v \in Threads : (u # v /\ Held(u) => next[u] # next[v])'
      <3>1. SUFFICES ASSUME NEW u \in Threads, NEW v \in Threads, u # v, Held(u)'
                     PROVE  next'[u] # next'[v]
        OBVIOUS
      <3>2. Held(u) /\ next'[u] = next[u] /\ next[u] # NoTask
        BY <1>0, <1>1, <3>1 DEF Held, ExclusiveTask
      <3> QED
        BY <1>0, <1>1, <3>1, <3>2 DEF ExclusiveTask
    <2>4. \A i \in 1..Len(waitingTasks), u \in Threads : waitingTasks[i] # next'[u]
      BY <2>1, <1>0, <1>1 DEF ExclusiveTask
    <2> QED
      BY <2>2, <2>3, <2>4, <1>2 DEF ExclusiveTask
  <1>6. MutexMeansRunning'
    <2>1. \A u \in Threads : InRun(u)' <=> InRun(u)
      BY <1>0 DEF InRun
    <2>2. \A u \in Threads : InRun(u) => u # t
      BY <1>0 DEF InRun
    <2> QED
      BY <2>1, <2>2, <1>1, <1>2 DEF MutexMeansRunning
  <1>7. Placed'
    BY <1>0, <1>1, <1>2, <1>4 DEF Placed, TypeOK
  <1>8. Sleepers' /\ Joined'
    BY <1>0, <1>2 DEF Sleepers, Joined, TypeOK
  <1> QED
    BY <1>3, <1>5, <1>6, <1>7, <1>8

(* Waking up, by a notification or by itself, changes only the wait set. *)
LEMMA WakeInv ==
  ASSUME Inv, NEW t \in Threads, Wakeup(t) \/ SpuriousWakeup(t) PROVE Inv'
  <1> USE DEF Inv
  <1>1. /\ pc' \in [Threads -> ThreadPc]
        /\ \A u \in Threads : u # t => pc'[u] = pc[u]
        /\ pc'[t] = pc[t] \/ (pc[t] = "asleep" /\ pc'[t] = "top" /\ t \notin threadSync)
        /\ threadSync' \subseteq threadSync
        /\ next' = next
    BY DEF Wakeup, SpuriousWakeup, Goto, TypeOK, ThreadPc, poolVars
  <1>2. UNCHANGED <<waitingTasks, runningTasks, shutdown, workerVars, mainVars>>
    BY DEF Wakeup, SpuriousWakeup
  <1>3. \A u \in Threads : (Held(u) <=> Held(u)') /\ (InRun(u) <=> InRun(u)')
    BY <1>1 DEF Held, InRun
  <1>4. TypeOK'
    BY <1>1, <1>2 DEF TypeOK, workerVars, mainVars
  <1>5. ExclusiveTask'
    BY <1>1, <1>2, <1>3 DEF ExclusiveTask
  <1>6. MutexMeansRunning'
    BY <1>1, <1>2, <1>3 DEF MutexMeansRunning, workerVars
  <1>7. Placed' /\ Sleepers' /\ Joined'
    BY <1>1, <1>2 DEF Placed, Sleepers, Joined, mainVars, TypeOK
  <1> QED
    BY <1>4, <1>5, <1>6, <1>7

(* Entering and leaving Worker::run takes and releases aliveMutex. *)
LEMMA MutexInv ==
  ASSUME Inv, NEW t \in Threads, Run(t) \/ LoopThrows(t) \/ Stop(t) PROVE Inv'
  <1> USE DEF Inv
  <1>1. /\ pc[t] \in {"run", "loop", "stop"}
        /\ pc' \in [Threads -> ThreadPc]
        /\ pc'[t] \in {"loop", "finished"}
        /\ InRun(t) <=> pc'[t] = "finished"
        /\ \A u \in Threads : u # t => pc'[u] = pc[u]
    BY DEF Run, LoopThrows, Stop, Goto, TypeOK, ThreadPc, InRun
  <1>2. /\ next[t] \in Tasks
        /\ \A u \in Threads : u # t => next[u] # next[t]
    BY <1>1 DEF TypeOK, ExclusiveTask, Held
  <1>3. /\ aliveMutex' = [aliveMutex EXCEPT ![next[t]] = (pc'[t] = "loop")]
        /\ UNCHANGED <<waitingTasks, runningTasks, shutdown, threadSync, next, mainVars>>
        /\ terminated' \in [Tasks -> BOOLEAN]
    <2>1. CASE Run(t)
      BY <2>1 DEF Run, Goto, TypeOK
    <2>2. CASE LoopThrows(t)
      BY <2>2 DEF LoopThrows, Goto, TypeOK
    <2>3. CASE Stop(t)
      BY <2>3, <1>2 DEF Stop, Goto, TypeOK
    <2> QED
      BY <2>1, <2>2, <2>3
  <1>4. TypeOK'
    BY <1>1, <1>2, <1>3 DEF TypeOK, mainVars
  <1>5. \A u \in Threads : Held(u) <=> Held(u)'
    BY <1>1 DEF Held
  <1>6. ExclusiveTask'
    BY <1>3, <1>5 DEF ExclusiveTask
  <1>7. MutexMeansRunning'
    <2> SUFFICES ASSUME NEW w \in Tasks
                 PROVE  aliveMutex'[w] <=> \E u \in Threads : InRun(u)' /\ next'[u] = w
      BY DEF MutexMeansRunning
    <2>1. CASE w = next[t]
      <3>1. aliveMutex'[w] <=> pc'[t] = "loop"
        BY <1>2, <1>3, <2>1 DEF TypeOK
      <3>2. InRun(t)' <=> pc'[t] = "loop"
        BY <1>1 DEF InRun
      <3>3. \A u \in Threads : next'[u] = w => u = t
        BY <1>2, <1>3, <2>1
      <3> QED
        BY <3>1, <3>2, <3>3, <1>3, <2>1
    <2>2. CASE w # next[t]
      <3>1. aliveMutex'[w] <=> aliveMutex[w]
        BY <1>3, <2>2 DEF TypeOK
      <3>2. \A u \in Threads : next[u] = w => u # t /\ (InRun(u)' <=> InRun(u))
        BY <1>1, <2>2 DEF InRun
      <3> QED
        BY <3>1, <3>2, <1>3 DEF MutexMeansRunning
    <2> QED
      BY <2>1, <2>2
  <1>8. Placed' /\ Sleepers' /\ Joined'
    BY <1>1, <1>3 DEF Placed, Sleepers, Joined, mainVars, TypeOK
  <1> QED
    BY <1>4, <1>6, <1>7, <1>8

(* submit gives a task that nobody has to the back of the queue. *)
LEMMA SubmitInv == ASSUME Inv, NEW w \in Tasks, Submit(w) PROVE Inv'
  <1> USE DEF Inv
  <1>1. /\ w \in unsubmitted /\ unsubmitted' = unsubmitted \ {w}
        /\ UNCHANGED <<runningTasks, shutdown, threadSync, pc, next, terminated,
                       aliveMutex, target>>
        /\ mainPc' = "notify"
    BY DEF Submit, poolVars, workerVars, MainGoto
  <1>2. /\ waitingTasks' \in Seq(Tasks)
        /\ Len(waitingTasks') = Len(waitingTasks) + 1
        /\ \A i \in 1..Len(waitingTasks) : waitingTasks'[i] = waitingTasks[i]
        /\ waitingTasks'[Len(waitingTasks) + 1] = w
        /\ Len(waitingTasks) \in Nat
    BY AppendElements, LenProperties DEF Submit, TypeOK
  <1>3. \A i \in 1..Len(waitingTasks') :
          \/ i \in 1..Len(waitingTasks) /\ waitingTasks'[i] = waitingTasks[i]
          \/ i = Len(waitingTasks) + 1 /\ waitingTasks'[i] = w
    BY <1>2
  <1>4. \A i \in 1..Len(waitingTasks) : waitingTasks[i] # w
    BY <1>1 DEF Placed
  <1>5. TypeOK'
    BY <1>1, <1>2 DEF TypeOK, MainPc
  <1>6. ExclusiveTask'
    <2>1. \A u \in Threads : Held(u)' <=> Held(u)
      BY <1>1 DEF Held
    <2>2. \A i \in 1..Len(waitingTasks'), u \in Threads : waitingTasks'[i] # next[u]
      BY <1>1, <1>3 DEF ExclusiveTask, Placed
    <2>3. \A i, j \in 1..Len(waitingTasks') : i # j => waitingTasks'[i] # waitingTasks'[j]
      BY <1>3, <1>4 DEF ExclusiveTask
    <2> QED
      BY <2>1, <2>2, <2>3, <1>1 DEF ExclusiveTask
  <1>7. MutexMeansRunning'
    BY <1>1 DEF MutexMeansRunning, InRun
  <1>8. Placed'
    BY <1>1, <1>3, <1>4 DEF Placed
  <1>9. Sleepers' /\ Joined'
    BY <1>1 DEF Sleepers, Joined
  <1> QED
    BY <1>5, <1>6, <1>7, <1>8, <1>9

(* What else the client does leaves every thread and its task alone. *)
LEMMA ClientInv ==
  ASSUME Inv,
         \/ SubmitNotify \/ Terminate \/ Drain \/ Drained \/ Interrupt
         \/ AwaitWorker \/ NotifyAll \/ Join \/ ClearWaiting
  PROVE  Inv'
  <1> USE DEF Inv
  <1>1. UNCHANGED <<pc, next, aliveMutex, unsubmitted>> /\ threadSync' \subseteq threadSync
    BY DEF SubmitNotify, Terminate, Drain, Drained, Interrupt, AwaitWorker, NotifyAll,
           Join, ClearWaiting, poolVars, workerVars, TypeOK
  <1>2. waitingTasks' = waitingTasks \/ waitingTasks' = <<>>
    BY DEF SubmitNotify, Terminate, Drain, Drained, Interrupt, AwaitWorker, NotifyAll,
           Join, ClearWaiting
  <1>3. waitingTasks' \in Seq(Tasks) /\ (waitingTasks' = <<>> => Len(waitingTasks') = 0)
    BY <1>2, EmptySeq DEF TypeOK
  <1>4. runningTasks' \in Seq(Tasks)
    <2>1. \/ UNCHANGED runningTasks
          \/ runningTasks # <<>> /\ runningTasks' = Tail(runningTasks)
      BY DEF SubmitNotify, Terminate, Drain, Drained, Interrupt, AwaitWorker, NotifyAll, Join,
             ClearWaiting
    <2>2. runningTasks \in Seq(Tasks)
      BY DEF TypeOK
    <2>3. runningTasks # <<>> => Tail(runningTasks) \in Seq(Tasks)
      BY <2>2, TailElements
    <2> QED
      BY <2>1, <2>2, <2>3
  <1>5. target' \in Tasks \cup {NoTask}
    BY TailElements DEF SubmitNotify, Terminate, Drain, Drained, Interrupt, AwaitWorker,
       NotifyAll, Join, ClearWaiting, TypeOK
  <1>6. mainPc' \in MainPc /\ shutdown' \in BOOLEAN /\ terminated' \in [Tasks -> BOOLEAN]
    BY DEF SubmitNotify, Terminate, Drain, Drained, Interrupt, AwaitWorker,
       NotifyAll, Join, ClearWaiting, MainGoto, MainPc, TypeOK, workerVars
  <1>7. mainPc' \in {"clear", "done"} => \A t \in Threads : pc[t] = "exit"
    BY DEF SubmitNotify, Terminate, Drain, Drained, Interrupt, AwaitWorker,
       NotifyAll, Join, ClearWaiting, MainGoto, Joined
  <1>8. TypeOK'
    BY <1>1, <1>3, <1>4, <1>5, <1>6 DEF TypeOK
  <1>9. ExclusiveTask'
    BY <1>1, <1>2, <1>3 DEF ExclusiveTask, Held
  <1>10. MutexMeansRunning'
    BY <1>1 DEF MutexMeansRunning, InRun
  <1>11. Placed' /\ Sleepers' /\ Joined'
    BY <1>1, <1>2, <1>3, <1>7 DEF Placed, Sleepers, Joined
  <1> QED
    BY <1>8, <1>9, <1>10, <1>11

-----------------------------------------------------------------------------
LEMMA StepInv == Inv /\ [Next]_vars => Inv'
  <1> SUFFICES ASSUME Inv, [Next]_vars PROVE Inv'
    OBVIOUS
  <1>1. ASSUME NEW t \in Threads, PoolStep(t) PROVE Inv'
    BY <1>1, TopInv, GetTaskInv, GetNothingInv, AddRunningInv, ReleaseInv, IdleInv,
       WaitInv, WakeInv, MutexInv, LoopLeftInv DEF PoolStep
  <1>2. ASSUME NEW t \in Threads, WorkerStep(t) \/ SpuriousWakeup(t) PROVE Inv'
    BY <1>2, LoopLeftInv, MutexInv, WakeInv DEF WorkerStep
  <1>3. ASSUME MainStep \/ Terminate PROVE Inv'
    BY <1>3, SubmitInv, ClientInv DEF MainStep
  <1>4. CASE UNCHANGED vars
    BY <1>4 DEF vars, Inv, TypeOK, ExclusiveTask, MutexMeansRunning, Placed, Sleepers,
       Joined, Held, InRun
  <1> QED
    BY <1>1, <1>2, <1>3, <1>4 DEF Next

THEOREM Invariance == Spec => []Inv
  BY InitInv, StepInv, PTL DEF Spec

(* Every variable of the executor keeps its type, whatever the pool's size. *)
THEOREM TypeCorrect == Spec => []TypeOK
  <1>1. Inv => TypeOK
    BY DEF Inv
  <1> QED
    BY <1>1, Invariance, PTL

(* exec and submit: a worker is with one thread at most, and not also queued. *)
THEOREM TaskIsExclusive == Spec => []ExclusiveTask
  <1>1. Inv => ExclusiveTask
    BY DEF Inv
  <1> QED
    BY <1>1, Invariance, PTL

(* Worker::run: aliveMutex is held exactly while a thread is inside run. *)
THEOREM MutexTellsRunning == Spec => []MutexMeansRunning
  <1>1. Inv => MutexMeansRunning
    BY DEF Inv
  <1> QED
    BY <1>1, Invariance, PTL

(* Executor::terminate: after the join no worker runs and no thread sleeps. *)
THEOREM JoinLeavesNothing == Spec => []QuietAfterJoin
  <1>1. ASSUME Inv PROVE QuietAfterJoin
    <2> SUFFICES ASSUME mainPc \in {"clear", "done"}
                 PROVE  /\ \A w \in Tasks : ~aliveMutex[w]
                        /\ \A t \in Threads : next[t] = NoTask
                        /\ threadSync = {}
      BY DEF QuietAfterJoin
    <2>1. \A t \in Threads : pc[t] = "exit"
      BY <1>1 DEF Inv, Joined
    <2>2. \A w \in Tasks : ~aliveMutex[w]
      BY <1>1, <2>1 DEF Inv, MutexMeansRunning, InRun
    <2>3. \A t \in Threads : next[t] = NoTask
      BY <1>1, <2>1 DEF Inv, ExclusiveTask, Held
    <2>4. threadSync = {}
      BY <1>1, <2>1 DEF Inv, Sleepers, TypeOK
    <2> QED
      BY <2>2, <2>3, <2>4
  <1> QED
    BY <1>1, Invariance, PTL
=============================================================================
