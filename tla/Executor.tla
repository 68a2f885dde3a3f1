------------------------------- MODULE Executor -------------------------------
(***************************************************************************)
(* The thread pool of rt-lang: rt::Executor, the two BlockingQueues it     *)
(* keeps (waitingTasks, runningTasks) and the life cycle of the rt::Worker *)
(* every task of the laboratory derives from.                              *)
(*                                                                         *)
(* A pool thread runs Executor::Impl::exec, the client thread (main) first *)
(* submits every task and then destroys the executor, which is a call of   *)
(* terminate.  One step is one access to a shared object: an atomic flag,  *)
(* a queue behind its mutex, a mutex or the condition variable threadSync. *)
(***************************************************************************)
EXTENDS Naturals, Sequences, FiniteSets

CONSTANTS
  Threads,   (* threads of the pool, threadList                             *)
  Tasks,     (* the workers the application constructs and submits          *)
  NoTask     (* what an empty BlockingQueue returns                         *)

ASSUME ExecutorAssumption ==
  /\ IsFiniteSet(Threads) /\ Threads # {}
  /\ NoTask \notin Tasks

VARIABLES
  waitingTasks,  (* queue of submitted tasks no thread has taken            *)
  runningTasks,  (* queue of tasks taken, in the order they were taken      *)
  shutdown,      (* the atomic shutdown flag                                *)
  threadSync,    (* threads asleep in threadSync.wait                       *)
  pc,            (* where each pool thread is inside exec                   *)
  next,          (* the task each pool thread has taken, or NoTask          *)
  terminated,    (* Worker: the atomic terminate counter is not zero        *)
  aliveMutex,    (* Worker: the mutex is held, always by run                *)
  mainPc,        (* where the client thread is                              *)
  unsubmitted,   (* tasks main has still to submit                          *)
  target         (* the task main is terminating, or NoTask                 *)

poolVars == <<pc, next>>
workerVars == <<terminated, aliveMutex>>
mainVars == <<mainPc, unsubmitted, target>>
vars == <<waitingTasks, runningTasks, shutdown, threadSync, pc, next,
          terminated, aliveMutex, mainPc, unsubmitted, target>>

ThreadPc == {"top", "get", "add", "run", "loop", "stop", "finished", "remove",
             "idle", "wait", "asleep", "exit"}
MainPc == {"submit", "notify", "terminate", "drain", "interrupt", "await",
             "wakeup", "join", "clear", "done"}

TypeOK ==
  /\ waitingTasks \in Seq(Tasks)
  /\ runningTasks \in Seq(Tasks)
  /\ shutdown \in BOOLEAN
  /\ threadSync \in SUBSET Threads
  /\ pc \in [Threads -> ThreadPc]
  /\ next \in [Threads -> Tasks \cup {NoTask}]
  /\ terminated \in [Tasks -> BOOLEAN]
  /\ aliveMutex \in [Tasks -> BOOLEAN]
  /\ mainPc \in MainPc
  /\ unsubmitted \in SUBSET Tasks
  /\ target \in Tasks \cup {NoTask}

Init ==
  /\ waitingTasks = <<>>
  /\ runningTasks = <<>>
  /\ shutdown = FALSE
  /\ threadSync = {}
  /\ pc = [t \in Threads |-> "top"]
  /\ next = [t \in Threads |-> NoTask]
  /\ terminated = [w \in Tasks |-> FALSE]
  /\ aliveMutex = [w \in Tasks |-> FALSE]
  /\ mainPc = "submit"
  /\ unsubmitted = Tasks
  /\ target = NoTask

(* BlockingQueue::remove for a value that is in the queue at most once *)
Without(queue, e) ==
  IF \E i \in 1..Len(queue) : queue[i] = e
  THEN LET i == CHOOSE j \in 1..Len(queue) : queue[j] = e
       IN  SubSeq(queue, 1, i - 1) \o SubSeq(queue, i + 1, Len(queue))
  ELSE queue

Goto(t, from, to) == pc[t] = from /\ pc' = [pc EXCEPT ![t] = to]
MainGoto(from, to) == mainPc = from /\ mainPc' = to

-----------------------------------------------------------------------------
(* exec: the loop of a pool thread *)

(* while (!shutdown) *)
Top(t) ==
  /\ Goto(t, "top", IF shutdown THEN "exit" ELSE "get")
  /\ UNCHANGED <<waitingTasks, runningTasks, shutdown, threadSync, next,
                 workerVars, mainVars>>

(* mutants: the emptiness test is dropped; the front is read, not removed *)
GetTaskUnchecked(t) ==
  /\ Goto(t, "get", "add")
  /\ next' = [next EXCEPT ![t] =
               IF waitingTasks = <<>> THEN NoTask ELSE Head(waitingTasks)]
  /\ waitingTasks' = IF waitingTasks = <<>> THEN <<>> ELSE Tail(waitingTasks)
  /\ UNCHANGED <<runningTasks, shutdown, threadSync, workerVars, mainVars>>

GetTaskPeeks(t) ==
  /\ waitingTasks # <<>>
  /\ Goto(t, "get", "add")
  /\ next' = [next EXCEPT ![t] = Head(waitingTasks)]
  /\ UNCHANGED <<waitingTasks, runningTasks, shutdown, threadSync, workerVars,
                 mainVars>>

(* waitingTasks.get() with timeout 0 returns the front task ... *)
GetTask(t) ==
  /\ waitingTasks # <<>>
  /\ Goto(t, "get", "add")
  /\ next' = [next EXCEPT ![t] = Head(waitingTasks)]
  /\ waitingTasks' = Tail(waitingTasks)
  /\ UNCHANGED <<runningTasks, shutdown, threadSync, workerVars, mainVars>>

(* ... or nothing *)
GetNothing(t) ==
  /\ waitingTasks = <<>>
  /\ Goto(t, "get", "idle")
  /\ UNCHANGED <<waitingTasks, runningTasks, shutdown, threadSync, next,
                 workerVars, mainVars>>

(* runningTasks.add(task) *)
AddRunning(t) ==
  /\ Goto(t, "add", "run")
  /\ runningTasks' = Append(runningTasks, next[t])
  /\ UNCHANGED <<waitingTasks, shutdown, threadSync, next, workerVars, mainVars>>

(* runningTasks.remove(task), skipped once the shutdown flag is up *)
Finished(t) ==
  /\ Goto(t, "finished", IF shutdown THEN "top" ELSE "remove")
  /\ next' = IF shutdown THEN [next EXCEPT ![t] = NoTask] ELSE next
  /\ UNCHANGED <<waitingTasks, runningTasks, shutdown, threadSync, workerVars,
                 mainVars>>

RemoveRunning(t) ==
  /\ Goto(t, "remove", "top")
  /\ runningTasks' = Without(runningTasks, next[t])
  /\ next' = [next EXCEPT ![t] = NoTask]
  /\ UNCHANGED <<waitingTasks, shutdown, threadSync, workerVars, mainVars>>

(* else if (!shutdown) *)
Idle(t) ==
  /\ Goto(t, "idle", IF shutdown THEN "top" ELSE "wait")
  /\ UNCHANGED <<waitingTasks, runningTasks, shutdown, threadSync, next,
                 workerVars, mainVars>>

(* threadSync.wait(lock): no predicate is tested under the mutex *)
Wait(t) ==
  /\ Goto(t, "wait", "asleep")
  /\ threadSync' = threadSync \cup {t}
  /\ UNCHANGED <<waitingTasks, runningTasks, shutdown, next, workerVars, mainVars>>

Wakeup(t) ==
  /\ t \notin threadSync
  /\ Goto(t, "asleep", "top")
  /\ UNCHANGED <<waitingTasks, runningTasks, shutdown, threadSync, next,
                 workerVars, mainVars>>

(* the wake up without a notification that the C++ standard allows *)
SpuriousWakeup(t) ==
  /\ t \in threadSync
  /\ threadSync' = threadSync \ {t}
  /\ UNCHANGED <<waitingTasks, runningTasks, shutdown, poolVars, workerVars,
                 mainVars>>

-----------------------------------------------------------------------------
(* Worker::run, called by exec *)

(* mutant: run without the lock_guard *)
RunUnlocked(t) ==
  /\ Goto(t, "run", "loop")
  /\ UNCHANGED <<waitingTasks, runningTasks, shutdown, threadSync, next,
                 workerVars, mainVars>>

(* lock_guard on aliveMutex, then start() *)
Run(t) ==
  /\ Goto(t, "run", "loop")
  /\ ~aliveMutex[next[t]]
  /\ aliveMutex' = [aliveMutex EXCEPT ![next[t]] = TRUE]
  /\ UNCHANGED <<waitingTasks, runningTasks, shutdown, threadSync, next,
                 terminated, mainVars>>

(* while (!terminated) ends; a call of loop() that returns true is a stutter *)
LoopCheck(t) ==
  /\ Goto(t, "loop", "stop")
  /\ terminated[next[t]]
  /\ UNCHANGED <<waitingTasks, runningTasks, shutdown, threadSync, next,
                 workerVars, mainVars>>

(* loop() returns false: break *)
LoopEnds(t) ==
  /\ Goto(t, "loop", "stop")
  /\ ~terminated[next[t]]
  /\ UNCHANGED <<waitingTasks, runningTasks, shutdown, threadSync, next,
                 workerVars, mainVars>>

(* loop() throws: the lock_guard releases, stop() and the flag are skipped *)
LoopThrows(t) ==
  /\ Goto(t, "loop", "finished")
  /\ ~terminated[next[t]]
  /\ aliveMutex' = [aliveMutex EXCEPT ![next[t]] = FALSE]
  /\ UNCHANGED <<waitingTasks, runningTasks, shutdown, threadSync, next,
                 terminated, mainVars>>

(* stop(), terminated = 1, and aliveMutex is released *)
Stop(t) ==
  /\ Goto(t, "stop", "finished")
  /\ terminated' = [terminated EXCEPT ![next[t]] = TRUE]
  /\ aliveMutex' = [aliveMutex EXCEPT ![next[t]] = FALSE]
  /\ UNCHANGED <<waitingTasks, runningTasks, shutdown, threadSync, next, mainVars>>

(* what the pool does by itself, and how a worker's loop may end by itself *)
PoolStep(t) ==
  \/ Top(t) \/ GetTask(t) \/ GetNothing(t) \/ AddRunning(t)
  \/ Finished(t) \/ RemoveRunning(t) \/ Idle(t) \/ Wait(t) \/ Wakeup(t)
  \/ Run(t) \/ LoopCheck(t) \/ Stop(t)

WorkerStep(t) == LoopEnds(t) \/ LoopThrows(t)

-----------------------------------------------------------------------------
(* the client: submit, then terminate from the destructor *)

(* submit: waitingTasks.add(task) unless shutdown, which only main raises *)
Submit(w) ==
  /\ w \in unsubmitted
  /\ ~shutdown
  /\ MainGoto("submit", "notify")
  /\ waitingTasks' = Append(waitingTasks, w)
  /\ unsubmitted' = unsubmitted \ {w}
  /\ UNCHANGED <<runningTasks, shutdown, threadSync, poolVars, workerVars, target>>

(* mutant: notify_one *)
SubmitNotifyOne ==
  /\ MainGoto("notify", "submit")
  /\ \/ threadSync = {} /\ threadSync' = {}
     \/ \E t \in threadSync : threadSync' = threadSync \ {t}
  /\ UNCHANGED <<waitingTasks, runningTasks, shutdown, poolVars, workerVars,
                 unsubmitted, target>>

(* threadSync.notify_all(), without holding syncMutex *)
SubmitNotify ==
  /\ MainGoto("notify", "submit")
  /\ threadSync' = {}
  /\ UNCHANGED <<waitingTasks, runningTasks, shutdown, poolVars, workerVars,
                 unsubmitted, target>>

(* terminate: shutdown = true *)
Terminate ==
  /\ unsubmitted = {}
  /\ MainGoto("submit", "drain")
  /\ shutdown' = TRUE
  /\ UNCHANGED <<waitingTasks, runningTasks, threadSync, poolVars, workerVars,
                 unsubmitted, target>>

(* while (auto task = runningTasks.get()) *)
Drain ==
  /\ runningTasks # <<>>
  /\ MainGoto("drain", "interrupt")
  /\ target' = Head(runningTasks)
  /\ runningTasks' = Tail(runningTasks)
  /\ UNCHANGED <<waitingTasks, shutdown, threadSync, poolVars, workerVars,
                 unsubmitted>>

Drained ==
  /\ runningTasks = <<>>
  /\ MainGoto("drain", "wakeup")
  /\ UNCHANGED <<waitingTasks, runningTasks, shutdown, threadSync, poolVars,
                 workerVars, unsubmitted, target>>

(* mutant: terminate waits for the mutex without raising the flag *)
InterruptSilently ==
  /\ mainPc = "interrupt"
  /\ mainPc' = IF terminated[target] THEN "drain" ELSE "await"
  /\ target' = IF terminated[target] THEN NoTask ELSE target
  /\ UNCHANGED <<waitingTasks, runningTasks, shutdown, threadSync, poolVars,
                 workerVars, unsubmitted>>

(* Worker::terminate: if (!terminated.fetch_add(1)) wait for aliveMutex *)
Interrupt ==
  /\ mainPc = "interrupt"
  /\ mainPc' = IF terminated[target] THEN "drain" ELSE "await"
  /\ terminated' = [terminated EXCEPT ![target] = TRUE]
  /\ target' = IF terminated[target] THEN NoTask ELSE target
  /\ UNCHANGED <<waitingTasks, runningTasks, shutdown, threadSync, poolVars,
                 aliveMutex, unsubmitted>>

(* "wait until worker finish": lock and unlock aliveMutex *)
AwaitWorker ==
  /\ MainGoto("await", "drain")
  /\ ~aliveMutex[target]
  /\ target' = NoTask
  /\ UNCHANGED <<waitingTasks, runningTasks, shutdown, threadSync, poolVars,
                 workerVars, unsubmitted>>

(* mutant: notify_one *)
NotifyOne ==
  /\ MainGoto("wakeup", "join")
  /\ \/ threadSync = {} /\ threadSync' = {}
     \/ \E t \in threadSync : threadSync' = threadSync \ {t}
  /\ UNCHANGED <<waitingTasks, runningTasks, shutdown, poolVars, workerVars,
                 unsubmitted, target>>

(* "notify waiting threads" *)
NotifyAll ==
  /\ MainGoto("wakeup", "join")
  /\ threadSync' = {}
  /\ UNCHANGED <<waitingTasks, runningTasks, shutdown, poolVars, workerVars,
                 unsubmitted, target>>

(* mutant: the loop over threadList stops after a thread *)
JoinOne ==
  /\ \E t \in Threads : pc[t] = "exit"
  /\ MainGoto("join", "clear")
  /\ UNCHANGED <<waitingTasks, runningTasks, shutdown, threadSync, poolVars,
                 workerVars, unsubmitted, target>>

(* "joint all threads" *)
Join ==
  /\ \A t \in Threads : pc[t] = "exit"
  /\ MainGoto("join", "clear")
  /\ UNCHANGED <<waitingTasks, runningTasks, shutdown, threadSync, poolVars,
                 workerVars, unsubmitted, target>>

(* "finally remove waiting tasks" *)
ClearWaiting ==
  /\ MainGoto("clear", "done")
  /\ waitingTasks' = <<>>
  /\ UNCHANGED <<runningTasks, shutdown, threadSync, poolVars, workerVars,
                 unsubmitted, target>>

MainStep ==
  \/ \E w \in Tasks : Submit(w)
  \/ SubmitNotify \/ Drain \/ Drained \/ Interrupt \/ AwaitWorker
  \/ NotifyAll \/ Join \/ ClearWaiting

-----------------------------------------------------------------------------
Next ==
  \/ \E t \in Threads : PoolStep(t) \/ WorkerStep(t) \/ SpuriousWakeup(t)
  \/ MainStep \/ Terminate

Spec == Init /\ [][Next]_vars

(***************************************************************************)
(* The operating system schedules every thread: a thread that can go on    *)
(* goes on.  Nothing is assumed of a spurious wake up, a worker's loop is  *)
(* not required to end by itself, and the user is not required to quit.    *)
(***************************************************************************)
FairSpec ==
  /\ Spec
  /\ \A t \in Threads : WF_vars(PoolStep(t))
  /\ WF_vars(MainStep)

-----------------------------------------------------------------------------
(* Safety *)

Held(t) == pc[t] \notin {"top", "get", "idle", "wait", "asleep", "exit"}
InRun(t) == pc[t] \in {"loop", "stop"}

(* A task is never run by two threads of the pool, and never waits again     *)
(* while a thread has it: get() hands each submitted worker to one thread.   *)
ExclusiveTask ==
  /\ \A t \in Threads : Held(t) <=> next[t] # NoTask
  /\ \A t, u \in Threads : t # u /\ Held(t) => next[t] # next[u]
  /\ \A i \in 1..Len(waitingTasks), t \in Threads : waitingTasks[i] # next[t]
  /\ \A i, j \in 1..Len(waitingTasks) : i # j => waitingTasks[i] # waitingTasks[j]

(* aliveMutex is held exactly while a pool thread is inside Worker::run, the *)
(* fact Worker::terminate relies on to wait for the end of the worker.       *)
MutexMeansRunning ==
  \A w \in Tasks : aliveMutex[w] <=> \E t \in Threads : InRun(t) /\ next[t] = w

(* When the executor has joined its threads nothing of the pool is left: no  *)
(* worker is inside run, no thread has a task or sleeps on threadSync.       *)
QuietAfterJoin ==
  mainPc \in {"clear", "done"} =>
    /\ \A w \in Tasks : ~aliveMutex[w]
    /\ \A t \in Threads : next[t] = NoTask
    /\ threadSync = {}

-----------------------------------------------------------------------------
(* Liveness *)

(* A task that is waiting when a submit notifies, with at least as many      *)
(* threads asleep as tasks waiting, is taken: notify_all wakes every         *)
(* sleeper and each looks at the queue again before it sleeps.               *)
NotifiedTaskStarts ==
  \A w \in Tasks :
    (/\ mainPc = "notify"
     /\ \E i \in 1..Len(waitingTasks) : waitingTasks[i] = w
     /\ Cardinality(threadSync) >= Len(waitingTasks))
      ~> (shutdown \/ \A i \in 1..Len(waitingTasks) : waitingTasks[i] # w)

(* Worker::terminate returns: main never waits for ever for aliveMutex, the  *)
(* worker it waits for has been told and its loop ends.                      *)
WorkerTerminateReturns == (mainPc = "await") ~> (mainPc = "drain")

(* The pool is settled when every thread sleeps on threadSync or is in the   *)
(* loop of its worker.                                                       *)
Settled == \A t \in Threads : t \in threadSync \/ pc[t] = "loop"

(* Closing an executor whose pool has settled completes: every running       *)
(* worker is told, every sleeper is woken, every thread is joined.           *)
SettledShutdownCompletes ==
  (mainPc = "drain" /\ Settled) ~> (mainPc = "done")

(* What terminate says of itself ("now waiting for completion of all         *)
(* executor threads ... all threads terminated"), whenever it is called.     *)
ShutdownCompletes == (mainPc = "drain") ~> (mainPc = "done")
=============================================================================
