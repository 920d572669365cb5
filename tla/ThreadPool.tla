----------------------------- MODULE ThreadPool -----------------------------
(***************************************************************************)
(* The thread pool of the decoder, class ThreadPool, with worker threads.  *)
(*                                                                         *)
(* The main thread adds tasks to a queue of slots.  Worker threads search  *)
(* the queue for a task whose barriers are unlocked and whose ready check  *)
(* is true, claiming a slot while they look at it, and run it.  A task     *)
(* that is done unlocks its own barrier and decrements a wait counter; the *)
(* counter has a barrier too, so tasks can wait for tasks and for groups   *)
(* of tasks.  A task that returns false goes back into its slot; one that  *)
(* throws passes the exception to its barrier and its counter.  Workers    *)
(* that find nothing spin, then queue up at the idle lock, and the one     *)
(* that holds it sleeps on a condition variable until a task is added.     *)
(*                                                                         *)
(* The program around the pool adds the tasks 1, 2, ..., waits for its     *)
(* counters as Picture::waitForAllTasks does, and shuts the pool down; or  *)
(* it shuts the pool down early, as DecLib::destroy may.                   *)
(***************************************************************************)
EXTENDS Integers, Sequences, FiniteSets

CONSTANTS Threads,       \* the worker threads
          NumTasks,      \* the tasks added, in this order
          Counter,       \* the wait counters
          CounterOf,     \* the counter of each task
          WaitOrder,     \* the counters the program waits for, in this order
          Deps,          \* the barriers of each task: of tasks and of counters
          Polls,         \* the tasks whose progress its ready check looks at
          TwoCalls,      \* tasks that return false at the first call
          MayThrow,      \* tasks that may throw
          MayExitEarly,  \* whether the program may stop adding and waiting
          ChunkSize,     \* slots of a chunk of the queue
          CounterRange,  \* 2^w of the counters' unsigned int
          None           \* no thread

Task == 1 .. NumTasks

ASSUME PoolAssumption ==
  /\ Threads # {} /\ IsFiniteSet(Threads) /\ None \notin Threads
  /\ NumTasks \in Nat
  /\ Counter \cap Task = {}
  /\ CounterOf \in [Task -> Counter]
  /\ WaitOrder \in Seq(Counter)
  /\ Deps \in [Task -> SUBSET (Task \cup Counter)]
  /\ Polls \in [Task -> SUBSET Task]
  /\ TwoCalls \subseteq Task
  /\ MayThrow \subseteq Task
  /\ MayExitEarly \in BOOLEAN
  /\ ChunkSize \in Nat \ {0}
  /\ CounterRange \in Nat /\ CounterRange > NumTasks

\* A task that waits for a counter is added after all the tasks of the counter,
\* as DecLibRecon adds the finishing task after the CTU tasks.
ASSUME OrderAssumption ==
  \A t \in Task : \A c \in Deps[t] \cap Counter :
    \A u \in Task : CounterOf[u] = c => u < t

VARIABLES
  slots,       \* m_tasks: the queue, a sequence of chunks of slots
  nextFill,    \* m_nextFillSlot
  barrier,     \* state of each task's done barrier and each counter's m_done
  count,       \* m_count of each counter
  progress,    \* what the calls of each task's function have done
  main,        \* the main thread
  worker,      \* the worker threads
  idleLock,    \* m_idleMutex: its owner
  pauseLock,   \* m_allThreadsWaitingMutex: its owner
  allWaiting,  \* m_allThreadsWaiting
  exitThreads  \* m_exitThreads

vars == <<slots, nextFill, barrier, count, progress, main, worker,
          idleLock, pauseLock, allWaiting, exitThreads>>
queue == <<slots, nextFill>>
sync  == <<barrier, count>>
idle  == <<idleLock, pauseLock, allWaiting>>

BarrierState == {"locked", "unlocked", "error"}

\* A task's function has not been called, has returned false after a part of
\* its work, has returned true, or an exception has ended the task.
Progress == {"none", "part", "returned", "threw"}

Slot == [state    : {"FREE", "PREPARING", "WAITING", "RUNNING"},
         task     : 0 .. NumTasks,
         barriers : SUBSET (Task \cup Counter)]

FreeSlot == [state |-> "FREE", task |-> 0, barriers |-> {}]
Chunk    == [k \in 1 .. ChunkSize |-> FreeSlot]

\* Where the main thread is: looking for a free slot, incrementing the
\* counter, filling the slot, in wait_nothrow and there asleep, shutting down.
MainPc == {"seek", "increment", "fill", "wait", "asleep",
           "exit", "unpause", "join", "end"}

\* Where a worker is: at the top of threadProc's loop, at a slot in
\* findNextTask, in checkTaskReady, with a task found, in processTask, in
\* handleTaskException, or idle.
WorkerPc == {"top", "sweep", "check", "found", "unlock", "decrement", "free",
             "excDone", "excCounter", "excDecrement", "excFree",
             "idle", "missed", "lock", "sleep", "woken", "exited"}

\* Which of the calls of findNextTask a worker is in: the first, the second,
\* in the idle loop without and with the idle lock, in the pause predicate.
Mode == {"first", "second", "spin", "owner", "pause"}

TypeOK ==
  /\ slots \in Seq(Slot) /\ Len(slots) > 0
  /\ nextFill \in 1 .. Len(slots)
  /\ barrier \in [Task \cup Counter -> BarrierState]
  /\ count \in [Counter -> 0 .. CounterRange - 1]
  /\ progress \in [Task -> Progress]
  /\ main \in [pc : MainPc, task : 1 .. NumTasks + 1,
               it : 1 .. Len(slots), turn : 1 .. Len(WaitOrder) + 1]
  /\ worker \in [Threads -> [pc : WorkerPc, mode : Mode,
                             it : 1 .. Len(slots), start : 1 .. Len(slots),
                             unseen : SUBSET (Task \cup Counter),
                             blocked : BOOLEAN]]
  /\ idleLock \in Threads \cup {None}
  /\ pauseLock \in Threads \cup {None}
  /\ allWaiting \in BOOLEAN
  /\ exitThreads \in BOOLEAN

Init ==
  /\ slots = Chunk
  /\ nextFill = 1
  /\ barrier = [b \in Task \cup Counter |-> IF b \in Task THEN "locked" ELSE "unlocked"]
  /\ count = [c \in Counter |-> 0]
  /\ progress = [t \in Task |-> "none"]
  /\ main = [pc |-> "seek", task |-> 1, it |-> 1, turn |-> 1]
  /\ worker = [w \in Threads |->
                [pc |-> "top", mode |-> "first", it |-> 1, start |-> 1,
                 unseen |-> {}, blocked |-> FALSE]]
  /\ idleLock = None
  /\ pauseLock = None
  /\ allWaiting = FALSE
  /\ exitThreads = FALSE

\* Iterator::incWrap: the queue is walked in a circle, as long as it is now.
IncWrap(s) == IF s = Len(slots) THEN 1 ELSE s + 1

-----------------------------------------------------------------------------
(***************************************************************************)
(* WaitCounter.  Its operations hold its mutex; a thread that waits for it *)
(* sleeps until notified.  Reaching zero unlocks the barrier m_done, which *)
(* throws if an exception is stored in it, and only then notifies.         *)
(***************************************************************************)
WaitingFor == WaitOrder[main.turn]

Notify(c) ==
  main' = IF main.pc = "asleep" /\ WaitingFor = c
          THEN [main EXCEPT !.pc = "wait"] ELSE main

Decremented(c) == (count[c] + CounterRange - 1) % CounterRange

ZeroThrows(c) == Decremented(c) = 0 /\ barrier[c] = "error"

\* Faulty variant: the count is tested before it is decremented.
DecrementTestsFirst(c) ==
  /\ count' = [count EXCEPT ![c] = Decremented(c)]
  /\ IF count[c] = 0 /\ barrier[c] # "error"
     THEN /\ barrier' = [barrier EXCEPT ![c] = "unlocked"]
          /\ Notify(c)
     ELSE UNCHANGED <<barrier, main>>

\* The whole of operator--, the exception aside.
Decrement(c) ==
  /\ count' = [count EXCEPT ![c] = Decremented(c)]
  /\ IF Decremented(c) = 0 /\ barrier[c] # "error"
     THEN /\ barrier' = [barrier EXCEPT ![c] = "unlocked"]
          /\ Notify(c)
     ELSE UNCHANGED <<barrier, main>>

-----------------------------------------------------------------------------
(***************************************************************************)
(* The main thread: addBarrierTask.                                        *)
(***************************************************************************)

\* One step of the search for a free slot; without one the queue grows, and
\* the search starts again at the first slot of the new chunk.
Seek ==
  /\ main.pc = "seek"
  /\ main.task \in Task
  /\ IF slots[main.it].state = "FREE"
     THEN /\ slots' = [slots EXCEPT ![main.it].state = "PREPARING"]
          /\ main' = [main EXCEPT !.pc = "increment"]
          /\ UNCHANGED nextFill
     ELSE IF IncWrap(main.it) # nextFill
     THEN /\ main' = [main EXCEPT !.it = IncWrap(@)]
          /\ UNCHANGED queue
     ELSE /\ slots' = slots \o Chunk
          /\ nextFill' = Len(slots) + 1
          /\ main' = [main EXCEPT !.it = Len(slots) + 1]
  /\ UNCHANGED <<sync, progress, worker, idle, exitThreads>>

\* Faulty variant: the barrier of the counter is not locked again.
IncrementOnly ==
  /\ main.pc = "increment"
  /\ count' = [count EXCEPT ![CounterOf[main.task]] = @ + 1]
  /\ main' = [main EXCEPT !.pc = "fill"]
  /\ UNCHANGED <<queue, barrier, progress, worker, idle, exitThreads>>

\* A counter with an exception refuses to be incremented.  The exception
\* leaves addBarrierTask with the slot claimed, and the program goes on to
\* wait for the tasks it has added.
Increment ==
  /\ main.pc = "increment"
  /\ LET c == CounterOf[main.task]
     IN  IF barrier[c] = "error"
         THEN /\ main' = [main EXCEPT !.pc = "wait"]
              /\ UNCHANGED sync
         ELSE /\ barrier' = [barrier EXCEPT ![c] = "locked"]
              /\ count' = [count EXCEPT ![c] = (@ + 1) % CounterRange]
              /\ main' = [main EXCEPT !.pc = "fill"]
  /\ UNCHANGED <<queue, progress, worker, idle, exitThreads>>

\* The slot is filled and published under the pause mutex, and a paused pool
\* is woken.
Wake(w) == IF worker[w].pc = "sleep" THEN [worker[w] EXCEPT !.pc = "woken"]
                                     ELSE worker[w]
\* Faulty variant: the flag is reset without the mutex.
UnpauseUnlocked ==
  /\ allWaiting' = FALSE
  /\ worker' = [w \in Threads |-> Wake(w)]
  /\ UNCHANGED <<idleLock, pauseLock>>

Unpause ==
  /\ pauseLock = None
  /\ allWaiting' = FALSE
  /\ worker' = [w \in Threads |-> Wake(w)]
  /\ UNCHANGED <<idleLock, pauseLock>>

Fill ==
  /\ main.pc = "fill"
  /\ slots' = [slots EXCEPT ![main.it] = [state |-> "WAITING", task |-> main.task,
                                          barriers |-> Deps[main.task]]]
  /\ Unpause
  /\ nextFill' = IncWrap(nextFill)
  /\ main' = [main EXCEPT !.pc = "seek", !.task = @ + 1, !.it = nextFill']
  /\ UNCHANGED <<sync, progress, exitThreads>>

(***************************************************************************)
(* wait_nothrow on one counter after the other, shutdown, the destructor.  *)
(***************************************************************************)
AllAdded ==
  /\ main.pc = "seek"
  /\ main.task \notin Task
  /\ main' = [main EXCEPT !.pc = "wait"]
  /\ UNCHANGED <<queue, sync, progress, worker, idle, exitThreads>>

Wait ==
  /\ main.pc = "wait"
  /\ main' = IF main.turn > Len(WaitOrder) THEN [main EXCEPT !.pc = "exit"]
             ELSE IF count[WaitingFor] = 0 THEN [main EXCEPT !.turn = @ + 1]
             ELSE [main EXCEPT !.pc = "asleep"]
  /\ UNCHANGED <<queue, sync, progress, worker, idle, exitThreads>>

ExitEarly ==
  /\ MayExitEarly
  /\ main.pc \in {"seek", "wait"}
  /\ main' = [main EXCEPT !.pc = "exit"]
  /\ UNCHANGED <<queue, sync, progress, worker, idle, exitThreads>>

Shutdown ==
  /\ main.pc = "exit"
  /\ exitThreads' = TRUE
  /\ main' = [main EXCEPT !.pc = "unpause"]
  /\ UNCHANGED <<queue, sync, progress, worker, idle>>

\* Faulty variant: the threads are joined without being woken.
WaitForThreadsAsleep ==
  \/ /\ main.pc = "unpause"
     /\ main' = [main EXCEPT !.pc = "join"]
     /\ UNCHANGED <<queue, sync, progress, worker, idle, exitThreads>>
  \/ /\ main.pc = "join"
     /\ \A w \in Threads : worker[w].pc = "exited"
     /\ main' = [main EXCEPT !.pc = "end"]
     /\ UNCHANGED <<queue, sync, progress, worker, idle, exitThreads>>

WaitForThreads ==
  \/ /\ main.pc = "unpause"
     /\ Unpause
     /\ main' = [main EXCEPT !.pc = "join"]
     /\ UNCHANGED <<queue, sync, progress, exitThreads>>
  \/ /\ main.pc = "join"
     /\ \A w \in Threads : worker[w].pc = "exited"
     /\ main' = [main EXCEPT !.pc = "end"]
     /\ UNCHANGED <<queue, sync, progress, worker, idle, exitThreads>>

MainStep == \/ Seek \/ Increment \/ Fill \/ AllAdded \/ Wait \/ ExitEarly
            \/ Shutdown \/ WaitForThreads

-----------------------------------------------------------------------------
(***************************************************************************)
(* The worker threads.  In every step of w:                                *)
(***************************************************************************)
At(w, p)    == worker[w].pc = p
Goto(w, p)  == worker' = [worker EXCEPT ![w].pc = p]
TaskOf(w)   == slots[worker[w].it].task
SetState(w, s) == slots' = [slots EXCEPT ![worker[w].it].state = s]

\* findNextTask is called in the given mode.
Search(w, m) ==
  worker' = [worker EXCEPT ![w].pc = "sweep", ![w].mode = m, ![w].it = worker[w].start]

\* Leaving the idle loop, or the pause, releases the mutexes.
ReleaseIdle(w)  == idleLock' = IF idleLock = w THEN None ELSE idleLock
ReleasePause(w) == pauseLock' = IF pauseLock = w THEN None ELSE pauseLock
Release(w) == ReleaseIdle(w) /\ ReleasePause(w) /\ UNCHANGED allWaiting

Top(w) ==
  /\ At(w, "top")
  /\ IF exitThreads THEN Goto(w, "exited") ELSE Search(w, "first")
  /\ UNCHANGED <<queue, sync, progress, main, idle, exitThreads>>

\* The slot has no task for w: on to the next one, or the search has failed.
\* The predicate of the pause that fails lets the thread sleep, and releases
\* the pause mutex with it.
NextSlot(w) ==
  IF IncWrap(worker[w].it) # worker[w].start
  THEN /\ worker' = [worker EXCEPT ![w].pc = "sweep", ![w].it = IncWrap(@)]
       /\ UNCHANGED idle
  ELSE CASE worker[w].mode = "first"  -> Search(w, "second") /\ UNCHANGED idle
         [] worker[w].mode = "second" ->
              /\ worker' = [worker EXCEPT ![w].pc = "idle", ![w].mode = "spin"]
              /\ UNCHANGED idle
         [] worker[w].mode \in {"spin", "owner"} ->
              Goto(w, "missed") /\ UNCHANGED idle
         [] worker[w].mode = "pause" ->
              /\ worker' = [worker EXCEPT ![w].mode = "owner",
                             ![w].pc = IF exitThreads THEN "idle" ELSE "sleep"]
              /\ ReleasePause(w)
              /\ UNCHANGED <<idleLock, allWaiting>>

\* Faulty variant: the state is read but not exchanged.
SweepWithoutClaim(w) ==
  /\ At(w, "sweep")
  /\ IF slots[worker[w].it].state = "WAITING"
     THEN /\ worker' = [worker EXCEPT ![w].pc = "check", ![w].blocked = FALSE,
                         ![w].unseen = slots[worker[w].it].barriers]
          /\ UNCHANGED idle
     ELSE NextSlot(w)
  /\ UNCHANGED <<queue, sync, progress, main, exitThreads>>

\* A waiting task is claimed while it is checked, so that no other thread
\* takes it; any other slot is passed over.
Sweep(w) ==
  /\ At(w, "sweep")
  /\ IF slots[worker[w].it].state = "WAITING"
     THEN /\ SetState(w, "RUNNING")
          /\ worker' = [worker EXCEPT ![w].pc = "check", ![w].blocked = FALSE,
                         ![w].unseen = slots[worker[w].it].barriers]
          /\ UNCHANGED idle
     ELSE NextSlot(w) /\ UNCHANGED slots
  /\ UNCHANGED <<nextFill, sync, progress, main, exitThreads>>

\* An exception leaves findNextTask and is caught in threadProc.
Throw(w) ==
  /\ progress' = [progress EXCEPT ![TaskOf(w)] = "threw"]
  /\ worker' = [worker EXCEPT ![w].pc = "excDone", ![w].unseen = {}]
  /\ Release(w)

\* checkTaskReady looks at all the barriers, one after the other.
CheckBarrier(w) ==
  /\ At(w, "check")
  /\ \E b \in worker[w].unseen :
       IF barrier[b] = "error" THEN Throw(w)
       ELSE /\ worker' = [worker EXCEPT
                           ![w].unseen = @ \ {b},
                           ![w].blocked = @ \/ barrier[b] = "locked"]
            /\ UNCHANGED <<progress, idle>>
  /\ UNCHANGED <<queue, sync, main, exitThreads>>

\* A task that polls others rethrows the exception of its group.
PollThrows(t) == Polls[t] # {} /\ barrier[CounterOf[t]] = "error"
PollReady(t)  == \A u \in Polls[t] : progress[u] = "returned"

\* Not ready: the slot is released and the search goes on.  Ready: the
\* barriers are cleared, and the mutexes of the idle loop released.
Blocked(w) ==
  /\ At(w, "check")
  /\ worker[w].unseen = {}
  /\ worker[w].blocked
  /\ SetState(w, "WAITING")
  /\ NextSlot(w)
  /\ UNCHANGED <<nextFill, sync, progress, main, exitThreads>>

ReadyCheck(w) ==
  /\ At(w, "check")
  /\ worker[w].unseen = {}
  /\ ~ worker[w].blocked
  /\ LET cleared == [slots[worker[w].it] EXCEPT !.barriers = {}]
     IN  IF PollThrows(TaskOf(w))
         THEN /\ slots' = [slots EXCEPT ![worker[w].it] = cleared]
              /\ Throw(w)
         ELSE IF PollReady(TaskOf(w))
         THEN /\ slots' = [slots EXCEPT ![worker[w].it] = cleared]
              /\ Goto(w, "found")
              /\ Release(w)
              /\ UNCHANGED progress
         ELSE /\ slots' = [slots EXCEPT ![worker[w].it] =
                            [cleared EXCEPT !.state = "WAITING"]]
              /\ NextSlot(w)
              /\ UNCHANGED progress
  /\ UNCHANGED <<nextFill, sync, main, exitThreads>>

(***************************************************************************)
(* processTask.  A thread that is told to exit drops the task it has found.*)
(***************************************************************************)
Leave(w) == worker' = [worker EXCEPT ![w].pc = "top", ![w].start = IncWrap(worker[w].it)]

Call(w) ==
  /\ At(w, "found")
  /\ LET t == TaskOf(w)
     IN  \/ /\ exitThreads
            /\ Goto(w, "exited")
            /\ UNCHANGED <<slots, progress>>
         \/ /\ ~ exitThreads
            /\ t \in TwoCalls /\ progress[t] = "none" /\ ~ PollThrows(t)
            /\ progress' = [progress EXCEPT ![t] = "part"]
            /\ SetState(w, "WAITING")
            /\ Leave(w)
         \/ /\ ~ exitThreads
            /\ t \in TwoCalls => progress[t] = "part"
            /\ ~ PollThrows(t)
            /\ progress' = [progress EXCEPT ![t] = "returned"]
            /\ Goto(w, "unlock")
            /\ UNCHANGED slots
         \/ /\ ~ exitThreads
            /\ t \in MayThrow \/ PollThrows(t)
            /\ progress' = [progress EXCEPT ![t] = "threw"]
            /\ Goto(w, "excDone")
            /\ UNCHANGED slots
  /\ UNCHANGED <<nextFill, sync, main, idle, exitThreads>>

UnlockDone(w) ==
  /\ At(w, "unlock")
  /\ barrier' = [barrier EXCEPT ![TaskOf(w)] = "unlocked"]
  /\ Goto(w, "decrement")
  /\ UNCHANGED <<queue, count, progress, main, idle, exitThreads>>

\* If the counter reaches zero and has an exception, processTask throws it.
DecrementCounter(w) ==
  /\ At(w, "decrement")
  /\ Goto(w, IF ZeroThrows(CounterOf[TaskOf(w)]) THEN "excDone" ELSE "free")
  /\ Decrement(CounterOf[TaskOf(w)])
  /\ UNCHANGED <<queue, progress, idle, exitThreads>>

FreeTheSlot(w) ==
  /\ At(w, "free")
  /\ SetState(w, "FREE")
  /\ Leave(w)
  /\ UNCHANGED <<nextFill, sync, progress, main, idle, exitThreads>>

(***************************************************************************)
(* handleTaskException.                                                    *)
(***************************************************************************)
\* Faulty variant: only the counter gets the exception.
DoneExceptionForgotten(w) ==
  /\ At(w, "excDone")
  /\ Goto(w, "excCounter")
  /\ UNCHANGED <<queue, sync, progress, main, idle, exitThreads>>

DoneException(w) ==
  /\ At(w, "excDone")
  /\ barrier' = [barrier EXCEPT ![TaskOf(w)] = "error"]
  /\ Goto(w, "excCounter")
  /\ UNCHANGED <<queue, count, progress, main, idle, exitThreads>>

CounterException(w) ==
  /\ At(w, "excCounter")
  /\ barrier' = [barrier EXCEPT ![CounterOf[TaskOf(w)]] = "error"]
  /\ Notify(CounterOf[TaskOf(w)])
  /\ Goto(w, "excDecrement")
  /\ UNCHANGED <<queue, count, progress, idle, exitThreads>>

\* The exception of a counter that reaches zero is caught here.
ExceptionDecrement(w) ==
  /\ At(w, "excDecrement")
  /\ Decrement(CounterOf[TaskOf(w)])
  /\ Goto(w, "excFree")
  /\ UNCHANGED <<queue, progress, idle, exitThreads>>

ExceptionFree(w) ==
  /\ At(w, "excFree")
  /\ SetState(w, "FREE")
  /\ Goto(w, "top")
  /\ UNCHANGED <<nextFill, sync, progress, main, idle, exitThreads>>

(***************************************************************************)
(* The idle loop.                                                          *)
(***************************************************************************)
IdleLoop(w) ==
  /\ At(w, "idle")
  /\ IF exitThreads THEN Goto(w, "exited") /\ Release(w)
                    ELSE Search(w, worker[w].mode) /\ UNCHANGED idle
  /\ UNCHANGED <<queue, sync, progress, main, exitThreads>>

\* After a search without result: the time to spin or to own the lock is not
\* over yet, or it is.
Missed(w) ==
  /\ At(w, "missed")
  /\ \/ exitThreads /\ Goto(w, "exited") /\ Release(w)
     \/ ~ exitThreads /\ Goto(w, "idle") /\ UNCHANGED idle
     \/ /\ ~ exitThreads
        /\ worker[w].mode = "spin"
        /\ Goto(w, "lock")
        /\ UNCHANGED idle
  /\ UNCHANGED <<queue, sync, progress, main, exitThreads>>

\* m_waitingForLockThreads
WaitingForLock == {w \in Threads : worker[w].pc = "lock"}

LockIdle(w) ==
  /\ At(w, "lock")
  /\ idleLock = None
  /\ idleLock' = w
  /\ worker' = [worker EXCEPT ![w].pc = "idle", ![w].mode = "owner"]
  /\ UNCHANGED <<queue, sync, progress, main, pauseLock, allWaiting, exitThreads>>

\* pauseIfAllOtherThreadsWaiting, up to the predicate's search.
Pause(w) ==
  /\ At(w, "missed")
  /\ ~ exitThreads
  /\ worker[w].mode = "owner"
  /\ Cardinality(WaitingForLock) >= Cardinality(Threads) - 1
  /\ pauseLock = None
  /\ pauseLock' = w
  /\ allWaiting' = TRUE
  /\ Search(w, "pause")
  /\ UNCHANGED <<queue, sync, progress, main, idleLock, exitThreads>>

\* A notified thread gets the mutex back and looks at the condition again.
Woken(w) ==
  /\ At(w, "woken")
  /\ pauseLock = None
  /\ IF allWaiting THEN Search(w, "pause") /\ pauseLock' = w
                   ELSE Goto(w, "idle") /\ UNCHANGED pauseLock
  /\ UNCHANGED <<queue, sync, progress, main, idleLock, allWaiting, exitThreads>>

WorkerStep(w) ==
  \/ Top(w) \/ Sweep(w) \/ CheckBarrier(w) \/ Blocked(w) \/ ReadyCheck(w)
  \/ Call(w) \/ UnlockDone(w) \/ DecrementCounter(w) \/ FreeTheSlot(w)
  \/ DoneException(w) \/ CounterException(w) \/ ExceptionDecrement(w)
  \/ ExceptionFree(w) \/ IdleLoop(w) \/ Missed(w) \/ LockIdle(w) \/ Pause(w)
  \/ Woken(w)

Next == MainStep \/ \E w \in Threads : WorkerStep(w)

Spec == Init /\ [][Next]_vars

\* No thread stops while it has something to do.
Fairness == WF_vars(MainStep) /\ \A w \in Threads : WF_vars(WorkerStep(w))

FairSpec == Spec /\ Fairness

-----------------------------------------------------------------------------
(***************************************************************************)
(* A slot that is RUNNING belongs to one thread, which has claimed it, and *)
(* to no other; the exception is a slot whose thread was told to exit.     *)
(* A task is in one slot at most.  Otherwise two threads could run one     *)
(* task, or one take over a slot that another is about to free.            *)
(***************************************************************************)
Holds(w) == worker[w].pc \in {"check", "found", "unlock", "decrement", "free",
                              "excDone", "excCounter", "excDecrement", "excFree"}

InUse == {s \in 1 .. Len(slots) : slots[s].state \in {"WAITING", "RUNNING"}}

SlotOwnership ==
  /\ \A w \in Threads : Holds(w) => slots[worker[w].it].state = "RUNNING"
  /\ \A v, w \in Threads :
       v # w /\ Holds(v) /\ Holds(w) => worker[v].it # worker[w].it
  /\ \A s \in InUse : slots[s].state = "RUNNING" =>
       exitThreads \/ \E w \in Threads : Holds(w) /\ worker[w].it = s
  /\ \A r, s \in InUse : slots[r].task = slots[s].task => r = s

(***************************************************************************)
(* A counter without an exception counts the tasks that have been added to *)
(* it and have not left it, and its barrier is locked while there are any. *)
(***************************************************************************)
HasLeft(s) == \E w \in Threads : /\ worker[w].it = s
                                 /\ worker[w].pc \in {"free", "excFree"}

Outstanding(c) ==
  {t \in Task : /\ CounterOf[t] = c
                /\ \/ main.pc = "fill" /\ main.task = t
                   \/ \E s \in InUse : slots[s].task = t /\ ~ HasLeft(s)}

CounterExact ==
  \A c \in Counter : barrier[c] # "error" =>
    /\ count[c] = Cardinality(Outstanding(c))
    /\ barrier[c] = "locked" <=> count[c] > 0

(***************************************************************************)
(* A thread pauses only while all the others are queued up at the idle     *)
(* lock, so that no thread but the main one can bring work.                *)
(***************************************************************************)
Pausing(w) == worker[w].pc \in {"sleep", "woken"} \/ pauseLock = w

PausedAlone ==
  \A w \in Threads : Pausing(w) =>
    idleLock = w /\ \A v \in Threads \ {w} : worker[v].pc = "lock"

(***************************************************************************)
(* A pool that sleeps has nothing to do: no task in the queue could run    *)
(* or fail, and the threads have not been told to exit, unless the main    *)
(* thread is about to wake it.                                             *)
(***************************************************************************)
Runnable(s) ==
  /\ slots[s].state = "WAITING"
  /\ \/ /\ \A b \in slots[s].barriers : barrier[b] = "unlocked"
        /\ PollThrows(slots[s].task) \/ PollReady(slots[s].task)
     \/ \E b \in slots[s].barriers : barrier[b] = "error"

NoLostWakeup ==
  (\E w \in Threads : worker[w].pc = "sleep") =>
    /\ \A s \in 1 .. Len(slots) : ~ Runnable(s)
    /\ exitThreads => main.pc = "unpause"

(***************************************************************************)
(* The pool does what TaskGraph says: see there.                           *)
(***************************************************************************)
Added(t) == t < main.task \/ (t = main.task /\ main.pc = "fill")

TaskStatus == [t \in Task |-> IF ~ Added(t) THEN "outside"
                              ELSE IF progress[t] = "none" THEN "added"
                              ELSE progress[t]]

Graph == INSTANCE TaskGraph WITH status <- TaskStatus

ImplementsTaskGraph == Graph!Spec

(***************************************************************************)
(* Every task that was added comes to its end, with the barriers and the   *)
(* polled tasks before it, unless the pool is shut down.                   *)
(***************************************************************************)
EveryTaskEnds ==
  \A t \in Task :
    Added(t) ~> progress[t] \in {"returned", "threw"} \/ exitThreads

(***************************************************************************)
(* The program comes to its end: the waits for the counters return, all    *)
(* the threads exit, asleep or not, and the pool's destructor returns.     *)
(***************************************************************************)
ProgramEnds == <>(main.pc = "end")

(***************************************************************************)
(* DecLibRecon::cleanupOnException waits "for all tasks to be cleared from *)
(* the thread pool", with wait_nothrow on the counters.  So when they are  *)
(* cleared, the counters are zero ...                                      *)
(***************************************************************************)
ClearedPoolCountsZero ==
  ( /\ main.pc \in {"wait", "asleep"}
    /\ \A s \in 1 .. Len(slots) : slots[s].state = "FREE" )
  => \A c \in Counter : count[c] = 0

(***************************************************************************)
(* ... and the wait comes to its end.                                      *)
(***************************************************************************)
WaitReturns == main.pc = "wait" ~> main.pc = "exit"

=============================================================================
