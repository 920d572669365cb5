------------------------------ MODULE EncPool ------------------------------
(***************************************************************************)
(* The thread pool of the encoder, class NoMallocThreadPool, and the wait  *)
(* counters its tasks are counted with.                                    *)
(*                                                                         *)
(* The slots are those of the decoder's pool, but nothing throws, and idle *)
(* threads never sleep: one at a time holds the idle lock, or none, and    *)
(* keeps searching, the others wait for the lock.  Counters that reach     *)
(* zero wake the thread that waits for them and unlock a barrier, under    *)
(* their mutex.  Some live on the stack of the thread that waits, which    *)
(* destroys them at once; others are used again while the thread that has  *)
(* brought them to zero is still on its way out.                           *)
(*                                                                         *)
(* The program is the encoder's main thread: it adds tasks, waits for the  *)
(* counters of the temporal filter, and for pictures to be finished before *)
(* it uses a picture encoder, and its counter, again; and it closes the    *)
(* encoder at the end, or instead of waiting for a picture.                *)
(***************************************************************************)
EXTENDS Integers, Sequences, FiniteSets

CONSTANTS Threads,    \* the worker threads
          NumTasks,   \* the tasks
          Counter,    \* the wait counters
          CounterOf,  \* the counter of each task, or None
          Deps,       \* the counters whose barriers each task waits for
          Polls,      \* the tasks whose progress its ready check looks at
          Follows,    \* the tasks it does not overtake: it returns false
          Program,    \* what the main thread does, in this order
          MayClose,   \* whether the encoder may be closed early
          ChunkSize,  \* slots of a chunk of the queue
          None        \* no thread, no counter

Task == 1 .. NumTasks

\* A step of the program: add a task, wait for a counter and destroy it, or
\* wait until a task has returned.
Instruction == [do : {"add", "await"}, on : Task] \cup [do : {"wait"}, on : Counter]

ASSUME PoolAssumption ==
  /\ Threads # {} /\ IsFiniteSet(Threads) /\ None \notin Threads \cup Counter
  /\ NumTasks \in Nat
  /\ Counter \cap Task = {}
  /\ CounterOf \in [Task -> Counter \cup {None}]
  /\ Deps \in [Task -> SUBSET Counter]
  /\ Polls \in [Task -> SUBSET Task]
  /\ Follows \in [Task -> SUBSET Task]
  /\ Program \in Seq(Instruction)
  /\ MayClose \in BOOLEAN
  /\ ChunkSize \in Nat \ {0}

\* The program adds every task, and numbers them in the order in which it does.
\* A counter that has been destroyed, with the function whose local variable it
\* was, is not used any more.  A counter whose barrier a task waits for is used
\* again only after that task: EncGOP takes a picture encoder again when its
\* finishing task has returned.
ASSUME OrderAssumption ==
  /\ \A t \in Task : \E i \in DOMAIN Program : Program[i] = [do |-> "add", on |-> t]
  /\ \A i, j \in DOMAIN Program :
       i < j /\ Program[j].do = "add" =>
         /\ Program[i].do = "add" => Program[i].on < Program[j].on
         /\ Program[i].do = "wait" => CounterOf[Program[j].on] # Program[i].on
         /\ Program[i].do = "add" /\ CounterOf[Program[j].on] \in Deps[Program[i].on] =>
              \E k \in i .. j : Program[k] = [do |-> "await", on |-> Program[i].on]

VARIABLES
  slots,       \* m_tasks: the queue, a sequence of chunks of slots
  nextFill,    \* m_nextFillSlot
  locked,      \* state of each counter's barrier, done
  count,       \* m_count of each counter
  mutex,       \* m_lock of each counter: its owner
  alive,       \* the counters that have not been destroyed
  progress,    \* what the calls of each task's function have done
  main,        \* the main thread
  worker,      \* the worker threads
  idleLock,    \* m_idleMutex: its owner
  exitThreads  \* m_exitThreads

vars == <<slots, nextFill, locked, count, mutex, alive, progress, main, worker,
          idleLock, exitThreads>>
queue == <<slots, nextFill>>
sync  == <<locked, count, mutex>>

Slot == [state    : {"FREE", "PREPARING", "WAITING", "RUNNING"},
         task     : 0 .. NumTasks,
         barriers : SUBSET Counter]

\* Where the main thread is: between two calls of the pool, in addBarrierTask
\* before the counter is incremented and before the slot is filled, asleep in a
\* counter's wait, in its destructor, in shutdown.
MainPc == {"run", "increment", "fill", "asleep", "destroy", "join", "end"}

\* Where a worker is: at the top of threadProc's loop, at a slot in
\* findNextTask, in checkTaskReady, in processTask from the task found to the
\* slot freed, or in the idle loop.
WorkerPc == {"top", "sweep", "check", "found", "count", "unlock", "release", "free",
             "idle", "missed", "lock", "exited"}

TypeOK ==
  /\ slots \in Seq(Slot) /\ Len(slots) > 0
  /\ nextFill \in 1 .. Len(slots)
  /\ locked \in [Counter -> BOOLEAN]
  /\ count \in [Counter -> Int]
  /\ mutex \in [Counter -> Threads \cup {None}]
  /\ alive \subseteq Counter
  /\ progress \in [Task -> {"none", "part", "returned"}]
  /\ main \in [pc : MainPc, at : 1 .. Len(Program) + 1, it : 1 .. Len(slots)]
  /\ worker \in [Threads -> [pc : WorkerPc, waits : BOOLEAN,
                             it : 1 .. Len(slots), start : 1 .. Len(slots),
                             unseen : SUBSET Counter]]
  /\ idleLock \in Threads \cup {None}
  /\ exitThreads \in BOOLEAN

FreeSlot == [state |-> "FREE", task |-> 0, barriers |-> {}]
Chunk    == [k \in 1 .. ChunkSize |-> FreeSlot]

Init ==
  /\ slots = Chunk
  /\ nextFill = 1
  /\ locked = [c \in Counter |-> FALSE]
  /\ count = [c \in Counter |-> 0]
  /\ mutex = [c \in Counter |-> None]
  /\ alive = Counter
  /\ progress = [t \in Task |-> "none"]
  /\ main = [pc |-> "run", at |-> 1, it |-> 1]
  /\ worker = [w \in Threads |-> [pc |-> "top", waits |-> FALSE, it |-> 1, start |-> 1,
                                  unseen |-> {}]]
  /\ idleLock = None
  /\ exitThreads = FALSE

\* Iterator::incWrap
IncWrap(s) == IF s = Len(slots) THEN 1 ELSE s + 1

-----------------------------------------------------------------------------
(***************************************************************************)
(* The main thread: addBarrierTask, WaitCounter::wait, the wait for a      *)
(* picture in EncGOP, shutdown.                                            *)
(***************************************************************************)
On == Program[main.at].on

Doing(op) == main.pc = "run" /\ main.at <= Len(Program) /\ Program[main.at].do = op

\* The next instruction; a search for a free slot will begin at nextFill.
Proceed == main' = [pc |-> "run", at |-> main.at + 1, it |-> nextFill']

Seek ==
  /\ Doing("add")
  /\ IF slots[main.it].state = "FREE"
     THEN /\ slots' = [slots EXCEPT ![main.it].state = "PREPARING"]
          /\ main' = [main EXCEPT !.pc = "increment"]
          /\ UNCHANGED nextFill
     ELSE IF IncWrap(main.it) # nextFill
     THEN /\ main' = [main EXCEPT !.it = IncWrap(@)]
          /\ UNCHANGED queue
     ELSE /\ slots' = slots \o Chunk
          /\ nextFill' = Len(slots) + 1
          /\ main' = [main EXCEPT !.it = Len(slots) + 1]
  /\ UNCHANGED <<sync, alive, progress, worker, idleLock, exitThreads>>

\* Faulty variant: the barrier stays unlocked.
IncrementOnly ==
  /\ main.pc = "increment"
  /\ LET c == CounterOf[On]
     IN  IF c = None THEN UNCHANGED sync
         ELSE /\ mutex[c] = None
              /\ count' = [count EXCEPT ![c] = @ + 1]
              /\ UNCHANGED <<locked, mutex>>
  /\ main' = [main EXCEPT !.pc = "fill"]
  /\ UNCHANGED <<queue, alive, progress, worker, idleLock, exitThreads>>

\* operator++ holds the counter's mutex.
Increment ==
  /\ main.pc = "increment"
  /\ LET c == CounterOf[On]
     IN  IF c = None THEN UNCHANGED sync
         ELSE /\ mutex[c] = None
              /\ locked' = [locked EXCEPT ![c] = TRUE]
              /\ count' = [count EXCEPT ![c] = @ + 1]
              /\ UNCHANGED mutex
  /\ main' = [main EXCEPT !.pc = "fill"]
  /\ UNCHANGED <<queue, alive, progress, worker, idleLock, exitThreads>>

Fill ==
  /\ main.pc = "fill"
  /\ slots' = [slots EXCEPT ![main.it] = [state |-> "WAITING", task |-> On,
                                          barriers |-> Deps[On]]]
  /\ nextFill' = IncWrap(nextFill)
  /\ Proceed
  /\ UNCHANGED <<sync, alive, progress, worker, idleLock, exitThreads>>

Wait ==
  /\ Doing("wait")
  /\ mutex[On] = None
  /\ main' = [main EXCEPT !.pc = IF count[On] = 0 THEN "destroy" ELSE "asleep"]
  /\ UNCHANGED <<queue, sync, alive, progress, worker, idleLock, exitThreads>>

\* The destructor takes the mutex once.
Destroy ==
  /\ main.pc = "destroy"
  /\ mutex[On] = None
  /\ alive' = alive \ {On}
  /\ UNCHANGED nextFill /\ Proceed
  /\ UNCHANGED <<slots, sync, progress, worker, idleLock, exitThreads>>

Await ==
  /\ Doing("await")
  /\ progress[On] = "returned"
  /\ UNCHANGED nextFill /\ Proceed
  /\ UNCHANGED <<slots, sync, alive, progress, worker, idleLock, exitThreads>>

Shutdown ==
  /\ main.pc = "run"
  /\ main.at > Len(Program) \/ (MayClose /\ Doing("await"))
  /\ exitThreads' = TRUE
  /\ main' = [main EXCEPT !.pc = "join"]
  /\ UNCHANGED <<queue, sync, alive, progress, worker, idleLock>>

WaitForThreads ==
  /\ main.pc = "join"
  /\ \A w \in Threads : worker[w].pc = "exited"
  /\ main' = [main EXCEPT !.pc = "end"]
  /\ UNCHANGED <<queue, sync, alive, progress, worker, idleLock, exitThreads>>

MainStep == Seek \/ Increment \/ Fill \/ Wait \/ Destroy \/ Await \/ Shutdown \/ WaitForThreads

-----------------------------------------------------------------------------
(***************************************************************************)
(* The worker threads: the search, findNextTask.                           *)
(***************************************************************************)
At(w, p)   == worker[w].pc = p
Goto(w, p) == worker' = [worker EXCEPT ![w].pc = p]
TaskOf(w)  == slots[worker[w].it].task
SetState(w, s) == slots' = [slots EXCEPT ![worker[w].it].state = s]

Search(w) == worker' = [worker EXCEPT ![w].pc = "sweep", ![w].it = worker[w].start]

\* The thread leaves the idle loop: it does not wait any more, and gives the
\* idle lock back if it holds it.
LeaveIdle(w, p) ==
  /\ worker' = [worker EXCEPT ![w].pc = p, ![w].waits = FALSE]
  /\ idleLock' = IF idleLock = w THEN None ELSE idleLock

Top(w) ==
  /\ At(w, "top")
  /\ IF exitThreads THEN Goto(w, "exited") ELSE Search(w)
  /\ UNCHANGED <<queue, sync, alive, progress, main, idleLock, exitThreads>>

\* The slot has no task for w.  The first search that fails begins the idle
\* loop.
NextSlot(w) ==
  IF IncWrap(worker[w].it) # worker[w].start
  THEN worker' = [worker EXCEPT ![w].pc = "sweep", ![w].it = IncWrap(@)]
  ELSE worker' = [worker EXCEPT ![w].pc = IF worker[w].waits THEN "missed" ELSE "idle",
                                ![w].waits = TRUE]

Sweep(w) ==
  /\ At(w, "sweep")
  /\ IF slots[worker[w].it].state = "WAITING"
     THEN /\ SetState(w, "RUNNING")
          /\ worker' = [worker EXCEPT ![w].pc = "check",
                                      ![w].unseen = slots[worker[w].it].barriers]
     ELSE /\ NextSlot(w)
          /\ UNCHANGED slots
  /\ UNCHANGED <<nextFill, sync, alive, progress, main, idleLock, exitThreads>>

\* The first barrier that is locked ends the check.
CheckBarrier(w) ==
  /\ At(w, "check")
  /\ \E c \in worker[w].unseen :
       IF locked[c]
       THEN SetState(w, "WAITING") /\ NextSlot(w)
       ELSE /\ worker' = [worker EXCEPT ![w].unseen = @ \ {c}]
            /\ UNCHANGED slots
  /\ UNCHANGED <<nextFill, sync, alive, progress, main, idleLock, exitThreads>>

ReadyCheck(w) ==
  /\ At(w, "check")
  /\ worker[w].unseen = {}
  /\ LET ready == \A u \in Polls[TaskOf(w)] : progress[u] = "returned"
     IN  /\ slots' = [slots EXCEPT ![worker[w].it].barriers = {},
                                   ![worker[w].it].state = IF ready THEN @ ELSE "WAITING"]
         /\ IF ready THEN LeaveIdle(w, "found")
                     ELSE NextSlot(w) /\ UNCHANGED idleLock
  /\ UNCHANGED <<nextFill, sync, alive, progress, main, exitThreads>>

(***************************************************************************)
(* processTask.  A thread that is told to exit drops the task it has found.*)
(***************************************************************************)
Leave(w) == worker' = [worker EXCEPT ![w].pc = "top", ![w].start = IncWrap(worker[w].it)]

Drop(w) ==
  /\ At(w, "found")
  /\ exitThreads
  /\ Goto(w, "exited")
  /\ UNCHANGED <<queue, sync, alive, progress, main, idleLock, exitThreads>>

\* A task that would overtake another one has done a part, and returns false.
Call(w) ==
  /\ At(w, "found")
  /\ ~ exitThreads
  /\ LET t == TaskOf(w)
     IN  IF \A u \in Follows[t] : progress[u] = "returned"
         THEN /\ progress' = [progress EXCEPT ![t] = "returned"]
              /\ Goto(w, IF CounterOf[t] = None THEN "free" ELSE "count")
              /\ UNCHANGED slots
         ELSE /\ progress' = [progress EXCEPT ![t] = "part"]
              /\ SetState(w, "WAITING")
              /\ Leave(w)
  /\ UNCHANGED <<nextFill, sync, alive, main, idleLock, exitThreads>>

\* operator--: a counter that reaches zero wakes the thread that waits for it,
\* unlocks its barrier, and only then gives up its mutex.
Notify(c) ==
  main' = IF main.pc = "asleep" /\ On = c THEN [main EXCEPT !.pc = "run"] ELSE main

\* Faulty variant: nobody is woken.
CountQuietly(w) ==
  /\ At(w, "count")
  /\ LET c == CounterOf[TaskOf(w)]
     IN  /\ mutex[c] = None
         /\ mutex' = [mutex EXCEPT ![c] = w]
         /\ count' = [count EXCEPT ![c] = @ - 1]
         /\ Goto(w, IF count[c] = 1 THEN "unlock" ELSE "release")
  /\ UNCHANGED <<queue, locked, alive, progress, main, idleLock, exitThreads>>

\* Faulty variant: the mutex is given up before the barrier is unlocked.
CountReleasing(w) ==
  /\ At(w, "count")
  /\ LET c == CounterOf[TaskOf(w)]
     IN  /\ mutex[c] = None
         /\ count' = [count EXCEPT ![c] = @ - 1]
         /\ IF count[c] = 1 THEN Notify(c) /\ Goto(w, "unlock")
                            ELSE UNCHANGED main /\ Goto(w, "release")
  /\ UNCHANGED <<queue, locked, mutex, alive, progress, idleLock, exitThreads>>

Count(w) ==
  /\ At(w, "count")
  /\ LET c == CounterOf[TaskOf(w)]
     IN  /\ mutex[c] = None
         /\ mutex' = [mutex EXCEPT ![c] = w]
         /\ count' = [count EXCEPT ![c] = @ - 1]
         /\ IF count[c] = 1 THEN Notify(c) /\ Goto(w, "unlock")
                            ELSE UNCHANGED main /\ Goto(w, "release")
  /\ UNCHANGED <<queue, locked, alive, progress, idleLock, exitThreads>>

UnlockDone(w) ==
  /\ At(w, "unlock")
  /\ locked' = [locked EXCEPT ![CounterOf[TaskOf(w)]] = FALSE]
  /\ Goto(w, "release")
  /\ UNCHANGED <<queue, count, mutex, alive, progress, main, idleLock, exitThreads>>

ReleaseCounter(w) ==
  /\ At(w, "release")
  /\ mutex' = [mutex EXCEPT ![CounterOf[TaskOf(w)]] = None]
  /\ Goto(w, "free")
  /\ UNCHANGED <<queue, locked, count, alive, progress, main, idleLock, exitThreads>>

FreeTheSlot(w) ==
  /\ At(w, "free")
  /\ SetState(w, "FREE")
  /\ Leave(w)
  /\ UNCHANGED <<nextFill, sync, alive, progress, main, idleLock, exitThreads>>

(***************************************************************************)
(* The idle loop.                                                          *)
(***************************************************************************)
IdleLoop(w) ==
  /\ At(w, "idle")
  /\ IF exitThreads THEN LeaveIdle(w, "exited") ELSE Search(w) /\ UNCHANGED idleLock
  /\ UNCHANGED <<queue, sync, alive, progress, main, exitThreads>>

\* m_waitingThreads
WaitingThreads == Cardinality({w \in Threads : worker[w].waits})

\* After a search without result: the thread yields, or, when it has waited
\* long enough and others wait too, goes for the idle lock.
Missed(w) ==
  /\ At(w, "missed")
  /\ \/ exitThreads /\ LeaveIdle(w, "exited")
     \/ ~ exitThreads /\ Goto(w, "idle") /\ UNCHANGED idleLock
     \/ /\ ~ exitThreads
        /\ idleLock # w /\ WaitingThreads > 1
        /\ Goto(w, "lock")
        /\ UNCHANGED idleLock
  /\ UNCHANGED <<queue, sync, alive, progress, main, exitThreads>>

LockIdle(w) ==
  /\ At(w, "lock")
  /\ idleLock = None
  /\ idleLock' = w
  /\ Goto(w, "idle")
  /\ UNCHANGED <<queue, sync, alive, progress, main, exitThreads>>

WorkerStep(w) ==
  \/ Top(w) \/ Sweep(w) \/ CheckBarrier(w) \/ ReadyCheck(w) \/ Drop(w) \/ Call(w)
  \/ Count(w) \/ UnlockDone(w) \/ ReleaseCounter(w) \/ FreeTheSlot(w)
  \/ IdleLoop(w) \/ Missed(w) \/ LockIdle(w)

Next == MainStep \/ \E w \in Threads : WorkerStep(w)

Spec == Init /\ [][Next]_vars

\* No thread stops while it has something to do.
Fairness == WF_vars(MainStep) /\ \A w \in Threads : WF_vars(WorkerStep(w))

FairSpec == Spec /\ Fairness

-----------------------------------------------------------------------------
(***************************************************************************)
(* The encoder's pool keeps the same promise as the decoder's: a task is   *)
(* called after everything behind its barriers has returned, although the  *)
(* counters reach zero in between and are used again for the next picture, *)
(* and returns true once.  Nothing throws.                                 *)
(***************************************************************************)
Adding == [t \in Task |-> CHOOSE i \in DOMAIN Program :
                            Program[i].do = "add" /\ Program[i].on = t]
Added(t) == Adding[t] < main.at \/ (Adding[t] = main.at /\ main.pc = "fill")

TaskStatus == [t \in Task |-> IF ~ Added(t) THEN "outside"
                              ELSE IF progress[t] = "none" THEN "added"
                              ELSE progress[t]]

Graph == INSTANCE TaskGraph WITH status <- TaskStatus, MayThrow <- {}

ImplementsTaskGraph == Graph!Spec

(***************************************************************************)
(* When a counter is destroyed, all the tasks added to it have returned,   *)
(* and no thread is inside its operator-- any more: none touches memory    *)
(* that is gone.                                                           *)
(***************************************************************************)
CountersOutlive ==
  \A c \in Counter \ alive :
    /\ \A t \in Task : CounterOf[t] = c /\ Added(t) => progress[t] = "returned"
    /\ \A w \in Threads : At(w, "count") \/ At(w, "unlock") \/ At(w, "release") =>
         CounterOf[TaskOf(w)] # c

(***************************************************************************)
(* The program comes to its end: the waits return, and all the threads     *)
(* exit, those that wait for the idle lock too.                            *)
(***************************************************************************)
ProgramEnds == <>(main.pc = "end")

=============================================================================
