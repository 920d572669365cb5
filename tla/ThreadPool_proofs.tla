-------------------------- MODULE ThreadPool_proofs --------------------------
(***************************************************************************)
(* Proofs about ThreadPool, for any number of threads, tasks and counters, *)
(* any chunk size, barriers and failures: its types, its safety            *)
(* properties, and that it implements TaskGraph.                           *)
(***************************************************************************)
EXTENDS ThreadPool, SequenceTheorems, FiniteSetTheorems, TLAPS

-----------------------------------------------------------------------------
(***************************************************************************)
(* Types.                                                                  *)
(***************************************************************************)
SlotId == 1 .. Len(slots)

WorkerType ==
  [pc : WorkerPc, mode : Mode, it : SlotId, start : SlotId,
   unseen : SUBSET (Task \cup Counter), blocked : BOOLEAN]

MainType ==
  [pc : MainPc, task : 1 .. NumTasks + 1, it : SlotId, turn : 1 .. Len(WaitOrder) + 1]

\* The types, by element.
LEMMA Types ==
  ASSUME TypeOK
  PROVE  /\ Len(slots) \in Nat /\ Len(slots) > 0
         /\ \A s \in SlotId : slots[s] \in Slot
         /\ nextFill \in SlotId
         /\ main \in MainType
         /\ worker \in [Threads -> WorkerType]
         /\ \A w \in Threads : worker[w] \in WorkerType
  <1>1. Len(slots) \in Nat /\ \A s \in SlotId : slots[s] \in Slot
    BY LenProperties, ElementOfSeq DEF TypeOK, SlotId
  <1> QED
    BY <1>1 DEF TypeOK, SlotId, MainType, WorkerType

\* One step around the queue.
LEMMA Wraps ==
  ASSUME TypeOK, NEW s \in SlotId
  PROVE  IncWrap(s) \in SlotId
  BY Types DEF IncWrap, SlotId

\* Changing a slot.
LEMMA SlotChanged ==
  ASSUME TypeOK, NEW i \in SlotId, NEW e \in Slot, slots' = [slots EXCEPT ![i] = e]
  PROVE  /\ slots' \in Seq(Slot) /\ Len(slots') = Len(slots) /\ SlotId' = SlotId
         /\ slots'[i] = e
         /\ \A s \in SlotId : s # i => slots'[s] = slots[s]
  BY ExceptSeq DEF TypeOK, SlotId

\* The queue grows by a chunk.
LEMMA SlotsGrow ==
  ASSUME TypeOK, slots' = slots \o Chunk
  PROVE  /\ slots' \in Seq(Slot) /\ Len(slots') = Len(slots) + ChunkSize
         /\ SlotId \subseteq SlotId' /\ Len(slots) + 1 \in SlotId'
         /\ \A s \in SlotId : slots'[s] = slots[s]
         /\ \A s \in SlotId' : s \notin SlotId => slots'[s] = FreeSlot
  <1>1. ChunkSize \in Nat \ {0}
    BY PoolAssumption
  <1>2. FreeSlot \in Slot
    BY PoolAssumption DEF FreeSlot, Slot
  <1>3. Chunk \in Seq(Slot) /\ Len(Chunk) = ChunkSize
    BY <1>1, <1>2 DEF Chunk
  <1>4. slots \in Seq(Slot) /\ Len(slots) \in Nat
    BY Types DEF TypeOK
  <1>5. /\ slots' \in Seq(Slot) /\ Len(slots') = Len(slots) + ChunkSize
        /\ \A i \in 1 .. Len(slots) + ChunkSize :
             slots'[i] = IF i <= Len(slots) THEN slots[i] ELSE Chunk[i - Len(slots)]
    BY <1>3, <1>4, ConcatProperties
  <1>6. \A k \in 1 .. ChunkSize : Chunk[k] = FreeSlot
    BY DEF Chunk
  <1>7. \A i \in 1 .. Len(slots) + ChunkSize :
          ~ (i <= Len(slots)) => i - Len(slots) \in 1 .. ChunkSize
    BY <1>1, <1>4
  <1> QED
    BY <1>1, <1>4, <1>5, <1>6, <1>7 DEF SlotId

-----------------------------------------------------------------------------
(***************************************************************************)
(* The locks.  A thread owns the idle lock in the part of the idle loop    *)
(* that it entered by locking it, up to the task it finds there, and the   *)
(* pause lock while it evaluates the predicate of the pause.               *)
(***************************************************************************)
Owner(w) == /\ worker[w].mode \in {"owner", "pause"}
            /\ worker[w].pc \in {"idle", "sweep", "check", "missed", "sleep", "woken"}

LocksAgree(w) ==
  /\ idleLock = w <=> Owner(w)
  /\ pauseLock = w <=> worker[w].mode = "pause" /\ worker[w].pc \in {"sweep", "check"}
  /\ worker[w].mode = "pause" => worker[w].pc \notin {"idle", "missed", "sleep", "woken"}
  /\ worker[w].pc \in {"sleep", "woken"} => worker[w].mode = "owner"
  /\ worker[w].pc = "missed" => worker[w].mode \in {"spin", "owner"}

LocksHeld == \A w \in Threads : LocksAgree(w)

-----------------------------------------------------------------------------
(***************************************************************************)
(* What the pieces do that the steps of a thread are made of.              *)
(***************************************************************************)
OnlyWorker(w) ==
  /\ worker' \in [Threads -> WorkerType]
  /\ \A v \in Threads : v # w => worker'[v] = worker[v]

LEMMA WorkerChanged ==
  ASSUME TypeOK, NEW w \in Threads, NEW r \in WorkerType, worker' = [worker EXCEPT ![w] = r]
  PROVE  OnlyWorker(w) /\ worker'[w] = r
  BY Types DEF OnlyWorker

LEMMA Gotos ==
  ASSUME TypeOK, NEW w \in Threads, NEW p \in WorkerPc, Goto(w, p)
  PROVE  /\ OnlyWorker(w)
         /\ worker'[w].pc = p /\ worker'[w].mode = worker[w].mode
         /\ worker'[w].it = worker[w].it /\ worker'[w].start = worker[w].start
  <1> DEFINE r == [worker[w] EXCEPT !.pc = p]
  <1>1. worker[w] \in WorkerType
    BY Types
  <1>2. /\ r \in WorkerType /\ r.pc = p /\ r.mode = worker[w].mode
        /\ r.it = worker[w].it /\ r.start = worker[w].start
    BY <1>1 DEF WorkerType
  <1>3. worker' = [worker EXCEPT ![w] = r]
    BY DEF Goto
  <1> HIDE DEF r
  <1> QED
    BY <1>2, <1>3, WorkerChanged

LEMMA Searches ==
  ASSUME TypeOK, NEW w \in Threads, NEW m \in Mode, Search(w, m)
  PROVE  /\ OnlyWorker(w)
         /\ worker'[w].pc = "sweep" /\ worker'[w].mode = m
         /\ worker'[w].it = worker[w].start /\ worker'[w].start = worker[w].start
  <1> DEFINE r == [worker[w] EXCEPT !.pc = "sweep", !.mode = m, !.it = worker[w].start]
  <1>1. worker[w] \in WorkerType
    BY Types
  <1>2. /\ r \in WorkerType /\ r.pc = "sweep" /\ r.mode = m
        /\ r.it = worker[w].start /\ r.start = worker[w].start
    BY <1>1 DEF WorkerType, WorkerPc
  <1>3. worker' = [worker EXCEPT ![w] = r]
    BY <1>1, Types DEF Search
  <1> HIDE DEF r
  <1> QED
    BY <1>2, <1>3, WorkerChanged

LEMMA Leaves ==
  ASSUME TypeOK, NEW w \in Threads, Leave(w)
  PROVE  OnlyWorker(w) /\ worker'[w].pc = "top" /\ worker'[w].mode = worker[w].mode
  <1> DEFINE r == [worker[w] EXCEPT !.pc = "top", !.start = IncWrap(worker[w].it)]
  <1>1. worker[w] \in WorkerType
    BY Types
  <1>2. IncWrap(worker[w].it) \in SlotId
    BY <1>1, Wraps DEF WorkerType
  <1>3. r \in WorkerType /\ r.pc = "top" /\ r.mode = worker[w].mode
    BY <1>1, <1>2 DEF WorkerType, WorkerPc
  <1>4. worker' = [worker EXCEPT ![w] = r]
    BY <1>1, Types DEF Leave
  <1> HIDE DEF r
  <1> QED
    BY <1>3, <1>4, WorkerChanged

\* A search that goes on, or fails, in each mode.
LEMMA NextSlots ==
  ASSUME TypeOK, NEW w \in Threads, NextSlot(w)
  PROVE  /\ OnlyWorker(w) /\ UNCHANGED <<idleLock, allWaiting>>
         /\ \/ /\ IncWrap(worker[w].it) # worker[w].start
               /\ worker'[w].pc = "sweep" /\ worker'[w].mode = worker[w].mode
               /\ worker'[w].it = IncWrap(worker[w].it)
               /\ worker'[w].start = worker[w].start
               /\ UNCHANGED pauseLock
            \/ /\ worker[w].mode = "first" /\ worker'[w].pc = "sweep"
               /\ worker'[w].mode = "second" /\ UNCHANGED pauseLock
            \/ /\ worker[w].mode = "second" /\ worker'[w].pc = "idle"
               /\ worker'[w].mode = "spin" /\ UNCHANGED pauseLock
            \/ /\ worker[w].mode \in {"spin", "owner"} /\ worker'[w].pc = "missed"
               /\ worker'[w].mode = worker[w].mode /\ UNCHANGED pauseLock
            \/ /\ IncWrap(worker[w].it) = worker[w].start
               /\ worker[w].mode = "pause" /\ worker'[w].mode = "owner"
               /\ worker'[w].pc = IF exitThreads THEN "idle" ELSE "sleep"
               /\ ReleasePause(w)
  <1>1. worker[w] \in WorkerType /\ worker \in [Threads -> WorkerType]
    BY Types
  <1>2. worker[w].mode \in {"first", "second", "spin", "owner", "pause"}
    BY <1>1 DEF WorkerType, Mode
  <1> DEFINE next == IncWrap(worker[w].it)
  <1>3. CASE next # worker[w].start
    <2> DEFINE r == [worker[w] EXCEPT !.pc = "sweep", !.it = next]
    <2>1. next \in SlotId
      BY <1>1, Wraps DEF WorkerType
    <2>2. /\ r \in WorkerType /\ r.pc = "sweep" /\ r.mode = worker[w].mode
          /\ r.it = next /\ r.start = worker[w].start
      BY <1>1, <2>1 DEF WorkerType, WorkerPc
    <2>3. worker' = [worker EXCEPT ![w] = r] /\ UNCHANGED idle
      BY <1>1, <1>3 DEF NextSlot
    <2> HIDE DEF r
    <2> QED
      BY <1>3, <2>2, <2>3, WorkerChanged DEF idle
  <1>4. CASE next = worker[w].start /\ worker[w].mode = "first"
    <2>1. Search(w, "second") /\ UNCHANGED idle
      BY <1>4 DEF NextSlot
    <2> QED
      BY <1>4, <2>1, Searches DEF idle, Mode
  <1>5. CASE next = worker[w].start /\ worker[w].mode = "second"
    <2> DEFINE r == [worker[w] EXCEPT !.pc = "idle", !.mode = "spin"]
    <2>1. r \in WorkerType /\ r.pc = "idle" /\ r.mode = "spin"
      BY <1>1 DEF WorkerType, WorkerPc, Mode
    <2>2. worker' = [worker EXCEPT ![w] = r] /\ UNCHANGED idle
      BY <1>1, <1>5 DEF NextSlot
    <2> HIDE DEF r
    <2> QED
      BY <1>5, <2>1, <2>2, WorkerChanged DEF idle
  <1>6. CASE next = worker[w].start /\ worker[w].mode \in {"spin", "owner"}
    <2>1. Goto(w, "missed") /\ UNCHANGED idle
      BY <1>6 DEF NextSlot
    <2> QED
      BY <1>6, <2>1, Gotos DEF idle, WorkerPc
  <1>7. CASE next = worker[w].start /\ worker[w].mode = "pause"
    <2> DEFINE r == [worker[w] EXCEPT !.mode = "owner",
                                      !.pc = IF exitThreads THEN "idle" ELSE "sleep"]
    <2>1. /\ r \in WorkerType /\ r.mode = "owner"
          /\ r.pc = IF exitThreads THEN "idle" ELSE "sleep"
      BY <1>1 DEF WorkerType, WorkerPc, Mode
    <2>2. /\ worker' = [worker EXCEPT ![w] = r]
          /\ ReleasePause(w) /\ UNCHANGED <<idleLock, allWaiting>>
      BY <1>1, <1>7 DEF NextSlot
    <2> HIDE DEF r
    <2> QED
      BY <1>7, <2>1, <2>2, WorkerChanged
  <1> QED
    BY <1>2, <1>3, <1>4, <1>5, <1>6, <1>7

LEMMA Throws ==
  ASSUME TypeOK, NEW w \in Threads, Throw(w)
  PROVE  /\ OnlyWorker(w) /\ worker'[w].pc = "excDone" /\ worker'[w].it = worker[w].it
         /\ worker'[w].mode = worker[w].mode
         /\ Release(w) /\ progress' = [progress EXCEPT ![TaskOf(w)] = "threw"]
  <1> DEFINE r == [worker[w] EXCEPT !.pc = "excDone", !.unseen = {}]
  <1>1. worker[w] \in WorkerType
    BY Types
  <1>2. /\ r \in WorkerType /\ r.pc = "excDone" /\ r.it = worker[w].it
        /\ r.mode = worker[w].mode
    BY <1>1 DEF WorkerType, WorkerPc
  <1>3. worker' = [worker EXCEPT ![w] = r]
    BY <1>1, Types DEF Throw
  <1> HIDE DEF r
  <1> QED
    BY <1>2, <1>3, WorkerChanged DEF Throw

\* A slot gets another state.
LEMMA StatesSet ==
  ASSUME TypeOK, NEW w \in Threads, NEW s \in {"FREE", "PREPARING", "WAITING", "RUNNING"},
         SetState(w, s)
  PROVE  /\ slots' \in Seq(Slot) /\ Len(slots') = Len(slots) /\ SlotId' = SlotId
         /\ worker[w].it \in SlotId
         /\ slots'[worker[w].it].state = s
         /\ slots'[worker[w].it].task = slots[worker[w].it].task
         /\ slots'[worker[w].it].barriers = slots[worker[w].it].barriers
         /\ \A i \in SlotId : i # worker[w].it => slots'[i] = slots[i]
  <1> DEFINE i == worker[w].it
             e == [slots[i] EXCEPT !.state = s]
  <1>1. i \in SlotId /\ slots[i] \in Slot
    BY Types DEF WorkerType
  <1>2. /\ e \in Slot /\ e.state = s /\ e.task = slots[i].task
        /\ e.barriers = slots[i].barriers
    BY <1>1 DEF Slot
  <1>3. slots' = [slots EXCEPT ![i] = e]
    BY DEF SetState
  <1> HIDE DEF e
  <1> QED
    BY <1>1, <1>2, <1>3, SlotChanged

\* Waking the waiting program, and counting down.
LEMMA Notifies ==
  ASSUME TypeOK, NEW c, Notify(c)
  PROVE  /\ main' \in MainType
         /\ main' = main \/ (main.pc = "asleep" /\ main' = [main EXCEPT !.pc = "wait"])
  BY Types DEF Notify, MainType, MainPc

LEMMA Decrements ==
  ASSUME TypeOK, NEW c \in Counter, Decrement(c)
  PROVE  /\ barrier' \in [Task \cup Counter -> BarrierState]
         /\ count' \in [Counter -> 0 .. CounterRange - 1]
         /\ main' \in MainType
         /\ main' = main \/ (main.pc = "asleep" /\ main' = [main EXCEPT !.pc = "wait"])
  <1>1. CounterRange \in Nat /\ CounterRange > 0
    BY PoolAssumption
  <1>2. count \in [Counter -> 0 .. CounterRange - 1]
        /\ barrier \in [Task \cup Counter -> BarrierState]
    BY DEF TypeOK
  <1>3. count[c] + CounterRange - 1 \in Nat
    BY <1>1, <1>2
  <1>4. Decremented(c) \in 0 .. CounterRange - 1
    BY <1>1, <1>3 DEF Decremented
  <1>5. count' = [count EXCEPT ![c] = Decremented(c)]
        /\ (barrier' = [barrier EXCEPT ![c] = "unlocked"] \/ barrier' = barrier)
    BY DEF Decrement
  <1>6. count' \in [Counter -> 0 .. CounterRange - 1]
    BY <1>2, <1>4, <1>5
  <1>7. barrier' \in [Task \cup Counter -> BarrierState]
    BY <1>2, <1>5 DEF BarrierState
  <1>8. Notify(c) \/ main' = main
    BY DEF Decrement
  <1> QED
    BY <1>6, <1>7, <1>8, Notifies, Types

LEMMA Released ==
  ASSUME TypeOK, NEW w \in Threads, Release(w)
  PROVE  /\ idleLock' \in Threads \cup {None} /\ pauseLock' \in Threads \cup {None}
         /\ allWaiting' = allWaiting
         /\ idleLock' # w /\ pauseLock' # w
         /\ \A v \in Threads : v # w => /\ idleLock' = v <=> idleLock = v
                                        /\ pauseLock' = v <=> pauseLock = v
  BY PoolAssumption DEF Release, ReleaseIdle, ReleasePause, TypeOK

\* What a step of a thread does to its slot, and when it is the thread's.
SlotCase(w) ==
  LET s == worker[w].it
  IN  /\ slots'[s].task = slots[s].task
      /\ \/ /\ ~ Holds(w) /\ Holds(w)' /\ worker'[w].it = s
            /\ slots[s].state = "WAITING" /\ slots'[s].state = "RUNNING"
         \/ /\ Holds(w) /\ Holds(w)' /\ worker'[w].it = s
            /\ slots'[s].state = slots[s].state
         \/ /\ Holds(w) /\ ~ Holds(w)' /\ slots'[s].state \in {"WAITING", "FREE"}
         \/ /\ Holds(w) /\ ~ Holds(w)' /\ exitThreads /\ slots' = slots
         \/ /\ ~ Holds(w) /\ ~ Holds(w)' /\ slots' = slots

SlotStep(w) ==
  /\ slots' \in Seq(Slot) /\ Len(slots') = Len(slots) /\ nextFill' = nextFill
  /\ \A i \in SlotId : i # worker[w].it => slots'[i] = slots[i]
  /\ SlotCase(w)

LockStep(w) ==
  /\ idleLock' \in Threads \cup {None} /\ pauseLock' \in Threads \cup {None}
  /\ allWaiting' \in BOOLEAN
  /\ LocksAgree(w) => LocksAgree(w)'
  /\ \A v \in Threads : v # w => /\ idleLock' = v <=> idleLock = v
                                 /\ pauseLock' = v <=> pauseLock = v
  /\ worker[w].pc = "lock" => idleLock = None
  /\ LocksAgree(w) /\ Pausing(w)' => Pausing(w) \/ Pause(w)

SyncStep ==
  /\ barrier' \in [Task \cup Counter -> BarrierState]
  /\ count' \in [Counter -> 0 .. CounterRange - 1]
  /\ progress' \in [Task -> Progress]
  /\ main' \in MainType
  /\ main' = main \/ (main.pc = "asleep" /\ main' = [main EXCEPT !.pc = "wait"])

Step(w) ==
  /\ OnlyWorker(w) /\ SlotStep(w) /\ LockStep(w) /\ SyncStep
  /\ exitThreads' = exitThreads

\* Nothing is synchronised, or no slot or lock is touched.
LEMMA SyncSame ==
  ASSUME TypeOK, UNCHANGED <<sync, progress, main>>
  PROVE  SyncStep
  BY Types DEF SyncStep, TypeOK, sync

LEMMA SlotSame ==
  ASSUME TypeOK, NEW w \in Threads, UNCHANGED queue,
         \/ ~ Holds(w) /\ ~ Holds(w)'
         \/ Holds(w) /\ Holds(w)' /\ worker'[w].it = worker[w].it
         \/ Holds(w) /\ ~ Holds(w)' /\ exitThreads
  PROVE  SlotStep(w)
  BY DEF SlotStep, SlotCase, TypeOK, queue

LEMMA LockSame ==
  ASSUME TypeOK, NEW w \in Threads, OnlyWorker(w), UNCHANGED idle,
         worker[w].pc # "lock",
         \/ Owner(w) /\ worker[w].mode = "owner" /\ Owner(w)' /\ worker'[w].mode = "owner"
            /\ worker'[w].pc \notin {"sleep", "woken"}
         \/ ~ Owner(w) /\ ~ Owner(w)' /\ (worker'[w].pc = "missed" => worker'[w].mode = "spin")
            /\ worker'[w].pc \notin {"sleep", "woken"}
            /\ ~ (worker'[w].mode = "pause" /\ worker'[w].pc \in {"idle", "missed"})
         \/ Owner(w) /\ worker[w].mode = "pause" /\ worker'[w].mode = "pause"
            /\ worker[w].pc \in {"sweep", "check"} /\ worker'[w].pc \in {"sweep", "check"}
  PROVE  LockStep(w)
  <1>1. idleLock' = idleLock /\ pauseLock' = pauseLock /\ allWaiting' = allWaiting
    BY DEF idle
  <1>2. LocksAgree(w) => LocksAgree(w)'
    BY <1>1 DEF LocksAgree, Owner
  <1>3. LocksAgree(w) /\ Pausing(w)' => Pausing(w)
    BY <1>1 DEF LocksAgree, Owner, Pausing
  <1> QED
    BY <1>1, <1>2, <1>3 DEF LockStep, TypeOK

LEMMA LockReleased ==
  ASSUME TypeOK, NEW w \in Threads, OnlyWorker(w), Release(w),
         worker'[w].pc \in {"excDone", "found", "exited"}, worker[w].pc # "lock"
  PROVE  LockStep(w)
  <1>1. /\ idleLock' \in Threads \cup {None} /\ pauseLock' \in Threads \cup {None}
        /\ allWaiting' = allWaiting
        /\ idleLock' # w /\ pauseLock' # w
        /\ \A v \in Threads : v # w => /\ idleLock' = v <=> idleLock = v
                                       /\ pauseLock' = v <=> pauseLock = v
    BY Released
  <1>2. LocksAgree(w)' /\ ~ Pausing(w)'
    BY <1>1 DEF LocksAgree, Owner, Pausing
  <1> QED
    BY <1>1, <1>2 DEF LockStep, TypeOK

\* The search goes on.
LEMMA LockNextSlot ==
  ASSUME TypeOK, NEW w \in Threads, NextSlot(w), worker[w].pc \in {"sweep", "check"}
  PROVE  LockStep(w)
  <1>1. /\ OnlyWorker(w) /\ UNCHANGED <<idleLock, allWaiting>>
    BY NextSlots
  <1>2. CASE worker[w].mode # "pause"
    <2>1. UNCHANGED idle
      BY <1>2, NextSlots DEF idle
    <2> QED
      BY <1>1, <1>2, <2>1, NextSlots, LockSame DEF Owner
  <1>3. CASE worker[w].mode = "pause" /\ worker'[w].mode = "pause"
    <2>1. UNCHANGED idle /\ worker'[w].pc = "sweep"
      BY <1>3, NextSlots DEF idle
    <2> QED
      BY <1>1, <1>3, <2>1, LockSame DEF Owner
  <1>4. CASE worker[w].mode = "pause" /\ worker'[w].mode # "pause"
    <2>1. /\ worker'[w].mode = "owner" /\ worker'[w].pc \in {"idle", "sleep"}
          /\ ReleasePause(w)
      BY <1>4, NextSlots
    <2>2. /\ pauseLock' # w /\ pauseLock' \in Threads \cup {None}
          /\ \A v \in Threads : v # w => (pauseLock' = v <=> pauseLock = v)
      BY <2>1, PoolAssumption DEF ReleasePause, TypeOK
    <2>3. LocksAgree(w) => LocksAgree(w)' /\ Pausing(w)
      BY <1>1, <1>4, <2>1, <2>2 DEF LocksAgree, Owner, Pausing
    <2> QED
      BY <1>1, <2>2, <2>3 DEF LockStep, TypeOK
  <1> QED
    BY <1>2, <1>3, <1>4

-----------------------------------------------------------------------------
(***************************************************************************)
(* Every action of a thread is such a step, if the thread's slot is its    *)
(* own and holds a task.                                                   *)
(***************************************************************************)
Working(w) == Holds(w) => slots[worker[w].it].state = "RUNNING" /\ TaskOf(w) \in Task

LEMMA TopStep ==
  ASSUME TypeOK, NEW w \in Threads, Working(w), LocksAgree(w), Top(w)
  PROVE  Step(w)
  <1>1. /\ worker[w].pc = "top" /\ UNCHANGED <<queue, sync, progress, main, idle, exitThreads>>
        /\ \/ Goto(w, "exited")
           \/ Search(w, "first")
    BY DEF Top, At
  <1>2. OnlyWorker(w) /\ (worker'[w].pc = "exited" \/
                          (worker'[w].pc = "sweep" /\ worker'[w].mode = "first"))
    BY <1>1, Gotos, Searches DEF WorkerPc, Mode
  <1>3. SlotStep(w)
    BY <1>1, <1>2, SlotSame DEF Holds
  <1>4. LockStep(w)
    BY <1>1, <1>2, LockSame DEF Owner
  <1> QED
    BY <1>1, <1>2, <1>3, <1>4, SyncSame DEF Step

LEMMA SweepStep ==
  ASSUME TypeOK, NEW w \in Threads, Working(w), LocksAgree(w), Sweep(w)
  PROVE  Step(w)
  <1>1. /\ worker[w].pc = "sweep" /\ UNCHANGED <<nextFill, sync, progress, main, exitThreads>>
    BY DEF Sweep, At
  <1>2. CASE slots[worker[w].it].state = "WAITING"
    <2> DEFINE r == [worker[w] EXCEPT !.pc = "check", !.blocked = FALSE,
                       !.unseen = slots[worker[w].it].barriers]
    <2>1. SetState(w, "RUNNING") /\ UNCHANGED idle /\ worker' = [worker EXCEPT ![w] = r]
      BY <1>2, Types DEF Sweep
    <2>2. worker[w] \in WorkerType /\ slots[worker[w].it] \in Slot
      BY Types DEF WorkerType
    <2>3. r \in WorkerType /\ r.pc = "check" /\ r.it = worker[w].it /\ r.mode = worker[w].mode
      BY <2>2 DEF WorkerType, WorkerPc, Slot
    <2> HIDE DEF r
    <2>4. /\ OnlyWorker(w) /\ worker'[w].pc = "check" /\ worker'[w].it = worker[w].it
          /\ worker'[w].mode = worker[w].mode
      BY <2>1, <2>3, WorkerChanged
    <2>5. SlotStep(w)
      BY <1>1, <1>2, <2>1, <2>4, StatesSet DEF SlotStep, SlotCase, Holds
    <2>6. LockStep(w)
      BY <1>1, <2>1, <2>4, LockSame, Types DEF Owner, WorkerType, Mode
    <2> QED
      BY <1>1, <2>4, <2>5, <2>6, SyncSame DEF Step
  <1>3. CASE slots[worker[w].it].state # "WAITING"
    <2>1. NextSlot(w) /\ UNCHANGED queue
      BY <1>1, <1>3 DEF Sweep, queue
    <2>2. OnlyWorker(w) /\ worker'[w].pc \in {"sweep", "idle", "missed", "sleep"}
      BY <2>1, NextSlots
    <2>3. SlotStep(w)
      BY <1>1, <2>1, <2>2, SlotSame DEF Holds
    <2>4. LockStep(w)
      BY <1>1, <2>1, LockNextSlot
    <2> QED
      BY <1>1, <2>2, <2>3, <2>4, SyncSame DEF Step
  <1> QED
    BY <1>2, <1>3

\* An exception ends the search.
LEMMA SyncThrow ==
  ASSUME TypeOK, NEW t \in Task, NEW p \in Progress,
         progress' = [progress EXCEPT ![t] = p], UNCHANGED <<sync, main>>
  PROVE  SyncStep
  BY Types DEF SyncStep, TypeOK, sync

LEMMA CheckBarrierStep ==
  ASSUME TypeOK, NEW w \in Threads, Working(w), LocksAgree(w), CheckBarrier(w)
  PROVE  Step(w)
  <1>1. worker[w].pc = "check" /\ UNCHANGED <<queue, sync, main, exitThreads>>
    BY DEF CheckBarrier, At
  <1>2. TaskOf(w) \in Task
    BY <1>1 DEF Working, Holds
  <1>3. PICK b \in worker[w].unseen :
          \/ Throw(w)
          \/ /\ worker' = [worker EXCEPT ![w].unseen = @ \ {b},
                                         ![w].blocked = @ \/ barrier[b] = "locked"]
             /\ UNCHANGED <<progress, idle>>
    BY DEF CheckBarrier
  <1>4. CASE Throw(w)
    <2>1. /\ OnlyWorker(w) /\ worker'[w].pc = "excDone" /\ worker'[w].it = worker[w].it
          /\ Release(w) /\ progress' = [progress EXCEPT ![TaskOf(w)] = "threw"]
      BY <1>4, Throws
    <2>2. SlotStep(w)
      BY <1>1, <2>1, SlotSame DEF Holds
    <2>3. LockStep(w)
      BY <1>1, <2>1, LockReleased
    <2>4. SyncStep
      BY <1>1, <1>2, <2>1, SyncThrow DEF Progress
    <2> QED
      BY <1>1, <2>1, <2>2, <2>3, <2>4 DEF Step
  <1>5. CASE /\ worker' = [worker EXCEPT ![w].unseen = @ \ {b},
                                         ![w].blocked = @ \/ barrier[b] = "locked"]
             /\ UNCHANGED <<progress, idle>>
    <2> DEFINE r == [worker[w] EXCEPT !.unseen = @ \ {b},
                                      !.blocked = @ \/ barrier[b] = "locked"]
    <2>1. worker' = [worker EXCEPT ![w] = r]
      BY <1>5, Types
    <2>2. worker[w] \in WorkerType
      BY Types
    <2>3. /\ r \in WorkerType /\ r.pc = worker[w].pc /\ r.it = worker[w].it
          /\ r.mode = worker[w].mode
      BY <2>2 DEF WorkerType
    <2> HIDE DEF r
    <2>4. /\ OnlyWorker(w) /\ worker'[w].pc = "check" /\ worker'[w].it = worker[w].it
          /\ worker'[w].mode = worker[w].mode
      BY <1>1, <2>1, <2>3, WorkerChanged
    <2>5. SlotStep(w)
      BY <1>1, <2>4, SlotSame DEF Holds
    <2>6. LockStep(w)
      BY <1>1, <1>5, <2>4, LockSame, Types DEF Owner, WorkerType, Mode
    <2> QED
      BY <1>1, <1>5, <2>4, <2>5, <2>6, SyncSame DEF Step
  <1> QED
    BY <1>3, <1>4, <1>5

LEMMA BlockedStep ==
  ASSUME TypeOK, NEW w \in Threads, Working(w), LocksAgree(w), Blocked(w)
  PROVE  Step(w)
  <1>1. /\ worker[w].pc = "check" /\ UNCHANGED <<nextFill, sync, progress, main, exitThreads>>
        /\ SetState(w, "WAITING") /\ NextSlot(w)
    BY DEF Blocked, At
  <1>2. OnlyWorker(w) /\ worker'[w].pc \in {"sweep", "idle", "missed", "sleep"}
    BY <1>1, NextSlots
  <1>3. SlotStep(w)
    BY <1>1, <1>2, StatesSet DEF SlotStep, SlotCase, Holds
  <1>4. LockStep(w)
    BY <1>1, LockNextSlot
  <1> QED
    BY <1>1, <1>2, <1>3, <1>4, SyncSame DEF Step

LEMMA ReadyCheckStep ==
  ASSUME TypeOK, NEW w \in Threads, Working(w), LocksAgree(w), ReadyCheck(w)
  PROVE  Step(w)
  <1> DEFINE i == worker[w].it
             cleared == [slots[i] EXCEPT !.barriers = {}]
             again == [cleared EXCEPT !.state = "WAITING"]
  <1>1. worker[w].pc = "check" /\ UNCHANGED <<nextFill, sync, main, exitThreads>>
    BY DEF ReadyCheck, At
  <1>2. TaskOf(w) \in Task /\ slots[i].state = "RUNNING"
    BY <1>1 DEF Working, Holds
  <1>3. i \in SlotId /\ slots[i] \in Slot
    BY Types DEF WorkerType
  <1>4. /\ cleared \in Slot /\ cleared.task = slots[i].task /\ cleared.state = slots[i].state
        /\ again \in Slot /\ again.task = slots[i].task /\ again.state = "WAITING"
    BY <1>3 DEF Slot
  <1>5. \/ slots' = [slots EXCEPT ![i] = cleared] /\ Throw(w)
        \/ /\ slots' = [slots EXCEPT ![i] = cleared] /\ Goto(w, "found")
           /\ Release(w) /\ UNCHANGED progress
        \/ slots' = [slots EXCEPT ![i] = again] /\ NextSlot(w) /\ UNCHANGED progress
    BY DEF ReadyCheck
  <1> HIDE DEF cleared, again
  <1>6. CASE slots' = [slots EXCEPT ![i] = cleared] /\ Throw(w)
    <2>1. /\ OnlyWorker(w) /\ worker'[w].pc = "excDone" /\ worker'[w].it = worker[w].it
          /\ Release(w) /\ progress' = [progress EXCEPT ![TaskOf(w)] = "threw"]
      BY <1>6, Throws
    <2>2. SlotStep(w)
      BY <1>1, <1>3, <1>4, <1>6, <2>1, SlotChanged DEF SlotStep, SlotCase, Holds
    <2>3. LockStep(w)
      BY <1>1, <2>1, LockReleased
    <2>4. SyncStep
      BY <1>1, <1>2, <2>1, SyncThrow DEF Progress
    <2> QED
      BY <1>1, <2>1, <2>2, <2>3, <2>4 DEF Step
  <1>7. CASE /\ slots' = [slots EXCEPT ![i] = cleared] /\ Goto(w, "found")
             /\ Release(w) /\ UNCHANGED progress
    <2>1. OnlyWorker(w) /\ worker'[w].pc = "found" /\ worker'[w].it = worker[w].it
      BY <1>7, Gotos DEF WorkerPc
    <2>2. SlotStep(w)
      BY <1>1, <1>3, <1>4, <1>7, <2>1, SlotChanged DEF SlotStep, SlotCase, Holds
    <2>3. LockStep(w)
      BY <1>1, <1>7, <2>1, LockReleased
    <2> QED
      BY <1>1, <1>7, <2>1, <2>2, <2>3, SyncSame DEF Step
  <1>8. CASE slots' = [slots EXCEPT ![i] = again] /\ NextSlot(w) /\ UNCHANGED progress
    <2>1. OnlyWorker(w) /\ worker'[w].pc \in {"sweep", "idle", "missed", "sleep"}
      BY <1>8, NextSlots
    <2>2. SlotStep(w)
      BY <1>1, <1>3, <1>4, <1>8, <2>1, SlotChanged DEF SlotStep, SlotCase, Holds
    <2>3. LockStep(w)
      BY <1>1, <1>8, LockNextSlot
    <2> QED
      BY <1>1, <1>8, <2>1, <2>2, <2>3, SyncSame DEF Step
  <1> QED
    BY <1>5, <1>6, <1>7, <1>8

\* A thread that works on a task has no part in the locks.
LEMMA LockWorking ==
  ASSUME TypeOK, NEW w \in Threads, OnlyWorker(w), UNCHANGED idle,
         Holds(w), worker[w].pc # "check",
         worker'[w].pc \in {"found", "unlock", "decrement", "free", "excDone", "excCounter",
                            "excDecrement", "excFree", "top", "exited"}
  PROVE  LockStep(w)
  BY LockSame DEF Owner, Holds

LEMMA CallStep ==
  ASSUME TypeOK, NEW w \in Threads, Working(w), LocksAgree(w), Call(w)
  PROVE  Step(w)
  <1>1. worker[w].pc = "found" /\ UNCHANGED <<nextFill, sync, main, idle, exitThreads>>
    BY DEF Call, At
  <1>2. TaskOf(w) \in Task
    BY <1>1 DEF Working, Holds
  <1>3. \/ exitThreads /\ Goto(w, "exited") /\ UNCHANGED <<slots, progress>>
        \/ /\ progress' = [progress EXCEPT ![TaskOf(w)] = "part"]
           /\ SetState(w, "WAITING") /\ Leave(w)
        \/ /\ progress' = [progress EXCEPT ![TaskOf(w)] = "returned"]
           /\ Goto(w, "unlock") /\ UNCHANGED slots
        \/ /\ progress' = [progress EXCEPT ![TaskOf(w)] = "threw"]
           /\ Goto(w, "excDone") /\ UNCHANGED slots
    BY DEF Call
  <1>4. CASE exitThreads /\ Goto(w, "exited") /\ UNCHANGED <<slots, progress>>
    <2>1. OnlyWorker(w) /\ worker'[w].pc = "exited"
      BY <1>4, Gotos DEF WorkerPc
    <2>2. SlotStep(w)
      BY <1>1, <1>4, <2>1, SlotSame DEF Holds, queue
    <2>3. LockStep(w)
      BY <1>1, <2>1, LockWorking DEF Holds
    <2> QED
      BY <1>1, <1>4, <2>1, <2>2, <2>3, SyncSame DEF Step
  <1>5. CASE /\ progress' = [progress EXCEPT ![TaskOf(w)] = "part"]
             /\ SetState(w, "WAITING") /\ Leave(w)
    <2>1. OnlyWorker(w) /\ worker'[w].pc = "top"
      BY <1>5, Leaves
    <2>2. SlotStep(w)
      BY <1>1, <1>5, <2>1, StatesSet DEF SlotStep, SlotCase, Holds
    <2>3. LockStep(w)
      BY <1>1, <2>1, LockWorking DEF Holds
    <2>4. SyncStep
      BY <1>1, <1>2, <1>5, SyncThrow DEF Progress
    <2> QED
      BY <1>1, <2>1, <2>2, <2>3, <2>4 DEF Step
  <1>6. CASE \/ /\ progress' = [progress EXCEPT ![TaskOf(w)] = "returned"]
                /\ Goto(w, "unlock") /\ UNCHANGED slots
             \/ /\ progress' = [progress EXCEPT ![TaskOf(w)] = "threw"]
                /\ Goto(w, "excDone") /\ UNCHANGED slots
    <2>1. /\ OnlyWorker(w) /\ worker'[w].pc \in {"unlock", "excDone"}
          /\ worker'[w].it = worker[w].it
      BY <1>6, Gotos DEF WorkerPc
    <2>2. SlotStep(w)
      BY <1>1, <1>6, <2>1, SlotSame DEF Holds, queue
    <2>3. LockStep(w)
      BY <1>1, <2>1, LockWorking DEF Holds
    <2>4. SyncStep
      BY <1>1, <1>2, <1>6, SyncThrow DEF Progress
    <2> QED
      BY <1>1, <2>1, <2>2, <2>3, <2>4 DEF Step
  <1> QED
    BY <1>3, <1>4, <1>5, <1>6

LEMMA UnlockDoneStep ==
  ASSUME TypeOK, NEW w \in Threads, Working(w), LocksAgree(w), UnlockDone(w)
  PROVE  Step(w)
  <1>1. /\ worker[w].pc = "unlock" /\ UNCHANGED <<queue, count, progress, main, idle, exitThreads>>
        /\ Goto(w, "decrement") /\ barrier' = [barrier EXCEPT ![TaskOf(w)] = "unlocked"]
    BY DEF UnlockDone, At
  <1>2. OnlyWorker(w) /\ worker'[w].pc = "decrement" /\ worker'[w].it = worker[w].it
    BY <1>1, Gotos DEF WorkerPc
  <1>3. SlotStep(w)
    BY <1>1, <1>2, SlotSame DEF Holds
  <1>4. LockStep(w)
    BY <1>1, <1>2, LockWorking DEF Holds
  <1>5. SyncStep
    BY <1>1, Types DEF SyncStep, TypeOK, BarrierState
  <1> QED
    BY <1>1, <1>2, <1>3, <1>4, <1>5 DEF Step

LEMMA DecrementCounterStep ==
  ASSUME TypeOK, NEW w \in Threads, Working(w), LocksAgree(w), DecrementCounter(w)
  PROVE  Step(w)
  <1>1. /\ worker[w].pc = "decrement" /\ UNCHANGED <<queue, progress, idle, exitThreads>>
        /\ Goto(w, "excDone") \/ Goto(w, "free")
        /\ Decrement(CounterOf[TaskOf(w)])
    BY DEF DecrementCounter, At
  <1>2. /\ OnlyWorker(w) /\ worker'[w].pc \in {"excDone", "free"}
        /\ worker'[w].it = worker[w].it
    BY <1>1, Gotos DEF WorkerPc
  <1>3. SlotStep(w)
    BY <1>1, <1>2, SlotSame DEF Holds
  <1>4. LockStep(w)
    BY <1>1, <1>2, LockWorking DEF Holds
  <1>5. CounterOf[TaskOf(w)] \in Counter
    BY <1>1, PoolAssumption DEF Working, Holds
  <1>6. SyncStep
    BY <1>1, <1>5, Decrements DEF SyncStep, TypeOK
  <1> QED
    BY <1>1, <1>2, <1>3, <1>4, <1>6 DEF Step

LEMMA FreeTheSlotStep ==
  ASSUME TypeOK, NEW w \in Threads, Working(w), LocksAgree(w), FreeTheSlot(w)
  PROVE  Step(w)
  <1>1. /\ worker[w].pc = "free" /\ UNCHANGED <<nextFill, sync, progress, main, idle, exitThreads>>
        /\ SetState(w, "FREE") /\ Leave(w)
    BY DEF FreeTheSlot, At
  <1>2. OnlyWorker(w) /\ worker'[w].pc = "top"
    BY <1>1, Leaves
  <1>3. SlotStep(w)
    BY <1>1, <1>2, StatesSet DEF SlotStep, SlotCase, Holds
  <1>4. LockStep(w)
    BY <1>1, <1>2, LockWorking DEF Holds
  <1> QED
    BY <1>1, <1>2, <1>3, <1>4, SyncSame DEF Step

LEMMA DoneExceptionStep ==
  ASSUME TypeOK, NEW w \in Threads, Working(w), LocksAgree(w), DoneException(w)
  PROVE  Step(w)
  <1>1. /\ worker[w].pc = "excDone" /\ UNCHANGED <<queue, count, progress, main, idle, exitThreads>>
        /\ Goto(w, "excCounter") /\ barrier' = [barrier EXCEPT ![TaskOf(w)] = "error"]
    BY DEF DoneException, At
  <1>2. OnlyWorker(w) /\ worker'[w].pc = "excCounter" /\ worker'[w].it = worker[w].it
    BY <1>1, Gotos DEF WorkerPc
  <1>3. SlotStep(w)
    BY <1>1, <1>2, SlotSame DEF Holds
  <1>4. LockStep(w)
    BY <1>1, <1>2, LockWorking DEF Holds
  <1>5. SyncStep
    BY <1>1, Types DEF SyncStep, TypeOK, BarrierState
  <1> QED
    BY <1>1, <1>2, <1>3, <1>4, <1>5 DEF Step

LEMMA CounterExceptionStep ==
  ASSUME TypeOK, NEW w \in Threads, Working(w), LocksAgree(w), CounterException(w)
  PROVE  Step(w)
  <1> DEFINE c == CounterOf[TaskOf(w)]
  <1>1. /\ worker[w].pc = "excCounter" /\ UNCHANGED <<queue, count, progress, idle, exitThreads>>
        /\ Goto(w, "excDecrement") /\ barrier' = [barrier EXCEPT ![c] = "error"] /\ Notify(c)
    BY DEF CounterException, At
  <1>2. OnlyWorker(w) /\ worker'[w].pc = "excDecrement" /\ worker'[w].it = worker[w].it
    BY <1>1, Gotos DEF WorkerPc
  <1>3. SlotStep(w)
    BY <1>1, <1>2, SlotSame DEF Holds
  <1>4. LockStep(w)
    BY <1>1, <1>2, LockWorking DEF Holds
  <1>5. /\ main' \in MainType
        /\ main' = main \/ (main.pc = "asleep" /\ main' = [main EXCEPT !.pc = "wait"])
    BY <1>1, Notifies
  <1>6. SyncStep
    BY <1>1, <1>5, Types DEF SyncStep, TypeOK, BarrierState
  <1> QED
    BY <1>1, <1>2, <1>3, <1>4, <1>6 DEF Step

LEMMA ExceptionDecrementStep ==
  ASSUME TypeOK, NEW w \in Threads, Working(w), LocksAgree(w), ExceptionDecrement(w)
  PROVE  Step(w)
  <1>1. /\ worker[w].pc = "excDecrement" /\ UNCHANGED <<queue, progress, idle, exitThreads>>
        /\ Goto(w, "excFree") /\ Decrement(CounterOf[TaskOf(w)])
    BY DEF ExceptionDecrement, At
  <1>2. OnlyWorker(w) /\ worker'[w].pc = "excFree" /\ worker'[w].it = worker[w].it
    BY <1>1, Gotos DEF WorkerPc
  <1>3. SlotStep(w)
    BY <1>1, <1>2, SlotSame DEF Holds
  <1>4. LockStep(w)
    BY <1>1, <1>2, LockWorking DEF Holds
  <1>5. CounterOf[TaskOf(w)] \in Counter
    BY <1>1, PoolAssumption DEF Working, Holds
  <1>6. SyncStep
    BY <1>1, <1>5, Decrements DEF SyncStep, TypeOK
  <1> QED
    BY <1>1, <1>2, <1>3, <1>4, <1>6 DEF Step

LEMMA ExceptionFreeStep ==
  ASSUME TypeOK, NEW w \in Threads, Working(w), LocksAgree(w), ExceptionFree(w)
  PROVE  Step(w)
  <1>1. /\ worker[w].pc = "excFree" /\ UNCHANGED <<nextFill, sync, progress, main, idle, exitThreads>>
        /\ SetState(w, "FREE") /\ Goto(w, "top")
    BY DEF ExceptionFree, At
  <1>2. OnlyWorker(w) /\ worker'[w].pc = "top"
    BY <1>1, Gotos DEF WorkerPc
  <1>3. SlotStep(w)
    BY <1>1, <1>2, StatesSet DEF SlotStep, SlotCase, Holds
  <1>4. LockStep(w)
    BY <1>1, <1>2, LockWorking DEF Holds
  <1> QED
    BY <1>1, <1>2, <1>3, <1>4, SyncSame DEF Step

LEMMA IdleLoopStep ==
  ASSUME TypeOK, NEW w \in Threads, Working(w), LocksAgree(w), IdleLoop(w)
  PROVE  Step(w)
  <1>1. /\ worker[w].pc = "idle" /\ UNCHANGED <<queue, sync, progress, main, exitThreads>>
        /\ \/ Goto(w, "exited") /\ Release(w)
           \/ Search(w, worker[w].mode) /\ UNCHANGED idle
    BY DEF IdleLoop, At
  <1>2. worker[w].mode \in Mode /\ worker[w].mode # "pause"
    BY <1>1, Types DEF WorkerType, LocksAgree
  <1>3. CASE Goto(w, "exited") /\ Release(w)
    <2>1. OnlyWorker(w) /\ worker'[w].pc = "exited"
      BY <1>3, Gotos DEF WorkerPc
    <2>2. SlotStep(w)
      BY <1>1, <2>1, SlotSame DEF Holds
    <2>3. LockStep(w)
      BY <1>1, <1>3, <2>1, LockReleased
    <2> QED
      BY <1>1, <2>1, <2>2, <2>3, SyncSame DEF Step
  <1>4. CASE Search(w, worker[w].mode) /\ UNCHANGED idle
    <2>1. OnlyWorker(w) /\ worker'[w].pc = "sweep" /\ worker'[w].mode = worker[w].mode
      BY <1>2, <1>4, Searches
    <2>2. SlotStep(w)
      BY <1>1, <2>1, SlotSame DEF Holds
    <2>3. LockStep(w)
      BY <1>1, <1>2, <1>4, <2>1, LockSame DEF Owner
    <2> QED
      BY <1>1, <2>1, <2>2, <2>3, SyncSame DEF Step
  <1> QED
    BY <1>1, <1>3, <1>4

LEMMA MissedStep ==
  ASSUME TypeOK, NEW w \in Threads, Working(w), LocksAgree(w), Missed(w)
  PROVE  Step(w)
  <1>1. /\ worker[w].pc = "missed" /\ UNCHANGED <<queue, sync, progress, main, exitThreads>>
        /\ \/ Goto(w, "exited") /\ Release(w)
           \/ Goto(w, "idle") /\ UNCHANGED idle
           \/ worker[w].mode = "spin" /\ Goto(w, "lock") /\ UNCHANGED idle
    BY DEF Missed, At
  <1>2. worker[w].mode \in {"spin", "owner"}
    BY <1>1 DEF LocksAgree
  <1>3. CASE Goto(w, "exited") /\ Release(w)
    <2>1. OnlyWorker(w) /\ worker'[w].pc = "exited"
      BY <1>3, Gotos DEF WorkerPc
    <2>2. SlotStep(w)
      BY <1>1, <2>1, SlotSame DEF Holds
    <2>3. LockStep(w)
      BY <1>1, <1>3, <2>1, LockReleased
    <2> QED
      BY <1>1, <2>1, <2>2, <2>3, SyncSame DEF Step
  <1>4. CASE Goto(w, "idle") /\ UNCHANGED idle
    <2>1. OnlyWorker(w) /\ worker'[w].pc = "idle" /\ worker'[w].mode = worker[w].mode
      BY <1>4, Gotos DEF WorkerPc
    <2>2. SlotStep(w)
      BY <1>1, <2>1, SlotSame DEF Holds
    <2>3. LockStep(w)
      BY <1>1, <1>2, <1>4, <2>1, LockSame DEF Owner
    <2> QED
      BY <1>1, <2>1, <2>2, <2>3, SyncSame DEF Step
  <1>5. CASE worker[w].mode = "spin" /\ Goto(w, "lock") /\ UNCHANGED idle
    <2>1. OnlyWorker(w) /\ worker'[w].pc = "lock" /\ worker'[w].mode = "spin"
      BY <1>5, Gotos DEF WorkerPc
    <2>2. SlotStep(w)
      BY <1>1, <2>1, SlotSame DEF Holds
    <2>3. LockStep(w)
      BY <1>1, <1>5, <2>1, LockSame DEF Owner
    <2> QED
      BY <1>1, <2>1, <2>2, <2>3, SyncSame DEF Step
  <1> QED
    BY <1>1, <1>3, <1>4, <1>5

LEMMA LockIdleStep ==
  ASSUME TypeOK, NEW w \in Threads, Working(w), LocksAgree(w), LockIdle(w)
  PROVE  Step(w)
  <1> DEFINE r == [worker[w] EXCEPT !.pc = "idle", !.mode = "owner"]
  <1>1. /\ worker[w].pc = "lock" /\ idleLock = None /\ idleLock' = w
        /\ UNCHANGED <<queue, sync, progress, main, pauseLock, allWaiting, exitThreads>>
        /\ worker' = [worker EXCEPT ![w] = r]
    BY Types DEF LockIdle, At
  <1>2. r \in WorkerType /\ r.pc = "idle" /\ r.mode = "owner"
    BY Types DEF WorkerType, WorkerPc, Mode
  <1> HIDE DEF r
  <1>3. OnlyWorker(w) /\ worker'[w].pc = "idle" /\ worker'[w].mode = "owner"
    BY <1>1, <1>2, WorkerChanged
  <1>4. SlotStep(w)
    BY <1>1, <1>3, SlotSame DEF Holds
  <1>5. pauseLock # w /\ None \notin Threads
    BY <1>1, PoolAssumption DEF LocksAgree
  <1>6. LocksAgree(w)' /\ ~ Pausing(w)'
    BY <1>1, <1>3, <1>5 DEF LocksAgree, Owner, Pausing
  <1>7. LockStep(w)
    BY <1>1, <1>5, <1>6 DEF LockStep, TypeOK
  <1> QED
    BY <1>1, <1>3, <1>4, <1>7, SyncSame DEF Step

LEMMA PauseStep ==
  ASSUME TypeOK, NEW w \in Threads, Working(w), LocksAgree(w), Pause(w)
  PROVE  Step(w)
  <1>1. /\ worker[w].pc = "missed" /\ worker[w].mode = "owner"
        /\ pauseLock = None /\ pauseLock' = w /\ allWaiting' = TRUE /\ Search(w, "pause")
        /\ UNCHANGED <<queue, sync, progress, main, idleLock, exitThreads>>
    BY DEF Pause, At
  <1>2. OnlyWorker(w) /\ worker'[w].pc = "sweep" /\ worker'[w].mode = "pause"
    BY <1>1, Searches DEF Mode
  <1>3. SlotStep(w)
    BY <1>1, <1>2, SlotSame DEF Holds
  <1>4. LocksAgree(w)'
    BY <1>1, <1>2 DEF LocksAgree, Owner
  <1>5. LockStep(w)
    BY <1>1, <1>4, PoolAssumption DEF LockStep, TypeOK
  <1> QED
    BY <1>1, <1>2, <1>3, <1>5, SyncSame DEF Step

LEMMA WokenStep ==
  ASSUME TypeOK, NEW w \in Threads, Working(w), LocksAgree(w), Woken(w)
  PROVE  Step(w)
  <1>1. /\ worker[w].pc = "woken" /\ pauseLock = None
        /\ \/ Search(w, "pause") /\ pauseLock' = w
           \/ Goto(w, "idle") /\ UNCHANGED pauseLock
        /\ UNCHANGED <<queue, sync, progress, main, idleLock, allWaiting, exitThreads>>
    BY DEF Woken, At
  <1>2. worker[w].mode = "owner" /\ idleLock = w /\ None \notin Threads
    BY <1>1, PoolAssumption DEF LocksAgree, Owner
  <1>3. /\ OnlyWorker(w)
        /\ \/ worker'[w].pc = "sweep" /\ worker'[w].mode = "pause" /\ pauseLock' = w
           \/ worker'[w].pc = "idle" /\ worker'[w].mode = "owner" /\ pauseLock' = None
    BY <1>1, <1>2, Searches, Gotos DEF WorkerPc, Mode
  <1>4. SlotStep(w)
    BY <1>1, <1>3, SlotSame DEF Holds
  <1>5. LocksAgree(w)' /\ Pausing(w)
    BY <1>1, <1>2, <1>3 DEF LocksAgree, Owner, Pausing
  <1>6. LockStep(w)
    BY <1>1, <1>2, <1>3, <1>5 DEF LockStep, TypeOK
  <1> QED
    BY <1>1, <1>3, <1>4, <1>6, SyncSame DEF Step

LEMMA WorkerSteps ==
  ASSUME TypeOK, NEW w \in Threads, Working(w), LocksAgree(w), WorkerStep(w)
  PROVE  Step(w)
  BY TopStep, SweepStep, CheckBarrierStep, BlockedStep, ReadyCheckStep, CallStep,
     UnlockDoneStep, DecrementCounterStep, FreeTheSlotStep, DoneExceptionStep,
     CounterExceptionStep, ExceptionDecrementStep, ExceptionFreeStep, IdleLoopStep,
     MissedStep, LockIdleStep, PauseStep, WokenStep DEF WorkerStep

\* Such a step keeps the types.
LEMMA StepTypes ==
  ASSUME TypeOK, NEW w \in Threads, Step(w)
  PROVE  TypeOK' /\ SlotId' = SlotId
  <1>1. Len(slots') = Len(slots) /\ slots' \in Seq(Slot) /\ nextFill' = nextFill
    BY DEF Step, SlotStep
  <1>2. worker' \in [Threads -> WorkerType]
    BY DEF Step, OnlyWorker
  <1>3. main' \in MainType
    BY DEF Step, SyncStep
  <1>4. SlotId' = SlotId
    BY <1>1 DEF SlotId
  <1>5. /\ main' \in [pc : MainPc, task : 1 .. NumTasks + 1,
                      it : 1 .. Len(slots'), turn : 1 .. Len(WaitOrder) + 1]
        /\ worker' \in [Threads -> [pc : WorkerPc, mode : Mode,
                                    it : 1 .. Len(slots'), start : 1 .. Len(slots'),
                                    unseen : SUBSET (Task \cup Counter),
                                    blocked : BOOLEAN]]
    BY <1>1, <1>2, <1>3 DEF WorkerType, MainType, SlotId
  <1> QED
    BY <1>1, <1>4, <1>5 DEF Step, SyncStep, LockStep, TypeOK

-----------------------------------------------------------------------------
(***************************************************************************)
(* The steps of the main thread.  They touch the slot it has claimed, or a *)
(* slot that is free, and wake the thread that sleeps.                     *)
(***************************************************************************)
MainSlot == main.pc \in {"increment", "fill"} =>
              main.task \in Task /\ slots[main.it].state = "PREPARING"

Filled == \A s \in InUse : slots[s].task \in Task /\ slots[s].task < main.task

WorkersWoken ==
  /\ worker' \in [Threads -> WorkerType']
  /\ \A w \in Threads :
       \/ worker'[w] = worker[w]
       \/ /\ worker[w].pc = "sleep" /\ worker'[w].pc = "woken"
          /\ worker'[w].mode = worker[w].mode /\ worker'[w].it = worker[w].it

MainFrame ==
  /\ TypeOK' /\ WorkersWoken
  /\ UNCHANGED <<idleLock, pauseLock, progress>>
  /\ exitThreads => exitThreads'

\* The slots in use stay as they are, and one may be filled.
SlotsSafe ==
  /\ \A s \in InUse : s \in InUse' /\ slots'[s] = slots[s]
  /\ \A s \in InUse' \ InUse : /\ s = main.it /\ slots'[s].state = "WAITING"
                               /\ slots'[s].task = main.task /\ main.task < main'.task

\* The task that is added next only goes up.
TaskGoesOn == main'.task \in Int /\ main.task <= main'.task

LEMMA SameWorkers ==
  ASSUME TypeOK, UNCHANGED worker, SlotId \subseteq SlotId'
  PROVE  WorkersWoken
  <1>1. worker \in [Threads -> WorkerType]
    BY Types
  <1>2. WorkerType \subseteq WorkerType'
    BY DEF WorkerType
  <1>3. worker' \in [Threads -> WorkerType']
    BY <1>1, <1>2
  <1> QED
    BY <1>3 DEF WorkersWoken

LEMMA Unpauses ==
  ASSUME TypeOK, Unpause, SlotId' = SlotId
  PROVE  /\ WorkersWoken /\ UNCHANGED <<idleLock, pauseLock>> /\ allWaiting' = FALSE
         /\ \A w \in Threads : worker'[w].pc # "sleep"
  <1>1. /\ worker' = [w \in Threads |-> Wake(w)] /\ allWaiting' = FALSE
        /\ UNCHANGED <<idleLock, pauseLock>>
    BY DEF Unpause
  <1>2. WorkerType' = WorkerType
    BY DEF WorkerType
  <1>3. ASSUME NEW w \in Threads
        PROVE  /\ Wake(w) \in WorkerType /\ Wake(w).pc # "sleep"
               /\ \/ Wake(w) = worker[w]
                  \/ /\ worker[w].pc = "sleep" /\ Wake(w).pc = "woken"
                     /\ Wake(w).mode = worker[w].mode /\ Wake(w).it = worker[w].it
    BY Types DEF Wake, WorkerType, WorkerPc
  <1> QED
    BY <1>1, <1>2, <1>3 DEF WorkersWoken

LEMMA MainTypes ==
  ASSUME TypeOK, slots' \in Seq(Slot), SlotId \subseteq SlotId', Len(slots') > 0,
         nextFill' \in SlotId', main' \in MainType', WorkersWoken,
         barrier' \in [Task \cup Counter -> BarrierState],
         count' \in [Counter -> 0 .. CounterRange - 1],
         UNCHANGED <<progress, idleLock, pauseLock>>,
         allWaiting' \in BOOLEAN, exitThreads' \in BOOLEAN
  PROVE  TypeOK'
  <1>1. /\ main' \in [pc : MainPc, task : 1 .. NumTasks + 1,
                      it : 1 .. Len(slots'), turn : 1 .. Len(WaitOrder) + 1]
        /\ worker' \in [Threads -> [pc : WorkerPc, mode : Mode,
                                    it : 1 .. Len(slots'), start : 1 .. Len(slots'),
                                    unseen : SUBSET (Task \cup Counter),
                                    blocked : BOOLEAN]]
        /\ nextFill' \in 1 .. Len(slots')
    BY DEF WorkersWoken, WorkerType, MainType, SlotId
  <1> QED
    BY <1>1 DEF TypeOK

\* Nothing but the main thread's own state changes, and its place.
LEMMA MainMoves ==
  ASSUME TypeOK, NEW m \in MainType, main' = m,
         UNCHANGED <<queue, sync, progress, worker, idle>>,
         exitThreads' \in BOOLEAN, exitThreads => exitThreads'
  PROVE  MainFrame /\ SlotsSafe /\ slots' = slots
  <1>1. /\ slots' = slots /\ nextFill' = nextFill /\ barrier' = barrier /\ count' = count
        /\ idleLock' = idleLock /\ pauseLock' = pauseLock /\ allWaiting' = allWaiting
    BY DEF queue, sync, idle
  <1>2. SlotId' = SlotId /\ InUse' = InUse /\ MainType' = MainType
    BY <1>1 DEF SlotId, InUse, MainType
  <1>3. WorkersWoken
    BY <1>2, SameWorkers
  <1>4. Len(slots') > 0 /\ slots' \in Seq(Slot) /\ nextFill' \in SlotId'
    BY <1>1, <1>2, Types DEF TypeOK
  <1>5. TypeOK'
    BY <1>1, <1>2, <1>3, <1>4, MainTypes DEF TypeOK
  <1> QED
    BY <1>1, <1>2, <1>3, <1>5 DEF MainFrame, SlotsSafe, InUse, SlotId

\* What a step of the main thread keeps.
MainSafe == MainFrame /\ SlotsSafe /\ MainSlot' /\ TaskGoesOn

LEMMA SeekSafe ==
  ASSUME TypeOK, MainSlot, Seek
  PROVE  MainSafe
  <1>1. /\ main.pc = "seek" /\ main.task \in Task
        /\ UNCHANGED <<sync, progress, worker, idle, exitThreads>>
    BY DEF Seek
  <1>2. /\ barrier' = barrier /\ count' = count /\ progress' = progress /\ worker' = worker
        /\ idleLock' = idleLock /\ pauseLock' = pauseLock /\ allWaiting' = allWaiting
        /\ exitThreads' = exitThreads
    BY <1>1 DEF sync, idle
  <1>3. main \in MainType /\ main.it \in SlotId /\ slots[main.it] \in Slot /\ main.task \in Int
    BY Types DEF MainType
  <1>4. CASE slots[main.it].state = "FREE"
    <2> DEFINE e == [slots[main.it] EXCEPT !.state = "PREPARING"]
               m == [main EXCEPT !.pc = "increment"]
    <2>1. slots' = [slots EXCEPT ![main.it] = e] /\ main' = m /\ nextFill' = nextFill
      BY <1>4 DEF Seek
    <2>2. e \in Slot /\ e.state = "PREPARING"
      BY <1>3 DEF Slot
    <2>3. m \in MainType /\ m.it = main.it /\ m.task = main.task /\ m.pc = "increment"
      BY <1>3 DEF MainType, MainPc
    <2> HIDE DEF e, m
    <2>4. /\ slots' \in Seq(Slot) /\ Len(slots') = Len(slots) /\ SlotId' = SlotId
          /\ slots'[main.it].state = "PREPARING"
          /\ \A s \in SlotId : s # main.it => slots'[s] = slots[s]
      BY <1>3, <2>1, <2>2, SlotChanged
    <2>5. SlotsSafe
      BY <1>4, <2>4 DEF SlotsSafe, InUse, SlotId
    <2>6. MainType' = MainType /\ WorkersWoken
      BY <1>2, <2>4, SameWorkers DEF MainType
    <2>7. TypeOK'
      BY <1>2, <2>1, <2>3, <2>4, <2>6, MainTypes, Types DEF TypeOK
    <2> QED
      BY <1>1, <1>2, <1>3, <2>1, <2>3, <2>4, <2>5, <2>6, <2>7
         DEF MainSafe, MainFrame, MainSlot, TaskGoesOn
  <1>5. CASE slots[main.it].state # "FREE" /\ IncWrap(main.it) # nextFill
    <2> DEFINE m == [main EXCEPT !.it = IncWrap(@)]
    <2>1. main' = m /\ UNCHANGED queue
      BY <1>5 DEF Seek
    <2>2. m \in MainType /\ m.task = main.task /\ m.pc = "seek"
      BY <1>1, <1>3, Wraps DEF MainType
    <2> HIDE DEF m
    <2> QED
      BY <1>1, <1>2, <1>3, <2>1, <2>2, MainMoves
         DEF MainSafe, MainSlot, TaskGoesOn, TypeOK
  <1>6. CASE slots[main.it].state # "FREE" /\ IncWrap(main.it) = nextFill
    <2> DEFINE m == [main EXCEPT !.it = Len(slots) + 1]
    <2>1. slots' = slots \o Chunk /\ nextFill' = Len(slots) + 1 /\ main' = m
      BY <1>6 DEF Seek
    <2>2. /\ slots' \in Seq(Slot) /\ Len(slots') = Len(slots) + ChunkSize
          /\ SlotId \subseteq SlotId' /\ Len(slots) + 1 \in SlotId'
          /\ \A s \in SlotId : slots'[s] = slots[s]
          /\ \A s \in SlotId' : s \notin SlotId => slots'[s] = FreeSlot
      BY <2>1, SlotsGrow
    <2>3. m \in MainType' /\ m.task = main.task /\ m.pc = "seek"
      BY <1>1, <1>3, <2>2 DEF MainType
    <2> HIDE DEF m
    <2>4. SlotsSafe
      BY <2>2 DEF SlotsSafe, InUse, SlotId, FreeSlot
    <2>5. WorkersWoken
      BY <1>2, <2>2, SameWorkers
    <2>6. Len(slots') > 0
      BY <2>2, Types, PoolAssumption
    <2>7. TypeOK'
      BY <1>2, <2>1, <2>2, <2>3, <2>5, <2>6, MainTypes DEF TypeOK
    <2> QED
      BY <1>1, <1>2, <1>3, <2>1, <2>3, <2>4, <2>5, <2>7
         DEF MainSafe, MainFrame, MainSlot, TaskGoesOn
  <1> QED
    BY <1>4, <1>5, <1>6

LEMMA IncrementSafe ==
  ASSUME TypeOK, MainSlot, Increment
  PROVE  MainSafe
  <1> DEFINE c == CounterOf[main.task]
             m == IF barrier[c] = "error" THEN [main EXCEPT !.pc = "wait"]
                  ELSE [main EXCEPT !.pc = "fill"]
  <1>1. /\ main.pc = "increment" /\ main' = m
        /\ UNCHANGED <<queue, progress, worker, idle, exitThreads>>
    BY DEF Increment
  <1>2. /\ slots' = slots /\ nextFill' = nextFill /\ progress' = progress /\ worker' = worker
        /\ idleLock' = idleLock /\ pauseLock' = pauseLock /\ allWaiting' = allWaiting
        /\ exitThreads' = exitThreads
    BY <1>1 DEF queue, idle
  <1>3. main \in MainType /\ main.task \in Task /\ slots[main.it].state = "PREPARING"
    BY <1>1, Types DEF MainSlot
  <1>4. /\ m \in MainType /\ m.task = main.task /\ m.it = main.it
        /\ m.pc \in {"wait", "fill"}
    BY <1>3 DEF MainType, MainPc
  <1>5. c \in Counter
    BY <1>3, PoolAssumption
  <1>6. /\ barrier' \in [Task \cup Counter -> BarrierState]
        /\ count' \in [Counter -> 0 .. CounterRange - 1]
    <2>1. CASE barrier[c] = "error"
      BY <2>1 DEF Increment, sync, TypeOK
    <2>2. CASE barrier[c] # "error"
      <3>1. /\ barrier' = [barrier EXCEPT ![c] = "locked"]
            /\ count' = [count EXCEPT ![c] = (count[c] + 1) % CounterRange]
        BY <2>2, <1>5 DEF Increment, TypeOK
      <3>2. count[c] \in Nat /\ CounterRange \in Nat /\ CounterRange > 0
        BY <1>5, PoolAssumption DEF TypeOK
      <3>3. (count[c] + 1) % CounterRange \in 0 .. CounterRange - 1
        BY <3>2
      <3> QED
        BY <3>1, <3>3 DEF TypeOK, BarrierState
    <2> QED
      BY <2>1, <2>2
  <1> HIDE DEF m
  <1>7. SlotId' = SlotId /\ MainType' = MainType /\ WorkersWoken
    BY <1>2, SameWorkers DEF SlotId, MainType
  <1>8. SlotsSafe
    BY <1>2 DEF SlotsSafe, InUse
  <1>9. TypeOK'
    BY <1>1, <1>2, <1>4, <1>6, <1>7, MainTypes, Types DEF TypeOK
  <1> QED
    BY <1>1, <1>2, <1>3, <1>4, <1>7, <1>8, <1>9
       DEF MainSafe, MainFrame, MainSlot, TaskGoesOn, Task

LEMMA FillSafe ==
  ASSUME TypeOK, MainSlot, Fill
  PROVE  MainSafe
  <1> DEFINE e == [state |-> "WAITING", task |-> main.task, barriers |-> Deps[main.task]]
             m == [main EXCEPT !.pc = "seek", !.task = @ + 1, !.it = nextFill']
  <1>1. /\ main.pc = "fill" /\ slots' = [slots EXCEPT ![main.it] = e] /\ Unpause
        /\ nextFill' = IncWrap(nextFill) /\ main' = m
        /\ UNCHANGED <<sync, progress, exitThreads>>
    BY DEF Fill
  <1>2. /\ main \in MainType /\ main.it \in SlotId /\ nextFill \in SlotId
        /\ main.task \in Task /\ slots[main.it].state = "PREPARING"
    BY <1>1, Types DEF MainSlot, MainType
  <1>3. e \in Slot /\ e.state = "WAITING" /\ e.task = main.task
    BY <1>2, PoolAssumption DEF Slot, Task
  <1>4. nextFill' \in SlotId
    BY <1>1, <1>2, Wraps
  <1>5. m \in MainType /\ m.task = main.task + 1 /\ m.pc = "seek"
    <2>1. main.task + 1 \in 1 .. NumTasks + 1
      BY <1>2, PoolAssumption DEF Task
    <2> QED
      BY <1>2, <1>4, <2>1 DEF MainType, MainPc
  <1> HIDE DEF e, m
  <1>6. /\ slots' \in Seq(Slot) /\ Len(slots') = Len(slots) /\ SlotId' = SlotId
        /\ slots'[main.it] = e /\ \A s \in SlotId : s # main.it => slots'[s] = slots[s]
    BY <1>1, <1>2, <1>3, SlotChanged
  <1>7. /\ WorkersWoken /\ UNCHANGED <<idleLock, pauseLock>> /\ allWaiting' = FALSE
        /\ MainType' = MainType
    BY <1>1, <1>6, Unpauses DEF MainType
  <1>8. main.task < main'.task /\ main'.task \in Int /\ main.task <= main'.task
    BY <1>1, <1>2, <1>5 DEF Task
  <1>9. SlotsSafe
    BY <1>2, <1>3, <1>6, <1>8 DEF SlotsSafe, InUse, SlotId
  <1>10. TypeOK'
    BY <1>1, <1>4, <1>5, <1>6, <1>7, MainTypes, Types DEF TypeOK, sync
  <1> QED
    BY <1>1, <1>5, <1>7, <1>8, <1>9, <1>10 DEF MainSafe, MainFrame, MainSlot, TaskGoesOn

LEMMA MainStepSafe ==
  ASSUME TypeOK, MainSlot, MainStep
  PROVE  MainSafe
  <1>1. main \in MainType /\ main.task \in Int
    BY Types DEF MainType
  <1>2. ASSUME NEW p \in {"wait", "exit", "asleep", "unpause", "join", "end"},
               \/ main' = [main EXCEPT !.pc = p]
               \/ main.pc = "wait" /\ main.turn <= Len(WaitOrder)
                  /\ main' = [main EXCEPT !.turn = @ + 1],
               UNCHANGED <<queue, sync, progress, worker, idle>>,
               exitThreads' \in BOOLEAN, exitThreads => exitThreads'
        PROVE  MainSafe
    <2>1. Len(WaitOrder) \in Nat
      BY PoolAssumption, LenProperties
    <2>2. main' \in MainType /\ main'.task = main.task /\ main'.pc \notin {"increment", "fill"}
      BY <1>1, <1>2, <2>1 DEF MainType, MainPc
    <2> QED
      BY <1>1, <1>2, <2>2, MainMoves DEF MainSafe, MainSlot, TaskGoesOn
  <1>3. ASSUME AllAdded PROVE MainSafe
    BY <1>2, <1>3 DEF AllAdded, TypeOK
  <1>4. ASSUME Wait PROVE MainSafe
    <2>1. /\ main.pc = "wait" /\ UNCHANGED <<queue, sync, progress, worker, idle, exitThreads>>
          /\ \/ main' = [main EXCEPT !.pc = "exit"]
             \/ main.turn <= Len(WaitOrder) /\ main' = [main EXCEPT !.turn = @ + 1]
             \/ main' = [main EXCEPT !.pc = "asleep"]
      <3>1. main.turn \in Int /\ Len(WaitOrder) \in Nat
        BY Types, PoolAssumption, LenProperties DEF MainType
      <3> QED
        BY <1>4, <3>1 DEF Wait
    <2> QED
      BY <1>2, <2>1 DEF TypeOK
  <1>5. ASSUME ExitEarly PROVE MainSafe
    BY <1>2, <1>5 DEF ExitEarly, TypeOK
  <1>6. ASSUME Shutdown PROVE MainSafe
    BY <1>2, <1>6 DEF Shutdown
  <1>7. ASSUME WaitForThreads PROVE MainSafe
    <2>1. CASE main' = [main EXCEPT !.pc = "end"]
               /\ UNCHANGED <<queue, sync, progress, worker, idle, exitThreads>>
      BY <1>2, <2>1 DEF TypeOK
    <2>2. CASE /\ Unpause /\ main' = [main EXCEPT !.pc = "join"]
               /\ UNCHANGED <<queue, sync, progress, exitThreads>>
      <3>1. slots' = slots /\ SlotId' = SlotId /\ MainType' = MainType /\ nextFill' = nextFill
        BY <2>2 DEF queue, SlotId, MainType
      <3>2. WorkersWoken /\ UNCHANGED <<idleLock, pauseLock>> /\ allWaiting' = FALSE
        BY <2>2, <3>1, Unpauses
      <3>3. main' \in MainType /\ main'.task = main.task /\ main'.pc = "join"
        BY <1>1, <2>2 DEF MainType, MainPc
      <3>4. SlotsSafe
        BY <3>1 DEF SlotsSafe, InUse
      <3>5. TypeOK'
        BY <2>2, <3>1, <3>2, <3>3, MainTypes, Types DEF TypeOK, sync
      <3> QED
        BY <1>1, <2>2, <3>2, <3>3, <3>4, <3>5 DEF MainSafe, MainFrame, MainSlot, TaskGoesOn
    <2> QED
      BY <1>7, <2>1, <2>2 DEF WaitForThreads
  <1> QED
    BY <1>3, <1>4, <1>5, <1>6, <1>7, SeekSafe, IncrementSafe, FillSafe DEF MainStep

-----------------------------------------------------------------------------
(***************************************************************************)
(* The invariant.  A thread's slot is its own because only a slot that is  *)
(* WAITING is claimed and only a FREE one is filled; a task is in one slot *)
(* because tasks are added in order; and a thread that pauses owns the     *)
(* idle lock, which is what keeps all the others waiting.                  *)
(***************************************************************************)
PoolSafe == /\ TypeOK /\ LocksHeld /\ MainSlot /\ Filled
            /\ SlotOwnership /\ PausedAlone

LEMMA OwnerWorks ==
  ASSUME PoolSafe, NEW w \in Threads
  PROVE  Working(w) /\ LocksAgree(w)
  <1>1. worker[w].it \in SlotId
    BY Types DEF PoolSafe, WorkerType
  <1> QED
    BY <1>1 DEF PoolSafe, SlotOwnership, Filled, InUse, SlotId, Working, TaskOf, LocksHeld

\* The slots in use after a thread's step were in use before, with the same task.
LEMMA InUseKept ==
  ASSUME TypeOK, NEW w \in Threads, SlotStep(w)
  PROVE  /\ SlotId' = SlotId
         /\ \A s \in InUse' : s \in SlotId /\ slots'[s].task = slots[s].task
         /\ (Holds(w) => slots[worker[w].it].state = "RUNNING") => InUse' \subseteq InUse
  <1>1. worker[w].it \in SlotId
    BY Types DEF WorkerType
  <1>2. SlotId' = SlotId
    BY DEF SlotStep, SlotId
  <1> QED
    BY <1>1, <1>2 DEF SlotStep, SlotCase, InUse, SlotId

LEMMA WorkerOwnership ==
  ASSUME PoolSafe, NEW w \in Threads, Step(w)
  PROVE  SlotOwnership' /\ Filled' /\ MainSlot'
  <1> DEFINE i == worker[w].it
  <1>1. SlotStep(w) /\ OnlyWorker(w) /\ SyncStep /\ exitThreads' = exitThreads /\ TypeOK
    BY DEF Step, PoolSafe
  <1>2. /\ i \in SlotId /\ SlotId' = SlotId
        /\ \A v \in Threads : worker[v].it \in SlotId
        /\ \A s \in SlotId : s # i => slots'[s] = slots[s]
        /\ SlotCase(w)
    BY <1>1, InUseKept, Types DEF WorkerType, SlotStep
  <1>3. Holds(w) => slots[i].state = "RUNNING" /\ i \in InUse
    BY <1>2, OwnerWorks DEF Working, InUse, SlotId
  <1>4. /\ InUse' \subseteq InUse
        /\ \A s \in InUse' : s \in SlotId /\ slots'[s].task = slots[s].task
    BY <1>1, <1>3, InUseKept
  <1>5. /\ \A v \in Threads : v # w => (Holds(v)' <=> Holds(v)) /\ worker'[v].it = worker[v].it
        /\ \A v \in Threads : v # w /\ Holds(v) => /\ slots[worker[v].it].state = "RUNNING"
                                                   /\ Holds(w) => worker[v].it # i
    BY <1>1 DEF OnlyWorker, Holds, PoolSafe, SlotOwnership
  <1>6. Holds(w)' => worker'[w].it = i /\ slots'[i].state = "RUNNING"
    BY <1>2, <1>3 DEF SlotCase
  <1>7. \A v \in Threads : v # w /\ Holds(v) =>
          slots'[worker[v].it].state = "RUNNING" /\ (Holds(w)' => worker[v].it # i)
    BY <1>2, <1>5 DEF SlotCase
  <1>8. \A v \in Threads : Holds(v)' => slots'[worker'[v].it].state = "RUNNING"
    BY <1>5, <1>6, <1>7
  <1>9. \A v, u \in Threads :
          v # u /\ Holds(v)' /\ Holds(u)' => worker'[v].it # worker'[u].it
    BY <1>5, <1>6, <1>7 DEF PoolSafe, SlotOwnership
  <1>10. ASSUME NEW s \in InUse', slots'[s].state = "RUNNING", ~ exitThreads
         PROVE  \E v \in Threads : Holds(v)' /\ worker'[v].it = s
    <2>1. CASE s # i
      <3>1. slots[s].state = "RUNNING" /\ s \in InUse
        BY <1>2, <1>4, <1>10, <2>1
      <3>2. PICK v \in Threads : Holds(v) /\ worker[v].it = s
        BY <1>10, <3>1 DEF PoolSafe, SlotOwnership
      <3> QED
        BY <1>5, <2>1, <3>2
    <2>2. CASE s = i
      <3>1. CASE Holds(w)'
        BY <1>6, <2>2, <3>1
      <3>2. CASE ~ Holds(w)' /\ ~ Holds(w)
        <4>1. slots' = slots /\ s \in InUse
          BY <1>2, <1>4, <1>10, <3>2 DEF SlotCase
        <4>2. PICK v \in Threads : Holds(v) /\ worker[v].it = s
          BY <1>10, <4>1 DEF PoolSafe, SlotOwnership
        <4> QED
          BY <1>5, <3>2, <4>2
      <3>3. CASE ~ Holds(w)' /\ Holds(w)
        BY <1>2, <1>10, <2>2, <3>3 DEF SlotCase
      <3> QED
        BY <3>1, <3>2, <3>3
    <2> QED
      BY <2>1, <2>2
  <1>11. \A r, s \in InUse' : slots'[r].task = slots'[s].task => r = s
    BY <1>4 DEF PoolSafe, SlotOwnership
  <1>12. SlotOwnership'
    BY <1>1, <1>8, <1>9, <1>10, <1>11 DEF SlotOwnership
  <1>13. main'.task = main.task /\ main'.it = main.it
         /\ (main'.pc \in {"increment", "fill"} => main' = main) /\ main.it \in SlotId
    BY <1>1, Types DEF SyncStep, MainType
  <1>14. Filled'
    BY <1>4, <1>13 DEF Filled, PoolSafe
  <1>15. slots[main.it].state = "PREPARING" => slots'[main.it].state = "PREPARING"
    BY <1>2, <1>3, <1>13 DEF SlotCase
  <1>16. MainSlot'
    BY <1>13, <1>15 DEF MainSlot, PoolSafe
  <1> QED
    BY <1>12, <1>14, <1>16

\* All the others wait for the lock when a thread pauses.
LEMMA OthersWait ==
  ASSUME TypeOK, NEW w \in Threads, Pause(w)
  PROVE  \A v \in Threads \ {w} : worker[v].pc = "lock"
  <1>1. IsFiniteSet(Threads) /\ worker[w].pc = "missed"
        /\ Cardinality(WaitingForLock) >= Cardinality(Threads) - 1
    BY PoolAssumption DEF Pause, At
  <1>2. IsFiniteSet(Threads \ {w}) /\ Cardinality(Threads \ {w}) = Cardinality(Threads) - 1
    BY <1>1, FS_RemoveElement
  <1>3. WaitingForLock \in SUBSET (Threads \ {w})
    BY <1>1 DEF WaitingForLock
  <1>4. /\ Cardinality(WaitingForLock) <= Cardinality(Threads \ {w})
        /\ Cardinality(Threads \ {w}) = Cardinality(WaitingForLock)
             => Threads \ {w} = WaitingForLock
        /\ IsFiniteSet(WaitingForLock)
    BY <1>2, <1>3, FS_Subset
  <1>5. Cardinality(WaitingForLock) \in Nat /\ Cardinality(Threads \ {w}) \in Nat
    BY <1>2, <1>4, FS_CardinalityType
  <1>6. Threads \ {w} = WaitingForLock
    BY <1>1, <1>2, <1>4, <1>5
  <1> QED
    BY <1>6 DEF WaitingForLock

LEMMA WorkerLocks ==
  ASSUME PoolSafe, NEW w \in Threads, Step(w)
  PROVE  LocksHeld' /\ PausedAlone'
  <1>1. OnlyWorker(w) /\ LockStep(w) /\ TypeOK /\ \A v \in Threads : LocksAgree(v)
    BY DEF Step, PoolSafe, LocksHeld
  <1>2. \A v \in Threads : v # w =>
          /\ worker'[v] = worker[v]
          /\ idleLock' = v <=> idleLock = v
          /\ pauseLock' = v <=> pauseLock = v
    BY <1>1 DEF OnlyWorker, LockStep
  <1>3. \A v \in Threads : v # w => LocksAgree(v)'
    BY <1>1, <1>2 DEF LocksAgree, Owner
  <1>4. LocksAgree(w)'
    BY <1>1 DEF LockStep
  <1>5. LocksHeld'
    BY <1>3, <1>4 DEF LocksHeld
  <1>6. ASSUME NEW v \in Threads, Pausing(v)'
        PROVE  idleLock' = v /\ \A u \in Threads \ {v} : worker'[u].pc = "lock"
    <2>1. CASE v = w
      <3>1. \A u \in Threads \ {w} : worker[u].pc = "lock"
        BY <1>1, <1>6, <2>1, OthersWait DEF LockStep, PoolSafe, PausedAlone
      <3>2. idleLock' = w
        BY <1>4, <1>6, <2>1 DEF LocksAgree, Owner, Pausing
      <3> QED
        BY <1>2, <2>1, <3>1, <3>2
    <2>2. CASE v # w
      <3>1. Pausing(v)
        BY <1>2, <1>6, <2>2 DEF Pausing
      <3>2. idleLock = v /\ worker[w].pc = "lock"
        BY <2>2, <3>1 DEF PoolSafe, PausedAlone
      <3>3. idleLock = None /\ None \notin Threads
        BY <1>1, <3>2, PoolAssumption DEF LockStep
      <3> QED
        BY <3>2, <3>3
    <2> QED
      BY <2>1, <2>2
  <1> QED
    BY <1>5, <1>6 DEF PausedAlone

LEMMA MainKeeps ==
  ASSUME PoolSafe, MainSafe
  PROVE  PoolSafe'
  <1>1. /\ TypeOK' /\ MainSlot' /\ WorkersWoken /\ SlotsSafe /\ TaskGoesOn
        /\ idleLock' = idleLock /\ pauseLock' = pauseLock /\ (exitThreads => exitThreads')
    BY DEF MainSafe, MainFrame
  <1>2. /\ \A w \in Threads : (Holds(w)' <=> Holds(w)) /\ worker'[w].it = worker[w].it
        /\ \A w \in Threads : worker[w].pc = "lock" => worker'[w].pc = "lock"
    BY <1>1 DEF WorkersWoken, Holds
  <1>3. LocksHeld'
    <2>1. ASSUME NEW w \in Threads PROVE LocksAgree(w)'
      <3>1. LocksAgree(w)
        BY DEF PoolSafe, LocksHeld
      <3>2. CASE worker'[w] = worker[w]
        BY <1>1, <3>1, <3>2 DEF LocksAgree, Owner
      <3>3. CASE worker[w].pc = "sleep" /\ worker'[w].pc = "woken"
                 /\ worker'[w].mode = worker[w].mode
        BY <1>1, <3>1, <3>3 DEF LocksAgree, Owner
      <3> QED
        BY <1>1, <3>2, <3>3 DEF WorkersWoken
    <2> QED
      BY <2>1 DEF LocksHeld
  <1>4. PausedAlone'
    <2>1. \A w \in Threads : Pausing(w)' => Pausing(w)
      BY <1>1 DEF WorkersWoken, Pausing
    <2> QED
      BY <1>1, <1>2, <2>1 DEF PausedAlone, PoolSafe
  <1>5. Filled'
    <2>1. main.task \in Int /\ main'.task \in Int /\ main.task <= main'.task
      BY <1>1, Types DEF PoolSafe, MainType, TaskGoesOn
    <2>2. main'.task \in 1 .. NumTasks + 1 /\ main.task \in 1 .. NumTasks + 1
      BY <1>1, Types DEF PoolSafe, TypeOK
    <2>3. ASSUME NEW s \in InUse'
          PROVE  slots'[s].task \in Task /\ slots'[s].task < main'.task
      <3>1. CASE s \in InUse
        <4>1. slots'[s] = slots[s] /\ slots[s].task \in Task /\ slots[s].task < main.task
          BY <1>1, <3>1 DEF SlotsSafe, PoolSafe, Filled
        <4> QED
          BY <2>1, <4>1 DEF Task
      <3>2. CASE s \notin InUse
        <4>1. slots'[s].task = main.task /\ main.task < main'.task
          BY <1>1, <2>3, <3>2 DEF SlotsSafe
        <4> QED
          BY <2>1, <2>2, <4>1, PoolAssumption DEF Task
      <3> QED
        BY <3>1, <3>2
    <2> QED
      BY <2>3 DEF Filled
  <1>6. SlotOwnership'
    <2>1. \A w \in Threads : Holds(w) => worker[w].it \in InUse
      BY Types DEF PoolSafe, SlotOwnership, InUse, WorkerType, SlotId
    <2>2. \A w \in Threads : Holds(w)' => slots'[worker'[w].it].state = "RUNNING"
      BY <1>1, <1>2, <2>1 DEF SlotsSafe, PoolSafe, SlotOwnership
    <2>3. \A v, w \in Threads :
            v # w /\ Holds(v)' /\ Holds(w)' => worker'[v].it # worker'[w].it
      BY <1>2 DEF PoolSafe, SlotOwnership
    <2>4. \A s \in InUse' : slots'[s].state = "RUNNING" =>
            exitThreads' \/ \E w \in Threads : Holds(w)' /\ worker'[w].it = s
      BY <1>1, <1>2 DEF SlotsSafe, PoolSafe, SlotOwnership
    <2>5. ASSUME NEW r \in InUse', NEW s \in InUse', slots'[r].task = slots'[s].task
          PROVE  r = s
      <3>1. \A q \in InUse : slots'[q] = slots[q] /\ slots[q].task \in Int
                             /\ slots[q].task < main.task
        BY <1>1 DEF SlotsSafe, PoolSafe, Filled, Task
      <3>2. \A q \in InUse' : q \notin InUse => q = main.it /\ slots'[q].task = main.task
        BY <1>1 DEF SlotsSafe
      <3>3. main.task \in Int
        BY Types DEF PoolSafe, MainType
      <3> QED
        BY <2>5, <3>1, <3>2, <3>3 DEF PoolSafe, SlotOwnership
    <2> QED
      BY <2>2, <2>3, <2>4, <2>5 DEF SlotOwnership
  <1> QED
    BY <1>1, <1>3, <1>4, <1>5, <1>6 DEF PoolSafe

LEMMA InitSafe == Init => PoolSafe
  <1> SUFFICES ASSUME Init PROVE PoolSafe
    OBVIOUS
  <1>1. ChunkSize \in Nat \ {0} /\ NumTasks \in Nat /\ CounterRange \in Nat \ {0}
        /\ None \notin Threads
    BY PoolAssumption
  <1>2. FreeSlot \in Slot
    BY <1>1 DEF FreeSlot, Slot
  <1>3. slots \in Seq(Slot) /\ Len(slots) = ChunkSize
        /\ \A s \in 1 .. Len(slots) : slots[s] = FreeSlot
    BY <1>1, <1>2 DEF Init, Chunk
  <1>4. Len(WaitOrder) \in Nat
    BY PoolAssumption, LenProperties
  <1>5. main \in [pc : MainPc, task : 1 .. NumTasks + 1,
                  it : 1 .. Len(slots), turn : 1 .. Len(WaitOrder) + 1]
        /\ main.pc = "seek"
    BY <1>1, <1>3, <1>4 DEF Init, MainPc
  <1>6. worker \in [Threads -> [pc : WorkerPc, mode : Mode,
                                it : 1 .. Len(slots), start : 1 .. Len(slots),
                                unseen : SUBSET (Task \cup Counter),
                                blocked : BOOLEAN]]
        /\ \A w \in Threads : worker[w].pc = "top" /\ worker[w].mode = "first"
    BY <1>1, <1>3 DEF Init, WorkerPc, Mode
  <1>7. /\ barrier \in [Task \cup Counter -> BarrierState]
        /\ count \in [Counter -> 0 .. CounterRange - 1]
        /\ progress \in [Task -> Progress]
        /\ Len(slots) > 0 /\ nextFill \in 1 .. Len(slots)
    BY <1>1, <1>3 DEF Init, BarrierState, Progress
  <1>8. TypeOK
    BY <1>3, <1>5, <1>6, <1>7 DEF TypeOK, Init
  <1>9. LocksHeld
    BY <1>1, <1>6 DEF LocksHeld, LocksAgree, Owner, Init
  <1>10. InUse = {}
    BY <1>3 DEF InUse, FreeSlot
  <1>11. SlotOwnership /\ Filled
    BY <1>6, <1>10 DEF SlotOwnership, Filled, Holds
  <1>12. PausedAlone
    BY <1>1, <1>6 DEF PausedAlone, Pausing, Init
  <1> QED
    BY <1>5, <1>8, <1>9, <1>11, <1>12 DEF PoolSafe, MainSlot

LEMMA NothingMoves == ASSUME PoolSafe, UNCHANGED vars PROVE PoolSafe'
  <1>1. /\ slots' = slots /\ nextFill' = nextFill /\ barrier' = barrier /\ count' = count
        /\ progress' = progress /\ main' = main /\ worker' = worker /\ idleLock' = idleLock
        /\ pauseLock' = pauseLock /\ allWaiting' = allWaiting /\ exitThreads' = exitThreads
    BY DEF vars
  <1>2. TypeOK'
    BY <1>1 DEF PoolSafe, TypeOK
  <1>3. LocksHeld' /\ PausedAlone'
    BY <1>1 DEF PoolSafe, LocksHeld, LocksAgree, Owner, PausedAlone, Pausing
  <1>4. MainSlot' /\ Filled' /\ SlotOwnership'
    BY <1>1 DEF PoolSafe, MainSlot, Filled, SlotOwnership, InUse, Holds
  <1> QED
    BY <1>2, <1>3, <1>4 DEF PoolSafe

LEMMA NextSafe == PoolSafe /\ [Next]_vars => PoolSafe'
  <1> SUFFICES ASSUME PoolSafe, [Next]_vars PROVE PoolSafe'
    OBVIOUS
  <1>1. CASE MainStep
    BY <1>1, MainStepSafe, MainKeeps DEF PoolSafe
  <1>2. ASSUME NEW w \in Threads, WorkerStep(w)
        PROVE  PoolSafe'
    <2>1. Step(w)
      BY <1>2, OwnerWorks, WorkerSteps DEF PoolSafe
    <2> QED
      BY <2>1, StepTypes, WorkerOwnership, WorkerLocks DEF PoolSafe
  <1>3. CASE UNCHANGED vars
    BY <1>3, NothingMoves
  <1> QED
    BY <1>1, <1>2, <1>3 DEF Next

(***************************************************************************)
(* The conjunction of the types, the locks' owners, the slot of the main   *)
(* thread, the order of the tasks, SlotOwnership and PausedAlone holds     *)
(* initially and is kept by every step of every thread.                    *)
(***************************************************************************)
THEOREM PoolInvariant == Spec => []PoolSafe
  BY InitSafe, NextSafe, PTL DEF Spec

(***************************************************************************)
(* The types: among others no iterator ever points outside the queue, even *)
(* while it grows, and the counters stay in the range of their type.       *)
(***************************************************************************)
THEOREM TypeCorrect == Spec => []TypeOK
  <1>1. PoolSafe => TypeOK
    BY DEF PoolSafe
  <1> QED
    BY <1>1, PoolInvariant, PTL

(***************************************************************************)
(* At every moment a slot whose task runs belongs to exactly one thread,   *)
(* unless the pool is shut down, and no task is in two slots: no task is   *)
(* run by two threads and no thread's slot is filled or freed by another.  *)
(***************************************************************************)
THEOREM SlotsOwned == Spec => []SlotOwnership
  <1>1. PoolSafe => SlotOwnership
    BY DEF PoolSafe
  <1> QED
    BY <1>1, PoolInvariant, PTL

(***************************************************************************)
(* A thread sleeps, or looks through the queue one last time before, only  *)
(* while every other thread queues up at the idle lock, which it owns.     *)
(***************************************************************************)
THEOREM PausesAlone == Spec => []PausedAlone
  <1>1. PoolSafe => PausedAlone
    BY DEF PoolSafe
  <1> QED
    BY <1>1, PoolInvariant, PTL

-----------------------------------------------------------------------------
(***************************************************************************)
(* No lost wakeup.  A thread that pauses looks through the queue once more *)
(* while it holds the pause lock.  The slots it has passed cannot become   *)
(* runnable behind its back: the other threads all wait, and the main      *)
(* thread, which may lock barriers and claim slots in the meantime, cannot *)
(* fill one without the lock.                                              *)
(***************************************************************************)

\* The slots that a search has still to look at.
Remaining(w) ==
  LET i == worker[w].it
      e == worker[w].start
  IN  {s \in SlotId : IF e <= i THEN i <= s \/ s < e ELSE i <= s /\ s < e}

Looks(w) ==
  pauseLock = w =>
    /\ \A s \in SlotId \ Remaining(w) : ~ Runnable(s)
    /\ worker[w].pc = "check" =>
         LET bs == slots[worker[w].it].barriers
         IN  /\ worker[w].unseen \subseteq bs
             /\ \A b \in bs \ worker[w].unseen : barrier[b] # "error"
             /\ worker[w].blocked => \E b \in bs : barrier[b] = "locked"

ExitKnown == exitThreads <=> main.pc \in {"unpause", "join", "end"}

\* A search begins with all the slots, and goes on with all but one.
LEMMA RemainingAll ==
  ASSUME NEW w, worker[w].it = worker[w].start, worker[w].it \in SlotId
  PROVE  Remaining(w) = SlotId
  BY DEF Remaining, SlotId

LEMMA RemainingNext ==
  ASSUME TypeOK, NEW w \in Threads, SlotId' = SlotId,
         worker'[w].it = IncWrap(worker[w].it), worker'[w].start = worker[w].start,
         IncWrap(worker[w].it) # worker[w].start
  PROVE  \A s \in Remaining(w) : s = worker[w].it \/ s \in Remaining(w)'
  <1>1. /\ worker[w].it \in 1 .. Len(slots) /\ worker[w].start \in 1 .. Len(slots)
        /\ Len(slots) \in Nat
    BY Types DEF WorkerType, SlotId
  <1> QED
    BY <1>1 DEF Remaining, SlotId, IncWrap

LEMMA RemainingLast ==
  ASSUME TypeOK, NEW w \in Threads, IncWrap(worker[w].it) = worker[w].start
  PROVE  \A s \in Remaining(w) : s = worker[w].it
  <1>1. /\ worker[w].it \in 1 .. Len(slots) /\ worker[w].start \in 1 .. Len(slots)
        /\ Len(slots) \in Nat
    BY Types DEF WorkerType, SlotId
  <1> QED
    BY <1>1 DEF Remaining, SlotId, IncWrap

\* Whether a slot is runnable depends on the slot, the barriers, the progress.
LEMMA RunnableSame ==
  ASSUME NEW s, slots'[s] = slots[s], barrier' = barrier, progress' = progress
  PROVE  Runnable(s)' <=> Runnable(s)
  BY DEF Runnable, PollThrows, PollReady

\* What a thread that has taken a step knows of the queue.
Informed(w) ==
  /\ Looks(w)'
  /\ worker'[w].pc = "sleep" => ~ exitThreads /\ \A s \in SlotId : ~ Runnable(s)'

LEMMA PassedOn ==
  ASSUME PoolSafe, NEW w \in Threads, pauseLock = w, NextSlot(w), SlotId' = SlotId,
         \A s \in SlotId : s \notin Remaining(w) \/ s = worker[w].it => ~ Runnable(s)'
  PROVE  Informed(w)
  <1>1. TypeOK /\ worker[w].mode = "pause"
    BY DEF PoolSafe, LocksHeld, LocksAgree
  <1>2. CASE IncWrap(worker[w].it) # worker[w].start
    <2>1. /\ worker'[w].pc = "sweep" /\ worker'[w].it = IncWrap(worker[w].it)
          /\ worker'[w].start = worker[w].start
      BY <1>1, <1>2, NextSlots
    <2>2. \A s \in Remaining(w) : s = worker[w].it \/ s \in Remaining(w)'
      BY <1>1, <1>2, <2>1, RemainingNext
    <2> QED
      BY <2>1, <2>2 DEF Informed, Looks
  <1>3. CASE IncWrap(worker[w].it) = worker[w].start
    <2>1. /\ worker'[w].pc = IF exitThreads THEN "idle" ELSE "sleep"
          /\ ReleasePause(w) /\ None \notin Threads
      BY <1>1, <1>3, NextSlots, PoolAssumption DEF NextSlot
    <2>2. pauseLock' # w
      BY <2>1 DEF ReleasePause
    <2>3. \A s \in Remaining(w) : s = worker[w].it
      BY <1>1, <1>3, RemainingLast
    <2> QED
      BY <2>1, <2>2, <2>3 DEF Informed, Looks
  <1> QED
    BY <1>2, <1>3

\* A thread that does not look, and does not sleep, has nothing to know.
LEMMA InformedVoid ==
  ASSUME NEW w \in Threads, LocksAgree(w)', worker'[w].pc # "sleep",
         worker'[w].mode # "pause" \/ worker'[w].pc \notin {"sweep", "check"}
  PROVE  Informed(w)
  BY DEF Informed, Looks, LocksAgree

\* A thread that searches without the pause lock does not pause.
LEMMA InformedSearch ==
  ASSUME TypeOK, NEW w \in Threads, LocksAgree(w), LocksAgree(w)', pauseLock # w,
         worker[w].pc \in {"sweep", "check"},
         \/ NextSlot(w)
         \/ worker'[w].mode = worker[w].mode /\ worker'[w].pc # "sleep"
  PROVE  Informed(w)
  <1>1. worker[w].mode # "pause"
    BY DEF LocksAgree
  <1>2. worker'[w].mode # "pause" /\ worker'[w].pc # "sleep"
    BY <1>1, NextSlots
  <1> QED
    BY <1>2, InformedVoid

LEMMA SweepInforms ==
  ASSUME PoolSafe, NEW w \in Threads, Looks(w), Sweep(w), LocksAgree(w)'
  PROVE  Informed(w)
  <1>1. TypeOK /\ LocksAgree(w) /\ worker[w].pc = "sweep"
        /\ barrier' = barrier /\ progress' = progress
    BY DEF PoolSafe, LocksHeld, Sweep, At, sync
  <1>2. CASE slots[worker[w].it].state = "WAITING"
    <2> DEFINE i == worker[w].it
               r == [worker[w] EXCEPT !.pc = "check", !.blocked = FALSE,
                       !.unseen = slots[i].barriers]
    <2>1. SetState(w, "RUNNING") /\ worker' = [worker EXCEPT ![w] = r] /\ pauseLock' = pauseLock
      BY <1>1, <1>2, Types DEF Sweep, idle
    <2>2. worker[w] \in WorkerType /\ worker \in [Threads -> WorkerType]
      BY <1>1, Types
    <2>3. /\ worker'[w].pc = "check" /\ worker'[w].it = i /\ worker'[w].start = worker[w].start
          /\ worker'[w].mode = worker[w].mode
          /\ worker'[w].blocked = FALSE /\ worker'[w].unseen = slots[i].barriers
      BY <2>1, <2>2 DEF WorkerType
    <2>4. /\ SlotId' = SlotId /\ slots'[i].state = "RUNNING"
          /\ slots'[i].barriers = slots[i].barriers
          /\ \A s \in SlotId : s # i => slots'[s] = slots[s]
      BY <1>1, <2>1, StatesSet
    <2>5. CASE pauseLock = w
      <3>1. ASSUME NEW s \in SlotId, s \notin Remaining(w)'
            PROVE  ~ Runnable(s)'
        <4>1. ~ Runnable(s)
          BY <2>3, <2>4, <2>5, <3>1 DEF Looks, Remaining
        <4>2. CASE s = i
          BY <2>4, <4>2 DEF Runnable
        <4>3. CASE s # i
          BY <1>1, <2>4, <4>1, <4>3, RunnableSame
        <4> QED
          BY <4>2, <4>3
      <3> QED
        BY <2>3, <2>4, <3>1 DEF Informed, Looks
    <2>6. CASE pauseLock # w
      BY <2>1, <2>3, <2>6 DEF Informed, Looks
    <2> QED
      BY <2>5, <2>6
  <1>3. CASE slots[worker[w].it].state # "WAITING"
    <2>1. NextSlot(w) /\ slots' = slots /\ SlotId' = SlotId
      BY <1>3 DEF Sweep, SlotId
    <2>2. CASE pauseLock = w
      <3>1. ASSUME NEW s \in SlotId, s \notin Remaining(w) \/ s = worker[w].it
            PROVE  ~ Runnable(s)'
        <4>1. ~ Runnable(s)
          BY <1>3, <2>2, <3>1 DEF Looks, Runnable
        <4> QED
          BY <1>1, <2>1, <4>1, RunnableSame
      <3> QED
        BY <2>1, <2>2, <3>1, PassedOn
    <2>3. CASE pauseLock # w
      BY <1>1, <2>1, <2>3, InformedSearch
    <2> QED
      BY <2>2, <2>3
  <1> QED
    BY <1>2, <1>3

LEMMA CheckBarrierInforms ==
  ASSUME PoolSafe, NEW w \in Threads, Looks(w), CheckBarrier(w), LocksAgree(w)'
  PROVE  Informed(w)
  <1>1. TypeOK /\ LocksAgree(w) /\ worker[w].pc = "check"
        /\ barrier' = barrier /\ slots' = slots
    BY DEF PoolSafe, LocksHeld, CheckBarrier, At, sync, queue
  <1>2. PICK b \in worker[w].unseen :
          IF barrier[b] = "error" THEN Throw(w)
          ELSE /\ worker' = [worker EXCEPT ![w].unseen = @ \ {b},
                                           ![w].blocked = @ \/ barrier[b] = "locked"]
               /\ UNCHANGED <<progress, idle>>
    BY DEF CheckBarrier
  <1>3. CASE barrier[b] = "error"
    <2>1. worker'[w].pc = "excDone"
      BY <1>1, <1>2, <1>3, Throws
    <2> QED
      BY <2>1, InformedVoid
  <1>4. CASE barrier[b] # "error"
    <2> DEFINE i == worker[w].it
               r == [worker[w] EXCEPT !.unseen = @ \ {b},
                                      !.blocked = @ \/ barrier[b] = "locked"]
    <2>1. worker' = [worker EXCEPT ![w] = r] /\ progress' = progress /\ pauseLock' = pauseLock
      BY <1>1, <1>2, <1>4, Types DEF idle
    <2>2. worker[w] \in WorkerType /\ worker \in [Threads -> WorkerType]
      BY <1>1, Types
    <2>3. /\ worker'[w].pc = "check" /\ worker'[w].it = i /\ worker'[w].start = worker[w].start
          /\ worker'[w].unseen = worker[w].unseen \ {b}
          /\ worker'[w].blocked => worker[w].blocked \/ barrier[b] = "locked"
      BY <1>1, <2>1, <2>2 DEF WorkerType
    <2>4. CASE pauseLock = w
      <3>1. SlotId' = SlotId /\ Remaining(w)' = Remaining(w)
        BY <1>1, <2>3 DEF SlotId, Remaining
      <3>2. ASSUME NEW s \in SlotId, s \notin Remaining(w)
            PROVE  ~ Runnable(s)'
        BY <1>1, <2>1, <2>4, <3>2, RunnableSame DEF Looks
      <3>3. LET bs == slots[i].barriers
            IN  /\ worker[w].unseen \subseteq bs
                /\ \A c \in bs \ worker[w].unseen : barrier[c] # "error"
                /\ worker[w].blocked => \E c \in bs : barrier[c] = "locked"
        BY <1>1, <2>4 DEF Looks
      <3>4. LET bs == slots[i].barriers
            IN  /\ worker'[w].unseen \subseteq bs
                /\ \A c \in bs \ worker'[w].unseen : barrier[c] # "error"
                /\ worker'[w].blocked => \E c \in bs : barrier[c] = "locked"
        BY <1>2, <1>4, <2>3, <3>3
      <3> QED
        BY <1>1, <2>3, <3>1, <3>2, <3>4 DEF Informed, Looks
    <2>5. CASE pauseLock # w
      BY <2>1, <2>3, <2>5 DEF Informed, Looks
    <2> QED
      BY <2>4, <2>5
  <1> QED
    BY <1>3, <1>4

LEMMA BlockedInforms ==
  ASSUME PoolSafe, NEW w \in Threads, Looks(w), Blocked(w), LocksAgree(w)'
  PROVE  Informed(w)
  <1>1. TypeOK /\ LocksAgree(w) /\ worker[w].pc = "check"
        /\ barrier' = barrier /\ progress' = progress
        /\ worker[w].unseen = {} /\ worker[w].blocked
        /\ SetState(w, "WAITING") /\ NextSlot(w)
    BY DEF PoolSafe, LocksHeld, Blocked, At, sync
  <1>2. CASE pauseLock = w
    <2> DEFINE i == worker[w].it
    <2>1. /\ SlotId' = SlotId /\ slots'[i].barriers = slots[i].barriers
          /\ \A s \in SlotId : s # i => slots'[s] = slots[s]
      BY <1>1, StatesSet
    <2>2. /\ \A b \in slots[i].barriers : barrier[b] # "error"
          /\ \E b \in slots[i].barriers : barrier[b] = "locked"
      BY <1>1, <1>2 DEF Looks
    <2>3. ASSUME NEW s \in SlotId, s \notin Remaining(w) \/ s = i
          PROVE  ~ Runnable(s)'
      <3>1. CASE s = i
        <4>1. slots'[s].barriers = slots[i].barriers
          BY <2>1, <3>1
        <4> QED
          BY <1>1, <2>2, <4>1 DEF Runnable
      <3>2. CASE s # i
        BY <1>1, <1>2, <2>1, <2>3, <3>2, RunnableSame DEF Looks
      <3> QED
        BY <3>1, <3>2
    <2> QED
      BY <1>1, <1>2, <2>1, <2>3, PassedOn
  <1>3. CASE pauseLock # w
    BY <1>1, <1>3, InformedSearch
  <1> QED
    BY <1>2, <1>3

LEMMA ReadyCheckInforms ==
  ASSUME PoolSafe, NEW w \in Threads, Looks(w), ReadyCheck(w), LocksAgree(w)'
  PROVE  Informed(w)
  <1> DEFINE i == worker[w].it
             again == [slots[i] EXCEPT !.barriers = {}, !.state = "WAITING"]
  <1>1. TypeOK /\ LocksAgree(w) /\ worker[w].pc = "check"
        /\ barrier' = barrier
    BY DEF PoolSafe, LocksHeld, ReadyCheck, At, sync
  <1>2. i \in SlotId /\ slots[i] \in Slot
    BY <1>1, Types DEF WorkerType
  <1>3. CASE Throw(w) \/ Goto(w, "found")
    <2>1. worker'[w].pc \in {"excDone", "found"}
      BY <1>1, <1>3, Throws, Gotos DEF WorkerPc
    <2> QED
      BY <2>1, InformedVoid
  <1>4. CASE /\ ~ PollThrows(TaskOf(w)) /\ ~ PollReady(TaskOf(w))
             /\ slots' = [slots EXCEPT ![i] = again]
             /\ NextSlot(w) /\ progress' = progress
    <2>1. CASE pauseLock = w
      <3>1. again \in Slot /\ again.barriers = {} /\ again.task = slots[i].task
        BY <1>2 DEF Slot
      <3> HIDE DEF again
      <3>2. /\ SlotId' = SlotId /\ slots'[i] = again
            /\ \A s \in SlotId : s # i => slots'[s] = slots[s]
        BY <1>1, <1>2, <1>4, <3>1, SlotChanged
      <3>3. ASSUME NEW s \in SlotId, s \notin Remaining(w) \/ s = i
            PROVE  ~ Runnable(s)'
        <4>1. CASE s = i
          <5>1. slots'[s].task = TaskOf(w) /\ slots'[s].barriers = {}
            BY <3>1, <3>2, <4>1 DEF TaskOf
          <5> QED
            BY <1>1, <1>4, <5>1 DEF Runnable, PollThrows, PollReady
        <4>2. CASE s # i
          BY <1>1, <1>4, <2>1, <3>2, <3>3, <4>2, RunnableSame DEF Looks
        <4> QED
          BY <4>1, <4>2
      <3> QED
        BY <1>4, <2>1, <3>2, <3>3, PassedOn
    <2>2. CASE pauseLock # w
      BY <1>1, <1>4, <2>2, InformedSearch
    <2> QED
      BY <2>1, <2>2
  <1> QED
    BY <1>3, <1>4 DEF ReadyCheck

\* A search that has just begun has passed nothing.
LEMMA SearchInforms ==
  ASSUME TypeOK, NEW w \in Threads, NEW m \in Mode, Search(w, m), slots' = slots
  PROVE  Informed(w)
  <1>1. /\ worker'[w].pc = "sweep" /\ worker'[w].it = worker[w].start
        /\ worker'[w].start = worker[w].start /\ worker[w].start \in SlotId
        /\ SlotId' = SlotId
    BY Searches, Types DEF WorkerType, SlotId
  <1>2. Remaining(w)' = SlotId
    BY <1>1 DEF Remaining, SlotId
  <1> QED
    BY <1>1, <1>2 DEF Informed, Looks

LEMMA WorkerInforms ==
  ASSUME PoolSafe, NEW w \in Threads, Looks(w), WorkerStep(w)
  PROVE  Informed(w)
  <1>1. TypeOK /\ Step(w) /\ LocksAgree(w)
    BY OwnerWorks, WorkerSteps DEF PoolSafe
  <1>2. LocksAgree(w)'
    BY <1>1 DEF Step, LockStep
  <1>3. CASE \/ Sweep(w) \/ CheckBarrier(w) \/ Blocked(w) \/ ReadyCheck(w)
    BY <1>2, <1>3, SweepInforms, CheckBarrierInforms, BlockedInforms, ReadyCheckInforms
  <1>4. CASE /\ slots' = slots
             /\ \E m \in Mode : Search(w, m)
    BY <1>1, <1>4, SearchInforms
  <1>5. CASE \E p \in WorkerPc \ {"sweep", "check", "sleep"} : Goto(w, p)
    <2>1. PICK p \in WorkerPc \ {"sweep", "check", "sleep"} : Goto(w, p)
      BY <1>5
    <2>2. worker'[w].pc = p
      BY <1>1, <2>1, Gotos
    <2> QED
      BY <1>2, <2>1, <2>2, InformedVoid
  <1>6. CASE Leave(w)
    BY <1>1, <1>2, <1>6, Leaves, InformedVoid
  <1>7. CASE Top(w)
    BY <1>4, <1>5, <1>7 DEF Top, queue, WorkerPc, Mode
  <1>8. CASE Call(w)
    <2>1. Leave(w) \/ Goto(w, "exited") \/ Goto(w, "unlock") \/ Goto(w, "excDone")
      BY <1>8 DEF Call
    <2> QED
      BY <1>5, <1>6, <2>1 DEF WorkerPc
  <1>9. CASE \/ UnlockDone(w) \/ DecrementCounter(w) \/ FreeTheSlot(w)
             \/ DoneException(w) \/ CounterException(w) \/ ExceptionDecrement(w)
             \/ ExceptionFree(w) \/ Missed(w)
    <2>1. \/ Leave(w) \/ Goto(w, "decrement") \/ Goto(w, "excDone") \/ Goto(w, "free")
          \/ Goto(w, "excCounter") \/ Goto(w, "excDecrement") \/ Goto(w, "excFree")
          \/ Goto(w, "top") \/ Goto(w, "exited") \/ Goto(w, "idle") \/ Goto(w, "lock")
      BY <1>9 DEF UnlockDone, DecrementCounter, FreeTheSlot, DoneException,
                  CounterException, ExceptionDecrement, ExceptionFree, Missed
    <2> QED
      BY <1>5, <1>6, <2>1 DEF WorkerPc
  <1>10. CASE IdleLoop(w)
    <2>1. worker[w].mode \in Mode
      BY <1>1, Types DEF WorkerType
    <2>2. Goto(w, "exited") \/ (Search(w, worker[w].mode) /\ slots' = slots)
      BY <1>10 DEF IdleLoop, queue
    <2> QED
      BY <1>4, <1>5, <2>1, <2>2 DEF WorkerPc
  <1>11. CASE Pause(w) \/ Woken(w)
    <2>1. Goto(w, "idle") \/ (Search(w, "pause") /\ slots' = slots)
      BY <1>11 DEF Pause, Woken, queue
    <2> QED
      BY <1>4, <1>5, <2>1 DEF WorkerPc, Mode
  <1>12. CASE LockIdle(w)
    <2>1. worker'[w].pc = "idle"
      BY <1>1, <1>12, Types DEF LockIdle, WorkerType
    <2> QED
      BY <1>2, <2>1, InformedVoid
  <1> QED
    BY <1>3, <1>7, <1>8, <1>9, <1>10, <1>11, <1>12 DEF WorkerStep

(***************************************************************************)
(* The main thread.                                                        *)
(***************************************************************************)
\* Unless it fills a slot, it adds no task and does no more than lock barriers.
MainQuiet ==
  /\ main'.task = main.task
  /\ \A b \in Task \cup Counter :
       barrier'[b] = barrier[b] \/ (barrier[b] # "error" /\ barrier'[b] = "locked")
  /\ \/ worker' = worker
     \/ pauseLock = None /\ \A w \in Threads : worker'[w].pc # "sleep"

LEMMA MainQuiets ==
  ASSUME TypeOK, MainSlot, MainStep, ~ Fill
  PROVE  MainQuiet
  <1>1. main \in MainType
    BY Types
  <1>2. CASE Seek \/ AllAdded \/ Wait \/ ExitEarly \/ Shutdown
    BY <1>1, <1>2
       DEF Seek, AllAdded, Wait, ExitEarly, Shutdown, MainQuiet, MainType, sync
  <1>3. CASE Increment
    <2>1. CounterOf[main.task] \in Counter
      BY <1>3, PoolAssumption DEF MainSlot, Increment
    <2>2. main'.task = main.task /\ worker' = worker
      BY <1>1, <1>3 DEF Increment, MainType
    <2> QED
      BY <1>3, <2>1, <2>2 DEF Increment, MainQuiet, sync, TypeOK
  <1>4. CASE WaitForThreads
    <2>1. main'.task = main.task /\ barrier' = barrier /\ slots' = slots
      BY <1>1, <1>4 DEF WaitForThreads, MainType, sync, queue
    <2>2. worker' = worker \/ Unpause
      BY <1>4 DEF WaitForThreads
    <2>3. Unpause => pauseLock = None /\ \A w \in Threads : worker'[w].pc # "sleep"
      BY <2>1, Unpauses DEF Unpause, SlotId
    <2> QED
      BY <2>1, <2>2, <2>3 DEF MainQuiet
  <1> QED
    BY <1>2, <1>3, <1>4 DEF MainStep

LEMMA QuietRunnable ==
  ASSUME PoolSafe, MainSafe, MainQuiet, NEW s, s \in SlotId => ~ Runnable(s)
  PROVE  s \in SlotId' => ~ Runnable(s)'
  <1> SUFFICES ASSUME s \in SlotId', Runnable(s)' PROVE FALSE
    OBVIOUS
  <1>1. SlotsSafe /\ progress' = progress /\ main.task \in Int /\ TypeOK
    BY Types DEF MainSafe, MainFrame, PoolSafe, MainType
  <1>2. s \in InUse'
    BY DEF InUse, Runnable, SlotId
  <1>3. s \in InUse
    BY <1>1, <1>2 DEF SlotsSafe, MainQuiet
  <1>4. /\ slots'[s] = slots[s] /\ s \in SlotId /\ slots[s].task \in Task
        /\ slots[s].barriers \subseteq Task \cup Counter
    BY <1>1, <1>3, Types DEF SlotsSafe, InUse, SlotId, PoolSafe, Filled, Slot
  <1>5. CounterOf[slots[s].task] \in Counter
    BY <1>4, PoolAssumption
  <1>6. PollThrows(slots[s].task)' => PollThrows(slots[s].task)
    BY <1>4, <1>5 DEF PollThrows, MainQuiet
  <1>7. \A b \in Task \cup Counter : /\ barrier'[b] = "unlocked" => barrier[b] = "unlocked"
                                     /\ barrier'[b] = "error" => barrier[b] = "error"
    BY DEF MainQuiet
  <1>8. barrier'[CounterOf[slots[s].task]] = "error" => barrier[CounterOf[slots[s].task]] = "error"
    BY <1>5, <1>7
  <1>9. Runnable(s)
    BY <1>1, <1>4, <1>7, <1>8 DEF Runnable, PollThrows, PollReady
  <1> QED
    BY <1>4, <1>9

AwakeSafe == PoolSafe /\ ExitKnown /\ NoLostWakeup /\ \A w \in Threads : Looks(w)

LEMMA WorkerAwake ==
  ASSUME AwakeSafe, NEW w \in Threads, WorkerStep(w)
  PROVE  ExitKnown' /\ NoLostWakeup' /\ \A v \in Threads : Looks(v)'
  <1>1. /\ PoolSafe /\ TypeOK /\ Step(w) /\ Informed(w) /\ None \notin Threads
        /\ \A v \in Threads : LocksAgree(v)
    BY OwnerWorks, WorkerSteps, WorkerInforms, PoolAssumption
       DEF AwakeSafe, PoolSafe, LocksHeld
  <1>2. /\ OnlyWorker(w) /\ LockStep(w) /\ SyncStep /\ exitThreads' = exitThreads
        /\ SlotId' = SlotId
    BY <1>1, StepTypes DEF Step
  <1>3. main'.pc = main.pc \/ (main.pc = "asleep" /\ main'.pc = "wait")
    BY <1>1, <1>2, Types DEF SyncStep, MainType
  <1>4. ExitKnown'
    BY <1>2, <1>3 DEF ExitKnown, AwakeSafe
  <1>5. \A v \in Threads : v # w => ~ Pausing(v)
    BY <1>1, <1>2 DEF LockStep, PoolSafe, PausedAlone
  <1>6. \A v \in Threads : v # w => worker'[v].pc # "sleep" /\ pauseLock' # v
    BY <1>2, <1>5 DEF OnlyWorker, LockStep, Pausing
  <1>7. \A v \in Threads : Looks(v)'
    BY <1>1, <1>6 DEF Informed, Looks
  <1>8. NoLostWakeup'
    <2>1. CASE \A v \in Threads : worker'[v].pc # "sleep"
      BY <2>1 DEF NoLostWakeup
    <2>2. CASE \E v \in Threads : worker'[v].pc = "sleep"
      <3>1. worker'[w].pc = "sleep"
        BY <1>6, <2>2
      <3>2. ~ exitThreads /\ \A s \in SlotId : ~ Runnable(s)'
        BY <1>1, <3>1 DEF Informed
      <3> QED
        BY <1>2, <3>2 DEF NoLostWakeup, SlotId
    <2> QED
      BY <2>1, <2>2
  <1> QED
    BY <1>4, <1>7, <1>8

\* The shutdown, and everything before it.
LEMMA MainPcs ==
  ASSUME TypeOK, MainStep
  PROVE  \/ /\ exitThreads' = exitThreads
            /\ main.pc \notin {"unpause", "join", "end"}
            /\ main'.pc \notin {"unpause", "join", "end"}
         \/ exitThreads' /\ main'.pc = "unpause"
         \/ /\ exitThreads' = exitThreads /\ main.pc = "unpause" /\ main'.pc = "join"
            /\ \A w \in Threads : worker'[w].pc # "sleep"
         \/ /\ exitThreads' = exitThreads /\ main.pc = "join" /\ main'.pc = "end"
            /\ \A w \in Threads : worker[w].pc # "sleep"
  <1>1. main \in MainType /\ main.pc \in MainPc
    BY Types DEF MainType
  <1>2. ASSUME NEW p \in MainPc, main' = [main EXCEPT !.pc = p]
        PROVE  main'.pc = p
    BY <1>1, <1>2 DEF MainType
  <1>3. CASE Seek
    BY <1>1, <1>3 DEF Seek, MainType
  <1>4. CASE Increment
    BY <1>1, <1>4 DEF Increment, MainType
  <1>5. CASE Fill
    <2>1. main.pc = "fill" /\ exitThreads' = exitThreads /\ main'.pc = "seek"
      BY <1>1, <1>5 DEF Fill, MainType
    <2> QED
      BY <2>1
  <1>6. CASE AllAdded
    BY <1>2, <1>6 DEF AllAdded, MainPc
  <1>7. CASE Wait
    <2>1. main.pc = "wait" /\ exitThreads' = exitThreads
      BY <1>7 DEF Wait
    <2>2. \/ main' = [main EXCEPT !.pc = "exit"] \/ main' = [main EXCEPT !.pc = "asleep"]
          \/ main' = [main EXCEPT !.turn = @ + 1]
      BY <1>7 DEF Wait
    <2>3. main'.pc \in {"exit", "asleep", "wait"}
      BY <1>1, <2>1, <2>2 DEF MainType
    <2> QED
      BY <2>1, <2>3
  <1>8. CASE ExitEarly
    BY <1>2, <1>8 DEF ExitEarly, MainPc
  <1>9. CASE Shutdown
    BY <1>2, <1>9 DEF Shutdown, MainPc
  <1>10. CASE WaitForThreads
    <2>1. CASE /\ main.pc = "unpause" /\ Unpause /\ main' = [main EXCEPT !.pc = "join"]
               /\ UNCHANGED <<queue, sync, progress, exitThreads>>
      <3>1. SlotId' = SlotId
        BY <2>1 DEF queue, SlotId
      <3> QED
        BY <1>2, <2>1, <3>1, Unpauses DEF MainPc
    <2>2. CASE /\ main.pc = "join" /\ \A w \in Threads : worker[w].pc = "exited"
               /\ main' = [main EXCEPT !.pc = "end"] /\ exitThreads' = exitThreads
      BY <1>2, <2>2 DEF MainPc
    <2> QED
      BY <1>10, <2>1, <2>2 DEF WaitForThreads
  <1> QED
    BY <1>3, <1>4, <1>5, <1>6, <1>7, <1>8, <1>9, <1>10 DEF MainStep

LEMMA MainAwake ==
  ASSUME AwakeSafe, MainStep
  PROVE  ExitKnown' /\ NoLostWakeup' /\ \A v \in Threads : Looks(v)'
  <1>1. /\ PoolSafe /\ TypeOK /\ MainSlot /\ MainSafe /\ None \notin Threads
        /\ main \in MainType /\ \A v \in Threads : LocksAgree(v)
    BY MainStepSafe, Types, PoolAssumption DEF AwakeSafe, PoolSafe, LocksHeld
  <1>2. /\ pauseLock' = pauseLock /\ progress' = progress /\ SlotsSafe /\ WorkersWoken
    BY <1>1 DEF MainSafe, MainFrame
  <1>3. ExitKnown'
    BY <1>1, MainPcs DEF AwakeSafe, ExitKnown
  <1>4. CASE pauseLock = None /\ \A v \in Threads : worker'[v].pc # "sleep"
    BY <1>1, <1>2, <1>3, <1>4 DEF NoLostWakeup, Looks
  <1>5. CASE Fill
    <2>1. Unpause /\ pauseLock = None
      BY <1>5 DEF Fill, Unpause
    <2>2. main.it \in SlotId
      BY <1>1 DEF MainType
    <2>3. SlotId' = SlotId
      BY <1>1, <1>5, <2>2 DEF Fill, SlotId, TypeOK
    <2>4. \A v \in Threads : worker'[v].pc # "sleep"
      BY <1>1, <2>1, <2>3, Unpauses
    <2> QED
      BY <1>3, <1>4, <2>1, <2>4
  <1>6. CASE ~ Fill /\ worker' = worker
    <2>1. MainQuiet
      BY <1>1, <1>6, MainQuiets
    <2>2. \A s : (s \in SlotId => ~ Runnable(s)) => (s \in SlotId' => ~ Runnable(s)')
      BY <1>1, <2>1, QuietRunnable
    <2>3. (\E v \in Threads : worker[v].pc = "sleep") => (exitThreads' => main'.pc = "unpause")
      BY <1>1, <1>6, MainPcs DEF AwakeSafe, NoLostWakeup
    <2>4. NoLostWakeup'
      BY <1>6, <2>2, <2>3 DEF AwakeSafe, NoLostWakeup, SlotId
    <2>5. ASSUME NEW w \in Threads, pauseLock = w
          PROVE  Looks(w)'
      <3> DEFINE i == worker[w].it
                 bs == slots[i].barriers
      <3>1. Looks(w) /\ worker[w].mode = "pause"
        BY <1>1, <2>5 DEF AwakeSafe, LocksAgree
      <3>2. ASSUME NEW s \in SlotId', s \notin Remaining(w)'
            PROVE  ~ Runnable(s)'
        <4>1. s \in Remaining(w) => s \in Remaining(w)'
          BY <1>6, <3>2 DEF Remaining
        <4>2. s \in SlotId => ~ Runnable(s)
          BY <2>5, <3>1, <3>2, <4>1 DEF Looks
        <4> QED
          BY <2>2, <3>2, <4>2
      <3>3. CASE worker[w].pc = "check"
        <4>1. slots[i].state = "RUNNING" /\ i \in SlotId
          BY <1>1, <3>3, OwnerWorks, Types DEF Working, Holds, WorkerType
        <4>2. slots'[i] = slots[i] /\ bs \subseteq Task \cup Counter
          BY <1>1, <1>2, <4>1, Types DEF SlotsSafe, InUse, SlotId, Slot
        <4>3. /\ worker[w].unseen \subseteq bs
              /\ \A b \in bs \ worker[w].unseen : barrier[b] # "error"
              /\ worker[w].blocked => \E b \in bs : barrier[b] = "locked"
          BY <2>5, <3>1, <3>3 DEF Looks
        <4>4. \A b \in bs : /\ barrier[b] # "error" => barrier'[b] # "error"
                            /\ barrier[b] = "locked" => barrier'[b] = "locked"
          BY <2>1, <4>2 DEF MainQuiet
        <4> QED
          BY <1>6, <3>2, <4>2, <4>3, <4>4 DEF Looks
      <3>4. CASE worker[w].pc # "check"
        BY <1>6, <3>2, <3>4 DEF Looks
      <3> QED
        BY <3>3, <3>4
    <2>6. \A w \in Threads : Looks(w)'
      BY <1>2, <2>5 DEF Looks
    <2> QED
      BY <1>3, <2>4, <2>6
  <1> QED
    BY <1>1, <1>4, <1>5, <1>6, MainQuiets DEF MainQuiet

LEMMA InitAwake == Init => AwakeSafe
  <1> SUFFICES ASSUME Init PROVE AwakeSafe
    OBVIOUS
  <1>1. PoolSafe /\ None \notin Threads
    BY InitSafe, PoolAssumption
  <1>2. NoLostWakeup /\ ExitKnown
    BY DEF Init, NoLostWakeup, ExitKnown
  <1>3. \A w \in Threads : Looks(w)
    BY <1>1 DEF Init, Looks
  <1> QED
    BY <1>1, <1>2, <1>3 DEF AwakeSafe

LEMMA NextAwake == AwakeSafe /\ [Next]_vars => AwakeSafe'
  <1> SUFFICES ASSUME AwakeSafe, [Next]_vars PROVE AwakeSafe'
    OBVIOUS
  <1>1. PoolSafe'
    BY NextSafe DEF AwakeSafe
  <1>2. CASE MainStep
    BY <1>1, <1>2, MainAwake DEF AwakeSafe
  <1>3. ASSUME NEW w \in Threads, WorkerStep(w)
        PROVE  AwakeSafe'
    BY <1>1, <1>3, WorkerAwake DEF AwakeSafe
  <1>4. CASE UNCHANGED vars
    <2>1. NoLostWakeup' /\ ExitKnown'
      BY <1>4 DEF vars, AwakeSafe, NoLostWakeup, ExitKnown, Runnable, PollThrows, PollReady
    <2>2. \A w \in Threads : Looks(w)'
      BY <1>4 DEF vars, AwakeSafe, Looks, Remaining, SlotId, Runnable, PollThrows, PollReady
    <2> QED
      BY <1>1, <2>1, <2>2 DEF AwakeSafe
  <1> QED
    BY <1>2, <1>3, <1>4 DEF Next

(***************************************************************************)
(* A thread of the pool sleeps only while no task in the queue could run   *)
(* or fail, and never through the shutdown: a wakeup is not lost, however  *)
(* the main thread's steps fall between those of the thread that pauses.   *)
(***************************************************************************)
THEOREM WakeupsKept == Spec => []NoLostWakeup
  <1>1. Spec => []AwakeSafe
    BY InitAwake, NextAwake, PTL DEF Spec
  <1>2. AwakeSafe => NoLostWakeup
    BY DEF AwakeSafe
  <1> QED
    BY <1>1, <1>2, PTL

-----------------------------------------------------------------------------
(***************************************************************************)
(* The counters.  A task is counted from the increment, before its slot is *)
(* filled, to the decrement, before its slot is freed.  A counter that has *)
(* an exception keeps it, so that the exact count is not needed any more.  *)
(***************************************************************************)
LeavesSlot(w) == worker[w].pc \in {"free", "excFree"}

Counted(s) == s \in InUse /\ ~ HasLeft(s)

ErrorKept ==
  \A w \in Threads : worker[w].pc \in {"excDecrement", "excFree"} =>
                       barrier[CounterOf[TaskOf(w)]] = "error"

LEMMA TasksKept ==
  ASSUME NEW w \in Threads, SlotStep(w)
  PROVE  \A s \in SlotId : slots'[s].task = slots[s].task
  BY DEF SlotStep, SlotCase

\* Outstanding, by the slots that are counted.
LEMMA OutstandingIs ==
  ASSUME NEW c
  PROVE  Outstanding(c) = {t \in Task : /\ CounterOf[t] = c
                                        /\ \/ main.pc = "fill" /\ main.task = t
                                           \/ \E s \in SlotId : Counted(s) /\ slots[s].task = t}
  BY DEF Outstanding, Counted, InUse, SlotId

\* A step of a thread leaves the tasks outstanding that it does not count down.
LEMMA OutstandingKept ==
  ASSUME PoolSafe, NEW w \in Threads, Step(w), ~ LeavesSlot(w)',
         \/ ~ LeavesSlot(w) /\ (worker[w].it \in InUse' <=> worker[w].it \in InUse)
         \/ LeavesSlot(w) /\ worker[w].it \notin InUse'
  PROVE  \A c : Outstanding(c)' = Outstanding(c)
  <1> DEFINE i == worker[w].it
  <1>1. /\ TypeOK /\ SlotStep(w) /\ OnlyWorker(w) /\ SyncStep
        /\ SlotId' = SlotId /\ i \in SlotId /\ main \in MainType
    BY InUseKept, Types DEF PoolSafe, Step, WorkerType
  <1>2. \A s \in SlotId : /\ slots'[s].task = slots[s].task
                          /\ s # i => slots'[s] = slots[s]
    BY <1>1, TasksKept DEF SlotStep
  <1>3. \A v \in Threads : v # w => worker'[v] = worker[v]
    BY <1>1 DEF OnlyWorker
  <1>4. ASSUME NEW s \in SlotId
        PROVE  Counted(s)' <=> Counted(s)
    <2>1. CASE s # i
      <3>1. s \in InUse' <=> s \in InUse
        BY <1>1, <1>2, <2>1 DEF InUse, SlotId
      <3>2. HasLeft(s)' <=> HasLeft(s)
        BY <1>3, <2>1 DEF HasLeft, LeavesSlot
      <3> QED
        BY <3>1, <3>2 DEF Counted
    <2>2. CASE s = i /\ ~ LeavesSlot(w)
      <3>1. HasLeft(s)' <=> HasLeft(s)
        BY <1>3, <2>2 DEF HasLeft, LeavesSlot
      <3> QED
        BY <2>2, <3>1 DEF Counted
    <2>3. CASE s = i /\ LeavesSlot(w)
      BY <2>3 DEF Counted, HasLeft, LeavesSlot
    <2> QED
      BY <2>1, <2>2, <2>3
  <1>5. main'.task = main.task /\ (main'.pc = "fill" <=> main.pc = "fill")
    BY <1>1 DEF SyncStep, MainType
  <1>6. \A t : (\E s \in SlotId' : Counted(s)' /\ slots'[s].task = t)
               <=> (\E s \in SlotId : Counted(s) /\ slots[s].task = t)
    BY <1>1, <1>2, <1>4
  <1> SUFFICES ASSUME NEW c PROVE Outstanding(c)' = Outstanding(c)
    OBVIOUS
  <1>7. Outstanding(c)' = {t \in Task : /\ CounterOf[t] = c
                                        /\ \/ main'.pc = "fill" /\ main'.task = t
                                           \/ \E s \in SlotId' : Counted(s)' /\ slots'[s].task = t}
    BY DEF Outstanding, Counted, InUse, SlotId
  <1> QED
    BY <1>5, <1>6, <1>7, OutstandingIs

\* The one that is counted down is the only one.
LEMMA OutstandingLess ==
  ASSUME PoolSafe, NEW w \in Threads, Step(w), slots' = slots, Holds(w), ~ LeavesSlot(w),
         LeavesSlot(w)', worker'[w].it = worker[w].it
  PROVE  /\ TaskOf(w) \in Outstanding(CounterOf[TaskOf(w)])
         /\ \A c : Outstanding(c)' = Outstanding(c) \ {TaskOf(w)}
  <1> DEFINE i == worker[w].it
  <1>1. /\ TypeOK /\ OnlyWorker(w) /\ SyncStep /\ Working(w)
        /\ i \in SlotId /\ main \in MainType
    BY OwnerWorks, Types DEF PoolSafe, Step, WorkerType
  <1>2. SlotId' = SlotId /\ InUse' = InUse
    BY DEF SlotId, InUse
  <1>3. \A v \in Threads : v # w => worker'[v] = worker[v]
    BY <1>1 DEF OnlyWorker
  <1>4. /\ i \in InUse /\ TaskOf(w) \in Task /\ TaskOf(w) < main.task
    BY <1>1 DEF Working, InUse, SlotId, PoolSafe, Filled, TaskOf
  <1>5. ~ HasLeft(i)
    <2>1. \A v \in Threads : v # w /\ LeavesSlot(v) => worker[v].it # i
      BY DEF PoolSafe, SlotOwnership, LeavesSlot, Holds
    <2> QED
      BY <2>1 DEF HasLeft, LeavesSlot
  <1>6. HasLeft(i)'
    BY DEF HasLeft, LeavesSlot
  <1>7. \A s \in SlotId : s # i => (HasLeft(s)' <=> HasLeft(s))
    BY <1>3 DEF HasLeft, LeavesSlot
  <1>8. /\ Counted(i) /\ ~ Counted(i)'
        /\ \A s \in SlotId : s # i => (Counted(s)' <=> Counted(s))
    BY <1>2, <1>4, <1>5, <1>6, <1>7 DEF Counted
  <1>9. \A s \in SlotId : Counted(s) /\ slots[s].task = TaskOf(w) => s = i
    BY <1>4 DEF Counted, PoolSafe, SlotOwnership, TaskOf
  <1>10. main'.task = main.task /\ (main'.pc = "fill" <=> main.pc = "fill")
    BY <1>1 DEF SyncStep, MainType
  <1>11. main.task # TaskOf(w)
    BY <1>1, <1>4 DEF MainType, Task
  <1>12. ASSUME NEW t, t # TaskOf(w)
         PROVE  (\E s \in SlotId' : Counted(s)' /\ slots'[s].task = t)
                <=> (\E s \in SlotId : Counted(s) /\ slots[s].task = t)
    BY <1>2, <1>8, <1>12 DEF TaskOf
  <1>13. ~ \E s \in SlotId' : Counted(s)' /\ slots'[s].task = TaskOf(w)
    BY <1>2, <1>8, <1>9
  <1>14. TaskOf(w) \in Outstanding(CounterOf[TaskOf(w)])
    BY <1>1, <1>4, <1>8, OutstandingIs DEF TaskOf
  <1>15. ASSUME NEW c
         PROVE  Outstanding(c)' = Outstanding(c) \ {TaskOf(w)}
    <2>1. Outstanding(c)' = {t \in Task : /\ CounterOf[t] = c
                                          /\ \/ main'.pc = "fill" /\ main'.task = t
                                             \/ \E s \in SlotId' : Counted(s)' /\ slots'[s].task = t}
      BY DEF Outstanding, Counted, InUse, SlotId
    <2> QED
      BY <1>10, <1>11, <1>12, <1>13, <2>1, OutstandingIs
  <1> QED
    BY <1>14, <1>15

\* Counting down from a count that is not zero.
LEMMA CountsDown ==
  ASSUME TypeOK, NEW c \in Counter, count[c] > 0
  PROVE  Decremented(c) = count[c] - 1
  <1>1. CounterRange \in Nat /\ CounterRange > 0 /\ count[c] \in 1 .. CounterRange - 1
    BY PoolAssumption DEF TypeOK
  <1>2. \A R \in Nat : \A n \in 1 .. R - 1 : (n + R - 1) % R = n - 1
    OBVIOUS
  <1> QED
    BY <1>1, <1>2 DEF Decremented

LEMMA OutstandingBound ==
  ASSUME NEW c
  PROVE  /\ IsFiniteSet(Outstanding(c)) /\ Cardinality(Outstanding(c)) \in Nat
         /\ Cardinality(Outstanding(c)) <= NumTasks
  <1>1. NumTasks \in Nat
    BY PoolAssumption
  <1>2. IsFiniteSet(Task) /\ Cardinality(Task) = NumTasks
    BY <1>1, FS_Interval DEF Task
  <1>3. Outstanding(c) \in SUBSET Task
    BY DEF Outstanding
  <1> QED
    BY <1>2, <1>3, FS_Subset, FS_CardinalityType

CountSafe == PoolSafe /\ CounterExact /\ ErrorKept

\* A counter that keeps its count and its tasks, or has an exception, is exact.
LEMMA CountersKept ==
  ASSUME CounterExact,
         \A c \in Counter : \/ barrier'[c] = "error"
                            \/ /\ barrier'[c] = barrier[c] /\ count'[c] = count[c]
                               /\ Outstanding(c)' = Outstanding(c)
  PROVE  CounterExact'
  BY DEF CounterExact

\* The other threads' exceptions are kept.
LEMMA ErrorsKept ==
  ASSUME PoolSafe, ErrorKept, NEW w \in Threads, Step(w),
         \A c \in Counter : barrier[c] = "error" => barrier'[c] = "error",
         worker'[w].pc \in {"excDecrement", "excFree"} =>
           /\ barrier'[CounterOf[TaskOf(w)]] = "error" /\ worker'[w].it = worker[w].it
  PROVE  ErrorKept'
  <1>1. /\ TypeOK /\ SlotStep(w) /\ OnlyWorker(w)
        /\ \A v \in Threads : worker[v].it \in SlotId /\ Working(v)
    BY OwnerWorks, Types DEF PoolSafe, Step, WorkerType
  <1>2. \A s \in SlotId : slots'[s].task = slots[s].task
    BY <1>1, TasksKept
  <1>3. ASSUME NEW v \in Threads, worker'[v].pc \in {"excDecrement", "excFree"}
        PROVE  barrier'[CounterOf[slots'[worker'[v].it].task]] = "error"
    <2>1. CASE v = w
      BY <1>1, <1>2, <1>3, <2>1 DEF TaskOf
    <2>2. CASE v # w
      <3>1. worker'[v] = worker[v]
        BY <1>1, <2>2 DEF OnlyWorker
      <3>2. /\ barrier[CounterOf[TaskOf(v)]] = "error" /\ CounterOf[TaskOf(v)] \in Counter
        BY <1>1, <1>3, <3>1, PoolAssumption DEF ErrorKept, Working, Holds
      <3> QED
        BY <1>1, <1>2, <3>1, <3>2 DEF TaskOf
    <2> QED
      BY <2>1, <2>2
  <1> QED
    BY <1>3 DEF ErrorKept, TaskOf

\* Most steps leave the counters and the tasks outstanding alone.
LEMMA CountersAlone ==
  ASSUME CountSafe, NEW w \in Threads, Step(w),
         \A c \in Counter : barrier'[c] = barrier[c] /\ count'[c] = count[c],
         worker'[w].pc \notin {"free", "excFree", "excDecrement"},
         \/ ~ LeavesSlot(w) /\ (worker[w].it \in InUse' <=> worker[w].it \in InUse)
         \/ LeavesSlot(w) /\ worker[w].it \notin InUse'
  PROVE  CounterExact' /\ ErrorKept'
  <1>1. ~ LeavesSlot(w)'
    BY DEF LeavesSlot
  <1>2. \A c : Outstanding(c)' = Outstanding(c)
    BY <1>1, OutstandingKept DEF CountSafe
  <1> QED
    BY <1>2, CountersKept, ErrorsKept DEF CountSafe

\* What Decrement does to the counters.
LEMMA DecrementIs ==
  ASSUME TypeOK, NEW c \in Counter, Decrement(c)
  PROVE  /\ count'[c] = Decremented(c)
         /\ \A d \in Counter : d # c => count'[d] = count[d] /\ barrier'[d] = barrier[d]
         /\ barrier[c] = "error" => barrier' = barrier
         /\ barrier[c] # "error" /\ Decremented(c) = 0 => barrier'[c] = "unlocked"
         /\ Decremented(c) # 0 => barrier' = barrier
  BY DEF Decrement, TypeOK

LEMMA DecrementCounts ==
  ASSUME CountSafe, NEW w \in Threads, Step(w), DecrementCounter(w)
  PROVE  CounterExact' /\ ErrorKept'
  <1>1. /\ TypeOK /\ worker[w].pc = "decrement" /\ slots' = slots
        /\ Holds(w) /\ ~ LeavesSlot(w) /\ PoolSafe /\ CounterExact
        /\ TaskOf(w) \in Task /\ CounterOf[TaskOf(w)] \in Counter
    BY OwnerWorks, PoolAssumption
       DEF CountSafe, PoolSafe, DecrementCounter, At, queue, Holds, LeavesSlot, Working
  <1> PICK t \in Task : t = TaskOf(w)
    BY <1>1
  <1> PICK c \in Counter : c = CounterOf[t]
    BY <1>1
  <1>2. Decrement(c) /\ Goto(w, IF ZeroThrows(c) THEN "excDone" ELSE "free")
    BY DEF DecrementCounter
  <1>3. CASE ZeroThrows(c)
    <2>1. worker'[w].pc = "excDone"
      BY <1>1, <1>3, Gotos DEF DecrementCounter, WorkerPc
    <2>2. /\ barrier' = barrier /\ barrier[c] = "error"
          /\ \A d \in Counter : d # c => count'[d] = count[d]
      BY <1>1, <1>2, <1>3, DecrementIs DEF ZeroThrows
    <2>3. \A d : Outstanding(d)' = Outstanding(d)
      BY <1>1, <2>1, OutstandingKept DEF LeavesSlot, InUse
    <2> QED
      BY <1>2, <2>1, <2>2, <2>3, CountersKept, ErrorsKept DEF CountSafe
  <1>4. CASE ~ ZeroThrows(c)
    <2>1. worker'[w].pc = "free" /\ worker'[w].it = worker[w].it
      BY <1>1, <1>4, Gotos DEF DecrementCounter, WorkerPc
    <2>2. /\ t \in Outstanding(c)
          /\ \A d : Outstanding(d)' = Outstanding(d) \ {t}
      BY <1>1, <2>1, OutstandingLess DEF LeavesSlot
    <2>3. /\ count'[c] = Decremented(c)
          /\ \A d \in Counter : d # c => count'[d] = count[d] /\ barrier'[d] = barrier[d]
          /\ barrier[c] = "error" => barrier' = barrier
          /\ barrier[c] # "error" /\ Decremented(c) = 0 => barrier'[c] = "unlocked"
          /\ Decremented(c) # 0 => barrier' = barrier
      BY <1>1, <1>2, DecrementIs
    <2>4. ASSUME barrier'[c] # "error"
          PROVE  /\ count'[c] = Cardinality(Outstanding(c)')
                 /\ barrier'[c] = "locked" <=> count'[c] > 0
      <3>1. barrier[c] # "error"
        BY <2>3, <2>4
      <3>2. /\ count[c] = Cardinality(Outstanding(c)) /\ (barrier[c] = "locked" <=> count[c] > 0)
        BY <1>1, <1>2, <3>1 DEF CounterExact
      <3>3. IsFiniteSet(Outstanding(c)) /\ Cardinality(Outstanding(c)) \in Nat
        BY OutstandingBound
      <3>4. Cardinality(Outstanding(c)) > 0
        BY <2>2, <3>3, FS_EmptySet
      <3>5. Decremented(c) = count[c] - 1
        BY <1>1, <1>2, <3>2, <3>4, CountsDown
      <3>6. Cardinality(Outstanding(c)') = Cardinality(Outstanding(c)) - 1
        BY <2>2, <3>3, FS_RemoveElement
      <3> QED
        BY <2>3, <3>1, <3>2, <3>3, <3>4, <3>5, <3>6
    <2>5. ASSUME NEW d \in Counter, d # c
          PROVE  /\ barrier'[d] = barrier[d] /\ count'[d] = count[d]
                 /\ Outstanding(d)' = Outstanding(d)
      <3>1. t \notin Outstanding(d)
        BY <2>5 DEF Outstanding
      <3> QED
        BY <2>2, <2>3, <2>5, <3>1
    <2>6. CounterExact'
      BY <1>1, <2>4, <2>5 DEF CounterExact
    <2>7. \A d \in Counter : barrier[d] = "error" => barrier'[d] = "error"
      BY <2>3, <2>5
    <2>8. ErrorKept'
      BY <1>1, <2>1, <2>7, ErrorsKept DEF CountSafe
    <2> QED
      BY <2>6, <2>8
  <1> QED
    BY <1>3, <1>4

LEMMA ExceptionCounts ==
  ASSUME CountSafe, NEW w \in Threads, Step(w), ExceptionDecrement(w)
  PROVE  CounterExact' /\ ErrorKept'
  <1> DEFINE t == TaskOf(w)
             c == CounterOf[t]
  <1>1. /\ TypeOK /\ worker[w].pc = "excDecrement" /\ slots' = slots /\ Goto(w, "excFree")
        /\ Decrement(c) /\ Holds(w) /\ ~ LeavesSlot(w) /\ Working(w) /\ PoolSafe
        /\ barrier[c] = "error" /\ CounterExact
    BY OwnerWorks
       DEF CountSafe, PoolSafe, ExceptionDecrement, At, queue, Holds, LeavesSlot, ErrorKept
  <1>2. c \in Counter
    BY <1>1, PoolAssumption DEF Working
  <1>3. worker'[w].pc = "excFree" /\ worker'[w].it = worker[w].it
    BY <1>1, Gotos DEF WorkerPc
  <1>4. /\ barrier' = barrier
        /\ \A d \in Counter : d # c => count'[d] = count[d]
    BY <1>1, <1>2, DecrementIs
  <1>5. \A d : Outstanding(d)' = Outstanding(d) \ {t}
    BY <1>1, <1>3, OutstandingLess DEF LeavesSlot
  <1>6. \A d \in Counter : d # c => Outstanding(d)' = Outstanding(d)
    BY <1>5 DEF Outstanding
  <1> QED
    BY <1>1, <1>2, <1>3, <1>4, <1>6, CountersKept, ErrorsKept DEF CountSafe

LEMMA CounterExceptionCounts ==
  ASSUME CountSafe, NEW w \in Threads, Step(w), CounterException(w)
  PROVE  CounterExact' /\ ErrorKept'
  <1> DEFINE c == CounterOf[TaskOf(w)]
  <1>1. /\ TypeOK /\ worker[w].pc = "excCounter" /\ slots' = slots /\ count' = count
        /\ Goto(w, "excDecrement") /\ barrier' = [barrier EXCEPT ![c] = "error"]
        /\ Working(w) /\ Holds(w) /\ PoolSafe /\ CounterExact
    BY OwnerWorks DEF CountSafe, PoolSafe, CounterException, At, queue, Holds
  <1>2. c \in Counter
    BY <1>1, PoolAssumption DEF Working
  <1>3. worker'[w].pc = "excDecrement" /\ worker'[w].it = worker[w].it
    BY <1>1, Gotos DEF WorkerPc
  <1>4. /\ barrier'[c] = "error"
        /\ \A d \in Counter : d # c => barrier'[d] = barrier[d]
    BY <1>1, <1>2 DEF TypeOK
  <1>5. \A d : Outstanding(d)' = Outstanding(d)
    BY <1>1, <1>3, OutstandingKept DEF LeavesSlot, InUse
  <1> QED
    BY <1>1, <1>3, <1>4, <1>5, CountersKept, ErrorsKept DEF CountSafe

LEMMA InUseStays ==
  ASSUME PoolSafe, NEW w \in Threads, Step(w),
         slots' = slots \/ slots'[worker[w].it].state # "FREE"
  PROVE  worker[w].it \in InUse' <=> worker[w].it \in InUse
  <1> DEFINE i == worker[w].it
  <1>1. SlotCase(w) /\ Working(w) /\ i \in SlotId /\ SlotId' = SlotId
    BY OwnerWorks, InUseKept, Types DEF PoolSafe, Step, SlotStep, WorkerType
  <1>2. CASE slots' = slots
    BY <1>2 DEF InUse
  <1>3. CASE slots'[i].state # "FREE"
    <2>1. /\ slots[i].state \in {"WAITING", "RUNNING"}
               => slots'[i].state \in {"WAITING", "RUNNING"}
          /\ slots'[i].state \in {"WAITING", "RUNNING"}
               => slots[i].state \in {"WAITING", "RUNNING"}
      BY <1>1, <1>3 DEF SlotCase, Working
    <2> QED
      BY <1>1, <2>1 DEF InUse, SlotId
  <1> QED
    BY <1>2, <1>3

LEMMA WorkerCounts ==
  ASSUME CountSafe, NEW w \in Threads, WorkerStep(w)
  PROVE  CounterExact' /\ ErrorKept'
  <1> DEFINE i == worker[w].it
  <1>1. /\ PoolSafe /\ TypeOK /\ Working(w) /\ Step(w) /\ i \in SlotId /\ slots[i] \in Slot
        /\ \A p \in WorkerPc : Goto(w, p) => worker'[w].pc = p
        /\ Leave(w) => worker'[w].pc = "top"
        /\ NextSlot(w) => worker'[w].pc \in {"sweep", "idle", "missed", "sleep"}
        /\ Throw(w) => worker'[w].pc = "excDone"
        /\ \A m \in Mode : Search(w, m) => worker'[w].pc = "sweep"
        /\ \A s \in {"FREE", "PREPARING", "WAITING", "RUNNING"} :
             SetState(w, s) => slots'[i].state = s
    <2>1. PoolSafe /\ TypeOK
      BY DEF CountSafe, PoolSafe
    <2> QED
      BY <2>1, OwnerWorks, WorkerSteps, Types, Gotos, Leaves, NextSlots, Throws, Searches,
         StatesSet DEF WorkerType
  <1>2. ASSUME sync' = sync,
               \/ ~ LeavesSlot(w) /\ (slots' = slots \/ slots'[i].state # "FREE")
               \/ LeavesSlot(w) /\ slots'[i].state = "FREE",
               worker'[w].pc \notin {"free", "excFree", "excDecrement"}
        PROVE  CounterExact' /\ ErrorKept'
    <2>1. \A c \in Counter : barrier'[c] = barrier[c] /\ count'[c] = count[c]
      BY <1>2 DEF sync
    <2>2. \/ ~ LeavesSlot(w) /\ (i \in InUse' <=> i \in InUse)
          \/ LeavesSlot(w) /\ i \notin InUse'
      BY <1>1, <1>2, InUseStays DEF InUse
    <2> QED
      BY <1>1, <1>2, <2>1, <2>2, CountersAlone
  <1>3. CASE Top(w)
    BY <1>1, <1>2, <1>3 DEF Top, At, queue, WorkerPc, Mode, LeavesSlot
  <1>4. CASE Sweep(w)
    <2>1. CASE slots[i].state = "WAITING"
      <3>1. worker'[w].pc = "check"
        BY <1>1, <1>4, <2>1, Types DEF Sweep, WorkerType
      <3> QED
        BY <1>1, <1>2, <1>4, <2>1, <3>1 DEF Sweep, At, LeavesSlot
    <2>2. CASE slots[i].state # "WAITING"
      BY <1>1, <1>2, <1>4, <2>2 DEF Sweep, At, LeavesSlot
    <2> QED
      BY <2>1, <2>2
  <1>5. CASE CheckBarrier(w)
    <2>1. PICK b \in worker[w].unseen :
            \/ Throw(w)
            \/ worker' = [worker EXCEPT ![w].unseen = @ \ {b},
                                        ![w].blocked = @ \/ barrier[b] = "locked"]
      BY <1>5 DEF CheckBarrier
    <2>2. worker'[w].pc \in {"excDone", "check"}
      BY <1>1, <1>5, <2>1, Types DEF CheckBarrier, At, WorkerType
    <2> QED
      BY <1>2, <1>5, <2>2 DEF CheckBarrier, At, LeavesSlot, queue
  <1>6. CASE Blocked(w)
    BY <1>1, <1>2, <1>6 DEF Blocked, At, LeavesSlot
  <1>7. CASE ReadyCheck(w)
    <2>1. slots[i].state = "RUNNING" /\ sync' = sync /\ ~ LeavesSlot(w)
      BY <1>1, <1>7 DEF ReadyCheck, At, Working, Holds, LeavesSlot
    <2>2. worker'[w].pc \in {"excDone", "found", "sweep", "idle", "missed", "sleep"}
      BY <1>1, <1>7 DEF ReadyCheck, WorkerPc
    <2>3. slots'[i].state \in {"RUNNING", "WAITING"}
      <3> DEFINE cleared == [slots[i] EXCEPT !.barriers = {}]
                 again == [cleared EXCEPT !.state = "WAITING"]
      <3>1. cleared.state = "RUNNING" /\ again.state = "WAITING"
            /\ cleared \in Slot /\ again \in Slot
        BY <1>1, <2>1 DEF Slot
      <3>2. slots' = [slots EXCEPT ![i] = cleared] \/ slots' = [slots EXCEPT ![i] = again]
        BY <1>7 DEF ReadyCheck
      <3> HIDE DEF cleared, again
      <3>3. slots'[i] = cleared \/ slots'[i] = again
        BY <1>1, <3>1, <3>2, SlotChanged
      <3> QED
        BY <3>1, <3>3
    <2> QED
      BY <1>2, <2>1, <2>2, <2>3
  <1>8. CASE Call(w)
    <2>1. \/ slots' = slots /\ worker'[w].pc \in {"exited", "unlock", "excDone"}
          \/ slots'[i].state = "WAITING" /\ worker'[w].pc = "top"
      BY <1>1, <1>8 DEF Call, WorkerPc
    <2> QED
      BY <1>2, <1>8, <2>1 DEF Call, At, LeavesSlot
  <1>9. CASE UnlockDone(w) \/ DoneException(w)
    <2>1. /\ worker[w].pc \in {"unlock", "excDone"} /\ slots' = slots /\ count' = count
          /\ worker'[w].pc \in {"decrement", "excCounter"}
      BY <1>1, <1>9 DEF UnlockDone, DoneException, At, queue, WorkerPc
    <2>2. TaskOf(w) \in Task
      BY <1>1, <2>1 DEF Working, Holds
    <2>3. \A c \in Counter : c # TaskOf(w)
      BY <2>2, PoolAssumption
    <2>4. \A c \in Counter : barrier'[c] = barrier[c] /\ count'[c] = count[c]
      BY <1>1, <1>9, <2>1, <2>3 DEF UnlockDone, DoneException, TypeOK
    <2>5. i \in InUse' <=> i \in InUse
      BY <2>1 DEF InUse
    <2> QED
      BY <1>1, <2>1, <2>4, <2>5, CountersAlone DEF LeavesSlot
  <1>10. CASE FreeTheSlot(w) \/ ExceptionFree(w)
    <2>1. LeavesSlot(w) /\ slots'[i].state = "FREE" /\ worker'[w].pc = "top" /\ sync' = sync
      BY <1>1, <1>10 DEF FreeTheSlot, ExceptionFree, At, LeavesSlot, WorkerPc
    <2> QED
      BY <1>2, <2>1
  <1>11. CASE IdleLoop(w)
    <2>1. worker[w].mode \in Mode
      BY <1>1, Types DEF WorkerType
    <2>2. worker'[w].pc \in {"exited", "sweep"}
      BY <1>1, <1>11, <2>1 DEF IdleLoop, WorkerPc
    <2> QED
      BY <1>2, <1>11, <2>2 DEF IdleLoop, At, LeavesSlot, queue
  <1>12. CASE Missed(w)
    <2>1. worker'[w].pc \in {"exited", "idle", "lock"}
      BY <1>1, <1>12 DEF Missed, WorkerPc
    <2> QED
      BY <1>2, <1>12, <2>1 DEF Missed, At, LeavesSlot, queue
  <1>13. CASE LockIdle(w)
    <2>1. worker'[w].pc = "idle"
      BY <1>1, <1>13, Types DEF LockIdle, WorkerType
    <2> QED
      BY <1>2, <1>13, <2>1 DEF LockIdle, At, LeavesSlot, queue
  <1>14. CASE Pause(w) \/ Woken(w)
    <2>1. worker'[w].pc \in {"sweep", "idle"}
      BY <1>1, <1>14 DEF Pause, Woken, WorkerPc, Mode
    <2> QED
      BY <1>2, <1>14, <2>1 DEF Pause, Woken, At, LeavesSlot, queue
  <1> QED
    BY <1>1, <1>3, <1>4, <1>5, <1>6, <1>7, <1>8, <1>9, <1>10, <1>11, <1>12, <1>13, <1>14,
       DecrementCounts, ExceptionCounts, CounterExceptionCounts DEF WorkerStep

(***************************************************************************)
(* The main thread counts a task up before it fills the slot.              *)
(***************************************************************************)
LEMMA MainCountsTasks ==
  ASSUME PoolSafe, MainSafe, NEW c,
         \/ main.pc # "fill" /\ main'.pc # "fill" /\ InUse' \subseteq InUse
         \/ Fill
  PROVE  Outstanding(c)' = Outstanding(c)
  <1>1. /\ SlotsSafe /\ WorkersWoken /\ TypeOK /\ MainSlot /\ main \in MainType
        /\ \A w \in Threads : Holds(w) => slots[worker[w].it].state = "RUNNING"
    BY Types DEF MainSafe, MainFrame, PoolSafe, SlotOwnership
  <1>2. \A s : HasLeft(s)' <=> HasLeft(s)
    BY <1>1 DEF HasLeft, WorkersWoken
  <1>3. CASE main.pc # "fill" /\ main'.pc # "fill" /\ InUse' \subseteq InUse
    BY <1>1, <1>2, <1>3 DEF SlotsSafe, Outstanding
  <1>4. CASE Fill
    <2>1. /\ main.pc = "fill" /\ main'.pc # "fill" /\ main.it \in SlotId
          /\ slots[main.it].state = "PREPARING" /\ main.task \in Task
      BY <1>1, <1>4 DEF Fill, MainSlot, MainType
    <2>2. /\ main.it \notin InUse /\ ~ HasLeft(main.it)
      BY <1>1, <2>1 DEF InUse, HasLeft, Holds
    <2>3. main.it \in InUse' /\ slots'[main.it].task = main.task
      BY <1>1, <1>4, <2>1 DEF Fill, InUse, SlotId, TypeOK
    <2>4. \A s \in InUse' : s \in InUse \/ s = main.it
      BY <1>1 DEF SlotsSafe
    <2>5. \A s \in InUse : s \in InUse' /\ slots'[s] = slots[s]
      BY <1>1 DEF SlotsSafe
    <2>6. \A t : (\E s \in InUse' : slots'[s].task = t /\ ~ HasLeft(s)')
                 <=> main.task = t \/ \E s \in InUse : slots[s].task = t /\ ~ HasLeft(s)
      BY <1>2, <2>2, <2>3, <2>4, <2>5
    <2> QED
      BY <2>1, <2>6 DEF Outstanding
  <1> QED
    BY <1>3, <1>4

LEMMA MainErrors ==
  ASSUME CountSafe, MainSafe,
         \A c \in Counter : barrier[c] = "error" => barrier'[c] = "error"
  PROVE  ErrorKept'
  <1>1. /\ SlotsSafe /\ WorkersWoken /\ PoolSafe /\ ErrorKept
        /\ \A w \in Threads : Working(w) /\ worker[w].it \in SlotId
    BY OwnerWorks, Types DEF MainSafe, MainFrame, CountSafe, PoolSafe, WorkerType
  <1>2. ASSUME NEW w \in Threads, worker'[w].pc \in {"excDecrement", "excFree"}
        PROVE  barrier'[CounterOf[slots'[worker'[w].it].task]] = "error"
    <2>1. worker'[w] = worker[w]
      BY <1>1, <1>2 DEF WorkersWoken
    <2>2. /\ slots[worker[w].it].state = "RUNNING" /\ TaskOf(w) \in Task
          /\ barrier[CounterOf[TaskOf(w)]] = "error"
      BY <1>1, <1>2, <2>1 DEF Working, Holds, ErrorKept
    <2>3. slots'[worker[w].it] = slots[worker[w].it]
      BY <1>1, <2>2 DEF SlotsSafe, InUse, SlotId
    <2> QED
      BY <2>1, <2>2, <2>3, PoolAssumption DEF TaskOf
  <1> QED
    BY <1>2 DEF ErrorKept, TaskOf

LEMMA IncrementCounts ==
  ASSUME CountSafe, MainSafe, Increment
  PROVE  CounterExact' /\ ErrorKept'
  <1>1. /\ PoolSafe /\ TypeOK /\ CounterExact /\ main \in MainType /\ main.pc = "increment"
        /\ slots' = slots /\ worker' = worker
        /\ main.task \in Task /\ CounterOf[main.task] \in Counter
    BY Types, PoolAssumption DEF CountSafe, PoolSafe, Increment, MainSlot, queue
  <1>2. InUse' = InUse
    BY <1>1 DEF InUse
  <1> PICK t \in Task : t = main.task
    BY <1>1
  <1> PICK c \in Counter : c = CounterOf[t]
    BY <1>1
  <1>3. CASE barrier[c] = "error"
    <2>1. main'.pc = "wait" /\ barrier' = barrier /\ count' = count
      BY <1>1, <1>3 DEF Increment, MainType, sync
    <2>2. \A d \in Counter : Outstanding(d)' = Outstanding(d)
      BY <1>1, <1>2, <2>1, MainCountsTasks
    <2> QED
      BY <1>1, <2>1, <2>2, CountersKept, MainErrors
  <1>4. CASE barrier[c] # "error"
    <2>1. /\ main'.pc = "fill" /\ main'.task = t
          /\ barrier' = [barrier EXCEPT ![c] = "locked"]
          /\ count' = [count EXCEPT ![c] = (count[c] + 1) % CounterRange]
      BY <1>1, <1>4 DEF Increment, MainType, TypeOK
    <2>2. /\ barrier'[c] = "locked" /\ count'[c] = (count[c] + 1) % CounterRange
          /\ \A d \in Counter : d # c => barrier'[d] = barrier[d] /\ count'[d] = count[d]
      BY <1>1, <2>1 DEF TypeOK
    <2>3. \A s : HasLeft(s)' <=> HasLeft(s)
      BY <1>1 DEF HasLeft
    <2>4. \A d : Outstanding(d)' = IF d = c THEN Outstanding(d) \cup {t} ELSE Outstanding(d)
      BY <1>1, <1>2, <2>1, <2>3 DEF Outstanding
    <2>5. t \notin Outstanding(c)
      BY <1>1 DEF Outstanding, PoolSafe, Filled, Task
    <2>6. /\ IsFiniteSet(Outstanding(c)) /\ Cardinality(Outstanding(c)) \in Nat
          /\ Cardinality(Outstanding(c)') <= NumTasks
      <3>1. /\ IsFiniteSet(Outstanding(c)') /\ Cardinality(Outstanding(c)') <= NumTasks
        <4>1. NumTasks \in Nat /\ IsFiniteSet(Task) /\ Cardinality(Task) = NumTasks
          BY PoolAssumption, FS_Interval DEF Task
        <4>2. Outstanding(c)' \in SUBSET Task
          BY DEF Outstanding
        <4> QED
          BY <4>1, <4>2, FS_Subset
      <3> QED
        BY <3>1, OutstandingBound
    <2>7. Cardinality(Outstanding(c)') = count[c] + 1
      BY <1>1, <1>4, <2>4, <2>5, <2>6, FS_AddElement DEF CounterExact
    <2>8. count'[c] = count[c] + 1
      <3>1. /\ count[c] \in Nat /\ NumTasks \in Nat /\ CounterRange \in Nat
            /\ CounterRange > NumTasks
        BY PoolAssumption, <1>1 DEF TypeOK
      <3>2. count[c] + 1 \in 0 .. CounterRange - 1
        BY <2>6, <2>7, <3>1
      <3>3. \A R \in Nat : \A n \in 0 .. R - 1 : n % R = n
        OBVIOUS
      <3> QED
        BY <2>2, <3>1, <3>2, <3>3
    <2>9. CounterExact'
      <3>1. count'[c] > 0 /\ count'[c] = Cardinality(Outstanding(c)')
        BY <1>1, <2>7, <2>8 DEF TypeOK
      <3>2. \A d \in Counter : d # c => Outstanding(d)' = Outstanding(d)
        BY <2>4
      <3> QED
        BY <1>1, <2>2, <3>1, <3>2 DEF CounterExact
    <2>10. \A d \in Counter : barrier[d] = "error" => barrier'[d] = "error"
      BY <1>4, <2>2
    <2> QED
      BY <2>9, <2>10, MainErrors
  <1> QED
    BY <1>3, <1>4

LEMMA MainCounts ==
  ASSUME CountSafe, MainStep
  PROVE  CounterExact' /\ ErrorKept'
  <1>1. /\ PoolSafe /\ TypeOK /\ MainSlot /\ CounterExact /\ MainSafe /\ main \in MainType
    BY MainStepSafe, Types DEF CountSafe, PoolSafe
  <1>2. CASE Increment
    BY <1>1, <1>2, IncrementCounts
  <1>3. CASE ~ Increment
    <2>1. barrier' = barrier /\ count' = count
      BY <1>3 DEF MainStep, Seek, Fill, AllAdded, Wait, ExitEarly, Shutdown, WaitForThreads,
                  sync
    <2>2. CASE Fill
      BY <1>1, <2>1, <2>2, MainCountsTasks, CountersKept, MainErrors
    <2>3. CASE ~ Fill
      <3>1. main.pc # "fill" /\ main'.pc # "fill"
        <4>1. CASE Seek
          BY <1>1, <4>1 DEF Seek, MainType
        <4>2. CASE Wait
          BY <1>1, <4>2 DEF Wait, MainType
        <4>3. CASE AllAdded \/ ExitEarly \/ Shutdown
          BY <1>1, <4>3 DEF AllAdded, ExitEarly, Shutdown, MainType
        <4>4. CASE WaitForThreads
          BY <1>1, <4>4 DEF WaitForThreads, MainType
        <4> QED
          BY <1>3, <2>3, <4>1, <4>2, <4>3, <4>4 DEF MainStep
      <3>2. main'.task = main.task
        BY <1>1, <2>3, MainQuiets DEF MainQuiet
      <3>3. InUse' \subseteq InUse
        BY <1>1, <3>2 DEF MainSafe, SlotsSafe, MainType
      <3>4. \A d : Outstanding(d)' = Outstanding(d)
        BY <1>1, <3>1, <3>3, MainCountsTasks
      <3> QED
        BY <1>1, <2>1, <3>4, CountersKept, MainErrors
    <2> QED
      BY <2>2, <2>3
  <1> QED
    BY <1>2, <1>3

LEMMA InitCounts == Init => CountSafe
  <1> SUFFICES ASSUME Init PROVE CountSafe
    OBVIOUS
  <1>1. PoolSafe
    BY InitSafe
  <1>2. ErrorKept
    BY DEF Init, ErrorKept
  <1>3. InUse = {}
    BY PoolAssumption DEF Init, InUse, Chunk, FreeSlot
  <1>4. \A c \in Counter : Outstanding(c) = {}
    BY <1>3 DEF Outstanding, Init
  <1>5. \A c \in Counter : barrier[c] = "unlocked" /\ count[c] = 0
    BY PoolAssumption DEF Init
  <1>6. CounterExact
    BY <1>4, <1>5, FS_EmptySet DEF CounterExact
  <1> QED
    BY <1>1, <1>2, <1>6 DEF CountSafe

LEMMA NextCounts == CountSafe /\ [Next]_vars => CountSafe'
  <1> SUFFICES ASSUME CountSafe, [Next]_vars PROVE CountSafe'
    OBVIOUS
  <1>1. PoolSafe'
    BY NextSafe DEF CountSafe
  <1>2. CASE MainStep
    BY <1>1, <1>2, MainCounts DEF CountSafe
  <1>3. ASSUME NEW w \in Threads, WorkerStep(w)
        PROVE  CountSafe'
    BY <1>1, <1>3, WorkerCounts DEF CountSafe
  <1>4. CASE UNCHANGED vars
    <2>1. CounterExact'
      BY <1>4 DEF vars, CountSafe, CounterExact, Outstanding, InUse, HasLeft
    <2>2. ErrorKept'
      BY <1>4 DEF vars, CountSafe, ErrorKept, TaskOf
    <2> QED
      BY <1>1, <2>1, <2>2 DEF CountSafe
  <1> QED
    BY <1>2, <1>3, <1>4 DEF Next

(***************************************************************************)
(* A counter without an exception counts exactly the tasks that have been  *)
(* added to it and have not left it, whatever the number of tasks below    *)
(* the range of its unsigned int, and its barrier is locked while there    *)
(* are any: a task behind the counter starts neither early nor never.      *)
(***************************************************************************)
THEOREM CountersAreExact == Spec => []CounterExact
  <1>1. Spec => []CountSafe
    BY InitCounts, NextCounts, PTL DEF Spec
  <1>2. CountSafe => CounterExact
    BY DEF CountSafe
  <1> QED
    BY <1>1, <1>2, PTL

-----------------------------------------------------------------------------
(***************************************************************************)
(* The pool implements TaskGraph.                                          *)
(*                                                                         *)
(* A task is called once the thread that checks it has seen its barriers   *)
(* unlocked, one after the other.  That what they stand for is finished    *)
(* then, and stays so, takes an invariant: what an unlocked barrier, one   *)
(* with an error, and a cleared slot say about the tasks before.           *)
(***************************************************************************)
\* What a barrier stands for has returned; a task of the group has failed.
Finishes(b) ==
  IF b \in Task THEN progress[b] = "returned"
                ELSE \A u \in Task : CounterOf[u] = b => progress[u] = "returned"

Fails(c) == \E u \in Task : CounterOf[u] = c /\ progress[u] = "threw"

GroupOf(b) == IF b \in Task THEN CounterOf[b] ELSE b

Pending(t) == progress[t] \in {"none", "part"}

Ready(t) == (\A b \in Deps[t] : Finishes(b)) /\ PollReady(t)

Cause(t) == \/ t \in MayThrow
            \/ \E b \in Deps[t] : Fails(GroupOf(b))
            \/ Polls[t] # {} /\ Fails(CounterOf[t])

\* A thread knows of the task it holds ...
ThreadKnows(w) ==
  /\ worker[w].pc \in {"check", "found"} => Pending(TaskOf(w))
  /\ worker[w].pc \in {"unlock", "decrement", "free"} => progress[TaskOf(w)] = "returned"
  /\ worker[w].pc \in {"excDone", "excCounter", "excDecrement", "excFree"} =>
       ~ Pending(TaskOf(w)) /\ Fails(CounterOf[TaskOf(w)])
  /\ worker[w].pc = "check" =>
       /\ worker[w].unseen \subseteq Deps[TaskOf(w)]
       /\ ~ worker[w].blocked => \A b \in Deps[TaskOf(w)] \ worker[w].unseen : Finishes(b)
  /\ worker[w].pc = "found" => Ready(TaskOf(w))

\* ... a slot of the task in it ...
SlotKnows(s) ==
  /\ slots[s].state = "WAITING" => Pending(slots[s].task)
  /\ slots[s].barriers \subseteq Deps[slots[s].task]
  /\ \A b \in Deps[slots[s].task] \ slots[s].barriers : Finishes(b)

\* ... and a barrier of the tasks it stands for.
BarrierKnows(b) ==
  /\ b \in Task /\ barrier[b] = "unlocked" => progress[b] = "returned"
  /\ barrier[b] = "error" => Fails(GroupOf(b))

\* A task that has left the queue has returned, or its counter knows.
Ended(t) == ~ Pending(t) /\ (progress[t] = "threw" => barrier[CounterOf[t]] = "error")

Present(t) == \/ main.pc = "fill" /\ main.task = t
              \/ \E s \in InUse : slots[s].task = t

TaskKnown(t) ==
  /\ ~ Added(t) => progress[t] = "none"
  /\ main.pc = "fill" /\ main.task = t => progress[t] = "none"
  /\ Added(t) => Present(t) \/ Ended(t)

GraphSafe ==
  /\ CountSafe
  /\ \A t \in Task : TaskKnown(t)
  /\ \A b \in Task \cup Counter : BarrierKnows(b)
  /\ \A w \in Threads : ThreadKnows(w)
  /\ \A s \in InUse : SlotKnows(s)

-----------------------------------------------------------------------------
(***************************************************************************)
(* What a step of a thread does to the tasks and the barriers.             *)
(***************************************************************************)
TaskMoves(t) ==
  \/ progress' = progress
  \/ /\ Pending(t) /\ Cause(t)
     /\ progress' = [progress EXCEPT ![t] = "threw"]
  \/ /\ Pending(t) /\ Ready(t)
     /\ progress' = [progress EXCEPT ![t] = "returned"]
  \/ /\ progress[t] = "none" /\ Ready(t)
     /\ progress' = [progress EXCEPT ![t] = "part"]

BarrierMoves(b) ==
  \/ barrier'[b] = barrier[b]
  \/ b \in Task /\ barrier'[b] = "unlocked" /\ progress[b] = "returned"
  \/ barrier'[b] = "error" /\ Fails(GroupOf(b))
  \/ b \in Counter /\ barrier[b] # "error" /\ barrier'[b] = "unlocked"

\* i and t are the slot the thread is at and the task in it.
Goes(w, i, t) ==
  /\ TaskMoves(t)
  /\ Holds(w) \/ progress' = progress
  /\ \A b \in Task \cup Counter : BarrierMoves(b)
  /\ ThreadKnows(w)'
  /\ i \in InUse' => SlotKnows(i)'
  /\ i \in InUse /\ i \notin InUse' => Ended(t)

\* What has happened to a task stays.
LEMMA TasksStay ==
  ASSUME TypeOK, NEW t, t \in Task \/ progress' = progress, TaskMoves(t)
  PROVE  /\ \A u \in Task : ~ Pending(u) => progress'[u] = progress[u]
         /\ \A u \in Task : u # t => progress'[u] = progress[u]
         /\ \A b : Finishes(b) => Finishes(b)'
         /\ \A c : Fails(c) => Fails(c)'
         /\ \A u \in Task : PollReady(u) => PollReady(u)'
  <1>1. /\ \A u \in Task : ~ Pending(u) => progress'[u] = progress[u]
        /\ \A u \in Task : u # t => progress'[u] = progress[u]
    BY DEF TaskMoves, TypeOK, Pending
  <1>2. /\ \A u \in Task : progress[u] = "returned" => progress'[u] = "returned"
        /\ \A u \in Task : progress[u] = "threw" => progress'[u] = "threw"
    BY <1>1 DEF Pending
  <1>3. \A b : Finishes(b) => Finishes(b)'
    BY <1>2 DEF Finishes
  <1>4. \A c : Fails(c) => Fails(c)'
    BY <1>2 DEF Fails
  <1>5. \A u \in Task : PollReady(u) => PollReady(u)'
    BY <1>2, PoolAssumption DEF PollReady
  <1> QED
    BY <1>1, <1>3, <1>4, <1>5

\* An unlocked barrier of a task in a slot stands for tasks that have returned.
LEMMA UnlockedFinishes ==
  ASSUME GraphSafe, NEW t \in Task, t < main.task, NEW b \in Deps[t], barrier[b] = "unlocked"
  PROVE  Finishes(b)
  <1>1. /\ PoolSafe /\ TypeOK /\ CounterExact /\ ErrorKept /\ main \in MainType
        /\ b \in Task \cup Counter
    BY Types, PoolAssumption DEF GraphSafe, CountSafe, PoolSafe
  <1>2. CASE b \in Task
    BY <1>1, <1>2 DEF GraphSafe, BarrierKnows, Finishes
  <1>3. CASE b \notin Task
    <2>1. b \in Counter /\ count[b] = 0
      BY <1>1, <1>3 DEF CounterExact, TypeOK
    <2>2. Cardinality(Outstanding(b)) = 0 /\ IsFiniteSet(Outstanding(b))
      BY <1>1, <2>1, OutstandingBound DEF CounterExact
    <2>3. Outstanding(b) = {}
      BY <2>2, FS_EmptySet
    <2>4. ASSUME NEW u \in Task, CounterOf[u] = b
          PROVE  progress[u] = "returned"
      <3>1. u < main.task /\ u # main.task
        BY <1>1, <2>1, <2>4, OrderAssumption DEF Task, MainType
      <3>2. Present(u) \/ Ended(u)
        BY <3>1 DEF GraphSafe, TaskKnown, Added
      <3>3. CASE \E s \in InUse : slots[s].task = u
        <4>1. PICK s \in InUse : slots[s].task = u
          BY <3>3
        <4>2. HasLeft(s)
          BY <2>3, <2>4, <4>1 DEF Outstanding
        <4>3. PICK w \in Threads : worker[w].it = s /\ worker[w].pc \in {"free", "excFree"}
          BY <4>2 DEF HasLeft
        <4>4. TaskOf(w) = u
          BY <4>1, <4>3 DEF TaskOf
        <4>5. worker[w].pc = "free"
          BY <1>1, <2>4, <4>3, <4>4 DEF ErrorKept
        <4> QED
          BY <4>4, <4>5 DEF GraphSafe, ThreadKnows
      <3>4. CASE Ended(u)
        <4>1. progress[u] \in Progress
          BY <1>1 DEF TypeOK
        <4> QED
          BY <2>4, <3>4, <4>1 DEF Ended, Pending, Progress
      <3> QED
        BY <3>1, <3>2, <3>3, <3>4 DEF Present
    <2> QED
      BY <1>3, <2>4 DEF Finishes
  <1> QED
    BY <1>2, <1>3

-----------------------------------------------------------------------------
(***************************************************************************)
(* Every action of a thread goes that way.                                 *)
(***************************************************************************)
LEMMA BarriersSame ==
  ASSUME barrier' = barrier
  PROVE  \A b : BarrierMoves(b)
  BY DEF BarrierMoves

\* Facts about the thread that takes the step.
LEMMA Here ==
  ASSUME GraphSafe, NEW w \in Threads, NEW i, i = worker[w].it, NEW t, t = TaskOf(w)
  PROVE  /\ TypeOK /\ PoolSafe /\ CountSafe /\ i \in SlotId /\ t = slots[i].task
         /\ slots[i] \in Slot /\ worker[w] \in WorkerType /\ worker \in [Threads -> WorkerType]
         /\ ThreadKnows(w) /\ (i \in InUse => SlotKnows(i))
         /\ Holds(w) => /\ slots[i].state = "RUNNING" /\ i \in InUse
                        /\ t \in Task /\ t < main.task /\ CounterOf[t] \in Counter
                        /\ Deps[t] \subseteq Task \cup Counter
  <1>1. /\ TypeOK /\ PoolSafe /\ CountSafe /\ ThreadKnows(w)
        /\ (i \in InUse => SlotKnows(i)) /\ Working(w)
    BY OwnerWorks DEF GraphSafe, CountSafe, PoolSafe
  <1>2. /\ i \in SlotId /\ t = slots[i].task
        /\ slots[i] \in Slot /\ worker[w] \in WorkerType /\ worker \in [Threads -> WorkerType]
    BY <1>1, Types DEF WorkerType, TaskOf
  <1>3. Holds(w) => /\ slots[i].state = "RUNNING" /\ i \in InUse
                    /\ t \in Task /\ t < main.task
    BY <1>1, <1>2 DEF Working, InUse, SlotId, PoolSafe, Filled
  <1> QED
    BY <1>1, <1>2, <1>3, PoolAssumption

\* A thread without a task looks around, waits, or ends.
LEMMA GoesIdle ==
  ASSUME GraphSafe, NEW w \in Threads, NEW i, i = worker[w].it, NEW t, t = TaskOf(w),
         ~ Holds(w)', slots' = slots, barrier' = barrier, progress' = progress
  PROVE  Goes(w, i, t)
  <1>1. ThreadKnows(w)'
    BY DEF ThreadKnows, Holds
  <1>2. i \in InUse' => i \in InUse /\ SlotKnows(i)'
    <2>1. i \in InUse => SlotKnows(i)
      BY Here
    <2>2. SlotKnows(i)' <=> SlotKnows(i)
      BY DEF SlotKnows, Pending, Finishes
    <2> QED
      BY <2>1, <2>2 DEF InUse
  <1>3. i \in InUse => i \in InUse'
    BY DEF InUse
  <1> QED
    BY <1>1, <1>2, <1>3, BarriersSame DEF Goes, TaskMoves

LEMMA SweepGoes ==
  ASSUME GraphSafe, NEW w \in Threads, NEW i, i = worker[w].it, NEW t, t = TaskOf(w),
         Sweep(w)
  PROVE  Goes(w, i, t)
  <1>1. /\ TypeOK /\ i \in SlotId /\ t = slots[i].task /\ slots[i] \in Slot
        /\ barrier' = barrier /\ progress' = progress /\ worker \in [Threads -> WorkerType]
        /\ worker[w] \in WorkerType
    BY Here DEF Sweep, sync
  <1>2. CASE slots[i].state = "WAITING"
    <2> DEFINE r == [worker[w] EXCEPT !.pc = "check", !.blocked = FALSE,
                       !.unseen = slots[i].barriers]
    <2>1. SetState(w, "RUNNING") /\ worker' = [worker EXCEPT ![w] = r]
      BY <1>1, <1>2 DEF Sweep
    <2>2. /\ worker'[w].pc = "check" /\ worker'[w].it = i
          /\ worker'[w].blocked = FALSE /\ worker'[w].unseen = slots[i].barriers
      BY <1>1, <2>1 DEF WorkerType
    <2>3. /\ slots'[i].state = "RUNNING" /\ slots'[i].task = t
          /\ slots'[i].barriers = slots[i].barriers /\ SlotId' = SlotId
      BY <1>1, <2>1, StatesSet
    <2>4. Pending(t) /\ i \in InUse /\ SlotKnows(i) /\ slots[i].barriers \subseteq Deps[t]
          /\ \A b \in Deps[t] \ slots[i].barriers : Finishes(b)
      BY <1>1, <1>2, Here DEF InUse, SlotId, SlotKnows
    <2>5. Pending(t)' /\ \A b : Finishes(b)' <=> Finishes(b)
      BY <1>1, <2>4 DEF Pending, Finishes
    <2>6. ThreadKnows(w)'
      <3>1. TaskOf(w)' = t
        BY <2>2, <2>3 DEF TaskOf
      <3> QED
        BY <2>2, <2>4, <2>5, <3>1 DEF ThreadKnows
    <2>7. SlotKnows(i)' /\ i \in InUse'
      BY <1>1, <2>3, <2>4, <2>5 DEF SlotKnows, InUse, SlotId
    <2> QED
      BY <1>1, <2>6, <2>7, BarriersSame DEF Goes, TaskMoves
  <1>3. CASE slots[i].state # "WAITING"
    <2>1. NextSlot(w) /\ slots' = slots
      BY <1>3 DEF Sweep
    <2>2. ~ Holds(w)'
      BY <1>1, <2>1, NextSlots DEF Holds
    <2> QED
      BY <1>1, <2>1, <2>2, GoesIdle
  <1> QED
    BY <1>2, <1>3

\* The task throws, in the search or in its call.
LEMMA ThrowGoes ==
  ASSUME GraphSafe, NEW w \in Threads, NEW i, i = worker[w].it, NEW t, t = TaskOf(w),
         Holds(w), Pending(t), Cause(t), TypeOK', SlotId' = SlotId,
         progress' = [progress EXCEPT ![t] = "threw"], barrier' = barrier,
         worker'[w].pc = "excDone", worker'[w].it = i,
         slots'[i].task = t, slots'[i].state = "RUNNING",
         \/ slots'[i].barriers = slots[i].barriers
         \/ slots'[i].barriers = {} /\ \A b \in Deps[t] : Finishes(b)
  PROVE  Goes(w, i, t)
  <1>1. /\ TypeOK /\ t \in Task /\ i \in SlotId /\ i \in InUse /\ SlotKnows(i)
        /\ t = slots[i].task
    BY Here
  <1>2. TaskMoves(t)
    BY DEF TaskMoves
  <1>3. progress'[t] = "threw" /\ \A b : Finishes(b) => Finishes(b)'
    BY <1>1, <1>2, TasksStay DEF TypeOK
  <1>4. ~ Pending(t)' /\ Fails(CounterOf[t])'
    BY <1>1, <1>3 DEF Pending, Fails
  <1>5. ThreadKnows(w)'
    <2>1. TaskOf(w)' = t
      BY DEF TaskOf
    <2> QED
      BY <1>4, <2>1 DEF ThreadKnows
  <1>6. i \in InUse' /\ SlotKnows(i)'
    BY <1>1, <1>3 DEF SlotKnows, InUse, SlotId
  <1> QED
    BY <1>2, <1>5, <1>6, BarriersSame DEF Goes

LEMMA CheckBarrierGoes ==
  ASSUME GraphSafe, NEW w \in Threads, NEW i, i = worker[w].it, NEW t, t = TaskOf(w),
         CheckBarrier(w), TypeOK'
  PROVE  Goes(w, i, t)
  <1>1. /\ worker[w].pc = "check" /\ Holds(w) /\ barrier' = barrier /\ slots' = slots
    BY DEF CheckBarrier, At, Holds, sync, queue
  <1>2. /\ TypeOK /\ t \in Task /\ t < main.task /\ i \in SlotId /\ i \in InUse /\ SlotKnows(i)
        /\ t = slots[i].task /\ slots[i].state = "RUNNING" /\ ThreadKnows(w)
        /\ worker \in [Threads -> WorkerType] /\ worker[w] \in WorkerType
        /\ Deps[t] \subseteq Task \cup Counter
    BY <1>1, Here
  <1>3. Pending(t) /\ worker[w].unseen \subseteq Deps[t]
        /\ (~ worker[w].blocked => \A b \in Deps[t] \ worker[w].unseen : Finishes(b))
    BY <1>1, <1>2 DEF ThreadKnows
  <1>4. PICK b \in worker[w].unseen :
          IF barrier[b] = "error" THEN Throw(w)
          ELSE /\ worker' = [worker EXCEPT ![w].unseen = @ \ {b},
                                           ![w].blocked = @ \/ barrier[b] = "locked"]
               /\ UNCHANGED <<progress, idle>>
    BY DEF CheckBarrier
  <1>5. b \in Deps[t] /\ b \in Task \cup Counter
    BY <1>2, <1>3
  <1>6. CASE barrier[b] = "error"
    <2>1. /\ worker'[w].pc = "excDone" /\ worker'[w].it = i
          /\ progress' = [progress EXCEPT ![t] = "threw"]
      BY <1>2, <1>4, <1>6, Throws
    <2>2. Cause(t)
      BY <1>5, <1>6 DEF Cause, GraphSafe, BarrierKnows
    <2>3. SlotId' = SlotId
      BY <1>1 DEF SlotId
    <2> QED
      BY <1>1, <1>2, <1>3, <2>1, <2>2, <2>3, ThrowGoes
  <1>7. CASE barrier[b] # "error"
    <2> DEFINE r == [worker[w] EXCEPT !.unseen = @ \ {b},
                                      !.blocked = @ \/ barrier[b] = "locked"]
    <2>1. worker' = [worker EXCEPT ![w] = r] /\ progress' = progress
      BY <1>2, <1>4, <1>7
    <2>2. /\ worker'[w].pc = "check" /\ worker'[w].it = i
          /\ worker'[w].unseen = worker[w].unseen \ {b}
          /\ ~ worker'[w].blocked => ~ worker[w].blocked /\ barrier[b] # "locked"
      BY <1>1, <1>2, <2>1 DEF WorkerType
    <2>3. ~ worker'[w].blocked => Finishes(b)
      <3>1. barrier[b] \in BarrierState
        BY <1>2, <1>5 DEF TypeOK
      <3> QED
        BY <1>2, <1>5, <1>7, <2>2, <3>1, UnlockedFinishes DEF BarrierState
    <2>4. (Pending(t)' <=> Pending(t)) /\ \A d : Finishes(d)' <=> Finishes(d)
      BY <2>1 DEF Pending, Finishes
    <2>5. ThreadKnows(w)'
      <3>1. TaskOf(w)' = t
        BY <1>1, <1>2, <2>2 DEF TaskOf
      <3> QED
        BY <1>3, <2>2, <2>3, <2>4, <3>1 DEF ThreadKnows
    <2>6. i \in InUse' /\ SlotKnows(i)'
      BY <1>1, <1>2, <2>4 DEF SlotKnows, InUse, SlotId
    <2> QED
      BY <1>1, <2>1, <2>5, <2>6, BarriersSame DEF Goes, TaskMoves
  <1> QED
    BY <1>6, <1>7

LEMMA BlockedGoes ==
  ASSUME GraphSafe, NEW w \in Threads, NEW i, i = worker[w].it, NEW t, t = TaskOf(w),
         Blocked(w)
  PROVE  Goes(w, i, t)
  <1>1. /\ worker[w].pc = "check" /\ Holds(w) /\ barrier' = barrier /\ progress' = progress
        /\ SetState(w, "WAITING") /\ NextSlot(w)
    BY DEF Blocked, At, Holds, sync
  <1>2. /\ TypeOK /\ i \in SlotId /\ i \in InUse /\ SlotKnows(i) /\ t = slots[i].task
        /\ Pending(t)
    BY <1>1, Here DEF ThreadKnows
  <1>3. /\ slots'[i].state = "WAITING" /\ slots'[i].task = t
        /\ slots'[i].barriers = slots[i].barriers /\ SlotId' = SlotId
    BY <1>1, <1>2, StatesSet
  <1>4. (Pending(t)' <=> Pending(t)) /\ \A b : Finishes(b)' <=> Finishes(b)
    BY <1>1 DEF Pending, Finishes
  <1>5. SlotKnows(i)' /\ i \in InUse'
    BY <1>2, <1>3, <1>4 DEF SlotKnows, InUse, SlotId
  <1>6. ~ Holds(w)'
    BY <1>1, <1>2, NextSlots DEF Holds
  <1>7. ThreadKnows(w)'
    BY <1>6 DEF ThreadKnows, Holds
  <1> QED
    BY <1>1, <1>5, <1>7, BarriersSame DEF Goes, TaskMoves

LEMMA ReadyCheckGoes ==
  ASSUME GraphSafe, NEW w \in Threads, NEW i, i = worker[w].it, NEW t, t = TaskOf(w),
         ReadyCheck(w), TypeOK'
  PROVE  Goes(w, i, t)
  <1> DEFINE cleared == [slots[i] EXCEPT !.barriers = {}]
             again == [cleared EXCEPT !.state = "WAITING"]
  <1>1. /\ worker[w].pc = "check" /\ Holds(w) /\ barrier' = barrier
        /\ worker[w].unseen = {} /\ ~ worker[w].blocked
    BY DEF ReadyCheck, At, Holds, sync
  <1>2. /\ TypeOK /\ t \in Task /\ i \in SlotId /\ i \in InUse /\ SlotKnows(i)
        /\ t = slots[i].task /\ slots[i].state = "RUNNING" /\ slots[i] \in Slot
        /\ CounterOf[t] \in Counter /\ ThreadKnows(w)
    BY <1>1, Here
  <1>3. Pending(t) /\ \A b \in Deps[t] : Finishes(b)
    BY <1>1, <1>2 DEF ThreadKnows
  <1>4. /\ cleared \in Slot /\ cleared.task = t /\ cleared.state = "RUNNING"
        /\ cleared.barriers = {}
        /\ again \in Slot /\ again.task = t /\ again.state = "WAITING" /\ again.barriers = {}
    BY <1>2 DEF Slot
  <1>5. \/ PollThrows(t) /\ slots' = [slots EXCEPT ![i] = cleared] /\ Throw(w)
        \/ /\ PollReady(t) /\ slots' = [slots EXCEPT ![i] = cleared] /\ Goto(w, "found")
           /\ progress' = progress
        \/ slots' = [slots EXCEPT ![i] = again] /\ NextSlot(w) /\ progress' = progress
    BY DEF ReadyCheck
  <1> HIDE DEF cleared, again
  <1>6. CASE PollThrows(t) /\ slots' = [slots EXCEPT ![i] = cleared] /\ Throw(w)
    <2>1. /\ slots'[i] = cleared /\ SlotId' = SlotId
      BY <1>2, <1>4, <1>6, SlotChanged
    <2>2. /\ worker'[w].pc = "excDone" /\ worker'[w].it = i
          /\ progress' = [progress EXCEPT ![t] = "threw"]
      BY <1>2, <1>6, Throws
    <2>3. Cause(t)
      <3>1. Fails(GroupOf(CounterOf[t]))
        BY <1>2, <1>6 DEF PollThrows, GraphSafe, BarrierKnows
      <3>2. GroupOf(CounterOf[t]) = CounterOf[t]
        BY <1>2, PoolAssumption DEF GroupOf
      <3> QED
        BY <1>6, <3>1, <3>2 DEF Cause, PollThrows
    <2> QED
      BY <1>1, <1>3, <1>4, <2>1, <2>2, <2>3, ThrowGoes
  <1>7. CASE /\ PollReady(t) /\ slots' = [slots EXCEPT ![i] = cleared] /\ Goto(w, "found")
             /\ progress' = progress
    <2>1. /\ slots'[i] = cleared /\ SlotId' = SlotId
      BY <1>2, <1>4, <1>7, SlotChanged
    <2>2. worker'[w].pc = "found" /\ worker'[w].it = i
      BY <1>2, <1>7, Gotos DEF WorkerPc
    <2>3. /\ Pending(t)' /\ PollReady(t)' /\ \A b : Finishes(b)' <=> Finishes(b)
      BY <1>3, <1>7 DEF Pending, Finishes, PollReady
    <2>4. Ready(t)'
      BY <1>3, <2>3 DEF Ready
    <2>5. ThreadKnows(w)'
      <3>1. TaskOf(w)' = t
        BY <1>4, <2>1, <2>2 DEF TaskOf
      <3> QED
        BY <2>2, <2>3, <2>4, <3>1 DEF ThreadKnows
    <2>6. i \in InUse' /\ SlotKnows(i)'
      BY <1>2, <1>3, <1>4, <2>1, <2>3 DEF SlotKnows, InUse, SlotId
    <2> QED
      BY <1>1, <1>7, <2>5, <2>6, BarriersSame DEF Goes, TaskMoves
  <1>8. CASE slots' = [slots EXCEPT ![i] = again] /\ NextSlot(w) /\ progress' = progress
    <2>1. /\ slots'[i] = again /\ SlotId' = SlotId
      BY <1>2, <1>4, <1>8, SlotChanged
    <2>2. ~ Holds(w)'
      BY <1>2, <1>8, NextSlots DEF Holds
    <2>3. ThreadKnows(w)'
      BY <2>2 DEF ThreadKnows, Holds
    <2>4. /\ Pending(t)' /\ \A b : Finishes(b)' <=> Finishes(b)
      BY <1>3, <1>8 DEF Pending, Finishes
    <2>5. i \in InUse' /\ SlotKnows(i)'
      BY <1>2, <1>3, <1>4, <2>1, <2>4 DEF SlotKnows, InUse, SlotId
    <2> QED
      BY <1>1, <1>8, <2>3, <2>5, BarriersSame DEF Goes, TaskMoves
  <1> QED
    BY <1>5, <1>6, <1>7, <1>8

LEMMA CallGoes ==
  ASSUME GraphSafe, NEW w \in Threads, NEW i, i = worker[w].it, NEW t, t = TaskOf(w),
         Call(w), TypeOK'
  PROVE  Goes(w, i, t)
  <1>1. worker[w].pc = "found" /\ Holds(w) /\ barrier' = barrier
    BY DEF Call, At, Holds, sync
  <1>2. /\ TypeOK /\ t \in Task /\ i \in SlotId /\ i \in InUse /\ SlotKnows(i)
        /\ t = slots[i].task /\ slots[i].state = "RUNNING" /\ CounterOf[t] \in Counter
        /\ Pending(t) /\ Ready(t)
    BY <1>1, Here DEF ThreadKnows
  <1>3. \/ Goto(w, "exited") /\ slots' = slots /\ progress' = progress
        \/ /\ progress[t] = "none" /\ progress' = [progress EXCEPT ![t] = "part"]
           /\ SetState(w, "WAITING") /\ Leave(w)
        \/ /\ progress' = [progress EXCEPT ![t] = "returned"]
           /\ Goto(w, "unlock") /\ slots' = slots
        \/ /\ t \in MayThrow \/ PollThrows(t)
           /\ progress' = [progress EXCEPT ![t] = "threw"]
           /\ Goto(w, "excDone") /\ slots' = slots
    BY DEF Call
  <1>4. CASE Goto(w, "exited") /\ slots' = slots /\ progress' = progress
    <2>1. ~ Holds(w)'
      BY <1>2, <1>4, Gotos DEF Holds, WorkerPc
    <2> QED
      BY <1>1, <1>4, <2>1, GoesIdle
  <1>5. CASE /\ progress[t] = "none" /\ progress' = [progress EXCEPT ![t] = "part"]
             /\ SetState(w, "WAITING") /\ Leave(w)
    <2>1. ~ Holds(w)'
      BY <1>2, <1>5, Leaves DEF Holds
    <2>2. ThreadKnows(w)'
      BY <2>1 DEF ThreadKnows, Holds
    <2>3. TaskMoves(t)
      BY <1>2, <1>5 DEF TaskMoves
    <2>4. Pending(t)' /\ \A b : Finishes(b) => Finishes(b)'
      BY <1>2, <1>5, <2>3, TasksStay DEF Pending, TypeOK
    <2>5. /\ slots'[i].state = "WAITING" /\ slots'[i].task = t
          /\ slots'[i].barriers = slots[i].barriers /\ SlotId' = SlotId
      BY <1>2, <1>5, StatesSet
    <2>6. i \in InUse' /\ SlotKnows(i)'
      BY <1>2, <2>4, <2>5 DEF SlotKnows, InUse, SlotId
    <2> QED
      BY <1>1, <2>2, <2>3, <2>6, BarriersSame DEF Goes
  <1>6. CASE /\ progress' = [progress EXCEPT ![t] = "returned"]
             /\ Goto(w, "unlock") /\ slots' = slots
    <2>1. worker'[w].pc = "unlock" /\ worker'[w].it = i
      BY <1>2, <1>6, Gotos DEF WorkerPc
    <2>2. TaskMoves(t)
      BY <1>2, <1>6 DEF TaskMoves
    <2>3. progress'[t] = "returned" /\ \A b : Finishes(b) => Finishes(b)'
      BY <1>2, <1>6, <2>2, TasksStay DEF TypeOK
    <2>4. ThreadKnows(w)'
      <3>1. TaskOf(w)' = t
        BY <1>2, <1>6, <2>1 DEF TaskOf
      <3> QED
        BY <2>1, <2>3, <3>1 DEF ThreadKnows
    <2>5. i \in InUse' /\ SlotKnows(i)'
      BY <1>2, <1>6, <2>3 DEF SlotKnows, InUse, SlotId
    <2> QED
      BY <1>1, <2>2, <2>4, <2>5, BarriersSame DEF Goes
  <1>7. CASE /\ t \in MayThrow \/ PollThrows(t)
             /\ progress' = [progress EXCEPT ![t] = "threw"]
             /\ Goto(w, "excDone") /\ slots' = slots
    <2>1. worker'[w].pc = "excDone" /\ worker'[w].it = i /\ SlotId' = SlotId
      BY <1>2, <1>7, Gotos DEF WorkerPc, SlotId
    <2>2. Cause(t)
      <3>1. GroupOf(CounterOf[t]) = CounterOf[t]
        BY <1>2, PoolAssumption DEF GroupOf
      <3>2. PollThrows(t) => Polls[t] # {} /\ Fails(CounterOf[t])
        BY <1>2, <3>1 DEF PollThrows, GraphSafe, BarrierKnows
      <3> QED
        BY <1>7, <3>2 DEF Cause
    <2> QED
      BY <1>1, <1>2, <1>7, <2>1, <2>2, ThrowGoes
  <1> QED
    BY <1>3, <1>4, <1>5, <1>6, <1>7

\* A thread that is done with the task's function works through what is left.
LEMMA GoesOn ==
  ASSUME GraphSafe, NEW w \in Threads, NEW i, i = worker[w].it, NEW t, t = TaskOf(w),
         Holds(w), slots' = slots, progress' = progress, NEW p \in WorkerPc, Goto(w, p),
         \/ p \in {"decrement", "free"} /\ progress[t] = "returned"
         \/ /\ p \in {"excDone", "excCounter", "excDecrement", "excFree"}
            /\ ~ Pending(t) /\ Fails(CounterOf[t]),
         \A b \in Task \cup Counter : BarrierMoves(b)
  PROVE  Goes(w, i, t)
  <1>1. TypeOK /\ t = slots[i].task /\ i \in InUse /\ SlotKnows(i)
    BY Here
  <1>2. worker'[w].pc = p /\ worker'[w].it = i
    BY <1>1, Gotos
  <1>3. (Pending(t)' <=> Pending(t)) /\ (Fails(CounterOf[t])' <=> Fails(CounterOf[t]))
    BY DEF Pending, Fails
  <1>4. ThreadKnows(w)'
    <2>1. TaskOf(w)' = t
      BY <1>1, <1>2 DEF TaskOf
    <2> QED
      BY <1>2, <1>3, <2>1 DEF ThreadKnows
  <1>5. i \in InUse' /\ SlotKnows(i)'
    BY <1>1 DEF SlotKnows, Pending, Finishes, InUse
  <1> QED
    BY <1>4, <1>5 DEF Goes, TaskMoves

\* A counter that is counted down.
LEMMA DecrementMoves ==
  ASSUME TypeOK, NEW c \in Counter, Decrement(c)
  PROVE  \A b \in Task \cup Counter : BarrierMoves(b)
  BY DEF Decrement, BarrierMoves, TypeOK

LEMMA UnlockDoneGoes ==
  ASSUME GraphSafe, NEW w \in Threads, NEW i, i = worker[w].it, NEW t, t = TaskOf(w),
         UnlockDone(w)
  PROVE  Goes(w, i, t)
  <1>1. /\ worker[w].pc = "unlock" /\ Holds(w) /\ slots' = slots /\ progress' = progress
        /\ barrier' = [barrier EXCEPT ![t] = "unlocked"] /\ Goto(w, "decrement")
    BY DEF UnlockDone, At, Holds, queue
  <1>2. TypeOK /\ t \in Task /\ progress[t] = "returned"
    BY <1>1, Here DEF ThreadKnows
  <1>3. \A b \in Task \cup Counter : BarrierMoves(b)
    BY <1>1, <1>2 DEF BarrierMoves, TypeOK
  <1> QED
    BY <1>1, <1>2, <1>3, GoesOn DEF WorkerPc

LEMMA DecrementCounterGoes ==
  ASSUME GraphSafe, NEW w \in Threads, NEW i, i = worker[w].it, NEW t, t = TaskOf(w),
         DecrementCounter(w)
  PROVE  Goes(w, i, t)
  <1>1. /\ worker[w].pc = "decrement" /\ Holds(w) /\ slots' = slots /\ progress' = progress
        /\ Goto(w, IF ZeroThrows(CounterOf[t]) THEN "excDone" ELSE "free")
        /\ Decrement(CounterOf[t])
    BY DEF DecrementCounter, At, Holds, queue
  <1>2. TypeOK /\ t \in Task /\ progress[t] = "returned" /\ CounterOf[t] \in Counter
    BY <1>1, Here DEF ThreadKnows
  <1>3. \A b \in Task \cup Counter : BarrierMoves(b)
    BY <1>1, <1>2, DecrementMoves
  <1>4. CASE ZeroThrows(CounterOf[t])
    <2>1. Fails(GroupOf(CounterOf[t])) /\ GroupOf(CounterOf[t]) = CounterOf[t]
      BY <1>2, <1>4, PoolAssumption DEF ZeroThrows, GraphSafe, BarrierKnows, GroupOf
    <2>2. Fails(CounterOf[t]) /\ ~ Pending(t)
      BY <1>2, <2>1 DEF Pending
    <2> QED
      BY <1>1, <1>3, <1>4, <2>2, GoesOn DEF WorkerPc
  <1>5. CASE ~ ZeroThrows(CounterOf[t])
    BY <1>1, <1>2, <1>3, <1>5, GoesOn DEF WorkerPc
  <1> QED
    BY <1>4, <1>5

LEMMA DoneExceptionGoes ==
  ASSUME GraphSafe, NEW w \in Threads, NEW i, i = worker[w].it, NEW t, t = TaskOf(w),
         DoneException(w)
  PROVE  Goes(w, i, t)
  <1>1. /\ worker[w].pc = "excDone" /\ Holds(w) /\ slots' = slots /\ progress' = progress
        /\ barrier' = [barrier EXCEPT ![t] = "error"] /\ Goto(w, "excCounter")
    BY DEF DoneException, At, Holds, queue
  <1>2. TypeOK /\ t \in Task /\ ~ Pending(t) /\ Fails(CounterOf[t])
    BY <1>1, Here DEF ThreadKnows
  <1>3. \A b \in Task \cup Counter : BarrierMoves(b)
    BY <1>1, <1>2 DEF BarrierMoves, TypeOK, GroupOf
  <1> QED
    BY <1>1, <1>2, <1>3, GoesOn DEF WorkerPc

LEMMA CounterExceptionGoes ==
  ASSUME GraphSafe, NEW w \in Threads, NEW i, i = worker[w].it, NEW t, t = TaskOf(w),
         CounterException(w)
  PROVE  Goes(w, i, t)
  <1>1. /\ worker[w].pc = "excCounter" /\ Holds(w) /\ slots' = slots /\ progress' = progress
        /\ barrier' = [barrier EXCEPT ![CounterOf[t]] = "error"] /\ Goto(w, "excDecrement")
    BY DEF CounterException, At, Holds, queue
  <1>2. TypeOK /\ t \in Task /\ CounterOf[t] \in Counter /\ ~ Pending(t) /\ Fails(CounterOf[t])
    BY <1>1, Here DEF ThreadKnows
  <1>3. \A b \in Task \cup Counter : BarrierMoves(b)
    BY <1>1, <1>2, PoolAssumption DEF BarrierMoves, TypeOK, GroupOf
  <1> QED
    BY <1>1, <1>2, <1>3, GoesOn DEF WorkerPc

LEMMA ExceptionDecrementGoes ==
  ASSUME GraphSafe, NEW w \in Threads, NEW i, i = worker[w].it, NEW t, t = TaskOf(w),
         ExceptionDecrement(w)
  PROVE  Goes(w, i, t)
  <1>1. /\ worker[w].pc = "excDecrement" /\ Holds(w) /\ slots' = slots /\ progress' = progress
        /\ Goto(w, "excFree") /\ Decrement(CounterOf[t])
    BY DEF ExceptionDecrement, At, Holds, queue
  <1>2. TypeOK /\ CounterOf[t] \in Counter /\ ~ Pending(t) /\ Fails(CounterOf[t])
    BY <1>1, Here DEF ThreadKnows
  <1>3. \A b \in Task \cup Counter : BarrierMoves(b)
    BY <1>1, <1>2, DecrementMoves
  <1> QED
    BY <1>1, <1>2, <1>3, GoesOn DEF WorkerPc

\* The slot is given back.
LEMMA FreeGoes ==
  ASSUME GraphSafe, NEW w \in Threads, NEW i, i = worker[w].it, NEW t, t = TaskOf(w),
         FreeTheSlot(w) \/ ExceptionFree(w)
  PROVE  Goes(w, i, t)
  <1>1. /\ worker[w].pc \in {"free", "excFree"} /\ Holds(w)
        /\ barrier' = barrier /\ progress' = progress
        /\ SetState(w, "FREE") /\ (Leave(w) \/ Goto(w, "top"))
    BY DEF FreeTheSlot, ExceptionFree, At, Holds, sync
  <1>2. TypeOK /\ CountSafe /\ ThreadKnows(w)
    BY Here
  <1>3. worker'[w].pc = "top"
    BY <1>1, <1>2, Leaves, Gotos DEF WorkerPc
  <1>4. ThreadKnows(w)'
    BY <1>3 DEF ThreadKnows
  <1>5. i \notin InUse'
    <2>1. slots'[i].state = "FREE"
      BY <1>1, <1>2, StatesSet
    <2> QED
      BY <2>1 DEF InUse
  <1>6. Ended(t)
    BY <1>1, <1>2 DEF ThreadKnows, Ended, Pending, CountSafe, ErrorKept
  <1> QED
    BY <1>1, <1>4, <1>5, <1>6, BarriersSame DEF Goes, TaskMoves

LEMMA WorkerGoes ==
  ASSUME GraphSafe, NEW w \in Threads, NEW i, i = worker[w].it, NEW t, t = TaskOf(w),
         WorkerStep(w)
  PROVE  Goes(w, i, t)
  <1>1. TypeOK /\ Step(w) /\ worker \in [Threads -> WorkerType] /\ worker[w].mode \in Mode
    BY OwnerWorks, WorkerSteps, Types DEF GraphSafe, CountSafe, PoolSafe, WorkerType
  <1>2. TypeOK'
    BY <1>1, StepTypes
  <1>3. CASE \/ Top(w) \/ IdleLoop(w) \/ Missed(w) \/ Pause(w) \/ Woken(w) \/ LockIdle(w)
    <2>1. slots' = slots /\ barrier' = barrier /\ progress' = progress
      BY <1>3 DEF Top, IdleLoop, Missed, Pause, Woken, LockIdle, queue, sync
    <2>2. \/ \E p \in {"exited", "idle", "lock"} : Goto(w, p)
          \/ \E m \in Mode : Search(w, m)
          \/ worker' = [worker EXCEPT ![w].pc = "idle", ![w].mode = "owner"]
      BY <1>1, <1>3 DEF Top, IdleLoop, Missed, Pause, Woken, LockIdle, Mode
    <2>3. worker'[w].pc \in {"exited", "idle", "lock", "sweep"}
      BY <1>1, <2>2, Gotos, Searches DEF WorkerPc, WorkerType
    <2> QED
      BY <2>1, <2>3, GoesIdle DEF Holds
  <1> QED
    BY <1>2, <1>3, SweepGoes, CheckBarrierGoes, BlockedGoes, ReadyCheckGoes, CallGoes,
       UnlockDoneGoes, DecrementCounterGoes, FreeGoes, DoneExceptionGoes,
       CounterExceptionGoes, ExceptionDecrementGoes DEF WorkerStep

-----------------------------------------------------------------------------
(***************************************************************************)
(* The invariant is kept by the threads.                                   *)
(***************************************************************************)
\* What a thread leaves as it is: the other slots, the tasks that have come
\* to an end, the exceptions of the counters, and which tasks were added.
LEMMA WorkerLeaves ==
  ASSUME GraphSafe, NEW w \in Threads, NEW i, i = worker[w].it, NEW t, t = TaskOf(w),
         WorkerStep(w)
  PROVE  /\ SlotId' = SlotId /\ InUse' \subseteq InUse
         /\ \A s \in InUse : slots'[s].task = slots[s].task
         /\ \A s \in InUse : s # i => slots'[s] = slots[s]
         /\ \A v \in Threads : v # w => worker'[v] = worker[v]
         /\ main'.task = main.task /\ (main'.pc = "fill" <=> main.pc = "fill")
         /\ t \in Task \/ progress' = progress
         /\ \A u \in Task : u # t => progress'[u] = progress[u]
         /\ Holds(w) => i \in InUse /\ t = slots[i].task /\ t \in Task /\ t < main.task
         /\ \A c \in Counter : barrier[c] = "error" => barrier'[c] = "error"
  <1>1. /\ TypeOK /\ PoolSafe /\ Step(w) /\ SlotStep(w) /\ OnlyWorker(w) /\ SyncStep
        /\ (Holds(w) => slots[worker[w].it].state = "RUNNING")
        /\ i \in SlotId /\ t = slots[i].task /\ main \in MainType
    BY OwnerWorks, WorkerSteps, Here, Types DEF GraphSafe, CountSafe, PoolSafe, Step
  <1>2. SlotId' = SlotId /\ InUse' \subseteq InUse
    BY <1>1, InUseKept
  <1>3. /\ \A s \in InUse : slots'[s].task = slots[s].task
        /\ \A s \in InUse : s # i => slots'[s] = slots[s]
    BY <1>1, TasksKept DEF SlotStep, InUse, SlotId
  <1>4. main'.task = main.task /\ (main'.pc = "fill" <=> main.pc = "fill")
    BY <1>1 DEF SyncStep, MainType
  <1>5. Holds(w) => i \in InUse /\ t = slots[i].task /\ t \in Task /\ t < main.task
    BY Here
  <1>6. Goes(w, i, t)
    BY WorkerGoes
  <1>7. t \in Task \/ progress' = progress
    BY <1>5, <1>6 DEF Goes
  <1>8. \A u \in Task : u # t => progress'[u] = progress[u]
    BY <1>1, <1>6, <1>7, TasksStay DEF Goes
  <1>9. \A c \in Counter : barrier[c] = "error" => barrier'[c] = "error"
    BY <1>6, PoolAssumption DEF Goes, BarrierMoves
  <1> QED
    BY <1>1, <1>2, <1>3, <1>4, <1>5, <1>7, <1>8, <1>9 DEF OnlyWorker

LEMMA WorkerThreads ==
  ASSUME GraphSafe, NEW w \in Threads, NEW i, i = worker[w].it, NEW t, t = TaskOf(w),
         WorkerStep(w), NEW v \in Threads
  PROVE  ThreadKnows(v)'
  <1>1. Goes(w, i, t) /\ TypeOK /\ PoolSafe
    BY WorkerGoes DEF GraphSafe, CountSafe, PoolSafe
  <1>2. CASE v = w
    BY <1>1, <1>2 DEF Goes
  <1>3. CASE v # w /\ ~ Holds(v)
    <2>1. worker'[v] = worker[v]
      BY <1>3, WorkerLeaves
    <2> QED
      BY <1>3, <2>1 DEF ThreadKnows, Holds
  <1>4. CASE v # w /\ Holds(v)
    <2>1. PICK j : j = worker[v].it
      OBVIOUS
    <2>2. PICK u : u = TaskOf(v)
      OBVIOUS
    <2>3. /\ j \in InUse /\ u = slots[j].task /\ u \in Task /\ Deps[u] \subseteq Task \cup Counter
          /\ ThreadKnows(v)
      BY <1>4, <2>1, <2>2, Here
    <2>4. worker'[v] = worker[v] /\ slots'[j].task = u
      BY <1>4, <2>3, WorkerLeaves
    <2>5. TaskOf(v)' = u
      BY <2>1, <2>4 DEF TaskOf
    <2>6. progress'[u] = progress[u]
      <3>1. CASE Holds(w)
        <4>1. i \in InUse /\ t = slots[i].task /\ i # j
          BY <1>1, <1>4, <2>1, <3>1, WorkerLeaves DEF PoolSafe, SlotOwnership
        <4>2. u # t
          BY <1>1, <2>3, <4>1 DEF PoolSafe, SlotOwnership
        <4> QED
          BY <2>3, <4>2, WorkerLeaves
      <3>2. CASE ~ Holds(w)
        BY <1>1, <3>2 DEF Goes
      <3> QED
        BY <3>1, <3>2
    <2>7. /\ \A b : Finishes(b) => Finishes(b)'
          /\ \A c : Fails(c) => Fails(c)'
          /\ \A x \in Task : PollReady(x) => PollReady(x)'
      BY <1>1, TasksStay, WorkerLeaves DEF Goes
    <2>8. (Pending(u)' <=> Pending(u)) /\ (Ready(u) => Ready(u)')
          /\ (Fails(CounterOf[u]) => Fails(CounterOf[u])')
      BY <2>3, <2>6, <2>7 DEF Pending, Ready
    <2> QED
      BY <2>2, <2>3, <2>4, <2>5, <2>6, <2>7, <2>8 DEF ThreadKnows
  <1> QED
    BY <1>2, <1>3, <1>4

LEMMA WorkerSlots ==
  ASSUME GraphSafe, NEW w \in Threads, NEW i, i = worker[w].it, NEW t, t = TaskOf(w),
         WorkerStep(w), NEW s \in InUse'
  PROVE  SlotKnows(s)'
  <1>1. Goes(w, i, t) /\ TypeOK /\ PoolSafe /\ s \in InUse
    BY WorkerGoes, WorkerLeaves DEF GraphSafe, CountSafe, PoolSafe
  <1>2. CASE s = i
    BY <1>1, <1>2 DEF Goes
  <1>3. CASE s # i
    <2>1. PICK u : u = slots[s].task
      OBVIOUS
    <2>2. slots'[s] = slots[s] /\ u \in Task /\ SlotKnows(s)
      BY <1>1, <1>3, <2>1, WorkerLeaves DEF PoolSafe, Filled, GraphSafe
    <2>3. progress'[u] = progress[u]
      <3>1. CASE Holds(w)
        <4>1. i \in InUse /\ t = slots[i].task
          BY <3>1, WorkerLeaves
        <4>2. u # t
          BY <1>1, <1>3, <2>1, <4>1 DEF PoolSafe, SlotOwnership
        <4> QED
          BY <2>2, <4>2, WorkerLeaves
      <3>2. CASE ~ Holds(w)
        BY <1>1, <3>2 DEF Goes
      <3> QED
        BY <3>1, <3>2
    <2>4. \A b : Finishes(b) => Finishes(b)'
      BY <1>1, TasksStay, WorkerLeaves DEF Goes
    <2> QED
      BY <2>1, <2>2, <2>3, <2>4 DEF SlotKnows, Pending
  <1> QED
    BY <1>2, <1>3

LEMMA WorkerBarriers ==
  ASSUME GraphSafe, NEW w \in Threads, NEW i, i = worker[w].it, NEW t, t = TaskOf(w),
         WorkerStep(w), NEW b \in Task \cup Counter
  PROVE  BarrierKnows(b)'
  <1>1. Goes(w, i, t) /\ TypeOK /\ BarrierKnows(b)
    BY WorkerGoes DEF GraphSafe, CountSafe, PoolSafe
  <1>2. /\ BarrierMoves(b)
        /\ \A c : Fails(c) => Fails(c)'
        /\ \A u \in Task : ~ Pending(u) => progress'[u] = progress[u]
    BY <1>1, TasksStay, WorkerLeaves DEF Goes
  <1>3. Fails(GroupOf(b)) => Fails(GroupOf(b))'
    BY <1>2 DEF GroupOf
  <1>4. b \in Task /\ progress[b] = "returned" => progress'[b] = "returned"
    BY <1>2 DEF Pending
  <1> QED
    BY <1>1, <1>2, <1>3, <1>4, PoolAssumption DEF BarrierMoves, BarrierKnows

LEMMA WorkerTasks ==
  ASSUME GraphSafe, NEW w \in Threads, NEW i, i = worker[w].it, NEW t, t = TaskOf(w),
         WorkerStep(w), NEW u \in Task
  PROVE  TaskKnown(u)'
  <1>1. Goes(w, i, t) /\ TypeOK /\ TaskKnown(u) /\ main \in MainType /\ CounterOf[u] \in Counter
    BY WorkerGoes, Types, PoolAssumption DEF GraphSafe, CountSafe, PoolSafe
  <1>2. (Added(u)' <=> Added(u)) /\ main'.task = main.task /\ (main'.pc = "fill" <=> main.pc = "fill")
    BY WorkerLeaves DEF Added
  <1>3. progress'[u] = progress[u] \/ (u < main.task /\ u # main.task)
    BY <1>1, WorkerLeaves DEF Goes, Task, MainType
  <1>4. Ended(u) => Ended(u)'
    BY <1>1, TasksStay, WorkerLeaves DEF Goes, Ended, Pending
  <1>5. ASSUME NEW s \in InUse, slots[s].task = u
        PROVE  Present(u)' \/ Ended(u)'
    <2>1. CASE s \in InUse'
      BY <1>5, <2>1, WorkerLeaves DEF Present
    <2>2. CASE s \notin InUse'
      <3>1. s = i
        <4>1. s # i => slots'[s] = slots[s] /\ SlotId' = SlotId
          BY WorkerLeaves
        <4> QED
          BY <2>2, <4>1 DEF InUse, SlotId
      <3>2. t = u
        BY <1>5, <3>1 DEF TaskOf
      <3> QED
        BY <1>1, <1>4, <2>2, <3>1, <3>2 DEF Goes
    <2> QED
      BY <2>1, <2>2
  <1>6. Present(u) => Present(u)' \/ Ended(u)'
    BY <1>2, <1>5 DEF Present
  <1> QED
    BY <1>1, <1>2, <1>3, <1>4, <1>6 DEF TaskKnown, Added

LEMMA WorkerGraph ==
  ASSUME GraphSafe, NEW w \in Threads, WorkerStep(w)
  PROVE  GraphSafe'
  <1>1. PICK i : i = worker[w].it
    OBVIOUS
  <1>2. PICK t : t = TaskOf(w)
    OBVIOUS
  <1>3. CountSafe'
    BY NextCounts DEF GraphSafe, Next
  <1>4. /\ \A u \in Task : TaskKnown(u)'
        /\ \A b \in Task \cup Counter : BarrierKnows(b)'
        /\ \A v \in Threads : ThreadKnows(v)'
        /\ \A s \in InUse' : SlotKnows(s)'
    BY <1>1, <1>2, WorkerTasks, WorkerBarriers, WorkerThreads, WorkerSlots
  <1> QED
    BY <1>3, <1>4 DEF GraphSafe

(***************************************************************************)
(* ... and by the main thread, which calls no task.                        *)
(***************************************************************************)
\* It fills a slot, counts a task up, or adds nothing.
LEMMA MainAdds ==
  ASSUME TypeOK, MainSlot, MainStep
  PROVE  \/ /\ Fill /\ barrier' = barrier /\ main'.task = main.task + 1 /\ main'.pc = "seek"
            /\ main.it \in SlotId /\ SlotId' = SlotId
            /\ slots'[main.it] = [state |-> "WAITING", task |-> main.task,
                                  barriers |-> Deps[main.task]]
         \/ /\ Increment /\ main'.task = main.task /\ main.pc = "increment"
            /\ main'.pc = "fill"
         \/ main'.task = main.task /\ main.pc # "fill" /\ main'.pc # "fill"
  <1>1. main \in MainType
    BY Types
  <1>2. CASE Fill
    <2>1. barrier' = barrier /\ main'.task = main.task + 1 /\ main'.pc = "seek" /\ main.it \in SlotId
      BY <1>1, <1>2 DEF Fill, MainType, sync
    <2>2. [state |-> "WAITING", task |-> main.task, barriers |-> Deps[main.task]] \in Slot
      BY <1>2, PoolAssumption DEF Fill, MainSlot, Slot, Task
    <2> QED
      BY <1>2, <2>1, <2>2, SlotChanged DEF Fill
  <1>3. CASE Increment
    BY <1>1, <1>3 DEF Increment, MainType
  <1>4. CASE Seek
    BY <1>1, <1>4 DEF Seek, MainType
  <1>5. CASE Wait
    BY <1>1, <1>5 DEF Wait, MainType
  <1>6. CASE AllAdded \/ ExitEarly \/ Shutdown
    BY <1>1, <1>6 DEF AllAdded, ExitEarly, Shutdown, MainType
  <1>7. CASE WaitForThreads
    BY <1>1, <1>7 DEF WaitForThreads, MainType
  <1> QED
    BY <1>2, <1>3, <1>4, <1>5, <1>6, <1>7 DEF MainStep

\* The facts about the tasks stay, as no function is called.
LEMMA MainStays ==
  ASSUME GraphSafe, MainStep
  PROVE  /\ MainSafe /\ SlotsSafe /\ WorkersWoken /\ PoolSafe /\ TypeOK /\ MainSlot
         /\ main \in MainType /\ progress' = progress
         /\ \A b \in Task \cup Counter : \/ barrier'[b] = barrier[b]
                                         \/ barrier[b] # "error" /\ barrier'[b] = "locked"
  <1>1. TypeOK /\ MainSlot /\ PoolSafe /\ MainSafe /\ main \in MainType
    BY MainStepSafe, Types DEF GraphSafe, CountSafe, PoolSafe
  <1>2. ~ Fill => MainQuiet
    BY <1>1, MainQuiets
  <1>3. Fill => barrier' = barrier
    BY DEF Fill, sync
  <1> QED
    BY <1>1, <1>2, <1>3 DEF MainSafe, MainFrame, MainQuiet

LEMMA MainThreads ==
  ASSUME GraphSafe, MainStep, NEW w \in Threads
  PROVE  ThreadKnows(w)'
  <1>1. worker'[w] = worker[w] \/ worker'[w].pc = "woken"
    BY MainStays DEF WorkersWoken
  <1>2. CASE worker'[w].pc = "woken" \/ ~ Holds(w)
    BY <1>1, <1>2 DEF ThreadKnows, Holds
  <1>3. CASE worker'[w] = worker[w] /\ Holds(w)
    <2>1. PICK i : i = worker[w].it
      OBVIOUS
    <2>2. PICK t : t = TaskOf(w)
      OBVIOUS
    <2>3. i \in InUse /\ t = slots[i].task /\ ThreadKnows(w)
      BY <1>3, <2>1, <2>2, Here
    <2>4. TaskOf(w)' = t
      BY <1>3, <2>1, <2>3, MainStays DEF SlotsSafe, TaskOf
    <2>5. /\ Pending(t)' <=> Pending(t)
          /\ Fails(CounterOf[t])' <=> Fails(CounterOf[t])
          /\ Ready(t)' <=> Ready(t)
          /\ \A b : Finishes(b)' <=> Finishes(b)
      BY MainStays DEF Pending, Fails, Ready, Finishes, PollReady
    <2> QED
      BY <1>3, <2>2, <2>3, <2>4, <2>5, MainStays DEF ThreadKnows
  <1> QED
    BY <1>1, <1>2, <1>3

LEMMA MainSlots ==
  ASSUME GraphSafe, MainStep, NEW s \in InUse'
  PROVE  SlotKnows(s)'
  <1>1. \A u : (Pending(u)' <=> Pending(u)) /\ (Finishes(u)' <=> Finishes(u))
    BY MainStays DEF Pending, Finishes
  <1>2. CASE s \in InUse
    <2>1. slots'[s] = slots[s] /\ SlotKnows(s)
      BY <1>2, MainStays DEF SlotsSafe, GraphSafe
    <2> QED
      BY <1>1, <2>1, MainStays DEF SlotKnows, Pending
  <1>3. CASE s \notin InUse
    <2>1. s = main.it /\ main'.task # main.task /\ main.task \in Int
      BY <1>3, MainStays DEF SlotsSafe, MainType
    <2>2. Fill /\ slots'[s] = [state |-> "WAITING", task |-> main.task,
                               barriers |-> Deps[main.task]]
      BY <2>1, MainStays, MainAdds
    <2>3. main.pc = "fill" /\ main.task \in Task
      BY <2>2, MainStays DEF Fill, MainSlot
    <2>4. progress'[main.task] = "none"
      BY <2>3, MainStays DEF GraphSafe, TaskKnown
    <2> QED
      BY <2>2, <2>4 DEF SlotKnows, Pending
  <1> QED
    BY <1>2, <1>3

LEMMA MainTasks ==
  ASSUME GraphSafe, MainStep, NEW u \in Task
  PROVE  TaskKnown(u)'
  <1>1. /\ TaskKnown(u) /\ CounterOf[u] \in Counter /\ main.task \in Int /\ u \in Int
        /\ progress' = progress
    BY MainStays, PoolAssumption DEF GraphSafe, MainType, Task
  <1>2. Ended(u) => Ended(u)'
    BY <1>1, MainStays DEF Ended, Pending
  <1>3. (\E s \in InUse : slots[s].task = u) => \E s \in InUse' : slots'[s].task = u
    BY MainStays DEF SlotsSafe
  <1>4. CASE /\ Fill /\ main'.task = main.task + 1 /\ main'.pc = "seek"
             /\ main.it \in SlotId /\ SlotId' = SlotId
             /\ slots'[main.it] = [state |-> "WAITING", task |-> main.task,
                                   barriers |-> Deps[main.task]]
    <2>1. main.pc = "fill"
      BY <1>4 DEF Fill
    <2>2. Added(u)' <=> Added(u)
      BY <1>1, <1>4, <2>1 DEF Added
    <2>3. main.it \in InUse' /\ slots'[main.it].task = main.task
      BY <1>4 DEF InUse, SlotId
    <2>4. Present(u) => Present(u)'
      BY <1>3, <2>3 DEF Present
    <2> QED
      BY <1>1, <1>2, <1>4, <2>2, <2>4 DEF TaskKnown
  <1>5. CASE main'.task = main.task /\ main.pc = "increment" /\ main'.pc = "fill"
    <2>1. Added(u)' <=> Added(u) \/ u = main.task
      BY <1>1, <1>5 DEF Added
    <2>2. u = main.task => ~ Added(u) /\ Present(u)'
      BY <1>1, <1>5 DEF Added, Present
    <2>3. Present(u) => Present(u)'
      BY <1>3, <1>5 DEF Present
    <2> QED
      BY <1>1, <1>2, <1>5, <2>1, <2>2, <2>3 DEF TaskKnown
  <1>6. CASE main'.task = main.task /\ main.pc # "fill" /\ main'.pc # "fill"
    <2>1. Added(u)' <=> Added(u)
      BY <1>6 DEF Added
    <2>2. Present(u) => Present(u)'
      BY <1>3, <1>6 DEF Present
    <2> QED
      BY <1>1, <1>2, <1>6, <2>1, <2>2 DEF TaskKnown
  <1> QED
    BY <1>4, <1>5, <1>6, MainStays, MainAdds

LEMMA MainGraph ==
  ASSUME GraphSafe, MainStep
  PROVE  GraphSafe'
  <1>1. CountSafe'
    BY NextCounts DEF GraphSafe, Next
  <1>2. ASSUME NEW b \in Task \cup Counter
        PROVE  BarrierKnows(b)'
    <2>1. BarrierKnows(b)
      BY DEF GraphSafe
    <2>2. \A c : Fails(c)' <=> Fails(c)
      BY MainStays DEF Fails
    <2>3. Fails(GroupOf(b))' <=> Fails(GroupOf(b))
      BY <2>2 DEF GroupOf
    <2> QED
      BY <2>1, <2>3, MainStays DEF BarrierKnows
  <1> QED
    BY <1>1, <1>2, MainTasks, MainThreads, MainSlots DEF GraphSafe

LEMMA InitGraph == Init => GraphSafe
  <1> SUFFICES ASSUME Init PROVE GraphSafe
    OBVIOUS
  <1>1. CountSafe
    BY InitCounts
  <1>2. \A t \in Task : TaskKnown(t)
    BY DEF Init, TaskKnown, Added, Task
  <1>3. \A b \in Task \cup Counter : BarrierKnows(b)
    BY DEF Init, BarrierKnows
  <1>4. \A w \in Threads : ThreadKnows(w)
    BY DEF Init, ThreadKnows
  <1>5. InUse = {}
    BY PoolAssumption DEF Init, InUse, Chunk, FreeSlot
  <1> QED
    BY <1>1, <1>2, <1>3, <1>4, <1>5 DEF GraphSafe

LEMMA NextGraph == GraphSafe /\ [Next]_vars => GraphSafe'
  <1> SUFFICES ASSUME GraphSafe, [Next]_vars PROVE GraphSafe'
    OBVIOUS
  <1>1. CASE UNCHANGED vars
    <2>1. CountSafe'
      BY <1>1, NextCounts DEF GraphSafe
    <2>2. InUse' = InUse /\ \A t : (Finishes(t)' <=> Finishes(t)) /\ (Fails(t)' <=> Fails(t))
      BY <1>1 DEF vars, InUse, Finishes, Fails
    <2>3. \A t \in Task : TaskKnown(t)'
      BY <1>1, <2>2 DEF vars, GraphSafe, TaskKnown, Added, Present, Ended, Pending
    <2>4. \A b \in Task \cup Counter : BarrierKnows(b)'
      BY <1>1, <2>2 DEF vars, GraphSafe, BarrierKnows, GroupOf
    <2>5. \A w \in Threads : ThreadKnows(w)'
      BY <1>1 DEF vars, GraphSafe, ThreadKnows, TaskOf, Pending, Ready, PollReady, Finishes, Fails
    <2>6. \A s \in InUse' : SlotKnows(s)'
      BY <1>1, <2>2 DEF vars, GraphSafe, SlotKnows, Pending
    <2> QED
      BY <2>1, <2>3, <2>4, <2>5, <2>6 DEF GraphSafe
  <1> QED
    BY <1>1, WorkerGraph, MainGraph DEF Next

-----------------------------------------------------------------------------
(***************************************************************************)
(* Every step is a step of TaskGraph or changes nothing there.             *)
(***************************************************************************)
LEMMA StatusIs ==
  ASSUME GraphSafe
  PROVE  /\ TaskStatus = [u \in Task |-> TaskStatus[u]]
         /\ \A u \in Task : progress[u] = "returned" => TaskStatus[u] = "returned"
         /\ \A u \in Task : progress[u] = "threw" => TaskStatus[u] = "threw"
         /\ \A u \in Task : Added(u) => TaskStatus[u] = IF progress[u] = "none" THEN "added"
                                                        ELSE progress[u]
         /\ \A u \in Task : ~ Added(u) => TaskStatus[u] = "outside"
  BY DEF TaskStatus, GraphSafe, TaskKnown

LEMMA FinishedIs ==
  ASSUME GraphSafe, NEW b \in Task \cup Counter, Finishes(b)
  PROVE  Graph!Finished(b)
  BY StatusIs DEF Finishes, Graph!Finished, Graph!Task, Graph!Group, Task

LEMMA FailedIs ==
  ASSUME GraphSafe, NEW c, Fails(c)
  PROVE  Graph!Failed(c)
  BY StatusIs DEF Fails, Graph!Failed, Graph!Task, Graph!Group, Task

LEMMA WorkerImplements ==
  ASSUME GraphSafe, NEW w \in Threads, WorkerStep(w)
  PROVE  Graph!Next \/ TaskStatus' = TaskStatus
  <1>1. PICK i : i = worker[w].it
    OBVIOUS
  <1>2. PICK t : t = TaskOf(w)
    OBVIOUS
  <1>3. \A u \in Task : Added(u)' <=> Added(u)
    BY <1>1, <1>2, WorkerLeaves DEF Added
  <1>4. CASE progress' = progress
    BY <1>3, <1>4 DEF TaskStatus
  <1>5. CASE progress' # progress
    <2>1. Goes(w, i, t) /\ TypeOK
      BY <1>1, <1>2, WorkerGoes DEF GraphSafe, CountSafe, PoolSafe
    <2>2. t \in Task /\ Added(t) /\ t \in Graph!Task
      BY <1>1, <1>2, <1>5, <2>1, WorkerLeaves DEF Goes, Added, Graph!Task, Task
    <2>3. /\ Deps[t] \subseteq Task \cup Counter /\ Polls[t] \subseteq Task
          /\ CounterOf[t] \in Counter
      BY <2>2, PoolAssumption
    <2>4. ASSUME NEW p \in {"part", "returned", "threw"},
                 progress' = [progress EXCEPT ![t] = p]
          PROVE  Graph!Become(t, p)
      <3>1. \A u \in Task : progress'[u] = IF u = t THEN p ELSE progress[u]
        BY <2>1, <2>4 DEF TypeOK
      <3>2. TaskStatus' = [u \in Task |-> IF u = t THEN p ELSE TaskStatus[u]]
        BY <1>3, <2>2, <3>1 DEF TaskStatus
      <3> QED
        BY <2>2, <3>2, StatusIs DEF Graph!Become
    <2>5. Pending(t) => Graph!Inside(t)
      BY <2>2, StatusIs DEF Pending, Graph!Inside
    <2>6. Pending(t) /\ Ready(t) => Graph!Callable(t)
      <3>1. Ready(t) => \A b \in Deps[t] : Graph!Finished(b)
        BY <2>3, FinishedIs DEF Ready
      <3>2. Ready(t) => \A u \in Polls[t] : TaskStatus[u] = "returned"
        BY <2>3, StatusIs DEF Ready, PollReady
      <3> QED
        BY <2>5, <3>1, <3>2 DEF Graph!Callable
    <2>7. Cause(t) => Graph!HasCause(t)
      BY <2>3, FailedIs DEF Cause, GroupOf, Graph!HasCause, Graph!Task, Task
    <2>8. CASE Pending(t) /\ Cause(t) /\ progress' = [progress EXCEPT ![t] = "threw"]
      <3>1. Graph!Throw(t)
        BY <2>4, <2>5, <2>7, <2>8 DEF Graph!Throw
      <3> QED
        BY <2>2, <3>1 DEF Graph!Next
    <2>9. CASE Pending(t) /\ Ready(t) /\ progress' = [progress EXCEPT ![t] = "returned"]
      <3>1. Graph!Return(t)
        BY <2>4, <2>6, <2>9 DEF Graph!Return
      <3> QED
        BY <2>2, <3>1 DEF Graph!Next
    <2>10. CASE progress[t] = "none" /\ Ready(t) /\ progress' = [progress EXCEPT ![t] = "part"]
      <3>1. TaskStatus[t] = "added" /\ Pending(t)
        BY <2>2, <2>10, StatusIs DEF Pending
      <3>2. Graph!ReturnFalse(t)
        BY <2>4, <2>6, <2>10, <3>1 DEF Graph!ReturnFalse
      <3> QED
        BY <2>2, <3>2 DEF Graph!Next
    <2> QED
      BY <1>5, <2>1, <2>8, <2>9, <2>10 DEF Goes, TaskMoves
  <1> QED
    BY <1>4, <1>5

LEMMA MainImplements ==
  ASSUME GraphSafe, MainStep
  PROVE  Graph!Next \/ TaskStatus' = TaskStatus
  <1>1. /\ progress' = progress /\ TypeOK /\ MainSlot /\ main.task \in Int
        /\ \A u \in Task : u \in Int
    BY MainStays DEF MainType, Task
  <1>2. CASE Fill /\ main'.task = main.task + 1 /\ main'.pc = "seek"
    <2>1. main.pc = "fill"
      BY <1>2 DEF Fill
    <2>2. \A u \in Task : Added(u)' <=> Added(u)
      BY <1>1, <1>2, <2>1 DEF Added
    <2> QED
      BY <1>1, <2>2 DEF TaskStatus
  <1>3. CASE main'.task = main.task /\ main.pc = "increment" /\ main'.pc = "fill"
    <2>1. PICK t \in Task : t = main.task
      BY <1>1, <1>3 DEF MainSlot
    <2>2. \A u \in Task : (Added(u) <=> u < t) /\ (Added(u)' <=> u < t \/ u = t)
      BY <1>1, <1>3, <2>1 DEF Added
    <2>3. progress[t] = "none" /\ ~ Added(t)
      BY <1>1, <2>1, <2>2 DEF GraphSafe, TaskKnown
    <2>4. TaskStatus' = [u \in Task |-> IF u = t THEN "added" ELSE TaskStatus[u]]
      BY <1>1, <2>2, <2>3 DEF TaskStatus
    <2>5. Graph!Become(t, "added")
      BY <2>1, <2>4, StatusIs DEF Graph!Become
    <2>6. ASSUME NEW u \in 1 .. t - 1
          PROVE  TaskStatus[u] # "outside"
      <3>1. u \in Task /\ Added(u)
        <4>1. u \in Task /\ u < t
          BY <2>1, PoolAssumption DEF Task
        <4> QED
          BY <2>2, <4>1
      <3>2. progress[u] \in Progress
        BY <1>1, <3>1 DEF TypeOK
      <3> QED
        BY <3>1, <3>2, StatusIs DEF Progress
    <2>7. Graph!Add(t) /\ t \in Graph!Task
      BY <2>1, <2>3, <2>5, <2>6, StatusIs DEF Graph!Add, Graph!Task, Task
    <2> QED
      BY <2>7 DEF Graph!Next
  <1>4. CASE main'.task = main.task /\ main.pc # "fill" /\ main'.pc # "fill"
    <2>1. \A u \in Task : Added(u)' <=> Added(u)
      BY <1>4 DEF Added
    <2> QED
      BY <1>1, <2>1 DEF TaskStatus
  <1> QED
    BY <1>1, <1>2, <1>3, <1>4, MainAdds

(***************************************************************************)
(* The pool implements TaskGraph, whatever the threads, the tasks and      *)
(* their barriers: a task's function is called only after everything its   *)
(* barriers stand for has returned true, it returns true at most once, and *)
(* a task ends with an exception only for a cause.                         *)
(***************************************************************************)
THEOREM PoolImplementsTaskGraph == Spec => ImplementsTaskGraph
  <1>1. Init => Graph!Init
    BY DEF Init, Graph!Init, Graph!Task, Task, TaskStatus, Added
  <1>2. GraphSafe /\ [Next]_vars => [Graph!Next]_TaskStatus
    <2> SUFFICES ASSUME GraphSafe, [Next]_vars PROVE Graph!Next \/ TaskStatus' = TaskStatus
      OBVIOUS
    <2>1. CASE UNCHANGED vars
      BY <2>1 DEF vars, TaskStatus, Added
    <2> QED
      BY <2>1, WorkerImplements, MainImplements DEF Next
  <1> QED
    BY <1>1, <1>2, InitGraph, NextGraph, PTL DEF Spec, ImplementsTaskGraph, Graph!Spec

=============================================================================
