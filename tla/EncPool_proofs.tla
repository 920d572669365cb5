--------------------------- MODULE EncPool_proofs ---------------------------
(***************************************************************************)
(* Proofs about EncPool, for any number of threads, tasks and counters,    *)
(* any chunk size, barriers and program of the main thread.                *)
(***************************************************************************)
EXTENDS EncPool, SequenceTheorems, FiniteSetTheorems, TLAPS

-----------------------------------------------------------------------------
(***************************************************************************)
(* The invariant, in four layers.  The first one: types, and who owns a    *)
(* slot.                                                                   *)
(***************************************************************************)
SlotId == 1 .. Len(slots)
InUse  == {s \in SlotId : slots[s].state \in {"WAITING", "RUNNING"}}

\* A thread has claimed the slot it is at; the task has returned.
Finishing(w) == worker[w].pc \in {"count", "unlock", "release", "free"}
Holds(w)     == worker[w].pc \in {"check", "found"} \/ Finishing(w)

MainSlot ==
  /\ main.pc \in {"increment", "fill"} =>
       /\ slots[main.it].state = "PREPARING"
       /\ main.at <= Len(Program) /\ Program[main.at].do = "add"
  /\ main.pc \in {"asleep", "destroy"} =>
       main.at <= Len(Program) /\ Program[main.at].do = "wait"

Filled == \A s \in InUse : slots[s].task \in Task /\ Adding[slots[s].task] < main.at
Single == \A r, s \in InUse : slots[r].task = slots[s].task => r = s

Owned ==
  /\ \A w \in Threads : Holds(w) => slots[worker[w].it].state = "RUNNING"
  /\ \A v, w \in Threads :
       v # w /\ Holds(v) /\ Holds(w) => worker[v].it # worker[w].it

PoolSafe == TypeOK /\ MainSlot /\ Filled /\ Single /\ Owned

(***************************************************************************)
(* The second layer: a task that has been added and has not returned is in *)
(* the queue, and what the threads, and the main thread, know of tasks.    *)
(***************************************************************************)
TaskKnown(t) ==
  /\ progress[t] # "none" => Adding[t] < main.at
  /\ Adding[t] < main.at /\ progress[t] # "returned" =>
       \E s \in InUse : slots[s].task = t

ThreadKnows(w) ==
  /\ Holds(w) => (Finishing(w) <=> progress[TaskOf(w)] = "returned")
  /\ worker[w].pc \in {"count", "unlock", "release"} => CounterOf[TaskOf(w)] \in Counter

SlotKnown(s) == slots[s].state = "WAITING" => progress[slots[s].task] # "returned"

Awaited ==
  \A k \in 1 .. Len(Program) :
    k < main.at /\ Program[k].do = "await" => progress[Program[k].on] = "returned"

TasksSafe ==
  /\ PoolSafe /\ Awaited
  /\ \A t \in Task : TaskKnown(t)
  /\ \A w \in Threads : ThreadKnows(w)
  /\ \A s \in InUse : SlotKnown(s)

(***************************************************************************)
(* The third layer: a counter counts the tasks added to it that have not   *)
(* left it, a thread inside operator-- owns its mutex, and a counter that  *)
(* is destroyed, or about to be, has no task and no thread left.           *)
(***************************************************************************)
Counting(t) == \E w \in Threads : worker[w].pc = "count" /\ TaskOf(w) = t

Outstanding(c) ==
  {t \in Task : CounterOf[t] = c /\ Added(t) /\ (progress[t] # "returned" \/ Counting(t))}

CountKnown(c) ==
  /\ count[c] = Cardinality(Outstanding(c))
  /\ count[c] # 0 => locked[c]

MutexKnown(w) ==
  /\ worker[w].pc \in {"unlock", "release"} => mutex[CounterOf[TaskOf(w)]] = w
  /\ worker[w].pc = "unlock" => count[CounterOf[TaskOf(w)]] = 0

Inside(w, c) == worker[w].pc \in {"unlock", "release"} /\ CounterOf[TaskOf(w)] = c

Destroyed(c) ==
  /\ count[c] = 0
  /\ \A w \in Threads : ~ Inside(w, c)
  /\ \E i \in 1 .. Len(Program) :
       i < main.at /\ Program[i].do = "wait" /\ Program[i].on = c

CountsSafe ==
  /\ TasksSafe
  /\ \A c \in Counter : CountKnown(c)
  /\ \A w \in Threads : MutexKnown(w)
  /\ main.pc = "destroy" => count[On] = 0
  /\ \A c \in Counter \ alive : Destroyed(c)

(***************************************************************************)
(* The fourth layer: the barriers a thread has passed, or has cleared,     *)
(* stand for groups of tasks that have returned.                           *)
(***************************************************************************)
GroupDone(c) == \A u \in Task : CounterOf[u] = c /\ Added(u) => progress[u] = "returned"

ThreadSees(w) ==
  /\ worker[w].pc = "check" =>
       \A c \in Deps[TaskOf(w)] \ worker[w].unseen : GroupDone(c)
  /\ worker[w].pc = "found" =>
       /\ \A c \in Deps[TaskOf(w)] : GroupDone(c)
       /\ \A u \in Polls[TaskOf(w)] : progress[u] = "returned"

SlotSees(s) ==
  progress[slots[s].task] # "returned" =>
    \A c \in Deps[slots[s].task] \ slots[s].barriers : GroupDone(c)

GraphSafe ==
  /\ CountsSafe
  /\ \A w \in Threads : ThreadSees(w)
  /\ \A s \in InUse : SlotSees(s)

-----------------------------------------------------------------------------
(***************************************************************************)
(* The program, and the types by element.                                  *)
(***************************************************************************)
WorkerType ==
  [pc : WorkerPc, waits : BOOLEAN, it : SlotId, start : SlotId, unseen : SUBSET Counter]

MainType == [pc : MainPc, at : 1 .. Len(Program) + 1, it : SlotId]

\* An instruction that adds a task adds it alone.
LEMMA Programs ==
  /\ Len(Program) \in Nat /\ DOMAIN Program = 1 .. Len(Program)
  /\ \A i \in 1 .. Len(Program) :
       /\ Program[i].do \in {"add", "await", "wait"}
       /\ Program[i].do \in {"add", "await"} => Program[i].on \in Task
       /\ Program[i].do = "wait" => Program[i].on \in Counter
  /\ \A i \in 1 .. Len(Program) : Program[i].do = "add" => Adding[Program[i].on] = i
  /\ \A t \in Task : /\ Adding[t] \in 1 .. Len(Program)
                     /\ Program[Adding[t]].do = "add" /\ Program[Adding[t]].on = t
  <1>1. Program \in Seq(Instruction)
    BY PoolAssumption
  <1>2. Len(Program) \in Nat /\ DOMAIN Program = 1 .. Len(Program)
    BY <1>1, LenProperties
  <1>3. \A i \in 1 .. Len(Program) : Program[i] \in Instruction
    BY <1>1, ElementOfSeq
  <1>4. \A i \in 1 .. Len(Program) :
          /\ Program[i].do \in {"add", "await", "wait"}
          /\ Program[i].do \in {"add", "await"} => Program[i].on \in Task
          /\ Program[i].do = "wait" => Program[i].on \in Counter
    BY <1>3 DEF Instruction
  <1>5. \A i, j \in 1 .. Len(Program) :
          Program[i].do = "add" /\ Program[j].do = "add" /\ Program[i].on = Program[j].on
            => i = j
    <2> SUFFICES ASSUME NEW i \in 1 .. Len(Program), NEW j \in 1 .. Len(Program),
                        Program[i].do = "add", Program[j].do = "add",
                        Program[i].on = Program[j].on, i # j
                 PROVE  FALSE
      OBVIOUS
    <2>1. Program[i].on \in Int
      BY <1>4 DEF Task
    <2>2. i \in DOMAIN Program /\ j \in DOMAIN Program
      BY <1>2
    <2>3. CASE i < j
      <3>1. Program[i].on < Program[j].on
        BY <2>2, <2>3, OrderAssumption, Zenon
      <3> QED
        BY <2>1, <3>1
    <2>4. CASE j < i
      <3>1. Program[j].on < Program[i].on
        BY <2>2, <2>4, OrderAssumption, Zenon
      <3> QED
        BY <2>1, <3>1
    <2> QED
      BY <1>2, <2>3, <2>4
  <1>6. ASSUME NEW t \in Task
        PROVE  /\ Adding[t] \in 1 .. Len(Program)
               /\ Program[Adding[t]].do = "add" /\ Program[Adding[t]].on = t
    <2>1. \E i \in 1 .. Len(Program) : Program[i] = [do |-> "add", on |-> t]
      BY <1>2, OrderAssumption
    <2>2. \E i \in DOMAIN Program : Program[i].do = "add" /\ Program[i].on = t
      BY <1>2, <2>1
    <2>3. Adding[t] = CHOOSE i \in DOMAIN Program : Program[i].do = "add" /\ Program[i].on = t
      BY DEF Adding
    <2>4. /\ Adding[t] \in DOMAIN Program
          /\ Program[Adding[t]].do = "add" /\ Program[Adding[t]].on = t
      BY <2>2, <2>3
    <2> QED
      BY <1>2, <2>4
  <1> HIDE DEF Adding
  <1> QED
    BY <1>2, <1>4, <1>5, <1>6

LEMMA Types ==
  ASSUME TypeOK
  PROVE  /\ Len(slots) \in Nat /\ Len(slots) > 0
         /\ \A s \in SlotId : slots[s] \in Slot
         /\ nextFill \in SlotId
         /\ main \in MainType
         /\ worker \in [Threads -> WorkerType]
         /\ \A w \in Threads : worker[w] \in WorkerType
  <1>1. Len(slots) \in Nat /\ \A s \in SlotId : slots[s] \in Slot
    BY LenProperties, ElementOfSeq DEF TypeOK, SlotId
  <1> QED
    BY <1>1 DEF TypeOK, SlotId, MainType, WorkerType

LEMMA Wraps ==
  ASSUME TypeOK, NEW s \in SlotId
  PROVE  IncWrap(s) \in SlotId
  BY Types DEF IncWrap, SlotId

-----------------------------------------------------------------------------
(***************************************************************************)
(* What the pieces do that the steps of a thread are made of.              *)
(***************************************************************************)
Alone(w) ==
  /\ worker' \in [Threads -> WorkerType]
  /\ \A v \in Threads : v # w => worker'[v] = worker[v]

LEMMA WorkerChanged ==
  ASSUME TypeOK, NEW w \in Threads, NEW r \in WorkerType, worker' = [worker EXCEPT ![w] = r]
  PROVE  Alone(w) /\ worker'[w] = r
  BY Types DEF Alone

LEMMA Gotos ==
  ASSUME TypeOK, NEW w \in Threads, NEW p \in WorkerPc, Goto(w, p)
  PROVE  /\ Alone(w)
         /\ worker'[w].pc = p /\ worker'[w].it = worker[w].it
  <1> DEFINE r == [worker[w] EXCEPT !.pc = p]
  <1>1. worker[w] \in WorkerType
    BY Types
  <1>2. r \in WorkerType /\ r.pc = p /\ r.it = worker[w].it
    BY <1>1 DEF WorkerType
  <1>3. worker' = [worker EXCEPT ![w] = r]
    BY DEF Goto
  <1> HIDE DEF r
  <1> QED
    BY <1>2, <1>3, WorkerChanged

LEMMA Searches ==
  ASSUME TypeOK, NEW w \in Threads, Search(w)
  PROVE  Alone(w) /\ worker'[w].pc = "sweep"
  <1> DEFINE r == [worker[w] EXCEPT !.pc = "sweep", !.it = worker[w].start]
  <1>1. worker[w] \in WorkerType
    BY Types
  <1>2. r \in WorkerType /\ r.pc = "sweep"
    BY <1>1 DEF WorkerType, WorkerPc
  <1>3. worker' = [worker EXCEPT ![w] = r]
    BY <1>1, Types DEF Search
  <1> HIDE DEF r
  <1> QED
    BY <1>2, <1>3, WorkerChanged

LEMMA IdlesLeft ==
  ASSUME TypeOK, NEW w \in Threads, NEW p \in WorkerPc, LeaveIdle(w, p)
  PROVE  /\ Alone(w) /\ worker'[w].pc = p /\ worker'[w].it = worker[w].it
         /\ idleLock' \in Threads \cup {None}
  <1> DEFINE r == [worker[w] EXCEPT !.pc = p, !.waits = FALSE]
  <1>1. worker[w] \in WorkerType
    BY Types
  <1>2. r \in WorkerType /\ r.pc = p /\ r.it = worker[w].it
    BY <1>1 DEF WorkerType
  <1>3. worker' = [worker EXCEPT ![w] = r]
    BY <1>1, Types DEF LeaveIdle
  <1> HIDE DEF r
  <1> QED
    BY <1>2, <1>3, WorkerChanged DEF LeaveIdle, TypeOK

LEMMA Leaves ==
  ASSUME TypeOK, NEW w \in Threads, Leave(w)
  PROVE  Alone(w) /\ worker'[w].pc = "top"
  <1> DEFINE r == [worker[w] EXCEPT !.pc = "top", !.start = IncWrap(worker[w].it)]
  <1>1. worker[w] \in WorkerType
    BY Types
  <1>2. IncWrap(worker[w].it) \in SlotId
    BY <1>1, Wraps DEF WorkerType
  <1>3. r \in WorkerType /\ r.pc = "top"
    BY <1>1, <1>2 DEF WorkerType, WorkerPc
  <1>4. worker' = [worker EXCEPT ![w] = r]
    BY <1>1, Types DEF Leave
  <1> HIDE DEF r
  <1> QED
    BY <1>3, <1>4, WorkerChanged

LEMMA NextSlots ==
  ASSUME TypeOK, NEW w \in Threads, NextSlot(w)
  PROVE  Alone(w) /\ worker'[w].pc \in {"sweep", "missed", "idle"}
  <1>1. worker[w] \in WorkerType
    BY Types
  <1>2. CASE IncWrap(worker[w].it) # worker[w].start
    <2> DEFINE r == [worker[w] EXCEPT !.pc = "sweep", !.it = IncWrap(@)]
    <2>1. IncWrap(worker[w].it) \in SlotId
      BY <1>1, Wraps DEF WorkerType
    <2>2. r \in WorkerType /\ r.pc = "sweep"
      BY <1>1, <2>1 DEF WorkerType, WorkerPc
    <2>3. worker' = [worker EXCEPT ![w] = r]
      BY <1>1, <1>2, Types DEF NextSlot
    <2> HIDE DEF r
    <2> QED
      BY <2>2, <2>3, WorkerChanged
  <1>3. CASE IncWrap(worker[w].it) = worker[w].start
    <2> DEFINE p == IF worker[w].waits THEN "missed" ELSE "idle"
               r == [worker[w] EXCEPT !.pc = p, !.waits = TRUE]
    <2>1. r \in WorkerType /\ r.pc = p
      BY <1>1 DEF WorkerType, WorkerPc
    <2>2. worker' = [worker EXCEPT ![w] = r]
      BY <1>1, <1>3, Types DEF NextSlot
    <2>3. p \in {"missed", "idle"}
      OBVIOUS
    <2> HIDE DEF r, p
    <2> QED
      BY <2>1, <2>2, <2>3, WorkerChanged
  <1> QED
    BY <1>2, <1>3

\* A step of thread w leaves the tasks where they are, and changes no slot but
\* the one it is at, s.
SlotsStay(s) ==
  /\ slots' \in Seq(Slot) /\ Len(slots') = Len(slots)
  /\ \A i \in SlotId : slots'[i].task = slots[i].task
  /\ \A i \in SlotId : i # s => slots'[i] = slots[i]

LEMMA SlotChanged ==
  ASSUME TypeOK, NEW i \in SlotId, NEW e \in Slot, slots' = [slots EXCEPT ![i] = e]
  PROVE  /\ slots' \in Seq(Slot) /\ Len(slots') = Len(slots)
         /\ slots'[i] = e
         /\ \A s \in SlotId : s # i => slots'[s] = slots[s]
  BY ExceptSeq DEF TypeOK, SlotId

LEMMA StatesSet ==
  ASSUME TypeOK, NEW w \in Threads, NEW s \in {"FREE", "PREPARING", "WAITING", "RUNNING"},
         SetState(w, s)
  PROVE  /\ SlotsStay(worker[w].it)
         /\ worker[w].it \in SlotId
         /\ slots'[worker[w].it].state = s
         /\ slots'[worker[w].it].barriers = slots[worker[w].it].barriers
  <1> DEFINE i == worker[w].it
             e == [slots[i] EXCEPT !.state = s]
  <1>1. i \in SlotId /\ slots[i] \in Slot
    BY Types DEF WorkerType
  <1>2. /\ e \in Slot /\ e.state = s /\ e.task = slots[i].task
        /\ e.barriers = slots[i].barriers
    BY <1>1 DEF Slot
  <1>3. slots' = [slots EXCEPT ![i] = e]
    BY DEF SetState
  <1> HIDE DEF e
  <1> QED
    BY <1>1, <1>2, <1>3, SlotChanged DEF SlotsStay

LEMMA SlotsSame ==
  ASSUME TypeOK, NEW s, slots' = slots
  PROVE  SlotsStay(s)
  BY DEF SlotsStay, TypeOK

-----------------------------------------------------------------------------
(***************************************************************************)
(* What the steps of a thread come to: eleven cases.                       *)
(***************************************************************************)
Calm == UNCHANGED <<locked, count, mutex, progress, main>>

\* It does not hold a slot, before and after.
Idles(w) == ~ Holds(w) /\ ~ Holds(w)' /\ slots' = slots /\ Calm

Claims(w) ==
  LET s == worker[w].it
  IN  /\ worker[w].pc = "sweep" /\ worker'[w].pc = "check" /\ worker'[w].it = s
      /\ slots[s].state = "WAITING" /\ slots'[s].state = "RUNNING"
      /\ slots'[s].barriers = slots[s].barriers
      /\ worker'[w].unseen = slots[s].barriers
      /\ Calm

Passes(w) ==
  /\ worker[w].pc = "check" /\ worker'[w].pc = "check" /\ worker'[w].it = worker[w].it
  /\ \E c \in worker[w].unseen : ~ locked[c] /\ worker'[w].unseen = worker[w].unseen \ {c}
  /\ slots' = slots /\ Calm

GivesBack(w) ==
  LET s == worker[w].it
  IN  /\ worker[w].pc = "check" /\ ~ Holds(w)'
      /\ slots'[s].state = "WAITING"
      /\ \/ slots'[s].barriers = slots[s].barriers
         \/ worker[w].unseen = {} /\ slots'[s].barriers = {}
      /\ Calm

Finds(w) ==
  LET s == worker[w].it
  IN  /\ worker[w].pc = "check" /\ worker'[w].pc = "found" /\ worker'[w].it = s
      /\ worker[w].unseen = {}
      /\ \A u \in Polls[TaskOf(w)] : progress[u] = "returned"
      /\ slots'[s].state = slots[s].state /\ slots'[s].barriers = {}
      /\ Calm

Drops(w) == worker[w].pc = "found" /\ ~ Holds(w)' /\ slots' = slots /\ Calm

CallsInPart(w) ==
  LET s == worker[w].it
  IN  /\ worker[w].pc = "found" /\ ~ Holds(w)'
      /\ slots'[s].state = "WAITING" /\ slots'[s].barriers = slots[s].barriers
      /\ progress' = [progress EXCEPT ![TaskOf(w)] = "part"]
      /\ UNCHANGED <<locked, count, mutex, main>>

Returns(w) ==
  /\ worker[w].pc = "found" /\ worker'[w].it = worker[w].it
  /\ worker'[w].pc = IF CounterOf[TaskOf(w)] = None THEN "free" ELSE "count"
  /\ progress' = [progress EXCEPT ![TaskOf(w)] = "returned"]
  /\ slots' = slots
  /\ UNCHANGED <<locked, count, mutex, main>>

Counts(w) ==
  LET c == CounterOf[TaskOf(w)]
  IN  /\ worker[w].pc = "count" /\ worker'[w].it = worker[w].it
      /\ mutex[c] = None /\ mutex' = [mutex EXCEPT ![c] = w]
      /\ count' = [count EXCEPT ![c] = @ - 1]
      /\ worker'[w].pc = IF count[c] = 1 THEN "unlock" ELSE "release"
      /\ main' = main \/ (main.pc = "asleep" /\ main' = [main EXCEPT !.pc = "run"])
      /\ slots' = slots
      /\ UNCHANGED <<locked, progress>>

Unlocks(w) ==
  /\ worker[w].pc = "unlock" /\ worker'[w].it = worker[w].it /\ worker'[w].pc = "release"
  /\ locked' = [locked EXCEPT ![CounterOf[TaskOf(w)]] = FALSE]
  /\ slots' = slots
  /\ UNCHANGED <<count, mutex, progress, main>>

Releases(w) ==
  /\ worker[w].pc = "release" /\ worker'[w].it = worker[w].it /\ worker'[w].pc = "free"
  /\ mutex' = [mutex EXCEPT ![CounterOf[TaskOf(w)]] = None]
  /\ slots' = slots
  /\ UNCHANGED <<locked, count, progress, main>>

Frees(w) ==
  /\ worker[w].pc = "free" /\ ~ Holds(w)'
  /\ slots'[worker[w].it].state = "FREE"
  /\ Calm

Moves(w) ==
  \/ Idles(w) \/ Claims(w) \/ Passes(w) \/ GivesBack(w) \/ Finds(w) \/ Drops(w)
  \/ CallsInPart(w) \/ Returns(w) \/ Counts(w) \/ Unlocks(w) \/ Releases(w) \/ Frees(w)

\* What holds of all of them.
Step(w) ==
  /\ Alone(w) /\ SlotsStay(worker[w].it)
  /\ UNCHANGED <<nextFill, alive, exitThreads>>
  /\ idleLock' \in Threads \cup {None}

LEMMA IdleSteps ==
  ASSUME TypeOK, NEW w \in Threads,
         \/ Top(w) \/ IdleLoop(w) \/ Missed(w) \/ LockIdle(w)
         \/ Sweep(w) /\ slots[worker[w].it].state # "WAITING"
  PROVE  Step(w) /\ Idles(w)
  <1>1. /\ worker[w].pc \in {"top", "idle", "missed", "lock", "sweep"}
        /\ UNCHANGED <<queue, sync, alive, progress, main, exitThreads>>
        /\ \/ (Goto(w, "exited") \/ Search(w) \/ Goto(w, "idle") \/ Goto(w, "lock")
                 \/ NextSlot(w))
              /\ (idleLock' = idleLock \/ idleLock' = w)
           \/ LeaveIdle(w, "exited")
    BY DEF Top, IdleLoop, Missed, LockIdle, Sweep, At, queue
  <1>2. SlotsStay(worker[w].it) /\ slots' = slots
    BY <1>1, SlotsSame DEF queue
  <1>3. /\ Alone(w) /\ worker'[w].pc \in {"exited", "sweep", "idle", "lock", "missed"}
        /\ idleLock' \in Threads \cup {None}
    <2>1. {"exited", "idle", "lock"} \subseteq WorkerPc /\ idleLock \in Threads \cup {None}
      BY DEF WorkerPc, TypeOK
    <2>2. CASE LeaveIdle(w, "exited")
      BY <2>1, <2>2, IdlesLeft
    <2>3. CASE Goto(w, "exited") \/ Search(w) \/ Goto(w, "idle") \/ Goto(w, "lock")
                 \/ NextSlot(w)
      BY <1>1, <2>1, <2>2, <2>3, Gotos, Searches, NextSlots
    <2> QED
      BY <1>1, <2>2, <2>3
  <1> QED
    BY <1>1, <1>2, <1>3 DEF Step, Idles, Calm, Holds, Finishing, queue, sync

LEMMA SweepSteps ==
  ASSUME TypeOK, NEW w \in Threads, Sweep(w), slots[worker[w].it].state = "WAITING"
  PROVE  Step(w) /\ Claims(w)
  <1> DEFINE r == [worker[w] EXCEPT !.pc = "check", !.unseen = slots[worker[w].it].barriers]
  <1>1. /\ worker[w].pc = "sweep" /\ SetState(w, "RUNNING")
        /\ UNCHANGED <<nextFill, sync, alive, progress, main, idleLock, exitThreads>>
        /\ worker' = [worker EXCEPT ![w] = r]
    BY Types DEF Sweep, At
  <1>2. worker[w] \in WorkerType /\ slots[worker[w].it] \in Slot
    BY Types DEF WorkerType
  <1>3. /\ r \in WorkerType /\ r.pc = "check" /\ r.it = worker[w].it
        /\ r.unseen = slots[worker[w].it].barriers
    BY <1>2 DEF WorkerType, WorkerPc, Slot
  <1> HIDE DEF r
  <1>4. /\ Alone(w) /\ worker'[w].pc = "check" /\ worker'[w].it = worker[w].it
        /\ worker'[w].unseen = slots[worker[w].it].barriers
    BY <1>1, <1>3, WorkerChanged
  <1> QED
    BY <1>1, <1>4, StatesSet DEF Step, Claims, Calm, sync, TypeOK

LEMMA CheckSteps ==
  ASSUME TypeOK, NEW w \in Threads, CheckBarrier(w)
  PROVE  Step(w) /\ (Passes(w) \/ GivesBack(w))
  <1>1. /\ worker[w].pc = "check"
        /\ UNCHANGED <<nextFill, sync, alive, progress, main, idleLock, exitThreads>>
    BY DEF CheckBarrier, At
  <1>2. PICK c \in worker[w].unseen :
          IF locked[c] THEN SetState(w, "WAITING") /\ NextSlot(w)
          ELSE worker' = [worker EXCEPT ![w].unseen = @ \ {c}] /\ UNCHANGED slots
    BY DEF CheckBarrier
  <1>3. CASE locked[c]
    BY <1>1, <1>2, <1>3, StatesSet, NextSlots
       DEF Step, GivesBack, Calm, Holds, Finishing, sync, TypeOK
  <1>4. CASE ~ locked[c]
    <2> DEFINE r == [worker[w] EXCEPT !.unseen = @ \ {c}]
    <2>1. worker[w] \in WorkerType
      BY Types
    <2>2. /\ r \in WorkerType /\ r.pc = worker[w].pc /\ r.it = worker[w].it
          /\ r.unseen = worker[w].unseen \ {c}
      BY <2>1 DEF WorkerType
    <2>3. worker' = [worker EXCEPT ![w] = r] /\ slots' = slots
      BY <1>2, <1>4, <2>1, Types
    <2> HIDE DEF r
    <2>4. /\ Alone(w) /\ worker'[w].pc = "check" /\ worker'[w].it = worker[w].it
          /\ worker'[w].unseen = worker[w].unseen \ {c}
      BY <1>1, <2>2, <2>3, WorkerChanged
    <2> QED
      BY <1>1, <1>4, <2>3, <2>4, SlotsSame DEF Step, Passes, Calm, sync, TypeOK
  <1> QED
    BY <1>3, <1>4

LEMMA ReadyCheckSteps ==
  ASSUME TypeOK, NEW w \in Threads, ReadyCheck(w)
  PROVE  Step(w) /\ (Finds(w) \/ GivesBack(w))
  <1> DEFINE i == worker[w].it
             ready == \A u \in Polls[TaskOf(w)] : progress[u] = "returned"
             e == [slots[i] EXCEPT !.barriers = {},
                                   !.state = IF ready THEN @ ELSE "WAITING"]
  <1>1. /\ worker[w].pc = "check" /\ worker[w].unseen = {}
        /\ UNCHANGED <<nextFill, sync, alive, progress, main, exitThreads>>
    BY DEF ReadyCheck, At
  <1>2. i \in SlotId /\ slots[i] \in Slot
    BY Types DEF WorkerType
  <1>3. /\ e \in Slot /\ e.task = slots[i].task /\ e.barriers = {}
        /\ e.state = IF ready THEN slots[i].state ELSE "WAITING"
    BY <1>2 DEF Slot
  <1>4. slots' = [slots EXCEPT ![i] = e]
    BY <1>2, Types DEF ReadyCheck, SlotId
  <1>5. IF ready THEN LeaveIdle(w, "found") ELSE NextSlot(w) /\ UNCHANGED idleLock
    BY DEF ReadyCheck
  <1> HIDE DEF e, ready
  <1>6. /\ SlotsStay(i) /\ slots'[i].barriers = {}
        /\ slots'[i].state = IF ready THEN slots[i].state ELSE "WAITING"
    BY <1>2, <1>3, <1>4, SlotChanged DEF SlotsStay
  <1>7. CASE ready
    <2>1. /\ Alone(w) /\ worker'[w].pc = "found" /\ worker'[w].it = worker[w].it
          /\ idleLock' \in Threads \cup {None}
      BY <1>5, <1>7, IdlesLeft DEF WorkerPc
    <2> QED
      BY <1>1, <1>6, <1>7, <2>1 DEF ready, Step, Finds, Calm, sync
  <1>8. CASE ~ ready
    BY <1>1, <1>5, <1>6, <1>8, NextSlots
       DEF Step, GivesBack, Calm, Holds, Finishing, sync, TypeOK
  <1> QED
    BY <1>7, <1>8

LEMMA CallSteps ==
  ASSUME TypeOK, NEW w \in Threads, Drop(w) \/ Call(w)
  PROVE  Step(w) /\ (Drops(w) \/ CallsInPart(w) \/ Returns(w))
  <1>1. /\ worker[w].pc = "found"
        /\ UNCHANGED <<nextFill, sync, alive, main, idleLock, exitThreads>>
    BY DEF Drop, Call, At, queue
  <1>2. \/ Goto(w, "exited") /\ slots' = slots /\ progress' = progress
        \/ /\ progress' = [progress EXCEPT ![TaskOf(w)] = "returned"]
           /\ Goto(w, IF CounterOf[TaskOf(w)] = None THEN "free" ELSE "count")
           /\ slots' = slots
        \/ /\ progress' = [progress EXCEPT ![TaskOf(w)] = "part"]
           /\ SetState(w, "WAITING") /\ Leave(w)
    BY DEF Drop, Call, queue
  <1>3. CASE Goto(w, "exited") /\ slots' = slots /\ progress' = progress
    <2>1. Alone(w) /\ worker'[w].pc = "exited"
      BY <1>3, Gotos DEF WorkerPc
    <2> QED
      BY <1>1, <1>3, <2>1, SlotsSame DEF Step, Drops, Calm, Holds, Finishing, sync, TypeOK
  <1>4. CASE /\ progress' = [progress EXCEPT ![TaskOf(w)] = "returned"]
             /\ Goto(w, IF CounterOf[TaskOf(w)] = None THEN "free" ELSE "count")
             /\ slots' = slots
    <2>1. /\ Alone(w) /\ worker'[w].it = worker[w].it
          /\ worker'[w].pc = IF CounterOf[TaskOf(w)] = None THEN "free" ELSE "count"
      BY <1>4, Gotos DEF WorkerPc
    <2> QED
      BY <1>1, <1>4, <2>1, SlotsSame DEF Step, Returns, sync, TypeOK
  <1>5. CASE /\ progress' = [progress EXCEPT ![TaskOf(w)] = "part"]
             /\ SetState(w, "WAITING") /\ Leave(w)
    BY <1>1, <1>5, StatesSet, Leaves DEF Step, CallsInPart, Holds, Finishing, sync, TypeOK
  <1> QED
    BY <1>2, <1>3, <1>4, <1>5

LEMMA CountSteps ==
  ASSUME TypeOK, NEW w \in Threads, Count(w) \/ UnlockDone(w) \/ ReleaseCounter(w)
  PROVE  Step(w) /\ (Counts(w) \/ Unlocks(w) \/ Releases(w))
  <1> DEFINE c == CounterOf[TaskOf(w)]
  <1>1. slots' = slots /\ UNCHANGED <<nextFill, alive, progress, idleLock, exitThreads>>
    BY DEF Count, UnlockDone, ReleaseCounter, queue
  <1>2. Alone(w) /\ worker'[w].it = worker[w].it => Step(w)
    BY <1>1, SlotsSame DEF Step, TypeOK
  <1>3. CASE Count(w)
    <2>1. /\ worker[w].pc = "count"
          /\ mutex[c] = None /\ mutex' = [mutex EXCEPT ![c] = w]
          /\ count' = [count EXCEPT ![c] = @ - 1] /\ locked' = locked
          /\ Goto(w, IF count[c] = 1 THEN "unlock" ELSE "release")
          /\ main' = main \/ Notify(c)
      BY <1>3 DEF Count, At
    <2>2. /\ Alone(w) /\ worker'[w].it = worker[w].it
          /\ worker'[w].pc = IF count[c] = 1 THEN "unlock" ELSE "release"
      BY <2>1, Gotos DEF WorkerPc
    <2>3. main' = main \/ (main.pc = "asleep" /\ main' = [main EXCEPT !.pc = "run"])
      BY <2>1 DEF Notify
    <2> QED
      BY <1>1, <1>2, <2>1, <2>2, <2>3 DEF Counts
  <1>4. CASE UnlockDone(w)
    <2>1. worker[w].pc = "unlock" /\ Goto(w, "release")
      BY <1>4 DEF UnlockDone, At
    <2>2. Alone(w) /\ worker'[w].it = worker[w].it /\ worker'[w].pc = "release"
      BY <2>1, Gotos DEF WorkerPc
    <2> QED
      BY <1>1, <1>2, <1>4, <2>1, <2>2 DEF Unlocks, UnlockDone
  <1>5. CASE ReleaseCounter(w)
    <2>1. worker[w].pc = "release" /\ Goto(w, "free")
      BY <1>5 DEF ReleaseCounter, At
    <2>2. Alone(w) /\ worker'[w].it = worker[w].it /\ worker'[w].pc = "free"
      BY <2>1, Gotos DEF WorkerPc
    <2> QED
      BY <1>1, <1>2, <1>5, <2>1, <2>2 DEF Releases, ReleaseCounter
  <1> QED
    BY <1>3, <1>4, <1>5

LEMMA FreeSteps ==
  ASSUME TypeOK, NEW w \in Threads, FreeTheSlot(w)
  PROVE  Step(w) /\ Frees(w)
  <1>1. /\ worker[w].pc = "free" /\ SetState(w, "FREE") /\ Leave(w)
        /\ UNCHANGED <<nextFill, sync, alive, progress, main, idleLock, exitThreads>>
    BY DEF FreeTheSlot, At
  <1> QED
    BY <1>1, StatesSet, Leaves DEF Step, Frees, Calm, Holds, Finishing, sync, TypeOK

\* Every step of a thread is one of them.
LEMMA WorkerSteps ==
  ASSUME TypeOK, NEW w \in Threads, WorkerStep(w)
  PROVE  Step(w) /\ Moves(w)
  BY IdleSteps, SweepSteps, CheckSteps, ReadyCheckSteps, CallSteps, CountSteps, FreeSteps
     DEF WorkerStep, Moves

-----------------------------------------------------------------------------
(***************************************************************************)
(* The first layer.                                                        *)
(***************************************************************************)
\* What a step of a thread does to its slot, and when it is the thread's.
SlotCase(w) ==
  LET s == worker[w].it
  IN  \/ slots' = slots /\ (Holds(w)' => Holds(w) /\ worker'[w].it = s)
      \/ /\ ~ Holds(w) /\ slots[s].state = "WAITING" /\ slots'[s].state = "RUNNING"
         /\ worker'[w].it = s
      \/ /\ Holds(w) /\ slots'[s].state = slots[s].state /\ worker'[w].it = s
      \/ Holds(w) /\ ~ Holds(w)' /\ slots'[s].state \in {"WAITING", "FREE"}

LEMMA SlotCases ==
  ASSUME NEW w \in Threads, Moves(w)
  PROVE  SlotCase(w)
  <1>1. CASE Idles(w) \/ Passes(w) \/ Drops(w)
    BY <1>1 DEF Idles, Passes, Drops, SlotCase, Holds, Finishing
  <1>2. CASE Returns(w) \/ Counts(w)
    BY <1>2 DEF Returns, Counts, SlotCase, Holds, Finishing
  <1>3. CASE Unlocks(w) \/ Releases(w)
    BY <1>3 DEF Unlocks, Releases, SlotCase, Holds, Finishing
  <1>4. CASE Claims(w)
    BY <1>4 DEF Claims, SlotCase, Holds, Finishing
  <1>5. CASE Finds(w)
    BY <1>5 DEF Finds, SlotCase, Holds, Finishing
  <1>6. CASE GivesBack(w) \/ CallsInPart(w) \/ Frees(w)
    BY <1>6 DEF GivesBack, CallsInPart, Frees, SlotCase, Holds, Finishing
  <1> QED
    BY <1>1, <1>2, <1>3, <1>4, <1>5, <1>6 DEF Moves

\* The slots in use stay so, but the thread's own, which it may free.
LEMMA InUseStays ==
  ASSUME PoolSafe, NEW w \in Threads, Step(w), Moves(w)
  PROVE  /\ SlotId' = SlotId /\ worker[w].it \in SlotId
         /\ InUse' \subseteq InUse
         /\ \A s \in InUse : s \in InUse' \/ (s = worker[w].it /\ Frees(w))
         /\ \A s \in SlotId : slots'[s].task = slots[s].task
         /\ \A v \in Threads : TaskOf(v)' = slots[worker'[v].it].task
  <1>1. /\ SlotId' = SlotId /\ worker[w].it \in SlotId
        /\ \A s \in SlotId : s # worker[w].it => slots'[s] = slots[s]
        /\ \A s \in SlotId : slots'[s].task = slots[s].task
    BY Types DEF PoolSafe, Step, SlotsStay, SlotId, WorkerType
  <1>2. SlotCase(w)
    BY SlotCases
  <1>3. Holds(w) => slots[worker[w].it].state = "RUNNING"
    BY DEF PoolSafe, Owned
  <1>4. InUse' \subseteq InUse
    BY <1>1, <1>2, <1>3 DEF InUse, SlotCase
  <1>5. \A v \in Threads : worker'[v].it \in SlotId
    BY DEF Step, Alone, WorkerType
  <1>6. ASSUME NEW s \in InUse, s \notin InUse'
        PROVE  s = worker[w].it /\ Frees(w)
    <2>1. s = worker[w].it
      BY <1>1, <1>6 DEF InUse
    <2>2. slots'[s].state \notin {"WAITING", "RUNNING"}
      BY <1>1, <1>6 DEF InUse
    <2>3. slots' # slots
      BY <1>6, <2>2 DEF InUse
    <2>4. slots'[s].state # slots[s].state
      BY <1>6, <2>2 DEF InUse
    <2>5. ~ Idles(w) /\ ~ Claims(w) /\ ~ Passes(w) /\ ~ GivesBack(w) /\ ~ Finds(w)
          /\ ~ Drops(w) /\ ~ CallsInPart(w)
      BY <2>1, <2>2, <2>3, <2>4
         DEF Idles, Claims, Passes, GivesBack, Finds, Drops, CallsInPart
    <2>6. ~ Returns(w) /\ ~ Counts(w) /\ ~ Unlocks(w) /\ ~ Releases(w)
      BY <2>3 DEF Returns, Counts, Unlocks, Releases
    <2> QED
      BY <2>1, <2>5, <2>6 DEF Moves
  <1> QED
    BY <1>1, <1>4, <1>5, <1>6 DEF TaskOf

\* What a step of a thread leaves of the main thread.
LEMMA MainStays ==
  ASSUME NEW w \in Threads, Moves(w)
  PROVE  main' = main \/ (main.pc = "asleep" /\ main' = [main EXCEPT !.pc = "run"])
  BY DEF Moves, Idles, Claims, Passes, GivesBack, Finds, Drops, CallsInPart, Returns, Counts,
         Unlocks, Releases, Frees, Calm

LEMMA MainPlace ==
  ASSUME TypeOK, NEW w \in Threads, Moves(w)
  PROVE  /\ main' \in MainType /\ main'.at = main.at /\ main'.it = main.it
         /\ main'.pc = main.pc \/ (main.pc = "asleep" /\ main'.pc = "run")
  BY Types, MainStays DEF MainType, MainPc

LEMMA WorkerTypes ==
  ASSUME TypeOK, NEW w \in Threads, Step(w), Moves(w)
  PROVE  TypeOK'
  <1>1. /\ locked' \in [Counter -> BOOLEAN] /\ count' \in [Counter -> Int]
        /\ mutex' \in [Counter -> Threads \cup {None}]
        /\ progress' \in [Task -> {"none", "part", "returned"}]
    <2>1. CASE Calm
      BY <2>1 DEF Calm, TypeOK
    <2>2. CASE Passes(w) \/ CallsInPart(w) \/ Returns(w)
      BY <2>2 DEF Passes, CallsInPart, Returns, Calm, TypeOK
    <2>3. CASE Counts(w)
      <3>1. PICK c : c = CounterOf[TaskOf(w)]
        OBVIOUS
      <3>2. /\ count' = [count EXCEPT ![c] = count[c] - 1] /\ mutex' = [mutex EXCEPT ![c] = w]
            /\ UNCHANGED <<locked, progress>>
        BY <2>3, <3>1 DEF Counts
      <3>3. count' \in [Counter -> Int]
        <4>1. CASE c \in Counter
          <5>1. count[c] - 1 \in Int
            BY <4>1 DEF TypeOK
          <5> QED
            BY <3>2, <5>1 DEF TypeOK
        <4>2. CASE c \notin Counter
          BY <3>2, <4>2 DEF TypeOK
        <4> QED
          BY <4>1, <4>2
      <3>4. mutex' \in [Counter -> Threads \cup {None}]
        BY <3>2 DEF TypeOK
      <3> QED
        BY <3>2, <3>3, <3>4 DEF TypeOK
    <2>4. CASE Unlocks(w)
      BY <2>4 DEF Unlocks, TypeOK
    <2>5. CASE Releases(w)
      BY <2>5 DEF Releases, TypeOK
    <2> QED
      BY <2>1, <2>2, <2>3, <2>4, <2>5
         DEF Moves, Idles, Claims, GivesBack, Finds, Drops, Frees
  <1>2. main' \in MainType /\ Len(slots') = Len(slots)
    BY MainPlace DEF Step, SlotsStay
  <1> QED
    BY <1>1, <1>2 DEF Step, SlotsStay, Alone, TypeOK, MainType, WorkerType, SlotId

LEMMA WorkerPool ==
  ASSUME PoolSafe, NEW w \in Threads, Step(w), Moves(w)
  PROVE  PoolSafe'
  <1>1. /\ SlotId' = SlotId /\ worker[w].it \in SlotId
        /\ \A s \in SlotId : s # worker[w].it => slots'[s] = slots[s]
    BY InUseStays DEF Step, SlotsStay
  <1>2. /\ main'.at = main.at /\ main'.it = main.it /\ main \in MainType
        /\ main'.pc = main.pc \/ (main.pc = "asleep" /\ main'.pc = "run")
    BY MainPlace, Types DEF PoolSafe
  <1>3. SlotCase(w) /\ (Holds(w) => slots[worker[w].it].state = "RUNNING")
    BY SlotCases DEF PoolSafe, Owned
  <1>4. MainSlot'
    <2>1. CASE main.pc \in {"increment", "fill"}
      <3>1. slots[main.it].state = "PREPARING" /\ main.it \in SlotId
        BY <1>2, <2>1 DEF PoolSafe, MainSlot, MainType
      <3>2. slots'[main.it].state = "PREPARING"
        BY <1>1, <1>3, <3>1 DEF SlotCase
      <3> QED
        BY <1>2, <2>1, <3>2 DEF PoolSafe, MainSlot
    <2>2. CASE main.pc \notin {"increment", "fill"}
      BY <1>2, <2>2 DEF PoolSafe, MainSlot
    <2> QED
      BY <2>1, <2>2
  <1>5. Filled' /\ Single'
    BY <1>2, InUseStays DEF PoolSafe, Filled, Single, InUse
  <1>6. Owned'
    <2>1. \A v \in Threads : v # w => worker'[v] = worker[v]
      BY DEF Step, Alone
    <2>2. \A v \in Threads : v # w => (Holds(v)' <=> Holds(v))
      BY <2>1 DEF Holds, Finishing
    <2>3. \A v \in Threads : v # w /\ Holds(v) =>
            worker[v].it \in SlotId /\ slots[worker[v].it].state = "RUNNING"
      BY Types DEF PoolSafe, Owned, WorkerType
    <2>4. ASSUME NEW v \in Threads, v # w, Holds(v)
          PROVE  /\ slots'[worker'[v].it].state = "RUNNING"
                 /\ Holds(w)' => worker'[v].it # worker'[w].it
      <3>1. Holds(w) => worker[v].it # worker[w].it
        BY <2>4 DEF PoolSafe, Owned
      <3>2. slots'[worker[w].it] # slots[worker[w].it] => worker[v].it # worker[w].it
        BY <1>3, <2>3, <2>4, <3>1 DEF SlotCase
      <3>3. slots'[worker'[v].it].state = "RUNNING"
        BY <1>1, <2>1, <2>3, <2>4, <3>2
      <3>4. Holds(w)' => worker'[v].it # worker'[w].it
        BY <1>3, <2>1, <2>3, <2>4, <3>1 DEF SlotCase
      <3> QED
        BY <3>3, <3>4
    <2>5. Holds(w)' => slots'[worker'[w].it].state = "RUNNING"
      BY <1>3 DEF SlotCase
    <2>6. \A v \in Threads : Holds(v)' => slots'[worker'[v].it].state = "RUNNING"
      BY <2>2, <2>4, <2>5
    <2>7. \A u, v \in Threads :
            u # v /\ Holds(u)' /\ Holds(v)' => worker'[u].it # worker'[v].it
      <3> SUFFICES ASSUME NEW u \in Threads, NEW v \in Threads, u # v, Holds(u)', Holds(v)'
                   PROVE  worker'[u].it # worker'[v].it
        OBVIOUS
      <3>1. CASE u # w /\ v # w
        BY <2>1, <2>2, <3>1 DEF PoolSafe, Owned
      <3> QED
        BY <2>2, <2>4, <3>1
    <2> QED
      BY <2>6, <2>7 DEF Owned
  <1>7. TypeOK'
    BY WorkerTypes DEF PoolSafe
  <1> QED
    BY <1>4, <1>5, <1>6, <1>7 DEF PoolSafe

(***************************************************************************)
(* The steps of the main thread.  It goes on to its next instruction, or   *)
(* stays at the one it is at.                                              *)
(***************************************************************************)
LEMMA MainFrame ==
  ASSUME MainStep
  PROVE  UNCHANGED <<mutex, progress, worker, idleLock>>
  BY DEF MainStep, Seek, Increment, Fill, Wait, Destroy, Await, Shutdown, WaitForThreads,
         queue, sync

LEMMA SlotsGrow ==
  ASSUME TypeOK, slots' = slots \o Chunk
  PROVE  /\ slots' \in Seq(Slot) /\ Len(slots') = Len(slots) + ChunkSize
         /\ SlotId \subseteq SlotId' /\ Len(slots) + 1 \in SlotId'
         /\ \A s \in SlotId : slots'[s] = slots[s]
         /\ \A s \in SlotId' : s \notin SlotId => slots'[s] = FreeSlot
  <1>1. ChunkSize \in Nat \ {0} /\ NumTasks \in Nat
    BY PoolAssumption
  <1>2. FreeSlot \in Slot
    BY <1>1 DEF FreeSlot, Slot
  <1>3. Chunk \in Seq(Slot) /\ Len(Chunk) = ChunkSize
    BY <1>1, <1>2 DEF Chunk
  <1>4. slots \in Seq(Slot) /\ Len(slots) \in Nat
    BY Types DEF TypeOK
  <1>5. /\ slots' \in Seq(Slot) /\ Len(slots') = Len(slots) + ChunkSize
        /\ \A i \in 1 .. Len(slots) + ChunkSize :
             slots'[i] = IF i <= Len(slots) THEN slots[i] ELSE Chunk[i - Len(slots)]
    BY <1>3, <1>4, ConcatProperties
  <1>6. \A k \in 1 .. ChunkSize : Chunk[k] = FreeSlot
    BY DEF Chunk
  <1>7. \A i \in 1 .. Len(slots) + ChunkSize :
          ~ (i <= Len(slots)) => i - Len(slots) \in 1 .. ChunkSize
    BY <1>1, <1>4
  <1> QED
    BY <1>1, <1>4, <1>5, <1>6, <1>7 DEF SlotId

LEMMA SeekPool ==
  ASSUME PoolSafe, Seek
  PROVE  /\ TypeOK' /\ InUse' = InUse /\ \A s \in InUse : slots'[s] = slots[s]
         /\ main'.at = main.at /\ main'.pc \in {"run", "increment"}
         /\ main'.pc = "increment" => slots'[main'.it].state = "PREPARING"
         /\ SlotId \subseteq SlotId'
  <1>1. /\ main.pc = "run" /\ main.at <= Len(Program) /\ Program[main.at].do = "add"
        /\ UNCHANGED <<sync, alive, progress, worker, idleLock, exitThreads>>
    BY DEF Seek, Doing
  <1>2. main \in MainType /\ main.it \in SlotId /\ nextFill \in SlotId /\ TypeOK
        /\ Len(slots) \in Nat
    BY Types DEF PoolSafe, MainType
  <1>3. CASE slots[main.it].state = "FREE"
    <2> DEFINE e == [slots[main.it] EXCEPT !.state = "PREPARING"]
    <2>1. /\ slots' = [slots EXCEPT ![main.it] = e]
          /\ main' = [main EXCEPT !.pc = "increment"] /\ nextFill' = nextFill
      BY <1>3 DEF Seek
    <2>2. e \in Slot /\ e.state = "PREPARING"
      BY <1>2, Types DEF Slot
    <2> HIDE DEF e
    <2>3. /\ slots' \in Seq(Slot) /\ Len(slots') = Len(slots) /\ slots'[main.it] = e
          /\ \A s \in SlotId : s # main.it => slots'[s] = slots[s]
      BY <1>2, <2>1, <2>2, SlotChanged
    <2>4. /\ main'.pc = "increment" /\ main'.at = main.at /\ main'.it = main.it
          /\ main' \in MainType
      BY <1>2, <2>1 DEF MainType, MainPc
    <2>5. InUse' = InUse /\ \A s \in InUse : slots'[s] = slots[s]
      BY <1>3, <2>2, <2>3 DEF InUse, SlotId
    <2>6. TypeOK'
      BY <1>1, <1>2, <2>1, <2>3, <2>4 DEF TypeOK, MainType, SlotId, sync
    <2> QED
      BY <2>2, <2>3, <2>4, <2>5, <2>6 DEF SlotId
  <1>4. CASE slots[main.it].state # "FREE" /\ IncWrap(main.it) # nextFill
    <2>1. main' = [main EXCEPT !.it = IncWrap(main.it)] /\ slots' = slots /\ nextFill' = nextFill
      BY <1>4 DEF Seek, queue
    <2>2. IncWrap(main.it) \in SlotId
      BY <1>2, Wraps
    <2>3. main'.pc = "run" /\ main'.at = main.at /\ main' \in MainType
      BY <1>1, <1>2, <2>1, <2>2 DEF MainType
    <2>4. TypeOK'
      BY <1>1, <1>2, <2>1, <2>3 DEF TypeOK, MainType, SlotId, sync
    <2> QED
      BY <2>1, <2>3, <2>4 DEF InUse, SlotId
  <1>5. CASE slots[main.it].state # "FREE" /\ IncWrap(main.it) = nextFill
    <2>1. /\ slots' = slots \o Chunk /\ nextFill' = Len(slots) + 1
          /\ main' = [main EXCEPT !.it = Len(slots) + 1]
      BY <1>5 DEF Seek
    <2>2. /\ slots' \in Seq(Slot) /\ Len(slots') = Len(slots) + ChunkSize
          /\ SlotId \subseteq SlotId' /\ Len(slots) + 1 \in SlotId'
          /\ \A s \in SlotId : slots'[s] = slots[s]
          /\ \A s \in SlotId' : s \notin SlotId => slots'[s] = FreeSlot
      BY <1>2, <2>1, SlotsGrow
    <2>3. main'.pc = "run" /\ main'.at = main.at /\ main'.it = Len(slots) + 1
      BY <1>1, <1>2, <2>1 DEF MainType
    <2>4. InUse' = InUse /\ \A s \in InUse : slots'[s] = slots[s]
      BY <2>2 DEF InUse, FreeSlot
    <2>5. main' \in [pc : MainPc, at : 1 .. Len(Program) + 1, it : SlotId']
      BY <1>2, <2>1, <2>2 DEF MainType
    <2>6. Len(slots') > 0 /\ nextFill' \in SlotId'
      BY <1>2, <2>1, <2>2, PoolAssumption
    <2>7. worker' \in [Threads -> WorkerType']
      BY <1>1, <1>2, <2>2, Types DEF WorkerType
    <2>8. TypeOK'
      BY <1>1, <1>2, <2>2, <2>5, <2>6, <2>7 DEF TypeOK, WorkerType, SlotId, sync
    <2> QED
      BY <2>2, <2>3, <2>4, <2>8
  <1> QED
    BY <1>3, <1>4, <1>5

LEMMA FillPool ==
  ASSUME PoolSafe, Fill
  PROVE  /\ TypeOK' /\ InUse' = InUse \cup {main.it} /\ main.it \notin InUse
         /\ \A s \in InUse : slots'[s] = slots[s]
         /\ On \in Task /\ Adding[On] = main.at
         /\ slots'[main.it] = [state |-> "WAITING", task |-> On, barriers |-> Deps[On]]
         /\ main'.pc = "run" /\ main'.at = main.at + 1 /\ SlotId' = SlotId
  <1> DEFINE e == [state |-> "WAITING", task |-> On, barriers |-> Deps[On]]
  <1>1. /\ main.pc = "fill" /\ slots' = [slots EXCEPT ![main.it] = e]
        /\ nextFill' = IncWrap(nextFill)
        /\ main' = [pc |-> "run", at |-> main.at + 1, it |-> nextFill']
        /\ UNCHANGED <<sync, alive, progress, worker, idleLock, exitThreads>>
    BY DEF Fill, Proceed
  <1>2. /\ main.it \in SlotId /\ nextFill \in SlotId /\ main.at \in 1 .. Len(Program)
        /\ Program[main.at].do = "add" /\ slots[main.it].state = "PREPARING" /\ TypeOK
    BY <1>1, Types, Programs DEF PoolSafe, MainSlot, MainType
  <1>3. On \in Task /\ Adding[On] = main.at
    BY <1>2, Programs DEF On
  <1>4. e \in Slot
    BY <1>3, PoolAssumption DEF Slot, Task
  <1> HIDE DEF e
  <1>5. /\ slots' \in Seq(Slot) /\ Len(slots') = Len(slots) /\ slots'[main.it] = e
        /\ \A s \in SlotId : s # main.it => slots'[s] = slots[s]
    BY <1>1, <1>2, <1>4, SlotChanged
  <1>6. /\ main'.pc = "run" /\ main'.at = main.at + 1 /\ main'.it \in SlotId
        /\ nextFill' \in SlotId /\ main' \in MainType
    BY <1>1, <1>2, Wraps, Programs DEF MainType, MainPc
  <1>7. TypeOK'
    BY <1>1, <1>2, <1>5, <1>6 DEF TypeOK, MainType, SlotId, sync
  <1>8. SlotId' = SlotId
    BY <1>5 DEF SlotId
  <1>9. e.state = "WAITING"
    BY DEF e
  <1>10. InUse' = InUse \cup {main.it} /\ main.it \notin InUse
    BY <1>2, <1>5, <1>8, <1>9 DEF InUse
  <1> QED
    BY <1>2, <1>3, <1>5, <1>6, <1>7, <1>8, <1>10 DEF e, InUse

\* The other steps leave the queue alone.
LEMMA OtherMain ==
  ASSUME PoolSafe,
         Increment \/ Wait \/ Destroy \/ Await \/ Shutdown \/ WaitForThreads
  PROVE  /\ TypeOK' /\ slots' = slots
         /\ main' \in MainType /\ main'.at \in {main.at, main.at + 1}
         /\ main'.pc = "fill" => Increment /\ main'.it = main.it
         /\ Increment => main.pc = "increment" /\ main'.pc = "fill" /\ main'.at = main.at
         /\ main'.pc \in {"asleep", "destroy"} => main'.at = main.at /\ Doing("wait")
         /\ main'.pc # "increment"
         /\ main'.at # main.at =>
              /\ main.at <= Len(Program) /\ Program[main.at].do # "add"
              /\ Program[main.at].do = "await" => progress[On] = "returned"
  <1>1. TypeOK /\ main \in MainType /\ nextFill \in SlotId
    BY Types DEF PoolSafe
  <1>2. slots' = slots /\ nextFill' = nextFill
        /\ UNCHANGED <<mutex, progress, worker, idleLock>>
    BY DEF Increment, Wait, Destroy, Await, Shutdown, WaitForThreads, queue, sync
  <1>3. CASE Increment
    <2>1. main.pc = "increment" /\ main' = [main EXCEPT !.pc = "fill"]
          /\ UNCHANGED <<alive, exitThreads>>
      BY <1>3 DEF Increment
    <2>2. main' \in MainType /\ main'.pc = "fill" /\ main'.at = main.at /\ main'.it = main.it
      BY <1>1, <2>1 DEF MainType, MainPc
    <2>3. locked' \in [Counter -> BOOLEAN] /\ count' \in [Counter -> Int]
      <3>1. PICK c : c = CounterOf[On]
        OBVIOUS
      <3>2. CASE c = None
        BY <1>1, <1>3, <3>1, <3>2 DEF Increment, sync, TypeOK
      <3>3. CASE c # None
        <4>1. locked' = [locked EXCEPT ![c] = TRUE] /\ count' = [count EXCEPT ![c] = count[c] + 1]
          BY <1>3, <3>1, <3>3 DEF Increment
        <4>2. main.at \in 1 .. Len(Program) /\ Program[main.at].do = "add"
          BY <1>1, <2>1, Programs DEF PoolSafe, MainSlot, MainType
        <4>3. On \in Task
          BY <4>2, Programs DEF On
        <4>4. c \in Counter
          BY <3>1, <3>3, <4>3, PoolAssumption
        <4>5. count[c] + 1 \in Int
          BY <1>1, <4>4 DEF TypeOK
        <4> QED
          BY <1>1, <4>1, <4>5 DEF TypeOK
      <3> QED
        BY <3>2, <3>3
    <2>4. TypeOK'
      BY <1>1, <1>2, <2>1, <2>2, <2>3 DEF TypeOK, MainType, SlotId
    <2> QED
      BY <1>2, <1>3, <2>1, <2>2, <2>4
  <1>4. CASE Wait \/ Shutdown \/ WaitForThreads
    <2>1. /\ UNCHANGED <<sync, alive>> /\ exitThreads' \in {TRUE, exitThreads}
          /\ \E p \in {"destroy", "asleep", "join", "end"} :
               /\ main' = [main EXCEPT !.pc = p]
               /\ p \in {"destroy", "asleep"} => Doing("wait")
          /\ main.pc \in {"run", "join"}
      BY <1>4 DEF Wait, Shutdown, WaitForThreads, Doing
    <2>2. /\ main' \in MainType /\ main'.at = main.at
          /\ main'.pc \in {"destroy", "asleep", "join", "end"}
          /\ main'.pc \in {"destroy", "asleep"} => Doing("wait")
      BY <1>1, <2>1 DEF MainType, MainPc
    <2>3. TypeOK'
      BY <1>1, <1>2, <2>1, <2>2 DEF TypeOK, MainType, SlotId, sync
    <2>4. ~ Increment
      BY <2>1 DEF Increment
    <2> QED
      BY <1>2, <2>2, <2>3, <2>4
  <1>5. CASE Destroy \/ Await
    <2>1. /\ UNCHANGED <<sync, exitThreads>> /\ (alive' = alive \/ alive' = alive \ {On})
          /\ main' = [pc |-> "run", at |-> main.at + 1, it |-> nextFill']
          /\ \/ main.pc = "destroy"
             \/ Doing("await") /\ progress[On] = "returned"
      BY <1>5 DEF Destroy, Await, Proceed
    <2>2. /\ main.at <= Len(Program) /\ Program[main.at].do # "add" /\ main.pc # "increment"
          /\ Program[main.at].do = "await" => progress[On] = "returned"
      BY <2>1 DEF PoolSafe, MainSlot, Doing
    <2>3. main' \in MainType /\ main'.at = main.at + 1 /\ main'.pc = "run"
      BY <1>1, <1>2, <2>1, <2>2, Programs DEF MainType, MainPc
    <2>4. TypeOK'
      BY <1>1, <1>2, <2>1, <2>3 DEF TypeOK, MainType, SlotId, sync
    <2>5. ~ Increment
      BY <2>2 DEF Increment
    <2> QED
      BY <1>2, <2>2, <2>3, <2>4, <2>5
  <1> QED
    BY <1>3, <1>4, <1>5

LEMMA MainPool ==
  ASSUME PoolSafe, MainStep
  PROVE  PoolSafe'
  <1>1. worker' = worker
    BY MainFrame
  <1>2. main \in MainType /\ \A w \in Threads : worker[w].it \in SlotId
    BY Types DEF PoolSafe, WorkerType
  <1>3. \A v \in Threads : Holds(v)' <=> Holds(v)
    BY <1>1 DEF Holds, Finishing
  <1>4. \A s \in InUse : slots[s].task \in Task /\ Adding[slots[s].task] < main.at
    BY DEF PoolSafe, Filled
  <1>5. \A t \in Task : Adding[t] \in Int
    BY Programs
  <1>6. CASE Fill
    <2>1. TypeOK' /\ MainSlot'
      BY <1>6, FillPool DEF MainSlot
    <2>2. Filled' /\ Single'
      <3>1. \A s \in InUse : Adding[slots[s].task] < main.at /\ slots[s].task # On
        BY <1>2, <1>4, <1>6, FillPool DEF MainType
      <3> QED
        BY <1>2, <1>4, <1>5, <1>6, <3>1, FillPool DEF MainType, Filled, Single, PoolSafe
    <2>3. Owned'
      <3>1. \A v \in Threads : Holds(v) => worker[v].it \in InUse
        BY <1>2 DEF PoolSafe, Owned, InUse
      <3> QED
        BY <1>1, <1>3, <1>6, <3>1, FillPool DEF PoolSafe, Owned
    <2> QED
      BY <2>1, <2>2, <2>3 DEF PoolSafe
  <1>7. CASE ~ Fill
    <2>1. /\ TypeOK' /\ InUse' = InUse /\ \A s \in InUse : slots'[s] = slots[s]
          /\ main'.at \in {main.at, main.at + 1}
      <3>1. CASE Seek
        BY <3>1, SeekPool
      <3>2. CASE Increment \/ Wait \/ Destroy \/ Await \/ Shutdown \/ WaitForThreads
        BY <3>2, OtherMain DEF InUse, SlotId
      <3> QED
        BY <1>7, <3>1, <3>2 DEF MainStep
    <2>2. MainSlot'
      <3>1. CASE Seek
        BY <3>1, SeekPool DEF MainSlot, Seek, Doing
      <3>2. CASE Increment \/ Wait \/ Destroy \/ Await \/ Shutdown \/ WaitForThreads
        BY <3>2, OtherMain DEF MainSlot, PoolSafe, Doing
      <3> QED
        BY <1>7, <3>1, <3>2 DEF MainStep
    <2>3. Filled' /\ Single'
      BY <1>2, <1>4, <1>5, <2>1 DEF MainType, Filled, Single, PoolSafe
    <2>4. Owned'
      <3>1. \A v \in Threads : Holds(v) => worker[v].it \in InUse
        BY <1>2 DEF PoolSafe, Owned, InUse
      <3> QED
        BY <1>1, <1>3, <2>1, <3>1 DEF PoolSafe, Owned
    <2> QED
      BY <2>1, <2>2, <2>3, <2>4 DEF PoolSafe
  <1> QED
    BY <1>6, <1>7

LEMMA InitPool == Init => PoolSafe
  <1> SUFFICES ASSUME Init PROVE PoolSafe
    OBVIOUS
  <1>1. ChunkSize \in Nat \ {0} /\ NumTasks \in Nat /\ Len(Program) \in Nat
    BY PoolAssumption, Programs
  <1>2. FreeSlot \in Slot
    BY <1>1 DEF FreeSlot, Slot
  <1>3. slots \in Seq(Slot) /\ Len(slots) = ChunkSize /\ \A s \in SlotId : slots[s] = FreeSlot
    BY <1>1, <1>2 DEF Init, Chunk, SlotId
  <1>4. main \in MainType /\ worker \in [Threads -> WorkerType]
    BY <1>1, <1>3 DEF Init, MainType, MainPc, WorkerType, WorkerPc, SlotId
  <1>5. TypeOK
    <2>1. locked \in [Counter -> BOOLEAN] /\ exitThreads \in BOOLEAN
      BY DEF Init
    <2>2. /\ count \in [Counter -> Int]
          /\ progress \in [Task -> {"none", "part", "returned"}]
      BY DEF Init
    <2>3. /\ mutex \in [Counter -> Threads \cup {None}] /\ alive \subseteq Counter
          /\ idleLock \in Threads \cup {None}
      BY DEF Init
    <2>4. Len(slots) > 0 /\ nextFill \in 1 .. Len(slots)
      BY <1>1, <1>3 DEF Init
    <2> QED
      BY <1>3, <1>4, <2>1, <2>2, <2>3, <2>4 DEF TypeOK, MainType, WorkerType, SlotId
  <1>6. InUse = {}
    BY <1>3 DEF InUse, FreeSlot
  <1>7. \A w \in Threads : ~ Holds(w)
    BY DEF Init, Holds, Finishing
  <1> QED
    BY <1>5, <1>6, <1>7 DEF Init, PoolSafe, MainSlot, Filled, Single, Owned

LEMMA SamePool == ASSUME PoolSafe, UNCHANGED vars PROVE PoolSafe'
  BY DEF vars, PoolSafe, TypeOK, MainSlot, Filled, Single, Owned, InUse, SlotId, Holds, Finishing

LEMMA NextPool == ASSUME PoolSafe, [Next]_vars PROVE PoolSafe'
  BY WorkerSteps, WorkerPool, MainPool, SamePool DEF Next, PoolSafe

\* The types hold in every state.  With them: a thread that checks, calls or
\* leaves a task alone has its slot, and a task has one slot at most.
THEOREM PoolInvariant == Spec => []PoolSafe
  <1>1. Init => PoolSafe
    BY InitPool
  <1>2. PoolSafe /\ [Next]_vars => PoolSafe'
    BY NextPool
  <1> QED
    BY <1>1, <1>2, PTL DEF Spec

\* Every variable stays in its type, the queue while it grows too: the place
\* of the main thread in its program, and every thread's place in the queue.
THEOREM TypeCorrect == Spec => []TypeOK
  <1>1. PoolSafe => TypeOK
    BY DEF PoolSafe
  <1> QED
    BY <1>1, PoolInvariant, PTL

-----------------------------------------------------------------------------
(***************************************************************************)
(* The second layer.                                                       *)
(***************************************************************************)
LEMMA HeldTask ==
  ASSUME PoolSafe, NEW w \in Threads, Holds(w)
  PROVE  /\ worker[w].it \in InUse
         /\ TaskOf(w) \in Task /\ Adding[TaskOf(w)] < main.at
         /\ \A s \in InUse : slots[s].task = TaskOf(w) => s = worker[w].it
         /\ \A v \in Threads : v # w /\ Holds(v) => TaskOf(v) # TaskOf(w)
  <1>1. \A v \in Threads : Holds(v) => worker[v].it \in InUse
    BY Types DEF PoolSafe, Owned, WorkerType, InUse
  <1> QED
    BY <1>1 DEF PoolSafe, Owned, Filled, Single, TaskOf

\* Of the progress of tasks, a thread changes that of the task it has found.
LEMMA ProgressMoves ==
  ASSUME TasksSafe, NEW w \in Threads, Moves(w)
  PROVE  /\ \A t \in Task : progress[t] = "returned" => progress'[t] = "returned"
         /\ \A t \in Task : progress'[t] # progress[t] => Holds(w) /\ t = TaskOf(w)
         /\ progress' # progress => CallsInPart(w) \/ Returns(w)
  <1>1. CASE progress' = progress
    BY <1>1
  <1>2. CASE CallsInPart(w) \/ Returns(w)
    <2>1. PICK x \in {"part", "returned"} : progress' = [progress EXCEPT ![TaskOf(w)] = x]
      BY <1>2 DEF CallsInPart, Returns
    <2>2. Holds(w) /\ ~ Finishing(w)
      BY <1>2 DEF CallsInPart, Returns, Holds, Finishing
    <2>3. progress[TaskOf(w)] # "returned" /\ DOMAIN progress = Task
      BY <2>2 DEF TasksSafe, ThreadKnows, PoolSafe, TypeOK
    <2> QED
      BY <1>2, <2>1, <2>2, <2>3
  <1>3. progress' = progress \/ CallsInPart(w) \/ Returns(w)
    BY DEF Moves, Idles, Claims, Passes, GivesBack, Finds, Drops, Counts, Unlocks, Releases,
           Frees, Calm
  <1> QED
    BY <1>1, <1>2, <1>3

\* The other threads stay where they are, and so do their tasks.
LEMMA OthersStay ==
  ASSUME TasksSafe, NEW w \in Threads, Step(w), Moves(w), NEW v \in Threads, v # w
  PROVE  /\ worker'[v] = worker[v] /\ (Holds(v)' <=> Holds(v)) /\ (Finishing(v)' <=> Finishing(v))
         /\ TaskOf(v)' = TaskOf(v)
         /\ Holds(v) => TaskOf(v) \in Task /\ progress'[TaskOf(v)] = progress[TaskOf(v)]
  <1>1. PoolSafe /\ TypeOK
    BY DEF TasksSafe, PoolSafe
  <1>2. worker'[v] = worker[v]
    BY DEF Step, Alone
  <1>3. (Holds(v)' <=> Holds(v)) /\ (Finishing(v)' <=> Finishing(v))
    BY <1>2 DEF Holds, Finishing
  <1>4. worker[v].it \in SlotId
    BY <1>1, Types DEF WorkerType
  <1>5. TaskOf(v)' = TaskOf(v)
    BY <1>1, <1>2, <1>4, InUseStays DEF TaskOf
  <1>6. Holds(v) => TaskOf(v) \in Task /\ progress'[TaskOf(v)] = progress[TaskOf(v)]
    BY <1>1, HeldTask, ProgressMoves
  <1> QED
    BY <1>2, <1>3, <1>5, <1>6

LEMMA WorkerTasks ==
  ASSUME TasksSafe, NEW w \in Threads, Step(w), Moves(w)
  PROVE  TasksSafe'
  <1>1. PoolSafe /\ TypeOK /\ PoolSafe'
    BY WorkerPool DEF TasksSafe, PoolSafe
  <1>2. main'.at = main.at
    BY <1>1, MainPlace
  <1>3. Awaited'
    BY <1>2, ProgressMoves, Programs DEF TasksSafe, Awaited
  <1>4. ASSUME NEW t \in Task PROVE TaskKnown(t)'
    <2>1. progress'[t] # "none" => Adding[t] < main.at
      BY <1>1, ProgressMoves, HeldTask DEF TasksSafe, TaskKnown
    <2>2. ASSUME Adding[t] < main.at, progress'[t] # "returned"
          PROVE  \E s \in InUse' : slots'[s].task = t
      <3>1. progress[t] # "returned"
        BY <2>2, ProgressMoves
      <3>2. PICK s \in InUse : slots[s].task = t
        BY <2>2, <3>1 DEF TasksSafe, TaskKnown
      <3>3. s = worker[w].it => ~ Frees(w)
        BY <3>1, <3>2 DEF TasksSafe, ThreadKnows, Frees, Holds, Finishing, TaskOf
      <3> QED
        BY <1>1, <3>2, <3>3, InUseStays DEF InUse
    <2> QED
      BY <1>2, <2>1, <2>2 DEF TaskKnown
  <1>5. ASSUME NEW v \in Threads PROVE ThreadKnows(v)'
    <2>1. CASE v # w
      BY <2>1, OthersStay DEF TasksSafe, ThreadKnows, Holds, Finishing
    <2>2. CASE v = w
      <3>1. worker'[w].it = worker[w].it => TaskOf(w)' = TaskOf(w)
        BY <1>1, InUseStays DEF TaskOf
      <3>2. Holds(w) => TaskOf(w) \in Task /\ (Finishing(w) <=> progress[TaskOf(w)] = "returned")
        BY <1>1, HeldTask DEF TasksSafe, ThreadKnows
      <3>3. CASE Claims(w)
        <4>1. worker[w].it \in InUse /\ TaskOf(w) = slots[worker[w].it].task
          BY <1>1, <3>3, InUseStays DEF Claims, InUse, TaskOf
        <4>2. progress[TaskOf(w)] # "returned"
          BY <3>3, <4>1 DEF Claims, TasksSafe, SlotKnown
        <4> QED
          BY <2>2, <3>1, <3>3, <4>2 DEF Claims, Calm, ThreadKnows, Holds, Finishing
      <3>4. CASE Returns(w)
        <4>1. TaskOf(w) \in Task
          BY <3>2, <3>4 DEF Returns, Holds
        <4>2. progress'[TaskOf(w)] = "returned" /\ TaskOf(w)' = TaskOf(w)
          BY <1>1, <3>1, <3>4, <4>1 DEF Returns, TypeOK
        <4>3. CounterOf[TaskOf(w)] \in Counter \cup {None}
          BY <4>1, PoolAssumption
        <4> QED
          BY <2>2, <3>4, <4>2, <4>3 DEF Returns, ThreadKnows, Holds, Finishing
      <3>5. CASE Passes(w) \/ Finds(w)
        BY <2>2, <3>1, <3>2, <3>5 DEF Passes, Finds, Calm, ThreadKnows, Holds, Finishing
      <3>6. CASE Counts(w) \/ Unlocks(w) \/ Releases(w)
        <4>1. CounterOf[TaskOf(w)] \in Counter
          BY <3>6 DEF Counts, Unlocks, Releases, TasksSafe, ThreadKnows
        <4> QED
          BY <2>2, <3>1, <3>2, <3>6, <4>1
             DEF Counts, Unlocks, Releases, ThreadKnows, Holds, Finishing
      <3>7. CASE ~ Holds(w)'
        BY <2>2, <3>7 DEF ThreadKnows, Holds, Finishing
      <3> QED
        BY <3>3, <3>4, <3>5, <3>6, <3>7
           DEF Moves, Idles, GivesBack, Drops, CallsInPart, Frees
    <2> QED
      BY <2>1, <2>2
  <1>6. ASSUME NEW s \in InUse' PROVE SlotKnown(s)'
    <2>1. s \in InUse /\ s \in SlotId /\ slots'[s].task = slots[s].task
      BY <1>1, InUseStays DEF InUse
    <2>2. slots[s].task \in Task /\ SlotKnown(s)
      BY <1>1, <2>1 DEF PoolSafe, Filled, TasksSafe
    <2>3. CASE s # worker[w].it \/ ~ Holds(w)
      <3>1. slots'[s].state = "WAITING" => slots[s].state = "WAITING"
        <4>1. s # worker[w].it => slots'[s] = slots[s]
          BY <2>1 DEF Step, SlotsStay
        <4>2. ~ Holds(w) => slots' = slots \/ slots'[worker[w].it].state = "RUNNING"
          BY SlotCases DEF SlotCase
        <4> QED
          BY <2>3, <4>1, <4>2
      <3>2. progress'[slots[s].task] = progress[slots[s].task]
        BY <1>1, <2>1, <2>2, <2>3, HeldTask, ProgressMoves
      <3> QED
        BY <2>1, <2>2, <3>1, <3>2 DEF SlotKnown
    <2>4. CASE s = worker[w].it /\ Holds(w)
      <3>1. slots[s].state = "RUNNING" /\ TaskOf(w) = slots[s].task
        BY <1>1, <2>4 DEF PoolSafe, Owned, TaskOf
      <3>2. ASSUME slots'[s].state = "WAITING" PROVE progress'[slots[s].task] # "returned"
        <4>1. GivesBack(w) \/ CallsInPart(w)
          BY <2>4, <3>1, <3>2 DEF Moves, Idles, Claims, Passes, Finds, Drops, Returns, Counts,
                                  Unlocks, Releases, Frees
        <4>2. CASE GivesBack(w)
          BY <2>4, <3>1, <4>2 DEF GivesBack, Calm, TasksSafe, ThreadKnows, Finishing
        <4>3. CASE CallsInPart(w)
          BY <1>1, <2>2, <3>1, <4>3 DEF CallsInPart, TypeOK
        <4> QED
          BY <4>1, <4>2, <4>3
      <3> QED
        BY <2>1, <3>2 DEF SlotKnown
    <2> QED
      BY <2>3, <2>4
  <1> QED
    BY <1>1, <1>3, <1>4, <1>5, <1>6 DEF TasksSafe

\* What a step of the main thread does to the tasks in the queue: Fill adds one.
LEMMA MainQueue ==
  ASSUME PoolSafe, MainStep
  PROVE  /\ InUse \subseteq InUse' /\ \A s \in InUse : slots'[s] = slots[s]
         /\ ~ Fill => InUse' = InUse
         /\ main.at \in Int /\ main'.at \in {main.at, main.at + 1}
         /\ main'.at # main.at =>
              /\ main.at \in 1 .. Len(Program)
              /\ Program[main.at].do = "add" => Fill
              /\ Program[main.at].do = "await" => progress[On] = "returned"
         /\ worker' = worker /\ progress' = progress
         /\ \A v \in Threads : Holds(v) => worker[v].it \in InUse /\ TaskOf(v)' = TaskOf(v)
  <1>1. /\ InUse \subseteq InUse' /\ \A s \in InUse : slots'[s] = slots[s]
        /\ ~ Fill => InUse' = InUse
        /\ main'.at \in {main.at, main.at + 1}
        /\ main'.at # main.at =>
             /\ main.at <= Len(Program)
             /\ Program[main.at].do = "add" => Fill
             /\ Program[main.at].do = "await" => progress[On] = "returned"
    <2>1. CASE Seek
      BY <2>1, SeekPool
    <2>2. CASE Fill
      <3>1. Program[main.at].do = "add" /\ main.at <= Len(Program)
        BY <2>2 DEF Fill, PoolSafe, MainSlot
      <3> QED
        BY <2>2, <3>1, FillPool
    <2>3. CASE Increment \/ Wait \/ Destroy \/ Await \/ Shutdown \/ WaitForThreads
      BY <2>3, OtherMain DEF InUse, SlotId
    <2> QED
      BY <2>1, <2>2, <2>3 DEF MainStep
  <1>2. main.at \in 1 .. Len(Program) + 1
    BY Types DEF PoolSafe, MainType
  <1>3. worker' = worker /\ progress' = progress
    BY MainFrame
  <1>4. \A v \in Threads : Holds(v) => worker[v].it \in InUse
    BY HeldTask
  <1> QED
    BY <1>1, <1>2, <1>3, <1>4, Programs DEF TaskOf

LEMMA MainTasks ==
  ASSUME TasksSafe, MainStep
  PROVE  TasksSafe'
  <1>1. PoolSafe /\ PoolSafe'
    BY MainPool DEF TasksSafe
  <1>2. worker' = worker /\ progress' = progress
    BY MainFrame
  <1>3. Awaited'
    <2> SUFFICES ASSUME NEW k \in 1 .. Len(Program), k < main'.at, Program[k].do = "await"
                 PROVE  progress[Program[k].on] = "returned"
      BY <1>2 DEF Awaited
    <2>1. CASE k < main.at
      BY <2>1 DEF TasksSafe, Awaited
    <2>2. CASE ~ (k < main.at)
      <3>1. k = main.at /\ main'.at # main.at
        BY <1>1, <2>2, MainQueue, Programs
      <3> QED
        BY <1>1, <3>1, MainQueue DEF On
    <2> QED
      BY <2>1, <2>2
  <1>4. ASSUME NEW t \in Task PROVE TaskKnown(t)'
    <2>1. Adding[t] \in Int /\ Program[Adding[t]].do = "add" /\ Program[Adding[t]].on = t
      BY Programs
    <2>2. progress[t] # "none" => Adding[t] < main'.at
      BY <1>1, <2>1, MainQueue DEF TasksSafe, TaskKnown
    <2>3. ASSUME Adding[t] < main'.at, progress[t] # "returned"
          PROVE  \E s \in InUse' : slots'[s].task = t
      <3>1. CASE Adding[t] < main.at
        BY <1>1, <2>3, <3>1, MainQueue DEF TasksSafe, TaskKnown
      <3>2. CASE ~ (Adding[t] < main.at)
        <4>1. Adding[t] = main.at /\ main'.at # main.at
          BY <1>1, <2>1, <2>3, <3>2, MainQueue
        <4>2. Fill /\ On = t
          BY <1>1, <2>1, <4>1, MainQueue DEF On
        <4> QED
          BY <1>1, <4>2, FillPool
      <3> QED
        BY <3>1, <3>2
    <2> QED
      BY <1>2, <2>2, <2>3 DEF TaskKnown
  <1>5. ASSUME NEW v \in Threads PROVE ThreadKnows(v)'
    BY <1>1, <1>2, MainQueue DEF TasksSafe, ThreadKnows, Holds, Finishing
  <1>6. ASSUME NEW s \in InUse' PROVE SlotKnown(s)'
    <2>1. CASE s \in InUse
      BY <1>1, <1>2, <2>1, MainQueue DEF TasksSafe, SlotKnown
    <2>2. CASE s \notin InUse
      <3>1. Fill
        BY <1>1, <2>2, MainQueue
      <3>2. slots'[s].task = On /\ On \in Task /\ Adding[On] = main.at
        BY <1>1, <2>2, <3>1, FillPool
      <3>3. progress[On] = "none"
        BY <1>1, <3>2, MainQueue DEF TasksSafe, TaskKnown
      <3> QED
        BY <1>2, <3>2, <3>3 DEF SlotKnown
    <2> QED
      BY <2>1, <2>2
  <1> QED
    BY <1>1, <1>3, <1>4, <1>5, <1>6 DEF TasksSafe

LEMMA InitTasks == Init => TasksSafe
  <1> SUFFICES ASSUME Init PROVE TasksSafe
    OBVIOUS
  <1>1. PoolSafe
    BY InitPool
  <1>2. main.at = 1 /\ \A t \in Task : progress[t] = "none"
    BY DEF Init
  <1>3. \A k \in 1 .. Len(Program) : ~ (k < main.at)
    BY <1>2, Programs
  <1>4. \A t \in Task : ~ (Adding[t] < main.at)
    BY <1>3, Programs
  <1>5. InUse = {}
    BY <1>1, <1>4 DEF PoolSafe, Filled
  <1>6. \A w \in Threads : worker[w].pc = "top"
    BY DEF Init
  <1> QED
    BY <1>1, <1>2, <1>3, <1>4, <1>5, <1>6
       DEF TasksSafe, Awaited, TaskKnown, ThreadKnows, Holds, Finishing

LEMMA NextTasks == ASSUME TasksSafe, [Next]_vars PROVE TasksSafe'
  <1>1. CASE UNCHANGED vars
    BY <1>1 DEF vars, TasksSafe, PoolSafe, TypeOK, MainSlot, Filled, Single, Owned, Awaited,
                TaskKnown, ThreadKnows, SlotKnown, InUse, SlotId, Holds, Finishing, TaskOf
  <1>2. CASE Next
    BY <1>2, WorkerSteps, WorkerTasks, MainTasks DEF Next, TasksSafe, PoolSafe
  <1> QED
    BY <1>1, <1>2

-----------------------------------------------------------------------------
(***************************************************************************)
(* The third layer.                                                        *)
(***************************************************************************)
LEMMA Outstandings ==
  ASSUME NEW c
  PROVE  /\ IsFiniteSet(Outstanding(c)) /\ Cardinality(Outstanding(c)) \in Nat
         /\ Cardinality(Outstanding(c)) = 0 <=> Outstanding(c) = {}
  <1>1. IsFiniteSet(Task)
    BY PoolAssumption, FS_Interval DEF Task
  <1>2. Outstanding(c) \subseteq Task
    BY DEF Outstanding
  <1> QED
    BY <1>1, <1>2, FS_Subset, FS_CardinalityType, FS_EmptySet

LEMMA CountingTask ==
  ASSUME TasksSafe, NEW w \in Threads, worker[w].pc = "count"
  PROVE  /\ TaskOf(w) \in Task /\ CounterOf[TaskOf(w)] \in Counter
         /\ progress[TaskOf(w)] = "returned"
         /\ TaskOf(w) \in Outstanding(CounterOf[TaskOf(w)])
  <1>1. Holds(w) /\ Finishing(w)
    BY DEF Holds, Finishing
  <1>2. /\ TaskOf(w) \in Task /\ Adding[TaskOf(w)] < main.at
        /\ CounterOf[TaskOf(w)] \in Counter /\ progress[TaskOf(w)] = "returned"
    BY <1>1, HeldTask DEF TasksSafe, ThreadKnows
  <1>3. Added(TaskOf(w)) /\ Counting(TaskOf(w))
    BY <1>2 DEF Added, Counting
  <1> QED
    BY <1>2, <1>3 DEF Outstanding

\* A thread takes one task from the counter of the task it has called.
LEMMA WorkerOutstanding ==
  ASSUME TasksSafe, NEW w \in Threads, Step(w), Moves(w)
  PROVE  /\ \A t \in Task : Added(t)' <=> Added(t)
         /\ ~ Counts(w) => \A c \in Counter : Outstanding(c)' = Outstanding(c)
         /\ Counts(w) =>
              \A c \in Counter :
                Outstanding(c)' = IF c = CounterOf[TaskOf(w)] THEN Outstanding(c) \ {TaskOf(w)}
                                  ELSE Outstanding(c)
  <1>1. PoolSafe /\ TypeOK
    BY DEF TasksSafe, PoolSafe
  <1>2. \A t \in Task : Added(t)' <=> Added(t)
    BY <1>1, MainPlace DEF Added
  <1>3. \A v \in Threads : v # w =>
          (worker'[v].pc = "count" <=> worker[v].pc = "count") /\ TaskOf(v)' = TaskOf(v)
    BY OthersStay
  <1>4. CASE ~ Counts(w) /\ ~ Returns(w)
    <2>1. worker[w].pc # "count" /\ worker'[w].pc # "count"
      BY <1>4 DEF Moves, Idles, Claims, Passes, GivesBack, Finds, Drops, CallsInPart, Unlocks,
                  Releases, Frees, Holds, Finishing
    <2>2. \A t : Counting(t)' <=> Counting(t)
      BY <1>3, <2>1 DEF Counting
    <2>3. \A t \in Task : progress'[t] = "returned" <=> progress[t] = "returned"
      <3>1. CASE progress' = progress
        BY <3>1
      <3>2. CASE CallsInPart(w)
        <4>1. progress[TaskOf(w)] # "returned"
          BY <3>2 DEF CallsInPart, TasksSafe, ThreadKnows, Holds, Finishing
        <4> QED
          BY <1>1, <3>2, <4>1 DEF CallsInPart, TypeOK
      <3> QED
        BY <1>4, <3>1, <3>2, ProgressMoves
    <2>4. \A c \in Counter : Outstanding(c)' = Outstanding(c)
      BY <1>2, <2>2, <2>3 DEF Outstanding
    <2> QED
      BY <1>2, <1>4, <2>4
  <1>5. CASE Returns(w)
    <2>1. worker[w].pc = "found" /\ Holds(w) /\ ~ Finishing(w) /\ worker'[w].it = worker[w].it
      BY <1>5 DEF Returns, Holds, Finishing
    <2>2. TaskOf(w) \in Task /\ progress[TaskOf(w)] # "returned" /\ TaskOf(w)' = TaskOf(w)
      BY <1>1, <2>1, HeldTask, InUseStays DEF TasksSafe, ThreadKnows, TaskOf
    <2>3. /\ progress'[TaskOf(w)] = "returned"
          /\ \A t \in Task : t # TaskOf(w) => progress'[t] = progress[t]
      BY <1>1, <1>5, <2>2 DEF Returns, TypeOK
    <2>4. \A t : t # TaskOf(w) => (Counting(t)' <=> Counting(t))
      BY <1>3, <2>1, <2>2 DEF Counting
    <2>5. CounterOf[TaskOf(w)] \in Counter => Counting(TaskOf(w))'
      <3>1. CounterOf[TaskOf(w)] \in Counter => worker'[w].pc = "count"
        BY <1>5, PoolAssumption DEF Returns
      <3> QED
        BY <2>2, <3>1 DEF Counting
    <2>6. \A c \in Counter : Outstanding(c)' = Outstanding(c)
      <3> SUFFICES ASSUME NEW c \in Counter, NEW t \in Task, CounterOf[t] = c
                   PROVE  (progress'[t] # "returned" \/ Counting(t)')
                            <=> (progress[t] # "returned" \/ Counting(t))
        BY <1>2 DEF Outstanding
      <3>1. CASE t = TaskOf(w)
        BY <2>2, <2>5, <3>1
      <3>2. CASE t # TaskOf(w)
        BY <2>3, <2>4, <3>2
      <3> QED
        BY <3>1, <3>2
    <2>7. ~ Counts(w)
      BY <2>1 DEF Counts
    <2> QED
      BY <1>2, <2>6, <2>7
  <1>6. CASE Counts(w)
    <2>1. /\ worker[w].pc = "count" /\ Holds(w) /\ progress' = progress
          /\ worker'[w].pc # "count"
      BY <1>6 DEF Counts, Holds, Finishing
    <2>2. /\ TaskOf(w) \in Task /\ progress[TaskOf(w)] = "returned"
          /\ TaskOf(w)' = TaskOf(w)
      BY <1>1, <1>6, <2>1, CountingTask, InUseStays DEF Counts, TaskOf
    <2>3. ~ Counting(TaskOf(w))'
      <3>1. \A v \in Threads : v # w /\ worker[v].pc = "count" => TaskOf(v) # TaskOf(w)
        BY <1>1, <2>1, HeldTask DEF Holds, Finishing
      <3> QED
        BY <1>3, <2>1, <2>2, <3>1 DEF Counting
    <2>4. \A t : t # TaskOf(w) => (Counting(t)' <=> Counting(t))
      BY <1>3, <2>1 DEF Counting
    <2>5. ASSUME NEW c \in Counter
          PROVE  Outstanding(c)' = IF c = CounterOf[TaskOf(w)]
                                   THEN Outstanding(c) \ {TaskOf(w)} ELSE Outstanding(c)
      <3>1. \A t \in Task :
              t \in Outstanding(c)' <=> t \in Outstanding(c) /\ t # TaskOf(w)
        <4> TAKE t \in Task
        <4>1. CASE t = TaskOf(w)
          BY <2>1, <2>2, <2>3, <4>1 DEF Outstanding
        <4>2. CASE t # TaskOf(w)
          BY <1>2, <2>1, <2>4, <4>2 DEF Outstanding
        <4> QED
          BY <4>1, <4>2
      <3>2. Outstanding(c) \subseteq Task /\ Outstanding(c)' \subseteq Task
        BY DEF Outstanding
      <3>3. c # CounterOf[TaskOf(w)] => TaskOf(w) \notin Outstanding(c)
        BY DEF Outstanding
      <3> QED
        BY <3>1, <3>2, <3>3
    <2> QED
      BY <1>2, <1>6, <2>5
  <1> QED
    BY <1>4, <1>5, <1>6

\* The main thread adds a task to its counter before it fills the slot.
LEMMA MainOutstanding ==
  ASSUME TasksSafe, MainStep
  PROVE  /\ \A t \in Task : Added(t)' <=> Added(t) \/ (Increment /\ t = On)
         /\ Increment => /\ On \in Task /\ main.at \in 1 .. Len(Program)
                         /\ Program[main.at].do = "add" /\ Program[main.at].on = On
                         /\ ~ Added(On) /\ progress[On] = "none"
         /\ \A c \in Counter :
              Outstanding(c)' = IF Increment /\ CounterOf[On] = c THEN Outstanding(c) \cup {On}
                                ELSE Outstanding(c)
  <1>1. PoolSafe /\ main.at \in 1 .. Len(Program) + 1
    BY Types DEF TasksSafe, PoolSafe, MainType
  <1>2. worker' = worker /\ progress' = progress
    BY MainFrame
  <1>3. Increment => /\ On \in Task /\ main.at \in 1 .. Len(Program)
                     /\ Program[main.at].do = "add" /\ Program[main.at].on = On
                     /\ ~ Added(On) /\ progress[On] = "none" /\ Adding[On] = main.at
    <2> SUFFICES ASSUME Increment
                 PROVE  /\ On \in Task /\ main.at \in 1 .. Len(Program)
                        /\ Program[main.at].do = "add" /\ Program[main.at].on = On
                        /\ ~ Added(On) /\ progress[On] = "none" /\ Adding[On] = main.at
      OBVIOUS
    <2>1. main.at \in 1 .. Len(Program) /\ Program[main.at].do = "add"
          /\ main.pc = "increment"
      BY <1>1, Programs DEF Increment, PoolSafe, MainSlot
    <2>2. On \in Task /\ Program[main.at].on = On /\ Adding[On] = main.at
      BY <2>1, Programs DEF On
    <2>3. ~ Added(On)
      BY <2>1, <2>2 DEF Added
    <2> QED
      BY <2>1, <2>2, <2>3 DEF TasksSafe, TaskKnown
  <1>4. ASSUME NEW t \in Task PROVE Added(t)' <=> Added(t) \/ (Increment /\ t = On)
    <2>1. /\ Adding[t] \in 1 .. Len(Program)
          /\ Program[Adding[t]].do = "add" /\ Program[Adding[t]].on = t
      BY Programs
    <2>2. CASE Increment
      <3>1. main'.pc = "fill" /\ main'.at = main.at /\ main.pc = "increment"
        BY <1>1, <2>2, OtherMain
      <3>2. Adding[t] = main.at <=> t = On
        BY <1>3, <2>1, <2>2
      <3> QED
        BY <2>2, <3>1, <3>2 DEF Added
    <2>3. CASE Seek
      <3>1. main'.pc # "fill" /\ main'.at = main.at /\ main.pc = "run" /\ ~ Increment
        BY <1>1, <2>3, SeekPool DEF Seek, Doing, Increment
      <3> QED
        BY <3>1 DEF Added
    <2>4. CASE Fill
      <3>1. /\ main'.pc = "run" /\ main'.at = main.at + 1 /\ main.pc = "fill"
            /\ ~ Increment
        BY <1>1, <2>4, FillPool DEF Fill, Increment
      <3> QED
        BY <1>1, <2>1, <3>1 DEF Added
    <2>5. CASE Wait \/ Destroy \/ Await \/ Shutdown \/ WaitForThreads
      <3>1. main.pc # "fill" /\ ~ Increment
        BY <2>5 DEF Wait, Destroy, Await, Shutdown, WaitForThreads, Doing, Increment
      <3>2. /\ main'.pc # "fill" /\ main'.at \in {main.at, main.at + 1}
            /\ main'.at # main.at => Program[main.at].do # "add"
        BY <1>1, <2>5, <3>1, OtherMain
      <3>3. main'.at # main.at => Adding[t] # main.at
        BY <2>1, <3>2
      <3> QED
        BY <1>1, <2>1, <3>1, <3>2, <3>3 DEF Added
    <2> QED
      BY <2>2, <2>3, <2>4, <2>5 DEF MainStep
  <1>5. \A t : Counting(t)' <=> Counting(t)
    BY <1>1, <1>2, MainQueue DEF Counting, Holds, Finishing
  <1>6. ASSUME NEW c \in Counter
        PROVE  Outstanding(c)' = IF Increment /\ CounterOf[On] = c THEN Outstanding(c) \cup {On}
                                 ELSE Outstanding(c)
    <2>1. \A t \in Task :
            t \in Outstanding(c)' <=>
              t \in Outstanding(c) \/ (Increment /\ t = On /\ CounterOf[On] = c)
      BY <1>2, <1>3, <1>4, <1>5 DEF Outstanding
    <2>2. Outstanding(c) \subseteq Task /\ Outstanding(c)' \subseteq Task
      BY DEF Outstanding
    <2> QED
      BY <1>3, <2>1, <2>2
  <1> QED
    BY <1>3, <1>4, <1>6

\* A thread inside operator-- keeps the others out of the counter.
LEMMA InsideAlone ==
  ASSUME CountsSafe, NEW v \in Threads, worker[v].pc \in {"unlock", "release"}
  PROVE  /\ Holds(v) /\ CounterOf[TaskOf(v)] \in Counter
         /\ mutex[CounterOf[TaskOf(v)]] = v /\ v # None
  BY PoolAssumption DEF CountsSafe, TasksSafe, ThreadKnows, MutexKnown, Holds, Finishing

LEMMA CountPositive ==
  ASSUME CountsSafe, NEW w \in Threads, Counts(w)
  PROVE  /\ CounterOf[TaskOf(w)] \in Counter
         /\ TaskOf(w) \in Outstanding(CounterOf[TaskOf(w)])
         /\ count[CounterOf[TaskOf(w)]] \in Nat \ {0}
  <1>1. TasksSafe /\ worker[w].pc = "count"
    BY DEF CountsSafe, Counts
  <1>2. /\ CounterOf[TaskOf(w)] \in Counter
        /\ TaskOf(w) \in Outstanding(CounterOf[TaskOf(w)])
    BY <1>1, CountingTask
  <1>3. CountKnown(CounterOf[TaskOf(w)])
    BY <1>2 DEF CountsSafe
  <1> QED
    BY <1>2, <1>3, Outstandings DEF CountKnown

LEMMA WorkerCounts ==
  ASSUME CountsSafe, NEW w \in Threads, Step(w), Moves(w)
  PROVE  CountsSafe'
  <1> DEFINE k == CounterOf[TaskOf(w)]
  <1>1. TasksSafe /\ PoolSafe /\ TypeOK /\ TasksSafe'
    BY WorkerTasks DEF CountsSafe, TasksSafe, PoolSafe
  <1>2. \A v \in Threads : v # w => worker'[v] = worker[v] /\ TaskOf(v)' = TaskOf(v)
    BY <1>1, OthersStay
  <1>3. worker'[w].it = worker[w].it => TaskOf(w)' = TaskOf(w)
    BY <1>1, InUseStays DEF TaskOf
  <1>4. Counts(w) => /\ k \in Counter /\ count[k] \in Nat \ {0} /\ mutex[k] = None
                     /\ mutex' = [mutex EXCEPT ![k] = w]
                     /\ count' = [count EXCEPT ![k] = count[k] - 1] /\ locked' = locked
                     /\ worker'[w].pc = (IF count[k] = 1 THEN "unlock" ELSE "release")
                     /\ TaskOf(w)' = TaskOf(w) /\ CounterOf[TaskOf(w)'] = k
    BY <1>3, CountPositive DEF Counts
  <1>5. Unlocks(w) => /\ k \in Counter /\ count[k] = 0 /\ mutex[k] = w
                      /\ locked' = [locked EXCEPT ![k] = FALSE]
                      /\ UNCHANGED <<count, mutex>> /\ worker'[w].pc = "release"
                      /\ TaskOf(w)' = TaskOf(w)
    BY <1>3, InsideAlone DEF Unlocks, CountsSafe, MutexKnown
  <1>6. Releases(w) => /\ k \in Counter /\ mutex[k] = w
                       /\ mutex' = [mutex EXCEPT ![k] = None]
                       /\ UNCHANGED <<locked, count>> /\ worker'[w].pc = "free"
    BY InsideAlone DEF Releases
  <1>7. ~ Counts(w) /\ ~ Unlocks(w) /\ ~ Releases(w) =>
          /\ UNCHANGED <<locked, count, mutex>>
          /\ worker'[w].pc \notin {"unlock", "release"}
    BY PoolAssumption
       DEF Moves, Idles, Claims, Passes, GivesBack, Finds, Drops, CallsInPart, Returns, Frees,
           Calm, Holds, Finishing
  <1> HIDE DEF k
  <1>8. ASSUME NEW c \in Counter PROVE CountKnown(c)'
    <2>1. CountKnown(c)
      BY DEF CountsSafe
    <2>2. CASE Counts(w) /\ c = k
      <3>1. /\ Outstanding(c)' = Outstanding(c) \ {TaskOf(w)}
            /\ TaskOf(w) \in Outstanding(c)
        BY <1>1, <2>2, WorkerOutstanding, CountPositive DEF k
      <3>2. Cardinality(Outstanding(c) \ {TaskOf(w)}) = Cardinality(Outstanding(c)) - 1
        BY <3>1, Outstandings, FS_RemoveElement
      <3>3. count'[c] = count[c] - 1 /\ locked' = locked
        BY <1>1, <1>4, <2>2 DEF TypeOK
      <3> QED
        BY <1>4, <2>1, <2>2, <3>1, <3>2, <3>3 DEF CountKnown
    <2>3. CASE ~ (Counts(w) /\ c = k)
      <3>1. Outstanding(c)' = Outstanding(c)
        BY <1>1, <2>3, WorkerOutstanding DEF k
      <3>2. count'[c] = count[c]
        BY <1>1, <1>4, <1>5, <1>6, <1>7, <2>3 DEF TypeOK
      <3>3. count[c] # 0 /\ locked[c] => locked'[c]
        BY <1>1, <1>4, <1>5, <1>6, <1>7 DEF TypeOK
      <3> QED
        BY <2>1, <3>1, <3>2, <3>3 DEF CountKnown
    <2> QED
      BY <2>2, <2>3
  <1>9. ASSUME NEW v \in Threads PROVE MutexKnown(v)'
    <2>1. CASE v # w
      <3>1. worker'[v].pc = worker[v].pc /\ TaskOf(v)' = TaskOf(v)
        BY <1>2, <2>1
      <3> SUFFICES ASSUME worker[v].pc \in {"unlock", "release"}
                   PROVE  MutexKnown(v)'
        BY <3>1 DEF MutexKnown
      <3>2. PICK c \in Counter : c = CounterOf[TaskOf(v)] /\ mutex[c] = v /\ v # None
        BY InsideAlone
      <3>3. mutex'[c] = v /\ count'[c] = count[c]
        <4>1. Counts(w) \/ Releases(w) => c # k
          BY <1>4, <1>6, <2>1, <3>2
        <4> QED
          BY <1>1, <1>4, <1>5, <1>6, <1>7, <3>2, <4>1 DEF TypeOK
      <3>4. worker[v].pc = "unlock" => count[c] = 0
        BY <3>2 DEF CountsSafe, MutexKnown
      <3> QED
        BY <3>1, <3>2, <3>3, <3>4 DEF MutexKnown
    <2>2. CASE v = w
      <3>1. CASE Counts(w)
        <4>1. mutex'[k] = w /\ count'[k] = count[k] - 1
          BY <1>1, <1>4, <3>1 DEF TypeOK
        <4> QED
          BY <1>4, <2>2, <3>1, <4>1 DEF MutexKnown
      <3>2. CASE Unlocks(w)
        BY <1>5, <2>2, <3>2 DEF MutexKnown, k
      <3>3. CASE ~ Counts(w) /\ ~ Unlocks(w)
        BY <1>6, <1>7, <2>2, <3>3 DEF MutexKnown
      <3> QED
        BY <3>1, <3>2, <3>3
    <2> QED
      BY <2>1, <2>2
  <1>10. \A c \in Counter : count[c] = 0 => count'[c] = 0
    <2> TAKE c \in Counter
    <2>1. Counts(w) /\ count[c] = 0 => c # k
      BY <1>4
    <2> QED
      BY <1>1, <1>4, <1>5, <1>6, <1>7, <2>1 DEF TypeOK
  <1>11. main'.pc = "destroy" => count'[On'] = 0
    <2> SUFFICES ASSUME main'.pc = "destroy" PROVE count'[On'] = 0
      OBVIOUS
    <2>1. main.pc = "destroy" /\ main'.at = main.at
      BY <1>1, MainPlace
    <2>2. On' = On /\ count[On] = 0
      BY <2>1 DEF On, CountsSafe
    <2>3. On \in Counter
      BY <1>1, <2>1, Types, Programs DEF PoolSafe, MainSlot, MainType, On
    <2> QED
      BY <1>10, <2>2, <2>3
  <1>12. ASSUME NEW c \in Counter \ alive' PROVE Destroyed(c)'
    <2>1. Destroyed(c) /\ c \in Counter
      BY DEF CountsSafe, Step
    <2>2. main'.at = main.at
      BY <1>1, MainPlace
    <2>3. ASSUME NEW v \in Threads PROVE ~ Inside(v, c)'
      <3>1. CASE v # w
        BY <1>2, <2>1, <3>1 DEF Destroyed, Inside
      <3>2. CASE v = w
        <4>1. Counts(w) => c # k
          BY <1>4, <2>1 DEF Destroyed
        <4>2. Unlocks(w) => c # k
          BY <2>1 DEF Destroyed, Inside, Unlocks, k
        <4>3. ~ Counts(w) /\ ~ Unlocks(w) => worker'[w].pc \notin {"unlock", "release"}
          BY <1>6, <1>7
        <4>4. Counts(w) \/ Unlocks(w) => CounterOf[TaskOf(w)'] = k
          BY <1>4, <1>5 DEF k
        <4> QED
          BY <3>2, <4>1, <4>2, <4>3, <4>4 DEF Inside
      <3> QED
        BY <3>1, <3>2
    <2> QED
      BY <1>10, <2>1, <2>2, <2>3 DEF Destroyed
  <1> QED
    BY <1>1, <1>8, <1>9, <1>11, <1>12 DEF CountsSafe

\* What a step of the main thread does to the counters.
LEMMA MainSync ==
  ASSUME CountsSafe, MainStep
  PROVE  /\ mutex' = mutex /\ worker' = worker
         /\ ~ (Increment /\ CounterOf[On] \in Counter) => UNCHANGED <<locked, count>>
         /\ Increment /\ CounterOf[On] \in Counter =>
              /\ mutex[CounterOf[On]] = None
              /\ locked' = [locked EXCEPT ![CounterOf[On]] = TRUE]
              /\ count' = [count EXCEPT ![CounterOf[On]] = count[CounterOf[On]] + 1]
         /\ \A v \in Threads : Holds(v) => TaskOf(v)' = TaskOf(v)
         /\ main'.pc = "destroy" => ~ Increment /\ main'.at = main.at /\ count[On] = 0
         /\ \/ alive' = alive
            \/ /\ alive' = alive \ {On} /\ ~ Increment
               /\ main.pc = "destroy" /\ mutex[On] = None
               /\ main.at \in 1 .. Len(Program) /\ Program[main.at].do = "wait"
               /\ main'.at = main.at + 1
  <1>1. TasksSafe /\ PoolSafe /\ TypeOK /\ main \in MainType
    BY Types DEF CountsSafe, TasksSafe, PoolSafe
  <1>2. mutex' = mutex /\ worker' = worker
    BY MainFrame
  <1>3. Increment => CounterOf[On] \in Counter \cup {None} /\ None \notin Counter
    BY <1>1, MainOutstanding, PoolAssumption
  <1>4. /\ ~ (Increment /\ CounterOf[On] \in Counter) => UNCHANGED <<locked, count>>
        /\ Increment /\ CounterOf[On] \in Counter =>
              /\ mutex[CounterOf[On]] = None
              /\ locked' = [locked EXCEPT ![CounterOf[On]] = TRUE]
              /\ count' = [count EXCEPT ![CounterOf[On]] = count[CounterOf[On]] + 1]
    <2>1. CASE Increment
      BY <1>3, <2>1 DEF Increment, sync
    <2>2. CASE ~ Increment
      BY <2>2 DEF MainStep, Seek, Fill, Wait, Destroy, Await, Shutdown, WaitForThreads, sync
    <2> QED
      BY <2>1, <2>2
  <1>5. main'.pc = "destroy" => ~ Increment /\ main'.at = main.at /\ count[On] = 0
    <2>1. CASE Wait
      <3>1. /\ main' = [main EXCEPT !.pc = IF count[On] = 0 THEN "destroy" ELSE "asleep"]
            /\ main.pc = "run"
        BY <2>1 DEF Wait, Doing
      <3>2. /\ main'.at = main.at
            /\ main'.pc = IF count[On] = 0 THEN "destroy" ELSE "asleep"
        BY <1>1, <3>1 DEF MainType
      <3> QED
        BY <3>1, <3>2 DEF Increment
    <2>2. CASE Destroy \/ Await
      BY <2>2 DEF Destroy, Await, Proceed
    <2>3. CASE Seek \/ Fill
      BY <1>1, <2>3, SeekPool, FillPool
    <2>4. CASE Increment \/ Shutdown \/ WaitForThreads
      <3>1. \E p \in {"fill", "join", "end"} : main' = [main EXCEPT !.pc = p]
        BY <2>4 DEF Increment, Shutdown, WaitForThreads
      <3> QED
        BY <1>1, <3>1 DEF MainType
    <2> QED
      BY <2>1, <2>2, <2>3, <2>4 DEF MainStep
  <1>6. \/ alive' = alive
        \/ /\ alive' = alive \ {On} /\ ~ Increment
           /\ main.pc = "destroy" /\ mutex[On] = None
           /\ main.at \in 1 .. Len(Program) /\ Program[main.at].do = "wait"
           /\ main'.at = main.at + 1
    <2>1. CASE Destroy
      <3>1. /\ alive' = alive \ {On} /\ main.pc = "destroy" /\ mutex[On] = None
            /\ main' = [pc |-> "run", at |-> main.at + 1, it |-> nextFill']
        BY <2>1 DEF Destroy, Proceed
      <3>2. main.at \in 1 .. Len(Program) /\ Program[main.at].do = "wait"
        BY <1>1, <3>1, Programs DEF PoolSafe, MainSlot, MainType
      <3> QED
        BY <3>1, <3>2 DEF Increment
    <2>2. CASE ~ Destroy
      BY <2>2 DEF MainStep, Seek, Increment, Fill, Wait, Await, Shutdown, WaitForThreads
    <2> QED
      BY <2>1, <2>2
  <1> QED
    BY <1>1, <1>2, <1>4, <1>5, <1>6, MainQueue

LEMMA MainCounts ==
  ASSUME CountsSafe, MainStep
  PROVE  CountsSafe'
  <1> DEFINE k == CounterOf[On]
  <1>1. TasksSafe /\ PoolSafe /\ TypeOK /\ TasksSafe' /\ main.at \in 1 .. Len(Program) + 1
    BY MainTasks, Types DEF CountsSafe, TasksSafe, PoolSafe, MainType
  <1>2. main'.at \in {main.at, main.at + 1}
    BY <1>1, MainQueue
  <1>3. ASSUME NEW c \in Counter PROVE CountKnown(c)'
    <2>1. CountKnown(c)
      BY DEF CountsSafe
    <2>2. CASE Increment /\ c = k
      <3>1. /\ Outstanding(c)' = Outstanding(c) \cup {On}
            /\ On \notin Outstanding(c)
        BY <1>1, <2>2, MainOutstanding DEF Outstanding
      <3>2. Cardinality(Outstanding(c) \cup {On}) = Cardinality(Outstanding(c)) + 1
        BY <3>1, Outstandings, FS_AddElement
      <3>3. locked' = [locked EXCEPT ![c] = TRUE] /\ count' = [count EXCEPT ![c] = count[c] + 1]
        BY <2>2, MainSync
      <3>4. count'[c] = count[c] + 1
        BY <1>1, <3>3 DEF TypeOK
      <3>5. locked'[c]
        BY <1>1, <3>3 DEF TypeOK
      <3> QED
        BY <2>1, <3>1, <3>2, <3>4, <3>5 DEF CountKnown
    <2>3. CASE ~ (Increment /\ c = k)
      <3>1. Outstanding(c)' = Outstanding(c)
        BY <1>1, <2>3, MainOutstanding
      <3>2. count'[c] = count[c] /\ (locked[c] => locked'[c])
        <4>1. CASE Increment /\ k \in Counter
          BY <1>1, <2>3, <4>1, MainSync DEF TypeOK
        <4>2. CASE ~ (Increment /\ k \in Counter)
          BY <4>2, MainSync
        <4> QED
          BY <4>1, <4>2
      <3> QED
        BY <2>1, <3>1, <3>2 DEF CountKnown
    <2> QED
      BY <2>2, <2>3
  <1>4. ASSUME NEW v \in Threads PROVE MutexKnown(v)'
    <2>1. worker'[v] = worker[v] /\ mutex' = mutex
      BY MainSync
    <2> SUFFICES ASSUME worker[v].pc \in {"unlock", "release"}
                 PROVE  MutexKnown(v)'
      BY <2>1 DEF MutexKnown
    <2>2. PICK c \in Counter : c = CounterOf[TaskOf(v)] /\ mutex[c] = v /\ v # None
      BY InsideAlone
    <2>3. TaskOf(v)' = TaskOf(v)
      BY InsideAlone, MainSync
    <2>4. count'[c] = count[c]
      <3>1. CASE Increment /\ k \in Counter
        BY <1>1, <2>2, <3>1, MainSync DEF TypeOK
      <3>2. CASE ~ (Increment /\ k \in Counter)
        BY <3>2, MainSync
      <3> QED
        BY <3>1, <3>2
    <2>5. worker[v].pc = "unlock" => count[c] = 0
      BY <2>2 DEF CountsSafe, MutexKnown
    <2> QED
      BY <2>1, <2>2, <2>3, <2>4, <2>5 DEF MutexKnown
  <1>5. main'.pc = "destroy" => count'[On'] = 0
    BY MainSync DEF On
  <1>6. ASSUME NEW c \in Counter \ alive' PROVE Destroyed(c)'
    <2>1. /\ count[c] = 0
          /\ \A v \in Threads : ~ Inside(v, c)
          /\ \E i \in 1 .. Len(Program) :
               i < main'.at /\ Program[i].do = "wait" /\ Program[i].on = c
          /\ Increment => \E i \in 1 .. Len(Program) :
               i < main.at /\ Program[i].do = "wait" /\ Program[i].on = c
      <3>1. CASE c \notin alive
        BY <1>1, <1>2, <3>1 DEF CountsSafe, Destroyed
      <3>2. CASE c \in alive
        <4>1. /\ c = On /\ main.pc = "destroy" /\ mutex[On] = None /\ ~ Increment
              /\ main.at \in 1 .. Len(Program) /\ Program[main.at].do = "wait"
              /\ main'.at = main.at + 1
          BY <3>2, MainSync
        <4>2. count[c] = 0
          BY <4>1 DEF CountsSafe
        <4>3. \A v \in Threads : ~ Inside(v, c)
          BY <4>1, InsideAlone DEF Inside
        <4>4. Program[main.at].on = c /\ main.at < main'.at
          BY <4>1 DEF On
        <4> QED
          BY <4>1, <4>2, <4>3, <4>4
      <3> QED
        BY <3>1, <3>2
    <2>2. Increment => c # k
      <3> SUFFICES ASSUME Increment PROVE c # k
        OBVIOUS
      <3>1. PICK i \in 1 .. Len(Program) :
              i < main.at /\ Program[i].do = "wait" /\ Program[i].on = c
        BY <2>1
      <3>2. main.at \in 1 .. Len(Program) /\ Program[main.at].do = "add"
        BY <1>1, MainOutstanding
      <3>3. i \in DOMAIN Program /\ main.at \in DOMAIN Program
        BY <3>2, Programs
      <3>4. CounterOf[Program[main.at].on] # Program[i].on
        BY <3>1, <3>2, <3>3, OrderAssumption, Zenon
      <3> QED
        BY <3>1, <3>4 DEF On
    <2>3. count'[c] = 0
      <3>1. CASE Increment /\ k \in Counter
        BY <1>1, <2>1, <2>2, <3>1, MainSync DEF TypeOK
      <3>2. CASE ~ (Increment /\ k \in Counter)
        BY <2>1, <3>2, MainSync
      <3> QED
        BY <3>1, <3>2
    <2>4. \A v \in Threads : ~ Inside(v, c)'
      BY <2>1, MainSync DEF Inside, Holds, Finishing
    <2> QED
      BY <2>1, <2>3, <2>4 DEF Destroyed
  <1> QED
    BY <1>1, <1>3, <1>4, <1>5, <1>6 DEF CountsSafe

LEMMA InitCounts == Init => CountsSafe
  <1> SUFFICES ASSUME Init PROVE CountsSafe
    OBVIOUS
  <1>1. TasksSafe
    BY InitTasks
  <1>2. /\ main.at = 1 /\ main.pc = "run" /\ alive = Counter
        /\ \A w \in Threads : worker[w].pc = "top"
        /\ \A c \in Counter : count[c] = 0
    BY DEF Init
  <1>3. \A t \in Task : ~ Added(t)
    BY <1>2, Programs DEF Added
  <1>4. ASSUME NEW c \in Counter PROVE CountKnown(c)
    <2>1. Outstanding(c) = {}
      BY <1>3 DEF Outstanding
    <2> QED
      BY <1>2, <2>1, FS_EmptySet DEF CountKnown
  <1> QED
    BY <1>1, <1>2, <1>4 DEF CountsSafe, MutexKnown

LEMMA SameTasks == ASSUME TasksSafe, UNCHANGED vars PROVE TasksSafe'
  BY NextTasks

LEMMA NextCounts == ASSUME CountsSafe, [Next]_vars PROVE CountsSafe'
  <1>1. CASE UNCHANGED vars
    <2>1. TasksSafe'
      BY <1>1, SameTasks DEF CountsSafe
    <2> QED
      BY <1>1, <2>1 DEF vars, CountsSafe, CountKnown, MutexKnown, Destroyed, Inside, Outstanding,
                        Counting, Added, TaskOf, On
  <1>2. CASE Next
    BY <1>2, WorkerSteps, WorkerCounts, MainCounts DEF Next, CountsSafe, TasksSafe, PoolSafe
  <1> QED
    BY <1>1, <1>2

\* The counters are exact in every state, although the main thread adds to
\* them while the threads take away: each counts the tasks added to it that
\* have not left it.
THEOREM CountsExact == Spec => []CountsSafe
  <1>1. Init => CountsSafe
    BY InitCounts
  <1>2. CountsSafe /\ [Next]_vars => CountsSafe'
    BY NextCounts
  <1> QED
    BY <1>1, <1>2, PTL DEF Spec

\* A counter on the stack of the main thread is destroyed when every task added
\* to it has returned and no thread is inside its operator-- any more.
THEOREM CountersSurvive == Spec => []CountersOutlive
  <1>1. CountsSafe => CountersOutlive
    <2> SUFFICES ASSUME CountsSafe, NEW c \in Counter \ alive
                 PROVE  /\ \A t \in Task : CounterOf[t] = c /\ Added(t)
                                             => progress[t] = "returned"
                        /\ \A w \in Threads :
                             At(w, "count") \/ At(w, "unlock") \/ At(w, "release")
                               => CounterOf[TaskOf(w)] # c
      BY DEF CountersOutlive
    <2>1. Destroyed(c) /\ CountKnown(c) /\ TasksSafe
      BY DEF CountsSafe
    <2>2. Outstanding(c) = {}
      BY <2>1, Outstandings DEF CountKnown, Destroyed
    <2>3. \A t \in Task : CounterOf[t] = c /\ Added(t) => progress[t] = "returned"
      BY <2>2 DEF Outstanding
    <2>4. \A w \in Threads : At(w, "count") => CounterOf[TaskOf(w)] # c
      BY <2>1, <2>2, CountingTask DEF At
    <2>5. \A w \in Threads : At(w, "unlock") \/ At(w, "release") => CounterOf[TaskOf(w)] # c
      BY <2>1 DEF Destroyed, Inside, At
    <2> QED
      BY <2>3, <2>4, <2>5
  <1> QED
    BY <1>1, CountsExact, PTL

-----------------------------------------------------------------------------
(***************************************************************************)
(* The fourth layer.                                                       *)
(***************************************************************************)
LEMMA UnlockedDone ==
  ASSUME CountsSafe, NEW c \in Counter, ~ locked[c]
  PROVE  GroupDone(c)
  <1>1. CountKnown(c)
    BY DEF CountsSafe
  <1>2. Outstanding(c) = {}
    BY <1>1, Outstandings DEF CountKnown
  <1> QED
    BY <1>2 DEF Outstanding, GroupDone

LEMMA WorkerGroups ==
  ASSUME TasksSafe, NEW w \in Threads, Step(w), Moves(w), NEW c, GroupDone(c)
  PROVE  GroupDone(c)'
  BY WorkerOutstanding, ProgressMoves DEF GroupDone

\* The counters of a task's barriers are not used again before it has returned.
LEMMA MainGroups ==
  ASSUME TasksSafe, MainStep, NEW t \in Task, Adding[t] < main.at, progress[t] # "returned",
         NEW c \in Deps[t], GroupDone(c)
  PROVE  GroupDone(c)'
  <1>1. Increment => CounterOf[On] # c
    <2> SUFFICES ASSUME Increment, CounterOf[On] = c PROVE FALSE
      OBVIOUS
    <2>1. main.at \in 1 .. Len(Program) /\ Program[main.at].do = "add"
      BY MainOutstanding
    <2>2. /\ Adding[t] \in 1 .. Len(Program)
          /\ Program[Adding[t]].do = "add" /\ Program[Adding[t]].on = t
      BY Programs
    <2>3. Adding[t] \in DOMAIN Program /\ main.at \in DOMAIN Program
      BY <2>1, <2>2, Programs
    <2>4. CounterOf[Program[main.at].on] \in Deps[Program[Adding[t]].on]
      BY <2>2 DEF On
    <2>5. \E k \in Adding[t] .. main.at :
            Program[k] = [do |-> "await", on |-> Program[Adding[t]].on]
      BY <2>1, <2>2, <2>3, <2>4, OrderAssumption, Zenon
    <2>6. PICK k \in Adding[t] .. main.at : Program[k].do = "await" /\ Program[k].on = t
      BY <2>2, <2>5
    <2>7. k \in 1 .. Len(Program) /\ k < main.at
      BY <2>1, <2>2, <2>6, Programs
    <2> QED
      BY <2>6, <2>7 DEF TasksSafe, Awaited
  <1>2. progress' = progress
    BY MainFrame
  <1> QED
    BY <1>1, <1>2, MainOutstanding DEF GroupDone

LEMMA WorkerGraph ==
  ASSUME GraphSafe, NEW w \in Threads, Step(w), Moves(w)
  PROVE  GraphSafe'
  <1> DEFINE i == worker[w].it
  <1>1. CountsSafe /\ TasksSafe /\ PoolSafe /\ TypeOK /\ CountsSafe'
    BY WorkerCounts DEF GraphSafe, CountsSafe, TasksSafe, PoolSafe
  <1>2. \A c : GroupDone(c) => GroupDone(c)'
    BY <1>1, WorkerGroups
  <1>3. \A t \in Task : progress[t] = "returned" => progress'[t] = "returned"
    BY <1>1, ProgressMoves
  <1>4. ASSUME NEW t \in Task PROVE Deps[t] \subseteq Counter /\ Polls[t] \subseteq Task
    BY PoolAssumption
  <1>5. worker'[w].it = i => TaskOf(w)' = TaskOf(w)
    BY <1>1, InUseStays DEF TaskOf
  <1>6. Holds(w) => TaskOf(w) \in Task
    BY <1>1, HeldTask
  <1>7. ASSUME NEW v \in Threads PROVE ThreadSees(v)'
    <2>1. CASE v # w
      <3>1. worker'[v] = worker[v] /\ TaskOf(v)' = TaskOf(v)
        BY <1>1, <2>1, OthersStay
      <3>2. Holds(v) => TaskOf(v) \in Task
        BY <1>1, HeldTask
      <3>3. ThreadSees(v)
        BY DEF GraphSafe
      <3> QED
        BY <1>2, <1>3, <1>4, <3>1, <3>2, <3>3 DEF ThreadSees, Holds
    <2>2. CASE v = w
      <3>1. CASE Claims(w)
        <4>1. i \in InUse /\ TaskOf(w) = slots[i].task /\ TaskOf(w)' = TaskOf(w)
          BY <1>1, <1>5, <3>1, InUseStays DEF Claims, InUse, TaskOf
        <4>2. progress[TaskOf(w)] # "returned" /\ SlotSees(i)
          BY <1>1, <3>1, <4>1 DEF Claims, TasksSafe, SlotKnown, GraphSafe
        <4> QED
          BY <1>2, <2>2, <3>1, <4>1, <4>2 DEF Claims, SlotSees, ThreadSees
      <3>2. CASE Passes(w)
        <4>1. PICK c \in worker[w].unseen :
                ~ locked[c] /\ worker'[w].unseen = worker[w].unseen \ {c}
          BY <3>2 DEF Passes
        <4>2. c \in Counter
          BY <1>1, <4>1, Types DEF WorkerType
        <4>3. GroupDone(c)
          BY <1>1, <4>1, <4>2, UnlockedDone
        <4>4. \A d \in Deps[TaskOf(w)] \ worker'[w].unseen : GroupDone(d)
          BY <3>2, <4>1, <4>3 DEF Passes, GraphSafe, ThreadSees
        <4> QED
          BY <1>2, <1>5, <2>2, <3>2, <4>4 DEF Passes, ThreadSees
      <3>3. CASE Finds(w)
        <4>1. /\ \A d \in Deps[TaskOf(w)] : GroupDone(d)
              /\ \A u \in Polls[TaskOf(w)] : progress[u] = "returned"
              /\ progress' = progress
          BY <3>3 DEF Finds, Calm, GraphSafe, ThreadSees
        <4> QED
          BY <1>2, <1>5, <2>2, <3>3, <4>1 DEF Finds, ThreadSees
      <3>4. CASE worker'[w].pc \notin {"check", "found"}
        BY <2>2, <3>4 DEF ThreadSees
      <3> QED
        BY <3>1, <3>2, <3>3, <3>4
           DEF Moves, Idles, GivesBack, Drops, CallsInPart, Returns, Counts, Unlocks, Releases,
               Frees, Holds
    <2> QED
      BY <2>1, <2>2
  <1>8. ASSUME NEW s \in InUse' PROVE SlotSees(s)'
    <2>1. s \in InUse /\ s \in SlotId /\ slots'[s].task = slots[s].task
      BY <1>1, InUseStays DEF InUse
    <2>2. slots[s].task \in Task /\ SlotSees(s)
      BY <1>1, <2>1 DEF PoolSafe, Filled, GraphSafe
    <2>3. CASE slots'[s].barriers = slots[s].barriers
      BY <1>2, <1>3, <2>1, <2>2, <2>3 DEF SlotSees
    <2>4. CASE s = i /\ worker[w].pc = "check" /\ worker[w].unseen = {}
      <3>1. TaskOf(w) = slots[s].task
        BY <2>4 DEF TaskOf
      <3>2. \A c \in Deps[slots[s].task] : GroupDone(c)
        BY <2>4, <3>1 DEF GraphSafe, ThreadSees
      <3> QED
        BY <1>2, <2>1, <3>2 DEF SlotSees
    <2>5. \/ slots'[s].barriers = slots[s].barriers
          \/ s = i /\ worker[w].pc = "check" /\ worker[w].unseen = {}
      <3>1. CASE s # i
        BY <2>1, <3>1 DEF Step, SlotsStay
      <3>2. CASE s = i /\ slots' = slots
        BY <3>2
      <3>3. CASE s = i /\ (Claims(w) \/ GivesBack(w) \/ Finds(w) \/ CallsInPart(w))
        BY <3>3 DEF Claims, GivesBack, Finds, CallsInPart
      <3>4. CASE s = i /\ Frees(w)
        BY <3>4 DEF Frees, InUse
      <3> QED
        BY <3>1, <3>2, <3>3, <3>4
           DEF Moves, Idles, Passes, Drops, Returns, Counts, Unlocks, Releases
    <2> QED
      BY <2>3, <2>4, <2>5
  <1> QED
    BY <1>1, <1>7, <1>8 DEF GraphSafe

LEMMA MainGraph ==
  ASSUME GraphSafe, MainStep
  PROVE  GraphSafe'
  <1>1. CountsSafe /\ TasksSafe /\ PoolSafe /\ CountsSafe'
    BY MainCounts DEF GraphSafe, CountsSafe, TasksSafe
  <1>2. worker' = worker /\ progress' = progress
    BY MainFrame
  <1>3. ASSUME NEW v \in Threads PROVE ThreadSees(v)'
    <2> SUFFICES ASSUME worker[v].pc \in {"check", "found"} PROVE ThreadSees(v)'
      BY <1>2 DEF ThreadSees
    <2>1. Holds(v) /\ ~ Finishing(v)
      BY DEF Holds, Finishing
    <2>2. /\ TaskOf(v)' = TaskOf(v) /\ TaskOf(v) \in Task /\ Adding[TaskOf(v)] < main.at
          /\ progress[TaskOf(v)] # "returned"
      BY <1>1, <2>1, HeldTask, MainQueue DEF TasksSafe, ThreadKnows
    <2>3. \A c \in Deps[TaskOf(v)] : GroupDone(c) => GroupDone(c)'
      BY <1>1, <2>2, MainGroups
    <2> QED
      BY <1>2, <2>2, <2>3 DEF GraphSafe, ThreadSees
  <1>4. ASSUME NEW s \in InUse' PROVE SlotSees(s)'
    <2>1. CASE s \in InUse
      <3>1. slots'[s] = slots[s] /\ slots[s].task \in Task /\ Adding[slots[s].task] < main.at
        BY <1>1, <2>1, MainQueue DEF PoolSafe, Filled
      <3>2. progress[slots[s].task] # "returned" =>
              \A c \in Deps[slots[s].task] : GroupDone(c) => GroupDone(c)'
        BY <1>1, <3>1, MainGroups
      <3> QED
        BY <1>2, <2>1, <3>1, <3>2 DEF GraphSafe, SlotSees
    <2>2. CASE s \notin InUse
      <3>1. Fill
        BY <1>1, <2>2, MainQueue
      <3>2. slots'[s].task = On /\ slots'[s].barriers = Deps[On]
        BY <1>1, <2>2, <3>1, FillPool
      <3> QED
        BY <3>2 DEF SlotSees
    <2> QED
      BY <2>1, <2>2
  <1> QED
    BY <1>1, <1>3, <1>4 DEF GraphSafe

LEMMA InitGraph == Init => GraphSafe
  <1> SUFFICES ASSUME Init PROVE GraphSafe
    OBVIOUS
  <1>1. CountsSafe
    BY InitCounts
  <1>2. \A w \in Threads : worker[w].pc = "top"
    BY DEF Init
  <1>3. InUse = {}
    <2>1. main.at = 1
      BY DEF Init
    <2>2. \A t \in Task : ~ (Adding[t] < main.at)
      BY <2>1, Programs
    <2> QED
      BY <1>1, <2>2 DEF CountsSafe, TasksSafe, PoolSafe, Filled
  <1> QED
    BY <1>1, <1>2, <1>3 DEF GraphSafe, ThreadSees

LEMMA NextGraph == ASSUME GraphSafe, [Next]_vars PROVE GraphSafe'
  <1>1. CASE UNCHANGED vars
    <2>1. CountsSafe'
      BY <1>1, NextCounts DEF GraphSafe
    <2> QED
      BY <1>1, <2>1 DEF vars, GraphSafe, ThreadSees, SlotSees, GroupDone, Added, InUse, SlotId,
                        TaskOf
  <1>2. CASE Next
    BY <1>2, WorkerSteps, WorkerGraph, MainGraph
       DEF Next, GraphSafe, CountsSafe, TasksSafe, PoolSafe
  <1> QED
    BY <1>1, <1>2

-----------------------------------------------------------------------------
(***************************************************************************)
(* Every step is a step of TaskGraph or changes nothing there.             *)
(***************************************************************************)
LEMMA StatusIs ==
  ASSUME NEW u \in Task
  PROVE  /\ ~ Added(u) => TaskStatus[u] = "outside"
         /\ Added(u) => TaskStatus[u] = IF progress[u] = "none" THEN "added" ELSE progress[u]
  BY DEF TaskStatus

LEMMA FinishedIs ==
  ASSUME NEW c \in Counter, GroupDone(c)
  PROVE  Graph!Finished(c)
  BY StatusIs, PoolAssumption DEF GroupDone, Graph!Finished, Graph!Task, Graph!Group, Task

LEMMA WorkerImplements ==
  ASSUME GraphSafe, NEW w \in Threads, Step(w), Moves(w)
  PROVE  Graph!Next \/ TaskStatus' = TaskStatus
  <1>1. CountsSafe /\ TasksSafe /\ PoolSafe /\ TypeOK
    BY DEF GraphSafe, CountsSafe, TasksSafe, PoolSafe
  <1>2. \A u \in Task : Added(u)' <=> Added(u)
    BY <1>1, WorkerOutstanding
  <1>3. CASE progress' = progress
    BY <1>2, <1>3 DEF TaskStatus
  <1>4. CASE progress' # progress
    <2>1. PICK t : t = TaskOf(w)
      OBVIOUS
    <2>2. /\ worker[w].pc = "found"
          /\ \E p \in {"part", "returned"} : progress' = [progress EXCEPT ![t] = p]
      BY <1>1, <1>4, <2>1, ProgressMoves DEF CallsInPart, Returns
    <2>3. PICK p \in {"part", "returned"} : progress' = [progress EXCEPT ![t] = p]
      BY <2>2
    <2>4. Holds(w) /\ ~ Finishing(w)
      BY <2>2 DEF Holds, Finishing
    <2>5. /\ t \in Task /\ Adding[t] < main.at /\ progress[t] # "returned"
          /\ progress[t] \in {"none", "part", "returned"}
      BY <1>1, <2>1, <2>4, HeldTask DEF TasksSafe, ThreadKnows, TypeOK
    <2>6. Added(t) /\ t \in Graph!Task
      BY <2>5 DEF Added, Graph!Task, Task
    <2>7. /\ Deps[t] \subseteq Counter /\ Polls[t] \subseteq Task
          /\ \A c \in Deps[t] : GroupDone(c)
          /\ \A u \in Polls[t] : progress[u] = "returned"
      BY <2>1, <2>2, <2>5, PoolAssumption DEF GraphSafe, ThreadSees
    <2>8. \A u \in Task : progress'[u] = IF u = t THEN p ELSE progress[u]
      BY <1>1, <2>3 DEF TypeOK
    <2>9. Graph!Become(t, p)
      <3>1. TaskStatus' = [u \in Task |-> IF u = t THEN p ELSE TaskStatus[u]]
        BY <1>2, <2>6, <2>8 DEF TaskStatus
      <3>2. TaskStatus = [u \in Task |-> TaskStatus[u]]
        BY DEF TaskStatus
      <3> QED
        BY <2>5, <3>1, <3>2 DEF Graph!Become
    <2>10. Graph!Callable(t)
      <3>1. Graph!Inside(t)
        BY <2>5, <2>6, StatusIs DEF Graph!Inside
      <3>2. \A c \in Deps[t] : Graph!Finished(c)
        BY <2>7, FinishedIs
      <3>3. \A u \in Polls[t] : TaskStatus[u] = "returned"
        <4> TAKE u \in Polls[t]
        <4>1. u \in Task /\ progress[u] = "returned"
          BY <2>7
        <4>2. Added(u)
          BY <1>1, <4>1 DEF TasksSafe, TaskKnown, Added
        <4> QED
          BY <4>1, <4>2, StatusIs
      <3> QED
        BY <3>1, <3>2, <3>3 DEF Graph!Callable
    <2>11. CASE p = "returned"
      BY <2>6, <2>9, <2>10, <2>11 DEF Graph!Return, Graph!Next
    <2>12. CASE p = "part" /\ progress[t] = "none"
      <3>1. TaskStatus[t] = "added"
        BY <2>5, <2>6, <2>12, StatusIs
      <3> QED
        BY <2>6, <2>9, <2>10, <2>12, <3>1 DEF Graph!ReturnFalse, Graph!Next
    <2>13. CASE p = "part" /\ progress[t] = "part"
      <3>1. progress' = progress
        BY <1>1, <2>3, <2>13 DEF TypeOK
      <3> QED
        BY <1>4, <3>1
    <2> QED
      BY <2>5, <2>11, <2>12, <2>13
  <1> QED
    BY <1>3, <1>4

LEMMA MainImplements ==
  ASSUME GraphSafe, MainStep
  PROVE  Graph!Next \/ TaskStatus' = TaskStatus
  <1>1. CountsSafe /\ TasksSafe /\ PoolSafe /\ TypeOK
    BY DEF GraphSafe, CountsSafe, TasksSafe, PoolSafe
  <1>2. /\ progress' = progress
        /\ \A u \in Task : Added(u)' <=> Added(u) \/ (Increment /\ u = On)
    BY <1>1, MainFrame, MainOutstanding
  <1>3. CASE ~ Increment
    BY <1>2, <1>3 DEF TaskStatus
  <1>4. CASE Increment
    <2>1. PICK t \in Task : t = On
      BY <1>1, <1>4, MainOutstanding
    <2>2. /\ ~ Added(t) /\ progress[t] = "none" /\ main.at \in 1 .. Len(Program)
          /\ Program[main.at].do = "add" /\ Program[main.at].on = t
      BY <1>1, <1>4, <2>1, MainOutstanding
    <2>3. TaskStatus' = [u \in Task |-> IF u = t THEN "added" ELSE TaskStatus[u]]
      BY <1>2, <1>4, <2>1, <2>2 DEF TaskStatus
    <2>4. TaskStatus = [u \in Task |-> TaskStatus[u]]
      BY DEF TaskStatus
    <2>5. Graph!Become(t, "added")
      BY <2>1, <2>3, <2>4 DEF Graph!Become
    <2>6. ASSUME NEW u \in 1 .. t - 1
          PROVE  TaskStatus[u] # "outside"
      <3>1. u \in Task /\ u < t
        BY <2>1, PoolAssumption DEF Task
      <3>2. /\ Adding[u] \in 1 .. Len(Program)
            /\ Program[Adding[u]].do = "add" /\ Program[Adding[u]].on = u
        BY <3>1, Programs
      <3>3. ~ (main.at < Adding[u])
        <4> SUFFICES ASSUME main.at < Adding[u] PROVE FALSE
          OBVIOUS
        <4>1. main.at \in DOMAIN Program /\ Adding[u] \in DOMAIN Program
          BY <2>2, <3>2, Programs
        <4>2. Program[main.at].on < Program[Adding[u]].on
          BY <2>2, <3>2, <4>1, OrderAssumption, Zenon
        <4>3. t < u
          BY <2>2, <3>2, <4>2
        <4> QED
          BY <3>1, <4>3, <2>1 DEF Task
      <3>4. Adding[u] # main.at
        BY <2>1, <2>2, <3>1, <3>2 DEF Task
      <3>5. Added(u)
        BY <2>2, <3>2, <3>3, <3>4 DEF Added
      <3>6. progress[u] \in {"none", "part", "returned"}
        BY <1>1, <3>1 DEF TypeOK
      <3> QED
        BY <3>1, <3>5, <3>6, StatusIs
    <2>7. Graph!Add(t) /\ t \in Graph!Task
      BY <2>1, <2>2, <2>5, <2>6, StatusIs DEF Graph!Add, Graph!Task, Task
    <2> QED
      BY <2>7 DEF Graph!Next
  <1> QED
    BY <1>3, <1>4

(***************************************************************************)
(* The encoder's pool implements TaskGraph, whatever the threads, the      *)
(* tasks, their counters and the program: a task is called after the tasks *)
(* behind its barriers have returned, although their counters come to zero *)
(* in between and are used again, and it returns true once.                *)
(***************************************************************************)
THEOREM PoolImplementsTaskGraph == Spec => ImplementsTaskGraph
  <1>1. Init => Graph!Init
    <2> SUFFICES ASSUME Init PROVE Graph!Init
      OBVIOUS
    <2>1. main.at = 1 /\ main.pc = "run"
      BY DEF Init
    <2>2. \A t \in Task : ~ Added(t)
      BY <2>1, Programs DEF Added
    <2> QED
      BY <2>2 DEF Graph!Init, Graph!Task, Task, TaskStatus
  <1>2. GraphSafe /\ [Next]_vars => [Graph!Next]_TaskStatus
    <2> SUFFICES ASSUME GraphSafe, [Next]_vars PROVE Graph!Next \/ TaskStatus' = TaskStatus
      OBVIOUS
    <2>1. CASE UNCHANGED vars
      BY <2>1 DEF vars, TaskStatus, Added
    <2>2. CASE \E w \in Threads : WorkerStep(w)
      BY <2>2, WorkerSteps, WorkerImplements
         DEF GraphSafe, CountsSafe, TasksSafe, PoolSafe
    <2>3. CASE MainStep
      BY <2>3, MainImplements
    <2> QED
      BY <2>1, <2>2, <2>3 DEF Next
  <1> QED
    BY <1>1, <1>2, InitGraph, NextGraph, PTL DEF Spec, ImplementsTaskGraph, Graph!Spec

=============================================================================
