----------------------------- MODULE TaskGraph ------------------------------
(***************************************************************************)
(* What the thread pool promises to the code that adds tasks, without      *)
(* slots, threads and locks: a task's function is called only while the    *)
(* task is in the pool and after everything its barriers stand for has     *)
(* returned true, it returns true at most once, and a task ends with an    *)
(* exception only when it has thrown itself or a group it is connected     *)
(* with has failed.                                                        *)
(***************************************************************************)
EXTENDS Integers

CONSTANTS NumTasks, Counter, CounterOf, Deps, Polls, MayThrow

Task == 1 .. NumTasks

VARIABLE status

Status == {"outside", "added", "part", "returned", "threw"}

Init == status = [t \in Task |-> "outside"]

Inside(t) == status[t] \in {"added", "part"}
Group(c)  == {t \in Task : CounterOf[t] = c}

\* The barrier of a counter stands for the tasks added to it so far.
Finished(b) ==
  IF b \in Task THEN status[b] = "returned"
                ELSE \A t \in Group(b) : status[t] \in {"outside", "returned"}

Failed(c) == \E t \in Group(c) : status[t] = "threw"

Callable(t) == /\ Inside(t)
               /\ \A b \in Deps[t] : Finished(b)
               /\ \A u \in Polls[t] : status[u] = "returned"

HasCause(t) ==
  \/ t \in MayThrow
  \/ \E b \in Deps[t] : Failed(IF b \in Task THEN CounterOf[b] ELSE b)
  \/ Polls[t] # {} /\ Failed(CounterOf[t])

Become(t, s) == status' = [status EXCEPT ![t] = s]

Add(t) == /\ status[t] = "outside"
          /\ \A u \in 1 .. t - 1 : status[u] # "outside"
          /\ Become(t, "added")

Return(t) == Callable(t) /\ Become(t, "returned")
ReturnFalse(t) == status[t] = "added" /\ Callable(t) /\ Become(t, "part")
Throw(t) == Inside(t) /\ HasCause(t) /\ Become(t, "threw")

Next == \E t \in Task : Add(t) \/ Return(t) \/ ReturnFalse(t) \/ Throw(t)

Spec == Init /\ [][Next]_status

=============================================================================
