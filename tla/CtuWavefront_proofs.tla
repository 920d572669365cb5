------------------------ MODULE CtuWavefront_proofs ------------------------
(***************************************************************************)
(* Proofs about CtuWavefront for pictures and tasks of every size.         *)
(***************************************************************************)
EXTENDS CtuWavefront, WellFoundedInduction, TLAPS

-----------------------------------------------------------------------------
(***************************************************************************)
(* The cut of a line into tasks.                                           *)
(***************************************************************************)

\* The task of a column of CTUs is one of the line, and the column lies in it.
LEMMA OwnerOfColumn ==
  ASSUME NEW x \in 0 .. WidthInCtus - 1
  PROVE  LET c == x \div NumColPerTask
         IN  /\ c \in Cols
             /\ CtuStart(c) <= x
             /\ x < CtuStart(c) + NumColPerTask
             /\ x - CtuStart(c) \in Nat
             /\ x - CtuStart(c) < NumCtus(c)
  <1>n. /\ NumColPerTask \in Nat \ {0}
        /\ WidthInCtus \in Nat
    BY SizesAssumption
  <1> DEFINE c == x \div NumColPerTask
             q == WidthInCtus \div NumColPerTask
  <1>1. /\ c \in Nat
        /\ c * NumColPerTask <= x
        /\ x < c * NumColPerTask + NumColPerTask
    BY <1>n
  <1>2. /\ q \in Nat
        /\ WidthInCtus = q * NumColPerTask + (WidthInCtus % NumColPerTask)
        /\ WidthInCtus % NumColPerTask \in 0 .. NumColPerTask - 1
    BY <1>n
  <1>3. c <= q
    BY <1>n, <1>1, <1>2
  <1>4. c < NumTasksPerLine
    BY <1>n, <1>1, <1>2, <1>3 DEF NumTasksPerLine
  <1>5. c \in Cols
    BY <1>1, <1>4, <1>2 DEF Cols, NumTasksPerLine
  <1> QED
    BY <1>n, <1>1, <1>5 DEF CtuStart, CtuEnd, NumCtus

\* The next column belongs to the same task or opens the next one.
LEMMA OwnerOfNextColumn ==
  ASSUME NEW x \in 0 .. WidthInCtus - 1, x + 1 < WidthInCtus
  PROVE  LET c == x \div NumColPerTask
             d == (x + 1) \div NumColPerTask
         IN  \/ d = c
             \/ d = c + 1 /\ x + 1 = CtuStart(d)
  <1>n. NumColPerTask \in Nat \ {0} /\ WidthInCtus \in Nat
    BY SizesAssumption
  <1> DEFINE c == x \div NumColPerTask
             d == (x + 1) \div NumColPerTask
  <1>1. /\ c \in Nat
        /\ c * NumColPerTask <= x
        /\ x < c * NumColPerTask + NumColPerTask
    BY <1>n
  <1>2. /\ d \in Nat
        /\ d * NumColPerTask <= x + 1
        /\ x + 1 < d * NumColPerTask + NumColPerTask
    BY <1>n
  <1>3. c <= d /\ d <= c + 1
    BY <1>n, <1>1, <1>2
  <1>4. (c + 1) * NumColPerTask = c * NumColPerTask + NumColPerTask
    BY <1>n, <1>1
  <1> QED
    BY <1>n, <1>1, <1>2, <1>3, <1>4 DEF CtuStart

\* Every task has at least one CTU.
LEMMA TasksNotEmpty ==
  ASSUME NEW c \in Cols
  PROVE  /\ NumTasksPerLine \in Nat \ {0}
         /\ NumCtus(c) \in Nat \ {0}
         /\ CtuStart(c) \in Nat
  <1>n. /\ NumColPerTask \in Nat \ {0}
        /\ WidthInCtus \in Nat \ {0}
        /\ NumColPerTask <= WidthInCtus
    BY SizesAssumption
  <1> DEFINE q == WidthInCtus \div NumColPerTask
  <1>1. /\ q \in Nat
        /\ WidthInCtus = q * NumColPerTask + (WidthInCtus % NumColPerTask)
        /\ WidthInCtus % NumColPerTask \in 0 .. NumColPerTask - 1
    BY <1>n
  <1>2. NumTasksPerLine \in Nat
    BY <1>n, <1>1 DEF NumTasksPerLine
  <1>3. c \in Nat /\ c < NumTasksPerLine
    BY <1>2 DEF Cols
  <1>4. c * NumColPerTask < WidthInCtus
    <2>1. CASE c < q
      <3>1. c * NumColPerTask + NumColPerTask <= q * NumColPerTask
        BY <1>n, <1>1, <1>3, <2>1
      <3> QED
        BY <1>n, <1>1, <1>3, <3>1
    <2>2. CASE c = q /\ WidthInCtus % NumColPerTask # 0
      BY <1>n, <1>1, <1>3, <2>2
    <2> QED
      BY <1>n, <1>1, <1>3, <2>1, <2>2 DEF NumTasksPerLine
  <1>5. c * NumColPerTask \in Nat
    BY <1>n, <1>3
  <1> QED
    BY <1>n, <1>2, <1>3, <1>4, <1>5 DEF CtuStart, CtuEnd, NumCtus

-----------------------------------------------------------------------------
(***************************************************************************)
(* The inductive invariant.  LoopInv says how the state, the place in the  *)
(* code and the loop counter of a task fit together.  GuardsHeld says that *)
(* the guard of every stage a task has entered is true: it was when the    *)
(* task entered, and the states of the neighbours only grow.               *)
(***************************************************************************)
ContStates == {MIDER_cont, INTRA_cont, LF_V_cont, SAO_cont}
InLoop == {"inStage", "failed"}

LoopInv ==
  \A t \in Task :
    /\ ctuState[t] = DONE <=> where[t] = "returned"
    /\ where[t] \notin InLoop => iter[t] = 0 /\ ctuState[t] \notin ContStates
    /\ ctuState[t] \in {MIDER, INTRA, LF_V} => iter[t] = 0
    /\ ctuState[t] \in {MIDER_cont, INTRA_cont, LF_V_cont} => iter[t] >= 1
    /\ ctuState[t] = SAO => iter[t] <= NumCtus(t[2])
    /\ ctuState[t] = SAO_cont => iter[t] > NumCtus(t[2])
    /\ iter[t] <= Iterations(t)

Entered(s, t) == ctuState[t] > s \/ (ctuState[t] = s /\ where[t] \in InLoop)

GuardsHeld ==
  \A l \in Lines, c \in Cols :
    /\ Entered(MIDER, <<l, c>>)  => ReadyMIDER(l, c)
    /\ Entered(INTRA, <<l, c>>)  => ReadyINTRA(l, c)
    /\ Entered(RSP, <<l, c>>)    => ReadyRSP(l, c)
    /\ Entered(LF_V, <<l, c>>)   => ReadyLF_V(l, c)
    /\ Entered(LF_H, <<l, c>>)   => ReadyLF_H(l, c)
    /\ Entered(PRESAO, <<l, c>>) => ReadyPRESAO(l, c)
    /\ Entered(ALF, <<l, c>>)    => ReadyALF(l, c)

IInv == TypeOK /\ LoopInv /\ GuardsHeld

-----------------------------------------------------------------------------
\* The values of the enumeration are visible to all the proofs below.
USE DEF MIDER, MIDER_cont, LF_INIT, INTER, INTRA, INTRA_cont, RSP, LF_V,
        LF_V_cont, LF_H, PRESAO, SAO, SAO_cont, ALF, DONE

\* The ladder of the stages.
LEMMA StageValues ==
  ASSUME NEW s \in TaskType
  PROVE  /\ StageOf(s) \in TaskType \ ContStates
         /\ StageOf(s) <= s
         /\ LastState(StageOf(s)) \in TaskType
         /\ s <= LastState(StageOf(s))
         /\ StageOf(LastState(StageOf(s))) = StageOf(s)
         /\ s # DONE => /\ NextStage(StageOf(s)) \in TaskType \ ContStates
                        /\ NextStage(StageOf(s)) > LastState(StageOf(s))
                        /\ NextStage(StageOf(s)) > s
                        /\ StageOf(s) # DONE
  BY DEF TaskType, ContStates, StageOf, LastState, NextStage

\* The number of iterations of a stage is a number.
LEMMA IterationsType ==
  ASSUME TypeOK, NEW t \in Task
  PROVE  Iterations(t) \in Nat
  <1>1. t[2] \in Cols
    BY DEF Task
  <1>2. NumCtus(t[2]) \in Nat
    BY <1>1, TasksNotEmpty
  <1> QED
    BY <1>2 DEF Iterations, TypeOK

\* A picture starts with every task at MIDER and outside the loops.
LEMMA InitLoopInv ==
  Init => TypeOK /\ LoopInv
  <1> SUFFICES ASSUME Init PROVE TypeOK /\ LoopInv
    OBVIOUS
  <1>1. TypeOK
    <2>1. ctuState \in [Task -> TaskType] /\ iter \in [Task -> Nat]
      BY DEF Init, TaskType
    <2>2. where \in [Task -> Where] /\ exc \in BOOLEAN
      BY DEF Init, Where
    <2>3. lineParsed \in [Lines -> BarrierState] /\ refExt \in BarrierState
      BY DEF Init, BarrierState
    <2> QED
      BY <2>1, <2>2, <2>3 DEF Init, TypeOK
  <1>2. LoopInv
    BY <1>1, IterationsType DEF Init, LoopInv, InLoop, ContStates
  <1> QED
    BY <1>1, <1>2

\* The places outside the stages: only the place of the task changes.
LEMMA PlaceStep ==
  ASSUME TypeOK, LoopInv, NEW t \in Task,
         NEW place \in Where \ {"returned"},
         where[t] # "returned",
         where[t] \in InLoop => place \in InLoop,
         where' = [where EXCEPT ![t] = place],
         exc' \in BOOLEAN, lineParsed' \in [Lines -> BarrierState],
         refExt' \in BarrierState,
         UNCHANGED <<picture, ctuState, iter>>
  PROVE  TypeOK' /\ LoopInv'
  <1>1. TypeOK'
    BY DEF TypeOK, picture
  <1>2. \A u \in Task : Iterations(u)' = Iterations(u)
    BY DEF Iterations, picture
  <1>3. \A u \in Task : where'[u] = IF u = t THEN place ELSE where[u]
    BY DEF TypeOK
  <1>4. LoopInv'
    BY <1>2, <1>3 DEF LoopInv, InLoop
  <1> QED
    BY <1>1, <1>4

\* One iteration of a stage's loop.
LEMMA ProcessCtuLoopInv ==
  ASSUME TypeOK, LoopInv, NEW t \in Task, ProcessCtu(t)
  PROVE  TypeOK' /\ LoopInv'
  <1> DEFINE g == StageOf(ctuState[t])
             n == NumCtus(t[2])
  <1>1. t[2] \in Cols /\ n \in Nat \ {0}
    BY TasksNotEmpty DEF Task
  <1>2. /\ ctuState[t] \in TaskType
        /\ ctuState[t] # DONE
        /\ iter[t] \in Nat
    BY DEF TypeOK, LoopInv, ProcessCtu
  <1>3. /\ g \in TaskType \ ContStates
        /\ LastState(g) \in TaskType
        /\ StageOf(LastState(g)) = g
        /\ g # DONE
    BY <1>2, StageValues
  <1>4. /\ iter' = [iter EXCEPT ![t] = iter[t] + 1]
        /\ where' = where /\ exc' = exc /\ doALF' = doALF
        /\ ctuState' = IF StoresCont(t)
                       THEN [ctuState EXCEPT ![t] = LastState(g)] ELSE ctuState
    BY DEF ProcessCtu, picture
  <1>5. TypeOK'
    BY <1>2, <1>3, <1>4 DEF TypeOK, ProcessCtu, picture, inputs
  <1>6. StageOf(ctuState'[t]) = g /\ iter'[t] = iter[t] + 1
    BY <1>3, <1>4 DEF TypeOK
  <1>7. Iterations(t)' = Iterations(t)
    BY <1>4, <1>6 DEF Iterations
  <1>8. iter'[t] <= Iterations(t)'
    BY <1>2, <1>6, <1>7, IterationsType DEF ProcessCtu
  <1>9. ASSUME NEW u \in Task, u # t
        PROVE  /\ ctuState'[u] = ctuState[u]
               /\ iter'[u] = iter[u]
               /\ Iterations(u)' = Iterations(u)
    BY <1>4, <1>9 DEF TypeOK, Iterations
  <1>10. where[t] = "inStage"
    BY DEF ProcessCtu
  <1>11. CASE StoresCont(t)
    <2>1. ctuState'[t] = LastState(g)
      BY <1>4, <1>11 DEF TypeOK
    <2>2. /\ LastState(g) \in ContStates
          /\ LastState(g) # DONE
          /\ LastState(g) = SAO_cont => iter[t] >= n
      BY <1>11 DEF StoresCont, LastState, ContStates
    <2>3. /\ LastState(g) \notin {MIDER, INTRA, LF_V, SAO, DONE}
      BY <2>2 DEF ContStates
    <2> QED
      BY <1>1, <1>2, <1>4, <1>5, <1>6, <1>8, <1>9, <1>10, <2>1, <2>2, <2>3
      DEF LoopInv, InLoop
  <1>12. CASE ~ StoresCont(t)
    <2>1. ctuState' = ctuState
      BY <1>4, <1>12
    <2>2. /\ g \notin {MIDER, INTRA, LF_V}
          /\ g = SAO => iter[t] < n
      BY <1>1, <1>2, <1>12 DEF StoresCont
    <2>3. /\ ctuState[t] \notin {MIDER, MIDER_cont, INTRA, INTRA_cont, LF_V, LF_V_cont}
          /\ ctuState[t] \in {SAO, SAO_cont} => g = SAO
      BY <2>2 DEF StageOf
    <2> QED
      BY <1>1, <1>2, <1>4, <1>5, <1>6, <1>8, <1>9, <1>10, <2>1, <2>2, <2>3
      DEF LoopInv, InLoop
  <1> QED
    BY <1>5, <1>11, <1>12

\* The end of a stage.
LEMMA LeaveStageLoopInv ==
  ASSUME TypeOK, LoopInv, NEW t \in Task, LeaveStage(t)
  PROVE  TypeOK' /\ LoopInv'
  <1> DEFINE g == StageOf(ctuState[t])
  <1>1. /\ ctuState[t] \in TaskType
        /\ ctuState[t] # DONE
    BY DEF TypeOK, LoopInv, LeaveStage
  <1>2. NextStage(g) \in TaskType \ ContStates
    BY <1>1, StageValues
  <1>3. /\ ctuState' = [ctuState EXCEPT ![t] = NextStage(g)]
        /\ where' = [where EXCEPT ![t] = IF NextStage(g) = DONE
                                         THEN "returned" ELSE "atCase"]
        /\ iter' = [iter EXCEPT ![t] = 0]
        /\ doALF' = doALF
    BY DEF LeaveStage, picture, TypeOK
  <1>4. TypeOK'
    BY <1>2, <1>3 DEF TypeOK, Where, LeaveStage, picture, inputs
  <1>5. ASSUME NEW u \in Task, u # t
        PROVE  /\ ctuState'[u] = ctuState[u]
               /\ where'[u] = where[u]
               /\ iter'[u] = iter[u]
               /\ Iterations(u)' = Iterations(u)
    BY <1>3, <1>5 DEF TypeOK, Iterations
  <1>6. /\ ctuState'[t] = NextStage(g)
        /\ where'[t] = IF NextStage(g) = DONE THEN "returned" ELSE "atCase"
        /\ iter'[t] = 0
    BY <1>3 DEF TypeOK
  <1>7. Iterations(t)' \in Nat
    <2>1. t[2] \in Cols
      BY DEF Task
    <2>2. NumCtus(t[2]) \in Nat
      BY <2>1, TasksNotEmpty
    <2>3. Iterations(t)' \in Nat
      BY <1>4, <2>2 DEF Iterations, TypeOK
    <2> QED
      BY <2>3
  <1>8. t[2] \in Cols
    BY DEF Task
  <1>9. NumCtus(t[2]) \in Nat
    BY <1>8, TasksNotEmpty
  <1> QED
    BY <1>2, <1>4, <1>5, <1>6, <1>7, <1>9 DEF LoopInv, InLoop, ContStates

\* Every step keeps the types and the consistency of each task.
LEMMA NextLoopInv ==
  TypeOK /\ LoopInv /\ [Next]_vars => TypeOK' /\ LoopInv'
  <1> SUFFICES ASSUME TypeOK, LoopInv, [Next]_vars
               PROVE  TypeOK' /\ LoopInv'
    OBVIOUS
  <1>1. ASSUME UNCHANGED <<picture, ctuState, where, iter, exc>>,
               lineParsed' \in [Lines -> BarrierState],
               refExt' \in BarrierState
        PROVE  TypeOK' /\ LoopInv'
    <2>1. TypeOK'
      BY <1>1 DEF TypeOK, picture
    <2>2. LoopInv'
      BY <1>1 DEF LoopInv, Iterations, picture
    <2> QED
      BY <2>1, <2>2
  <1>2. ASSUME NEW l \in Lines, LineParsed(l)
        PROVE  TypeOK' /\ LoopInv'
    BY <1>1, <1>2 DEF LineParsed, TypeOK, BarrierState, picture
  <1>3. CASE ParseFails
    BY <1>1, <1>3 DEF ParseFails, TypeOK, BarrierState, picture
  <1>4. CASE RefsExtended
    BY <1>1, <1>4 DEF RefsExtended, TypeOK, BarrierState, picture
  <1>5. ASSUME NEW t \in Task, TaskStep(t)
        PROVE  TypeOK' /\ LoopInv'
    <2>1. CASE PassBarriers(t)
      BY <2>1, PlaceStep DEF PassBarriers, TypeOK, Where, InLoop, inputs
    <2>2. CASE BarrierThrows(t)
      BY <2>2, PlaceStep DEF BarrierThrows, Throw, TypeOK, Where, InLoop, inputs
    <2>3. CASE Call(t)
      BY <2>3, PlaceStep DEF Call, TypeOK, Where, InLoop, inputs
    <2>4. CASE Rethrow(t)
      BY <2>4, PlaceStep DEF Rethrow, Throw, TypeOK, Where, InLoop, inputs
    <2>5. CASE ReturnFalse(t)
      BY <2>5, PlaceStep DEF ReturnFalse, TypeOK, Where, InLoop, inputs
    <2>6. CASE RefThrows(t)
      BY <2>6, PlaceStep DEF RefThrows, Throw, TypeOK, Where, InLoop, inputs
    <2>7. CASE EnterStage(t)
      BY <2>7, PlaceStep DEF EnterStage, TypeOK, Where, InLoop, inputs
    <2>8. CASE ProcessCtu(t)
      BY <2>8, ProcessCtuLoopInv
    <2>9. CASE StageThrows(t)
      BY <2>9, PlaceStep DEF StageThrows, Throw, TypeOK, Where, InLoop, inputs
    <2>10. CASE LeaveStage(t)
      BY <2>10, LeaveStageLoopInv
    <2> QED
      BY <1>5, <2>1, <2>2, <2>3, <2>4, <2>5, <2>6, <2>7, <2>8, <2>9, <2>10
      DEF TaskStep
  <1>6. CASE UNCHANGED vars
    BY <1>1, <1>6 DEF vars, TypeOK, picture
  <1> QED
    BY <1>2, <1>3, <1>4, <1>5, <1>6 DEF Next

-----------------------------------------------------------------------------
(***************************************************************************)
(* The states of the tasks only grow, so a guard that is true stays true.  *)
(***************************************************************************)
\* No step lowers the state of a task.
LEMMA StatesGrow ==
  ASSUME TypeOK, LoopInv, [Next]_vars
  PROVE  /\ UNCHANGED picture
         /\ \A t \in Task : ctuState'[t] >= ctuState[t]
  <1>1. UNCHANGED picture
    BY DEF Next, LineParsed, ParseFails, RefsExtended, TaskStep, PassBarriers,
           BarrierThrows, Call, Rethrow, ReturnFalse, RefThrows, EnterStage,
           ProcessCtu, StageThrows, LeaveStage, Throw, vars, picture
  <1>2. ASSUME NEW t \in Task, NEW u \in Task, ProcessCtu(t) \/ LeaveStage(t)
        PROVE  ctuState'[u] >= ctuState[u]
    <2>1. ctuState[u] \in TaskType /\ ctuState[t] \in TaskType /\ ctuState[t] # DONE
      BY <1>2 DEF TypeOK, LoopInv, ProcessCtu, LeaveStage
    <2>2. /\ LastState(StageOf(ctuState[t])) >= ctuState[t]
          /\ NextStage(StageOf(ctuState[t])) > ctuState[t]
          /\ LastState(StageOf(ctuState[t])) \in TaskType
          /\ NextStage(StageOf(ctuState[t])) \in TaskType
      BY <2>1, StageValues DEF TaskType
    <2>3. \/ ctuState' = ctuState
          \/ ctuState' = [ctuState EXCEPT ![t] = LastState(StageOf(ctuState[t]))]
          \/ ctuState' = [ctuState EXCEPT ![t] = NextStage(StageOf(ctuState[t]))]
      BY <1>2 DEF ProcessCtu, LeaveStage
    <2> QED
      BY <2>1, <2>2, <2>3 DEF TypeOK, TaskType
  <1>3. \/ ctuState' = ctuState
        \/ \E t \in Task : ProcessCtu(t) \/ LeaveStage(t)
    BY DEF Next, LineParsed, ParseFails, RefsExtended, TaskStep, PassBarriers,
           BarrierThrows, Call, Rethrow, ReturnFalse, RefThrows, EnterStage,
           StageThrows, Throw, vars
  <1>4. \A t \in Task : ctuState[t] >= ctuState[t]
    BY DEF TypeOK, TaskType
  <1> QED
    BY <1>1, <1>2, <1>3, <1>4

\* What a neighbour has reached it does not lose.
LEMMA AtLeastGrows ==
  ASSUME TypeOK, LoopInv, [Next]_vars, NEW l, NEW c, NEW s \in TaskType,
         AtLeast(l, c, s)
  PROVE  AtLeast(l, c, s)'
  <1>1. TypeOK'
    BY NextLoopInv
  <1>2. SUFFICES ASSUME <<l, c>> \in Task
                 PROVE  ctuState'[<<l, c>>] >= s
    BY DEF AtLeast
  <1>3. ctuState[<<l, c>>] >= s
    BY <1>2 DEF AtLeast
  <1>4. ctuState[<<l, c>>] \in TaskType /\ ctuState'[<<l, c>>] \in TaskType
    BY <1>1, <1>2 DEF TypeOK
  <1>5. ctuState'[<<l, c>>] >= ctuState[<<l, c>>]
    BY <1>2, StatesGrow
  <1> QED
    BY <1>3, <1>4, <1>5 DEF TaskType

\* A guard that is true stays true.
LEMMA GuardsGrow ==
  ASSUME TypeOK, LoopInv, [Next]_vars, NEW l \in Lines, NEW c \in Cols
  PROVE  /\ ReadyMIDER(l, c)  => ReadyMIDER(l, c)'
         /\ ReadyINTRA(l, c)  => ReadyINTRA(l, c)'
         /\ ReadyRSP(l, c)    => ReadyRSP(l, c)'
         /\ ReadyLF_V(l, c)   => ReadyLF_V(l, c)'
         /\ ReadyLF_H(l, c)   => ReadyLF_H(l, c)'
         /\ ReadyPRESAO(l, c) => ReadyPRESAO(l, c)'
         /\ ReadyALF(l, c)    => ReadyALF(l, c)'
  <1> DEFINE Grows(m, d, s) == AtLeast(m, d, s) => AtLeast(m, d, s)'
  <1>1. \A m, d : \A s \in TaskType : Grows(m, d, s)
    BY AtLeastGrows
  <1>2. \A m, d : /\ Grows(m, d, MIDER_cont) /\ Grows(m, d, LF_INIT)
                  /\ Grows(m, d, INTRA_cont) /\ Grows(m, d, RSP)
                  /\ Grows(m, d, LF_V) /\ Grows(m, d, LF_V_cont)
                  /\ Grows(m, d, LF_H) /\ Grows(m, d, PRESAO)
                  /\ Grows(m, d, SAO) /\ Grows(m, d, SAO_cont)
                  /\ Grows(m, d, ALF)
    BY <1>1 DEF TaskType
  <1>3. doALF' = doALF
    BY StatesGrow DEF picture
  <1>4. ReadyPRESAO(l, c) => ReadyPRESAO(l, c)'
    BY <1>2 DEF ReadyPRESAO
  <1>5. ReadyALF(l, c) => ReadyALF(l, c)'
    BY <1>2, <1>3 DEF ReadyALF
  <1> QED
    BY <1>2, <1>4, <1>5 DEF ReadyMIDER, ReadyINTRA, ReadyRSP, ReadyLF_V, ReadyLF_H

\* A task gets into a stage through its guard only.
LEMMA EnteredThroughGuard ==
  ASSUME TypeOK, LoopInv, [Next]_vars,
         NEW t \in Task, NEW s \in TaskType \ ContStates, Entered(s, t)'
  PROVE  Entered(s, t) \/ (ctuState[t] = s /\ Ready(t))
  <1>1. TypeOK'
    BY NextLoopInv
  <1>2. /\ ctuState[t] \in TaskType
        /\ ctuState'[t] \in TaskType
    BY <1>1 DEF TypeOK
  <1>3. \/ /\ ctuState'[t] = ctuState[t]
           /\ where'[t] \in InLoop => where[t] \in InLoop
        \/ EnterStage(t)
        \/ ProcessCtu(t)
        \/ LeaveStage(t)
    <2>1. ASSUME NEW u \in Task, TaskStep(u), u # t
          PROVE  ctuState'[t] = ctuState[t] /\ where'[t] = where[t]
      BY <2>1 DEF TaskStep, PassBarriers, BarrierThrows, Call, Rethrow,
                  ReturnFalse, RefThrows, EnterStage, ProcessCtu, StageThrows,
                  LeaveStage, Throw, TypeOK
    <2>2. ASSUME TaskStep(t), ~ EnterStage(t), ~ ProcessCtu(t), ~ LeaveStage(t)
          PROVE  /\ ctuState'[t] = ctuState[t]
                 /\ where'[t] \in InLoop => where[t] \in InLoop
      BY <2>2 DEF TaskStep, PassBarriers, BarrierThrows, Call, Rethrow,
                  ReturnFalse, RefThrows, StageThrows, Throw, TypeOK, InLoop
    <2>3. CASE \E u \in Task : TaskStep(u)
      BY <2>1, <2>2, <2>3
    <2>4. CASE ~ \E u \in Task : TaskStep(u)
      BY <2>4 DEF Next, LineParsed, ParseFails, RefsExtended, vars
    <2> QED
      BY <2>3, <2>4
  <1>4. CASE /\ ctuState'[t] = ctuState[t]
             /\ where'[t] \in InLoop => where[t] \in InLoop
    BY <1>4 DEF Entered
  <1>5. CASE EnterStage(t)
    BY <1>2, <1>5 DEF EnterStage, Entered
  <1>6. CASE ProcessCtu(t) \/ LeaveStage(t)
    <2>1. where[t] \in InLoop /\ ctuState[t] # DONE
      BY <1>6 DEF ProcessCtu, LeaveStage, InLoop, LoopInv
    <2>2. /\ ctuState'[t] \in {ctuState[t], LastState(StageOf(ctuState[t]))}
          \/ /\ ctuState'[t] = NextStage(StageOf(ctuState[t]))
             /\ where'[t] \notin InLoop
      BY <1>6 DEF ProcessCtu, LeaveStage, TypeOK, InLoop
    <2>3. s <= ctuState[t]
      BY <1>2, <2>1, <2>2, s \in TaskType, s \notin ContStates
      DEF Entered, TaskType, ContStates, StageOf, LastState, NextStage
    <2> QED
      BY <1>2, <2>1, <2>3 DEF Entered, TaskType
  <1> QED
    BY <1>3, <1>4, <1>5, <1>6

\* No task is in a stage at first.
LEMMA InitGuardsHeld ==
  Init => GuardsHeld
  BY DEF Init, GuardsHeld, Entered, InLoop, Task

\* The guard of a stage is true when a task enters, and stays true.
LEMMA NextGuardsHeld ==
  TypeOK /\ LoopInv /\ GuardsHeld /\ [Next]_vars => GuardsHeld'
  <1> SUFFICES ASSUME TypeOK, LoopInv, GuardsHeld, [Next]_vars,
                      NEW l \in Lines, NEW c \in Cols
               PROVE  /\ Entered(MIDER, <<l, c>>)'  => ReadyMIDER(l, c)'
                      /\ Entered(INTRA, <<l, c>>)'  => ReadyINTRA(l, c)'
                      /\ Entered(RSP, <<l, c>>)'    => ReadyRSP(l, c)'
                      /\ Entered(LF_V, <<l, c>>)'   => ReadyLF_V(l, c)'
                      /\ Entered(LF_H, <<l, c>>)'   => ReadyLF_H(l, c)'
                      /\ Entered(PRESAO, <<l, c>>)' => ReadyPRESAO(l, c)'
                      /\ Entered(ALF, <<l, c>>)'    => ReadyALF(l, c)'
    BY DEF GuardsHeld
  <1> DEFINE t == <<l, c>>
  <1>1. t \in Task /\ t[1] = l /\ t[2] = c
    BY DEF Task
  <1>2. \A s \in TaskType \ ContStates :
          Entered(s, t)' => Entered(s, t) \/ (ctuState[t] = s /\ Ready(t))
    BY <1>1, EnteredThroughGuard
  <1>3. {MIDER, INTRA, RSP, LF_V, LF_H, PRESAO, ALF} \subseteq TaskType \ ContStates
    BY DEF TaskType, ContStates
  <1> HIDE DEF t
  <1>4. Entered(MIDER, t)' => ReadyMIDER(l, c)
    BY <1>1, <1>2, <1>3 DEF GuardsHeld, Ready, t
  <1>5. Entered(INTRA, t)' => ReadyINTRA(l, c)
    BY <1>1, <1>2, <1>3 DEF GuardsHeld, Ready, t
  <1>6. Entered(RSP, t)' => ReadyRSP(l, c)
    BY <1>1, <1>2, <1>3 DEF GuardsHeld, Ready, t
  <1>7. Entered(LF_V, t)' => ReadyLF_V(l, c)
    BY <1>1, <1>2, <1>3 DEF GuardsHeld, Ready, t
  <1>8. Entered(LF_H, t)' => ReadyLF_H(l, c)
    BY <1>1, <1>2, <1>3 DEF GuardsHeld, Ready, t
  <1>9. Entered(PRESAO, t)' => ReadyPRESAO(l, c)
    BY <1>1, <1>2, <1>3 DEF GuardsHeld, Ready, t
  <1>10. Entered(ALF, t)' => ReadyALF(l, c)
    BY <1>1, <1>2, <1>3 DEF GuardsHeld, Ready, t
  <1> QED
    BY <1>4, <1>5, <1>6, <1>7, <1>8, <1>9, <1>10, GuardsGrow DEF t

\* Spec keeps every state in its type, and the state, the place and the loop
\* counter of every task of ctuTask consistent (DecLibRecon.cpp:707-1091).
THEOREM InductiveInvariant == Spec => []IInv
  <1>1. Init => IInv
    BY InitLoopInv, InitGuardsHeld DEF IInv
  <1>2. IInv /\ [Next]_vars => IInv'
    BY NextLoopInv, NextGuardsHeld DEF IInv
  <1> QED
    BY <1>1, <1>2, PTL DEF Spec

\* Every variable has its type in every reachable state, whatever the size of
\* the picture.
THEOREM TypeCorrect == Spec => []TypeOK
  <1>1. IInv => TypeOK
    BY DEF IInv
  <1> QED
    BY <1>1, InductiveInvariant, PTL

-----------------------------------------------------------------------------
(***************************************************************************)
(* From tasks to CTUs: where the neighbours of a CTU are.                  *)
(***************************************************************************)
\* The task of a CTU exists, and the CTU is one of its loop's.
LEMMA CtuOwner ==
  ASSUME NEW p \in Ctu
  PROVE  /\ p[1] \in 0 .. WidthInCtus - 1
         /\ p[2] \in Lines
         /\ p[1] \div NumColPerTask \in Cols
         /\ Owner(p) \in Task
         /\ Owner(p) = <<p[2], p[1] \div NumColPerTask>>
         /\ Owner(p)[2] = p[1] \div NumColPerTask
         /\ Index(p) \in Nat
         /\ Index(p) < NumCtus(p[1] \div NumColPerTask)
  <1>1. p[1] \in 0 .. WidthInCtus - 1 /\ p[2] \in Lines
    BY DEF Ctu, Lines
  <1>2. /\ p[1] \div NumColPerTask \in Cols
        /\ Index(p) \in Nat
        /\ Index(p) < NumCtus(p[1] \div NumColPerTask)
    BY <1>1, OwnerOfColumn DEF Index
  <1> QED
    BY <1>1, <1>2 DEF Owner, Task

\* Two CTUs side by side, on lines y and z: the left one comes just before the
\* right one in the same task, or the right one opens the next task.
\* Two neighbouring columns: in one task, or at the seam of two.
LEMMA SideBySide ==
  ASSUME NEW x, NEW y, NEW z, <<x, y>> \in Ctu, <<x + 1, z>> \in Ctu
  PROVE  LET c == x \div NumColPerTask
             d == (x + 1) \div NumColPerTask
         IN  \/ d = c /\ Index(<<x + 1, z>>) = Index(<<x, y>>) + 1
             \/ d = c + 1 /\ Index(<<x + 1, z>>) = 0
  <1> DEFINE c == x \div NumColPerTask
             d == (x + 1) \div NumColPerTask
  <1>1. x \in 0 .. WidthInCtus - 1 /\ x + 1 < WidthInCtus /\ x \in Int
    BY SizesAssumption DEF Ctu
  <1>2. \/ d = c
        \/ d = c + 1 /\ x + 1 = CtuStart(d)
    BY <1>1, OwnerOfNextColumn
  <1>3. c \in Cols /\ CtuStart(c) \in Nat
    BY <1>1, OwnerOfColumn, TasksNotEmpty
  <1>4. /\ Index(<<x, y>>) = x - CtuStart(c)
        /\ Index(<<x + 1, z>>) = (x + 1) - CtuStart(d)
    BY DEF Index
  <1>5. CASE d = c
    BY <1>1, <1>3, <1>4, <1>5
  <1>6. CASE d = c + 1 /\ x + 1 = CtuStart(d)
    <2>1. Index(<<x + 1, z>>) = 0
      BY <1>1, <1>4, <1>6
    <2> QED
      BY <1>6, <2>1
  <1> QED
    BY <1>2, <1>5, <1>6

\* The tasks of the CTUs to the left of a CTU and above it.
\* The tasks of the CTUs to the left of a CTU and above it.
LEMMA OwnersLeftAndAbove ==
  ASSUME NEW p \in Ctu, NEW q \in Neighbours(p, LeftAndAbove)
  PROVE  LET y == p[2]
             c == p[1] \div NumColPerTask
         IN  /\ q \in Ctu
             /\ \/ Owner(q) = <<y, c>> /\ Index(q) < Index(p)
                \/ Owner(q) = <<y, c - 1>> /\ Index(p) = 0
                \/ Owner(q) = <<y - 1, c>>
                \/ Owner(q) = <<y - 1, c - 1>> /\ Index(p) = 0
                \/ Owner(q) = <<y - 1, c + 1>> /\ Index(q) = 0
  <1> DEFINE x == p[1]
             y == p[2]
             c == x \div NumColPerTask
  <1>1. q \in Ctu /\ x \in Int /\ y \in Int /\ p = <<x, y>> /\ c \in Int
    BY CtuOwner DEF Neighbours, Ctu, Lines, Cols
  <1>2. /\ c \in Cols
        /\ Index(p) \in Nat /\ Index(q) \in Nat
        /\ Owner(q) = <<q[2], q[1] \div NumColPerTask>>
    BY <1>1, CtuOwner
  <1>3. \/ q = <<x - 1, y>>
        \/ q = <<x - 1, y - 1>>
        \/ q = <<x, y - 1>>
        \/ q = <<x + 1, y - 1>>
    BY <1>1 DEF Neighbours, LeftAndAbove
  <1>4. ASSUME NEW z \in Int, q = <<x - 1, z>>
        PROVE  \/ Owner(q) = <<z, c>> /\ Index(q) < Index(p)
               \/ Owner(q) = <<z, c - 1>> /\ Index(p) = 0
    <2>1. (x - 1) + 1 = x
      BY <1>1
    <2>2. LET b == (x - 1) \div NumColPerTask
          IN  \/ c = b /\ Index(p) = Index(q) + 1
              \/ c = b + 1 /\ Index(p) = 0
      BY <1>1, <1>4, <2>1, SideBySide
    <2>3. (x - 1) \div NumColPerTask \in Int
      BY <1>1, <1>4, CtuOwner DEF Cols
    <2> QED
      BY <1>1, <1>2, <1>4, <2>2, <2>3
  <1>5. CASE q = <<x - 1, y>> \/ q = <<x - 1, y - 1>>
    <2>1. y - 1 \in Int
      BY <1>1
    <2> QED
      BY <1>1, <1>4, <1>5, <2>1
  <1>6. CASE q = <<x, y - 1>>
    BY <1>1, <1>2, <1>6
  <1>7. CASE q = <<x + 1, y - 1>>
    <2>1. LET d == (x + 1) \div NumColPerTask
          IN  \/ d = c
              \/ d = c + 1 /\ Index(q) = 0
      BY <1>1, <1>7, SideBySide
    <2> QED
      BY <1>1, <1>2, <1>7, <2>1
  <1> QED
    BY <1>1, <1>3, <1>5, <1>6, <1>7

-----------------------------------------------------------------------------
(***************************************************************************)
(* Motion derivation.                                                      *)
(***************************************************************************)

\* A guard tells about the neighbours that exist.
\* What a guard says of a task that exists.
LEMMA AtLeastUse ==
  ASSUME NEW l, NEW c, NEW s, AtLeast(l, c, s), <<l, c>> \in Task
  PROVE  ctuState[<<l, c>>] >= s
  BY DEF AtLeast

\* The state of a task as a number.
LEMMA StateType ==
  ASSUME TypeOK, NEW t \in Task
  PROVE  ctuState[t] \in 0 .. 14 /\ iter[t] \in Nat
  BY DEF TypeOK, TaskType

\* A task past the motion derivation, or in it, has neighbours that are done
\* with it; of the task above to the right this may be only its first CTU.
LEMMA MotionTasks ==
  ASSUME IInv, NEW y, NEW c, <<y, c>> \in Task,
         Entered(MIDER, <<y, c>>)
  PROVE  /\ <<y, c - 1>> \in Task => ctuState[<<y, c - 1>>] >= LF_INIT
         /\ <<y - 1, c>> \in Task => ctuState[<<y - 1, c>>] >= LF_INIT
         /\ <<y - 1, c - 1>> \in Task => ctuState[<<y - 1, c - 1>>] >= LF_INIT
         /\ <<y - 1, c + 1>> \in Task => ctuState[<<y - 1, c + 1>>] >= MIDER_cont
  <1>1. y \in Lines /\ c \in Cols /\ y \in Int /\ c \in Int
    BY DEF Task, Lines, Cols
  <1>2. NumTasksPerLine \in Nat
    BY <1>1, TasksNotEmpty
  <1>3. \A l \in Lines, k \in Cols :
          Entered(MIDER, <<l, k>>) => ReadyMIDER(l, k)
    BY DEF IInv, GuardsHeld
  <1>4. \A t \in Task : ctuState[t] \in 0 .. 14
    BY StateType DEF IInv
  <1>5. <<y, c - 1>> \in Task => ctuState[<<y, c - 1>>] >= LF_INIT
    BY <1>1, <1>3, AtLeastUse DEF ReadyMIDER
  <1>6. <<y - 1, c + 1>> \in Task => ctuState[<<y - 1, c + 1>>] >= MIDER_cont
    <2>1. <<y - 1, c + 1>> \in Task => c + 1 < NumTasksPerLine
      BY <1>1, <1>2 DEF Task, Cols
    <2> QED
      BY <1>1, <1>3, <2>1, AtLeastUse DEF ReadyMIDER
  <1>7. <<y - 1, c>> \in Task => ctuState[<<y - 1, c>>] >= LF_INIT
    <2> SUFFICES ASSUME <<y - 1, c>> \in Task
                 PROVE  ctuState[<<y - 1, c>>] >= LF_INIT
      OBVIOUS
    <2>1. CASE c + 1 < NumTasksPerLine
      <3>1. /\ <<y - 1, c + 1>> \in Task
            /\ y - 1 \in Lines /\ c + 1 \in Cols /\ (c + 1) - 1 = c
        BY <1>1, <1>2, <2>1 DEF Task, Cols
      <3>2. Entered(MIDER, <<y - 1, c + 1>>)
        BY <1>4, <1>6, <3>1 DEF Entered
      <3>3. ReadyMIDER(y - 1, c + 1)
        BY <1>3, <3>1, <3>2
      <3>4. AtLeast(y - 1, c, LF_INIT)
        BY <3>1, <3>3 DEF ReadyMIDER
      <3> QED
        BY <3>4, AtLeastUse
    <2>2. CASE ~ (c + 1 < NumTasksPerLine)
      BY <1>1, <1>3, <2>2, AtLeastUse DEF ReadyMIDER
    <2> QED
      BY <2>1, <2>2
  <1>8. <<y - 1, c - 1>> \in Task => ctuState[<<y - 1, c - 1>>] >= LF_INIT
    <2> SUFFICES ASSUME <<y - 1, c - 1>> \in Task
                 PROVE  ctuState[<<y - 1, c - 1>>] >= LF_INIT
      OBVIOUS
    <2>1. <<y - 1, c>> \in Task /\ y - 1 \in Lines /\ c \in Cols
      BY <1>1 DEF Task
    <2>2. Entered(MIDER, <<y - 1, c>>)
      BY <1>4, <1>7, <2>1 DEF Entered
    <2>3. AtLeast(y - 1, c - 1, LF_INIT)
      BY <1>3, <2>1, <2>2 DEF ReadyMIDER
    <2> QED
      BY <2>3, AtLeastUse
  <1> QED
    BY <1>5, <1>6, <1>7, <1>8

\* When the motion of a CTU is derived, and when its deblocking strengths are,
\* the motion of the CTUs to its left and above it is final
\* (TaskDeriveCtuMotionInfo, DecLibRecon.cpp:738-805).
LEMMA MotionSources ==
  IInv => MotionSourcesReady
  <1> SUFFICES ASSUME IInv, NEW p \in Ctu, At(MIDER, p) \/ At(LF_INIT, p),
                      NEW q \in Neighbours(p, LeftAndAbove)
               PROVE  Passed(MIDER, q)
    BY DEF MotionSourcesReady
  <1> DEFINE y == p[2]
             c == p[1] \div NumColPerTask
             t == <<y, c>>
  <1>1. t \in Task /\ Owner(p) = t /\ Index(p) \in Nat
    BY CtuOwner
  <1>2. /\ ctuState[t] \in 0 .. 14 /\ iter[t] \in Nat
        /\ where[t] = "inStage" /\ iter[t] = Index(p)
        /\ StageOf(ctuState[t]) \in {MIDER, LF_INIT}
    BY <1>1, StateType DEF At, IInv
  <1>3. ctuState[t] \in {MIDER, MIDER_cont, LF_INIT}
    BY <1>2 DEF StageOf
  <1>4. Entered(MIDER, t)
    BY <1>2, <1>3 DEF Entered, InLoop
  <1>5. /\ q \in Ctu /\ Owner(q) \in Task
        /\ \/ Owner(q) = <<y, c>> /\ Index(q) < Index(p)
           \/ Owner(q) = <<y, c - 1>> /\ Index(p) = 0
           \/ Owner(q) = <<y - 1, c>>
           \/ Owner(q) = <<y - 1, c - 1>> /\ Index(p) = 0
           \/ Owner(q) = <<y - 1, c + 1>> /\ Index(q) = 0
    BY OwnersLeftAndAbove, CtuOwner
  <1>6. ASSUME ctuState[Owner(q)] >= LF_INIT PROVE Passed(MIDER, q)
    BY <1>5, <1>6, StateType DEF Passed, LastState, IInv
  <1>7. CASE Owner(q) = <<y, c>> /\ Index(q) < Index(p)
    BY <1>2, <1>3, <1>6, <1>7 DEF Passed, StageOf
  <1>8. CASE Owner(q) = <<y - 1, c + 1>> /\ Index(q) = 0
    <2>1. ctuState[Owner(q)] >= MIDER_cont /\ ctuState[Owner(q)] \in 0 .. 14
      BY <1>1, <1>4, <1>5, <1>8, MotionTasks, StateType DEF IInv
    <2>2. ctuState[Owner(q)] = MIDER_cont => iter[Owner(q)] >= 1
      BY <1>5 DEF IInv, LoopInv
    <2> QED
      BY <1>5, <1>6, <1>8, <2>1, <2>2, StateType DEF Passed, StageOf, IInv
  <1>9. CASE \/ Owner(q) = <<y, c - 1>>
             \/ Owner(q) = <<y - 1, c>>
             \/ Owner(q) = <<y - 1, c - 1>>
    BY <1>1, <1>4, <1>5, <1>6, <1>9, MotionTasks
  <1> QED
    BY <1>5, <1>7, <1>8, <1>9

-----------------------------------------------------------------------------
(***************************************************************************)
(* Intra prediction and the inverse reshaping.                             *)
(***************************************************************************)

\* The same ladder for intra prediction.
LEMMA IntraTasks ==
  ASSUME IInv, NEW y, NEW c, <<y, c>> \in Task,
         Entered(INTRA, <<y, c>>)
  PROVE  /\ <<y, c - 1>> \in Task => ctuState[<<y, c - 1>>] >= RSP
         /\ <<y - 1, c>> \in Task => ctuState[<<y - 1, c>>] >= RSP
         /\ <<y - 1, c - 1>> \in Task => ctuState[<<y - 1, c - 1>>] >= RSP
         /\ <<y - 1, c + 1>> \in Task => ctuState[<<y - 1, c + 1>>] >= INTRA_cont
  <1>1. y \in Lines /\ c \in Cols /\ y \in Int /\ c \in Int
    BY DEF Task, Lines, Cols
  <1>2. NumTasksPerLine \in Nat
    BY <1>1, TasksNotEmpty
  <1>3. \A l \in Lines, k \in Cols :
          Entered(INTRA, <<l, k>>) => ReadyINTRA(l, k)
    BY DEF IInv, GuardsHeld
  <1>4. \A t \in Task : ctuState[t] \in 0 .. 14
    BY StateType DEF IInv
  <1>5. <<y, c - 1>> \in Task => ctuState[<<y, c - 1>>] >= RSP
    BY <1>1, <1>3, AtLeastUse DEF ReadyINTRA
  <1>6. <<y - 1, c + 1>> \in Task => ctuState[<<y - 1, c + 1>>] >= INTRA_cont
    <2>1. <<y - 1, c + 1>> \in Task => c + 1 < NumTasksPerLine
      BY <1>1, <1>2 DEF Task, Cols
    <2> QED
      BY <1>1, <1>3, <2>1, AtLeastUse DEF ReadyINTRA
  <1>7. <<y - 1, c>> \in Task => ctuState[<<y - 1, c>>] >= RSP
    <2> SUFFICES ASSUME <<y - 1, c>> \in Task
                 PROVE  ctuState[<<y - 1, c>>] >= RSP
      OBVIOUS
    <2>1. CASE c + 1 < NumTasksPerLine
      <3>1. /\ <<y - 1, c + 1>> \in Task
            /\ y - 1 \in Lines /\ c + 1 \in Cols /\ (c + 1) - 1 = c
        BY <1>1, <1>2, <2>1 DEF Task, Cols
      <3>2. Entered(INTRA, <<y - 1, c + 1>>)
        BY <1>4, <1>6, <3>1 DEF Entered
      <3>3. AtLeast(y - 1, c, RSP)
        BY <1>3, <3>1, <3>2 DEF ReadyINTRA
      <3> QED
        BY <3>3, AtLeastUse
    <2>2. CASE ~ (c + 1 < NumTasksPerLine)
      BY <1>1, <1>3, <2>2, AtLeastUse DEF ReadyINTRA
    <2> QED
      BY <2>1, <2>2
  <1>8. <<y - 1, c - 1>> \in Task => ctuState[<<y - 1, c - 1>>] >= RSP
    <2> SUFFICES ASSUME <<y - 1, c - 1>> \in Task
                 PROVE  ctuState[<<y - 1, c - 1>>] >= RSP
      OBVIOUS
    <2>1. <<y - 1, c>> \in Task /\ y - 1 \in Lines /\ c \in Cols
      BY <1>1 DEF Task
    <2>2. Entered(INTRA, <<y - 1, c>>)
      BY <1>4, <1>7, <2>1 DEF Entered
    <2>3. AtLeast(y - 1, c - 1, RSP)
      BY <1>3, <2>1, <2>2 DEF ReadyINTRA
    <2> QED
      BY <2>3, AtLeastUse
  <1> QED
    BY <1>5, <1>6, <1>7, <1>8

\* A task that is reshaping, or past it, has let the tasks that predict from
\* it finish: those to the right and below to the right have at least done
\* their first CTU, which is the one next to it.
LEMMA ReshapeTasks ==
  ASSUME IInv, NEW y, NEW c, <<y, c>> \in Task,
         Entered(RSP, <<y, c>>)
  PROVE  /\ <<y, c + 1>> \in Task => ctuState[<<y, c + 1>>] >= INTRA_cont
         /\ <<y + 1, c + 1>> \in Task => ctuState[<<y + 1, c + 1>>] >= INTRA_cont
         /\ <<y + 1, c>> \in Task => ctuState[<<y + 1, c>>] >= RSP
         /\ <<y + 1, c - 1>> \in Task => ctuState[<<y + 1, c - 1>>] >= RSP
  <1>1. y \in Lines /\ c \in Cols /\ y \in Int /\ c \in Int
    BY DEF Task, Lines, Cols
  <1>2. ReadyRSP(y, c)
    BY <1>1 DEF IInv, GuardsHeld
  <1>3. /\ <<y, c + 1>> \in Task => ctuState[<<y, c + 1>>] >= INTRA_cont
        /\ <<y + 1, c + 1>> \in Task => ctuState[<<y + 1, c + 1>>] >= INTRA_cont
        /\ <<y + 1, c>> \in Task => ctuState[<<y + 1, c>>] >= RSP
    BY <1>2, AtLeastUse DEF ReadyRSP
  <1>4. <<y + 1, c - 1>> \in Task => ctuState[<<y + 1, c - 1>>] >= RSP
    <2> SUFFICES ASSUME <<y + 1, c - 1>> \in Task
                 PROVE  ctuState[<<y + 1, c - 1>>] >= RSP
      OBVIOUS
    <2>1. <<y + 1, c>> \in Task
      BY <1>1 DEF Task
    <2>2. Entered(INTRA, <<y + 1, c>>)
      BY <1>3, <2>1, StateType DEF IInv, Entered
    <2> QED
      BY <2>1, <2>2, IntraTasks
  <1> QED
    BY <1>3, <1>4

\* When a CTU is intra predicted, the CTUs to its left and above it are
\* predicted completely and none of them is being reshaped or has been
\* (DecLibRecon.cpp:852-917).
LEMMA IntraSources ==
  IInv => IntraSourcesReady
  <1> SUFFICES ASSUME IInv, NEW p \in Ctu, At(INTRA, p),
                      NEW q \in Neighbours(p, LeftAndAbove)
               PROVE  Passed(INTRA, q) /\ ~ Begun(RSP, q)
    BY DEF IntraSourcesReady
  <1> DEFINE y == p[2]
             c == p[1] \div NumColPerTask
             t == <<y, c>>
             u == Owner(q)
  <1>1. t \in Task /\ Owner(p) = t /\ Index(p) \in Nat
    BY CtuOwner
  <1>2. /\ ctuState[t] \in 0 .. 14 /\ iter[t] \in Nat
        /\ where[t] = "inStage" /\ iter[t] = Index(p)
        /\ StageOf(ctuState[t]) = INTRA
    BY <1>1, StateType DEF At, IInv
  <1>3. ctuState[t] \in {INTRA, INTRA_cont}
    BY <1>2 DEF StageOf
  <1>4. Entered(INTRA, t)
    BY <1>2, <1>3 DEF Entered, InLoop
  <1>5. /\ q \in Ctu /\ u \in Task
        /\ \/ u = <<y, c>> /\ Index(q) < Index(p)
           \/ u = <<y, c - 1>> /\ Index(p) = 0
           \/ u = <<y - 1, c>>
           \/ u = <<y - 1, c - 1>> /\ Index(p) = 0
           \/ u = <<y - 1, c + 1>> /\ Index(q) = 0
    BY OwnersLeftAndAbove, CtuOwner
  <1>6. ctuState[u] \in 0 .. 14 /\ iter[u] \in Nat
    BY <1>5, StateType DEF IInv
  <1>7. y \in Int /\ c \in Int
    BY <1>1 DEF Task, Lines, Cols
  <1>8. Passed(INTRA, q)
    <2>1. ASSUME ctuState[u] >= RSP PROVE Passed(INTRA, q)
      BY <1>6, <2>1 DEF Passed, LastState
    <2>2. CASE u = <<y, c>> /\ Index(q) < Index(p)
      BY <1>2, <2>2 DEF Passed
    <2>3. CASE u = <<y - 1, c + 1>> /\ Index(q) = 0
      <3>1. ctuState[u] >= INTRA_cont
        BY <1>1, <1>4, <1>5, <2>3, IntraTasks
      <3>2. ctuState[u] = INTRA_cont => iter[u] >= 1
        BY <1>5 DEF IInv, LoopInv
      <3> QED
        BY <1>6, <2>1, <2>3, <3>1, <3>2 DEF Passed, StageOf
    <2>4. CASE u = <<y, c - 1>> \/ u = <<y - 1, c>> \/ u = <<y - 1, c - 1>>
      BY <1>1, <1>4, <1>5, <2>1, <2>4, IntraTasks
    <2> QED
      BY <1>5, <2>2, <2>3, <2>4
  <1>9. ~ Begun(RSP, q)
    <2> SUFFICES ASSUME Begun(RSP, q) PROVE FALSE
      OBVIOUS
    <2>1. Entered(RSP, u)
      <3>1. \/ ctuState[u] > RSP
            \/ StageOf(ctuState[u]) = RSP /\ where[u] \in InLoop
        BY <1>6 DEF Begun, LastState, InLoop
      <3> QED
        BY <1>6, <3>1 DEF Entered, StageOf
    <2>2. ctuState[u] >= RSP
      BY <1>6, <2>1 DEF Entered
    \* The task of p is not past INTRA, so if it has stored INTRA_cont it has
    \* done a CTU, and is no longer at its first one.
    <2>3. ctuState[t] = INTRA_cont => Index(p) >= 1
      BY <1>1, <1>2 DEF IInv, LoopInv
    <2>4. CASE u = <<y, c>> /\ Index(q) < Index(p)
      BY <1>3, <2>2, <2>4
    <2>5. CASE u = <<y, c - 1>> /\ Index(p) = 0
      <3>1. (c - 1) + 1 = c
        BY <1>7
      <3>2. ctuState[t] >= INTRA_cont
        BY <1>1, <1>5, <2>1, <2>5, <3>1, ReshapeTasks
      <3> QED
        BY <1>3, <2>3, <2>5, <3>2
    <2>6. CASE u = <<y - 1, c>>
      <3>1. (y - 1) + 1 = y
        BY <1>7
      <3>2. ctuState[t] >= RSP
        BY <1>1, <1>5, <2>1, <2>6, <3>1, ReshapeTasks
      <3> QED
        BY <1>3, <3>2
    <2>7. CASE u = <<y - 1, c - 1>> /\ Index(p) = 0
      <3>1. (y - 1) + 1 = y /\ (c - 1) + 1 = c
        BY <1>7
      <3>2. ctuState[t] >= INTRA_cont
        BY <1>1, <1>5, <2>1, <2>7, <3>1, ReshapeTasks
      <3> QED
        BY <1>3, <2>3, <2>7, <3>2
    <2>8. CASE u = <<y - 1, c + 1>>
      <3>1. (y - 1) + 1 = y /\ (c + 1) - 1 = c
        BY <1>7
      <3>2. ctuState[t] >= RSP
        BY <1>1, <1>5, <2>1, <2>8, <3>1, ReshapeTasks
      <3> QED
        BY <1>3, <3>2
    <2> QED
      BY <1>5, <2>4, <2>5, <2>6, <2>7, <2>8
  <1> QED
    BY <1>8, <1>9

\* The two data dependencies hold in every reachable state of every picture.
THEOREM MotionSourcesCorrect == Spec => []MotionSourcesReady
  BY InductiveInvariant, MotionSources, PTL

\* Intra prediction never reads a sample that is missing or overwritten.
THEOREM IntraSourcesCorrect == Spec => []IntraSourcesReady
  BY InductiveInvariant, IntraSources, PTL

-----------------------------------------------------------------------------
(***************************************************************************)
(* Deblocking.                                                             *)
(***************************************************************************)

\* The task of a CTU in the same column as p or in one next to it.
LEMMA OwnerNearby ==
  ASSUME NEW p \in Ctu, NEW q \in Ctu,
         q[1] \in {p[1] - 1, p[1], p[1] + 1}
  PROVE  LET c == p[1] \div NumColPerTask
             z == q[2]
         IN  \/ Owner(q) = <<z, c>>
             \/ Owner(q) = <<z, c - 1>> /\ Index(p) = 0
             \/ Owner(q) = <<z, c + 1>> /\ Index(q) = 0
  <1> DEFINE x == p[1]
             y == p[2]
             z == q[2]
             c == x \div NumColPerTask
  <1>1. /\ x \in Int /\ z \in Int
        /\ p = <<x, y>> /\ q = <<q[1], z>>
        /\ c \in Int
    BY CtuOwner DEF Ctu, Lines, Cols
  <1>2. Owner(q) = <<z, q[1] \div NumColPerTask>>
    BY CtuOwner
  <1>3. CASE q[1] = x - 1
    <2>1. (x - 1) + 1 = x /\ q = <<x - 1, z>>
      BY <1>1, <1>3
    <2>2. LET b == (x - 1) \div NumColPerTask
          IN  \/ c = b
              \/ c = b + 1 /\ Index(p) = 0
      BY <1>1, <2>1, SideBySide
    <2>3. (x - 1) \div NumColPerTask \in Int
      BY <2>1, CtuOwner DEF Cols
    <2> QED
      BY <1>1, <1>2, <1>3, <2>2, <2>3
  <1>4. CASE q[1] = x
    BY <1>1, <1>2, <1>4
  <1>5. CASE q[1] = x + 1
    <2>1. LET d == (x + 1) \div NumColPerTask
          IN  \/ d = c
              \/ d = c + 1 /\ Index(q) = 0
      BY <1>1, <1>5, SideBySide
    <2> QED
      BY <1>1, <1>2, <1>5, <2>1
  <1> QED
    BY <1>3, <1>4, <1>5

\* A task that is copying its line for SAO, or past that, is the last of the
\* line or waits for it; the tasks of the line and of the next are deblocked.
LEMMA PresaoTasks ==
  ASSUME IInv, NEW y \in Lines, Entered(PRESAO, LastOfLine(y))
  PROVE  /\ \A k \in Cols : ctuState[<<y, k>>] >= PRESAO
         /\ y + 1 \in Lines => \A k \in Cols : ctuState[<<y + 1, k>>] >= PRESAO
         /\ y - 1 \in Lines => ctuState[LastOfLine(y - 1)] >= SAO
  <1>1. NumTasksPerLine - 1 \in Cols
    BY OwnerOfColumn, SizesAssumption, TasksNotEmpty DEF Cols
  <1>2. ReadyPRESAO(y, NumTasksPerLine - 1)
    BY <1>1 DEF IInv, GuardsHeld, LastOfLine
  <1> QED
    BY <1>1, <1>2, AtLeastUse DEF ReadyPRESAO, IsLastCol, Task, LastOfLine

\* A CTU is deblocked when the samples on both sides of its edges are ready for
\* it and before the line above is copied (DecLibRecon.cpp:919-1002).
LEMMA DeblockSources ==
  IInv => DeblockSourcesReady
  <1> SUFFICES ASSUME IInv, NEW p \in Ctu
               PROVE  /\ At(LF_V, p) =>
                           \A q \in Neighbours(p, {<<-1, 0>>}) :
                             Passed(RSP, q) /\ ~ Begun(LF_H, q)
                      /\ At(LF_H, p) =>
                           /\ \A q \in Neighbours(p, {<<0, 0>>, <<1, 0>>, <<0, -1>>, <<1, -1>>}) :
                                Passed(LF_V, q)
                           /\ \A q \in Neighbours(p, {<<0, -1>>}) :
                                /\ ctuState[LastOfLine(q[2])] <= PRESAO
                                /\ ~ CopyingLine(q[2])
    BY DEF DeblockSourcesReady
  <1> DEFINE x == p[1]
             y == p[2]
             c == x \div NumColPerTask
             t == <<y, c>>
  <1>1. /\ t \in Task /\ Owner(p) = t /\ Index(p) \in Nat
        /\ x \in Int /\ y \in Lines /\ c \in Cols /\ y \in Int /\ c \in Int
    BY CtuOwner DEF Lines, Cols
  <1>2. ctuState[t] \in 0 .. 14 /\ iter[t] \in Nat
    BY <1>1, StateType DEF IInv
  <1>3. ASSUME At(LF_V, p), NEW q \in Neighbours(p, {<<-1, 0>>})
        PROVE  Passed(RSP, q) /\ ~ Begun(LF_H, q)
    <2> DEFINE u == Owner(q)
    <2>1. where[t] = "inStage" /\ iter[t] = Index(p) /\ ctuState[t] \in {LF_V, LF_V_cont}
      BY <1>1, <1>2, <1>3 DEF At, StageOf
    <2>2. Entered(LF_V, t)
      BY <1>2, <2>1 DEF Entered, InLoop
    <2>3. q \in Ctu /\ q[1] = x - 1 /\ q[2] = y
      BY <1>1, <1>3 DEF Neighbours
    <2>4. u = <<y, c>> \/ (u = <<y, c - 1>> /\ Index(p) = 0)
      <3>1. \/ u = <<y, c>>
            \/ u = <<y, c - 1>> /\ Index(p) = 0
            \/ u = <<y, c + 1>>
        BY <2>3, OwnerNearby
      <3>2. u = <<y, (x - 1) \div NumColPerTask>> /\ (x - 1) + 1 = x
        BY <1>1, <2>3, CtuOwner
      <3>3. (x - 1) \div NumColPerTask <= c
        <4>1. p = <<(x - 1) + 1, y>> /\ q = <<x - 1, y>>
          BY <1>1, <2>3 DEF Ctu
        <4>2. (x - 1) \div NumColPerTask \in Int
          BY <2>3, CtuOwner DEF Cols
        <4> QED
          BY <1>1, <2>3, <3>2, <4>1, <4>2, SideBySide
      <3> QED
        BY <1>1, <3>1, <3>2, <3>3
    <2>5. u \in Task /\ ctuState[u] \in 0 .. 14 /\ iter[u] \in Nat
      BY <2>3, CtuOwner, StateType DEF IInv
    <2>6. CASE u = <<y, c>>
      BY <1>2, <2>1, <2>6 DEF Passed, Begun, LastState, StageOf
    <2>7. CASE u = <<y, c - 1>> /\ Index(p) = 0
      <3>1. ctuState[u] >= LF_V
        BY <1>1, <2>2, <2>5, <2>7, AtLeastUse DEF IInv, GuardsHeld, ReadyLF_V
      <3>2. ASSUME Begun(LF_H, q) PROVE FALSE
        <4>1. Entered(LF_H, u)
          BY <2>5, <3>2 DEF Begun, LastState, StageOf, Entered, InLoop
        <4>2. ReadyLF_H(y, c - 1) /\ (c - 1) + 1 = c
          BY <1>1, <2>5, <2>7, <4>1 DEF IInv, GuardsHeld, Task
        <4>3. ctuState[t] >= LF_V_cont
          BY <1>1, <4>2, AtLeastUse DEF ReadyLF_H
        <4>4. iter[t] >= 1
          BY <1>1, <2>1, <4>3 DEF IInv, LoopInv
        <4> QED
          BY <2>1, <2>7, <4>4
      <3> QED
        BY <2>5, <3>1, <3>2 DEF Passed, LastState
    <2> QED
      BY <2>4, <2>6, <2>7
  <1>4. ASSUME At(LF_H, p)
        PROVE  /\ where[t] = "inStage" /\ ctuState[t] = LF_H
               /\ ReadyLF_H(y, c)
    <2>1. where[t] = "inStage" /\ ctuState[t] = LF_H
      BY <1>1, <1>2, <1>4 DEF At, StageOf
    <2>2. Entered(LF_H, t)
      BY <2>1 DEF Entered, InLoop
    <2> QED
      BY <1>1, <2>1, <2>2 DEF IInv, GuardsHeld
  <1>5. ASSUME At(LF_H, p),
               NEW q \in Neighbours(p, {<<0, 0>>, <<1, 0>>, <<0, -1>>, <<1, -1>>})
        PROVE  Passed(LF_V, q)
    <2> DEFINE u == Owner(q)
               z == q[2]
    <2>1. q \in Ctu /\ q[1] \in {x, x + 1} /\ z \in {y, y - 1}
      BY <1>1, <1>5 DEF Neighbours
    <2>2. u \in Task /\ ctuState[u] \in 0 .. 14 /\ iter[u] \in Nat
      BY <2>1, CtuOwner, StateType DEF IInv
    <2>3. \/ u = <<z, c>>
          \/ u = <<z, c + 1>> /\ Index(q) = 0
      <3>1. CASE q[1] = x
        BY <2>1, <3>1, CtuOwner
      <3>2. CASE q[1] = x + 1
        <4>1. p = <<x, y>> /\ q = <<x + 1, z>>
          BY <2>1, <3>2 DEF Ctu
        <4>2. LET d == (x + 1) \div NumColPerTask
              IN  \/ d = c
                  \/ d = c + 1 /\ Index(q) = 0
          BY <2>1, <4>1, SideBySide
        <4>3. u = <<z, (x + 1) \div NumColPerTask>>
          BY <2>1, <3>2, CtuOwner
        <4> QED
          BY <4>2, <4>3
      <3> QED
        BY <2>1, <3>1, <3>2
    <2>4. CASE u = <<z, c>>
      <3>1. ctuState[u] >= LF_H
        BY <1>4, <1>5, <2>1, <2>2, <2>4, AtLeastUse DEF ReadyLF_H
      <3> QED
        BY <2>2, <3>1 DEF Passed, LastState
    <2>5. CASE u = <<z, c + 1>> /\ Index(q) = 0
      <3>1. ctuState[u] >= LF_V_cont
        BY <1>4, <1>5, <2>1, <2>2, <2>5, AtLeastUse DEF ReadyLF_H
      <3>2. ctuState[u] = LF_V_cont => iter[u] >= 1
        BY <2>2 DEF IInv, LoopInv
      <3> QED
        BY <2>2, <2>5, <3>1, <3>2 DEF Passed, LastState, StageOf
    <2> QED
      BY <2>3, <2>4, <2>5
  <1>6. ASSUME At(LF_H, p), NEW q \in Neighbours(p, {<<0, -1>>})
        PROVE  /\ ctuState[LastOfLine(q[2])] <= PRESAO
               /\ ~ CopyingLine(q[2])
    <2>1. q[2] = y - 1 /\ y - 1 \in Lines /\ (y - 1) + 1 = y
      BY <1>1, <1>6, CtuOwner DEF Neighbours
    <2>2. NumTasksPerLine - 1 \in Cols
      BY <1>1, TasksNotEmpty DEF Cols
    <2>3. LastOfLine(y - 1) \in Task
      BY <2>1, <2>2 DEF Task, LastOfLine
    <2>4. ~ Entered(PRESAO, LastOfLine(y - 1))
      <3>1. ctuState[t] = LF_H
        BY <1>4, <1>6
      <3>2. ASSUME Entered(PRESAO, LastOfLine(y - 1)) PROVE FALSE
        <4>1. \A k \in Cols : ctuState[<<(y - 1) + 1, k>>] >= PRESAO
          BY <1>1, <2>1, <3>2, PresaoTasks
        <4> QED
          BY <1>1, <2>1, <3>1, <4>1
      <3> QED
        BY <3>2
    <2>5. ctuState[LastOfLine(y - 1)] \in 0 .. 14
      BY <2>3, StateType DEF IInv
    <2>6. /\ ctuState[LastOfLine(y - 1)] <= PRESAO
          /\ ~ CopyingLine(y - 1)
      BY <2>4, <2>5 DEF Entered, CopyingLine, InLoop
    <2> QED
      BY <2>1, <2>6
  <1> QED
    BY <1>3, <1>5, <1>6

\* Deblocking finds its samples ready and changes none that has been copied.
THEOREM DeblockSourcesCorrect == Spec => []DeblockSourcesReady
  BY InductiveInvariant, DeblockSources, PTL

-----------------------------------------------------------------------------
(***************************************************************************)
(* SAO and ALF.                                                            *)
(***************************************************************************)

\* A task is in SAO, or past it, only when the copy of its line is made.
LEMMA SaoNeedsCopy ==
  ASSUME IInv, NEW y \in Lines, NEW c \in Cols, ctuState[<<y, c>>] >= SAO
  PROVE  ctuState[LastOfLine(y)] >= SAO
  <1>1. <<y, c>> \in Task /\ LastOfLine(y) \in Task
    BY TasksNotEmpty DEF Task, Cols, LastOfLine
  <1>2. Entered(PRESAO, <<y, c>>)
    BY <1>1, StateType DEF IInv, Entered
  <1>3. ReadyPRESAO(y, c)
    BY <1>2 DEF IInv, GuardsHeld
  <1> QED
    BY <1>1, <1>3, AtLeastUse DEF ReadyPRESAO, IsLastCol, LastOfLine

\* While a line is copied it and the next one are deblocked and without
\* offsets, and the offsets of a CTU are computed from copies that are made
\* (DecLibRecon.cpp:966-1037).
LEMMA SaoSources ==
  IInv => SaoSourcesReady
  <1> SUFFICES ASSUME IInv PROVE SaoSourcesReady
    OBVIOUS
  <1>1. ASSUME NEW y \in Lines, CopyingLine(y),
               NEW p \in Ctu, p[2] \in {y, y + 1}
        PROVE  Passed(LF_H, p) /\ ~ Begun(SAO, p)
    <2> DEFINE c == p[1] \div NumColPerTask
               u == <<p[2], c>>
    <2>1. /\ u \in Task /\ Owner(p) = u /\ p[2] \in Lines /\ c \in Cols
          /\ y \in Int
      BY CtuOwner DEF Lines
    <2>2. ctuState[LastOfLine(y)] = PRESAO /\ Entered(PRESAO, LastOfLine(y))
      BY <1>1 DEF CopyingLine, Entered, InLoop
    <2>3. ctuState[u] \in 0 .. 14 /\ ctuState[u] >= PRESAO
      BY <1>1, <2>1, <2>2, PresaoTasks, StateType DEF IInv
    <2>4. Passed(LF_H, p)
      BY <2>1, <2>3 DEF Passed, LastState
    <2>5. ASSUME Begun(SAO, p) PROVE FALSE
      <3>1. ctuState[u] >= SAO
        BY <2>1, <2>3, <2>5 DEF Begun, LastState, StageOf
      <3>2. ctuState[LastOfLine(p[2])] >= SAO
        BY <2>1, <3>1, SaoNeedsCopy
      <3>3. CASE p[2] = y
        BY <2>2, <3>2, <3>3
      <3>4. CASE p[2] = y + 1
        <4>1. LastOfLine(y + 1) \in Task /\ y + 1 \in Lines /\ (y + 1) - 1 = y
          BY <2>1, <3>4, TasksNotEmpty DEF LastOfLine, Task, Cols
        <4>2. ctuState[LastOfLine(y + 1)] \in 0 .. 14
          BY <4>1, StateType DEF IInv
        <4>3. Entered(PRESAO, LastOfLine(y + 1))
          BY <3>2, <3>4, <4>2 DEF Entered
        <4>4. ctuState[LastOfLine(y)] >= SAO
          BY <1>1, <4>1, <4>3, PresaoTasks
        <4> QED
          BY <2>2, <4>4
      <3> QED
        BY <1>1, <3>3, <3>4
    <2> QED
      BY <2>4, <2>5
  <1>2. ASSUME NEW p \in Ctu, At(SAO, p), NEW y \in {p[2], p[2] - 1} \cap Lines
        PROVE  ctuState[LastOfLine(y)] > PRESAO
    <2> DEFINE c == p[1] \div NumColPerTask
               t == <<p[2], c>>
    <2>1. t \in Task /\ Owner(p) = t /\ p[2] \in Lines /\ c \in Cols
      BY CtuOwner
    <2>2. ctuState[t] \in 0 .. 14 /\ ctuState[t] >= SAO
      BY <1>2, <2>1, StateType DEF IInv, At, StageOf
    <2>3. ctuState[LastOfLine(p[2])] >= SAO
      BY <2>1, <2>2, SaoNeedsCopy
    <2>4. /\ LastOfLine(p[2]) \in Task
          /\ LastOfLine(y) \in Task
      BY <2>1, TasksNotEmpty DEF LastOfLine, Task, Cols
    <2>5. /\ ctuState[LastOfLine(p[2])] \in 0 .. 14
          /\ ctuState[LastOfLine(y)] \in 0 .. 14
      BY <2>4, StateType DEF IInv
    <2>6. ctuState[LastOfLine(y)] >= SAO
      BY <2>1, <2>3, <2>5, PresaoTasks DEF Entered
    <2> QED
      BY <2>5, <2>6
  <1> QED
    BY <1>1, <1>2 DEF SaoSourcesReady

\* Every CTU around one that is filtered has its offsets and its borders
\* (DecLibRecon.cpp:1039-1079).
LEMMA AlfSources ==
  IInv => AlfSourcesReady
  <1> SUFFICES ASSUME IInv, NEW p \in Ctu, At(ALF, p),
                      NEW q \in Neighbours(p, Around)
               PROVE  Passed(SAO, q) /\ Extended(q)
    BY DEF AlfSourcesReady
  <1> DEFINE y == p[2]
             c == p[1] \div NumColPerTask
             t == <<y, c>>
             z == q[2]
             u == Owner(q)
  <1>1. /\ t \in Task /\ Owner(p) = t /\ Index(p) \in Nat
        /\ y \in Lines /\ c \in Cols /\ y \in Int /\ c \in Int
    BY CtuOwner DEF Lines, Cols
  <1>2. /\ q \in Ctu
        /\ q[1] \in {p[1] - 1, p[1], p[1] + 1}
        /\ z \in {y - 1, y, y + 1}
    <2>1. p[1] \in Int
      BY CtuOwner
    <2> QED
      BY <1>1, <2>1 DEF Neighbours, Around
  <1>3. ctuState[t] = ALF /\ Entered(ALF, t) /\ doALF
    <2>1. ctuState[t] \in 0 .. 14 /\ iter[t] \in Nat
      BY <1>1, StateType DEF IInv
    <2>2. where[t] = "inStage" /\ ctuState[t] = ALF /\ iter[t] < Iterations(t)
      BY <1>1, <2>1 DEF At, StageOf
    <2> QED
      BY <2>1, <2>2 DEF Entered, InLoop, Iterations, StageOf
  <1>4. ReadyALF(y, c)
    BY <1>1, <1>3 DEF IInv, GuardsHeld
  <1>5. u \in Task /\ ctuState[u] \in 0 .. 14 /\ iter[u] \in Nat
    BY <1>2, CtuOwner, StateType DEF IInv
  <1>6. ASSUME ctuState[u] >= ALF PROVE Passed(SAO, q) /\ Extended(q)
    BY <1>5, <1>6 DEF Passed, Extended, LastState
  <1>7. \/ u = <<z, c>>
        \/ u = <<z, c - 1>>
        \/ u = <<z, c + 1>> /\ Index(q) = 0
    BY <1>2, OwnerNearby
  <1>8. CASE u = <<z, c>> \/ u = <<z, c - 1>>
    <2>1. ctuState[u] >= ALF
      BY <1>2, <1>3, <1>4, <1>5, <1>8, AtLeastUse DEF ReadyALF
    <2> QED
      BY <1>6, <2>1
  <1>9. CASE u = <<z, c + 1>> /\ Index(q) = 0
    <2>1. ctuState[u] >= SAO_cont
      BY <1>2, <1>3, <1>4, <1>5, <1>9, AtLeastUse DEF ReadyALF
    <2>2. CASE ctuState[u] = SAO_cont
      <3>1. u[2] \in Cols /\ NumCtus(u[2]) \in Nat
        BY <1>5, TasksNotEmpty DEF Task
      <3>2. iter[u] > NumCtus(u[2])
        BY <1>5, <2>2 DEF IInv, LoopInv
      <3> QED
        BY <1>5, <1>9, <2>2, <3>1, <3>2 DEF Passed, Extended, StageOf
    <2>3. CASE ctuState[u] >= ALF
      BY <1>6, <2>3
    <2> QED
      BY <1>5, <2>1, <2>2, <2>3
  <1> QED
    BY <1>7, <1>8, <1>9

\* No line is copied before it is deblocked or after its offsets are added.
THEOREM SaoSourcesCorrect == Spec => []SaoSourcesReady
  BY InductiveInvariant, SaoSources, PTL

\* ALF neither reads a CTU without offsets nor overwrites a copy SAO reads.
THEOREM AlfSourcesCorrect == Spec => []AlfSourcesReady
  BY InductiveInvariant, AlfSources, PTL

-----------------------------------------------------------------------------
(***************************************************************************)
(* No deadlock of the guards.  Among the tasks of lowest state, the first  *)
(* one of the first line finds its guard true: the guards ask of the tasks *)
(* to the left and above to be ahead, and of those to the right and below  *)
(* at most to be no further behind.  PRESAO is the exception, where the    *)
(* last task of the line goes first.                                       *)
(***************************************************************************)

\* Every set of numbers has a least element.
LEMMA LeastNumber ==
  ASSUME NEW T \in SUBSET Nat, T # {}
  PROVE  \E m \in T : \A n \in T : m <= n
  <1> DEFINE R == OpToRel(<, Nat)
  <1>1. IsWellFoundedOn(R, Nat)
    BY NatLessThanWellFounded
  <1>2. \A m, n \in Nat : n < m => <<n, m>> \in R
    BY DEF OpToRel
  <1> HIDE DEF R
  <1>3. PICK m \in T : \A n \in T : ~ (<<n, m>> \in R)
    BY <1>1, WFMin
  <1>4. \A n \in T : ~ (n < m)
    BY <1>2, <1>3
  <1>5. \A n \in T : m <= n
    BY <1>4
  <1> QED
    BY <1>5

\* A task that has thrown has set the exception of the picture.
ThrownInv == \A t \in Task : where[t] \in {"thrown", "failed"} => exc

\* It is there in every reachable state.
LEMMA NextThrownInv ==
  TypeOK /\ ThrownInv /\ [Next]_vars => ThrownInv'
  <1> SUFFICES ASSUME TypeOK, ThrownInv, [Next]_vars PROVE ThrownInv'
    OBVIOUS
  <1>1. ASSUME NEW t \in Task, TaskStep(t) PROVE ThrownInv'
    <2>1. CASE \E place \in Where : Throw(t, place)
      BY <2>1 DEF Throw, ThrownInv
    <2>2. CASE ~ \E place \in Where : Throw(t, place)
      <3>1. /\ exc' = exc
            /\ \/ where' = where
               \/ \E place \in {"queued", "atCase", "inStage", "returned"} :
                    where' = [where EXCEPT ![t] = place]
        BY <1>1, <2>2 DEF TaskStep, PassBarriers, BarrierThrows, Call, Rethrow,
           ReturnFalse, RefThrows, EnterStage, ProcessCtu, StageThrows,
           LeaveStage, Where
      <3> QED
        BY <3>1 DEF ThrownInv, TypeOK
    <2> QED
      BY <2>1, <2>2
  <1>2. CASE UNCHANGED <<where, exc>>
    BY <1>2 DEF ThrownInv
  <1> QED
    BY <1>1, <1>2 DEF Next, LineParsed, ParseFails, RefsExtended, vars

\* Some task of lowest state is the first one of the first line that has any.
LEMMA FirstOfLowest ==
  ASSUME IInv
  PROVE  \E l \in Lines, c \in Cols :
           /\ \A u \in Task : ctuState[<<l, c>>] <= ctuState[u]
           /\ \A m \in Lines, k \in Cols :
                m < l \/ (m = l /\ k < c) =>
                  ctuState[<<l, c>>] < ctuState[<<m, k>>]
  <1>1. 0 \in Lines /\ 0 \in Cols
    <2>1. NumTasksPerLine - 1 \in Cols
      BY OwnerOfColumn, SizesAssumption, TasksNotEmpty DEF Cols
    <2> QED
      BY <2>1, TasksNotEmpty, SizesAssumption DEF Lines, Cols
  <1>2. \A m \in Lines, k \in Cols :
          <<m, k>> \in Task /\ ctuState[<<m, k>>] \in Nat
    BY StateType DEF IInv, Task
  <1> DEFINE S == {ctuState[u] : u \in Task}
  <1>3. S \in SUBSET Nat /\ S # {}
    <2>1. <<0, 0>> \in Task
      BY <1>1 DEF Task
    <2>2. \A u \in Task : ctuState[u] \in Nat
      BY StateType DEF IInv
    <2> QED
      BY <2>1, <2>2
  <1>4. PICK s \in S : \A n \in S : s <= n
    BY <1>3, LeastNumber
  <1> DEFINE L == {m \in Lines : \E k \in Cols : ctuState[<<m, k>>] = s}
  <1>5. L \in SUBSET Nat /\ L # {}
    BY <1>4 DEF Task, Lines
  <1>6. PICK l \in L : \A n \in L : l <= n
    BY <1>5, LeastNumber
  <1> DEFINE C == {k \in Cols : ctuState[<<l, k>>] = s}
  <1>7. C \in SUBSET Nat /\ C # {}
    BY <1>6 DEF Cols
  <1>8. PICK c \in C : \A n \in C : c <= n
    BY <1>7, LeastNumber
  <1>9. ASSUME NEW m \in Lines, NEW k \in Cols, m < l \/ (m = l /\ k < c)
        PROVE  s < ctuState[<<m, k>>]
    <2>1. ctuState[<<m, k>>] \in S /\ ctuState[<<m, k>>] \in Nat /\ s \in Nat
      BY <1>2, <1>3, <1>4
    <2>2. s <= ctuState[<<m, k>>]
      BY <1>4, <2>1
    <2>3. ctuState[<<m, k>>] # s
      BY <1>5, <1>6, <1>7, <1>8, <1>9
    <2> QED
      BY <2>1, <2>2, <2>3
  <1>10. ctuState[<<l, c>>] = s /\ l \in Lines /\ c \in Cols
    BY <1>6, <1>8
  <1>11. \A u \in Task : s <= ctuState[u]
    BY <1>4
  <1> HIDE DEF S, L, C
  <1> QED
    BY <1>9, <1>10, <1>11

\* In a state where no task is inside a stage and nothing has been thrown, a
\* task finds its guard true as long as one is unfinished.
LEMMA SomeGuardTrue ==
  IInv /\ ThrownInv => NoWavefrontDeadlock
  <1> SUFFICES ASSUME IInv, ThrownInv, InputsReady,
                      \A t \in Task : where[t] # "inStage",
                      NEW v \in Task, where[v] # "returned"
               PROVE  \E t \in Task : where[t] # "returned" /\ Ready(t)
    BY DEF NoWavefrontDeadlock
  <1>1. \A t \in Task : /\ ctuState[t] \in 0 .. 14
                        /\ ctuState[t] \notin ContStates
                        /\ ctuState[t] = DONE <=> where[t] = "returned"
    BY StateType DEF IInv, LoopInv, ThrownInv, InputsReady, InLoop
  <1>2. PICK l \in Lines, c \in Cols :
          /\ \A u \in Task : ctuState[<<l, c>>] <= ctuState[u]
          /\ \A m \in Lines, k \in Cols :
               m < l \/ (m = l /\ k < c) =>
                 ctuState[<<l, c>>] < ctuState[<<m, k>>]
    BY FirstOfLowest
  <1> DEFINE t == <<l, c>>
             s == ctuState[t]
             last == NumTasksPerLine - 1
  <1>3. /\ t \in Task /\ t[1] = l /\ t[2] = c
        /\ s \in 0 .. 14 /\ s \notin ContStates
        /\ l \in Int /\ c \in Int /\ NumTasksPerLine \in Nat
        /\ c <= last /\ last \in Cols
    BY <1>1, TasksNotEmpty DEF Task, Lines, Cols
  <1>4. s # DONE /\ where[t] # "returned"
    BY <1>1, <1>2, <1>3
  <1>5. \A m, k : /\ AtLeast(m, k, s)
                  /\ m < l \/ (m = l /\ k < c) => AtLeast(m, k, s + 1)
    <2> SUFFICES ASSUME NEW m, NEW k, <<m, k>> \in Task
                 PROVE  /\ ctuState[<<m, k>>] >= s
                        /\ m < l \/ (m = l /\ k < c) => ctuState[<<m, k>>] >= s + 1
      BY DEF AtLeast
    <2>1. m \in Lines /\ k \in Cols /\ ctuState[<<m, k>>] \in 0 .. 14
      BY <1>1 DEF Task
    <2> QED
      BY <1>2, <1>3, <2>1
  <1>6. \A m, k : \A r \in {MIDER_cont, INTRA_cont, LF_V_cont, SAO_cont} :
          AtLeast(m, k, r) => AtLeast(m, k, r + 1)
    BY <1>1 DEF AtLeast, ContStates
  <1>7. \A m, k : \A r, n \in 0 .. 14 : AtLeast(m, k, r) /\ n <= r => AtLeast(m, k, n)
    BY <1>1 DEF AtLeast
  <1>8. CASE s = MIDER
    BY <1>3, <1>4, <1>5, <1>6, <1>8 DEF Ready, ReadyMIDER
  <1>9. CASE s = INTER
    BY <1>3, <1>4, <1>5, <1>9 DEF Ready, ReadyINTER, InputsReady
  <1>10. CASE s = INTRA
    BY <1>3, <1>4, <1>5, <1>6, <1>10 DEF Ready, ReadyINTRA
  <1>11. CASE s = RSP
    BY <1>3, <1>4, <1>5, <1>7, <1>11 DEF Ready, ReadyRSP
  <1>12. CASE s = LF_V
    BY <1>3, <1>4, <1>5, <1>12 DEF Ready, ReadyLF_V
  <1>13. CASE s = LF_H
    BY <1>3, <1>4, <1>5, <1>7, <1>13 DEF Ready, ReadyLF_H
  <1>14. CASE s = PRESAO
    <2>1. CASE c = last
      <3>1. AtLeast(l - 1, c, SAO)
        BY <1>3, <1>5, <1>14
      <3>2. ReadyPRESAO(l, c)
        BY <1>5, <1>14, <2>1, <3>1 DEF ReadyPRESAO, IsLastCol
      <3> QED
        BY <1>3, <1>4, <1>14, <3>2 DEF Ready
    <2>2. CASE c # last /\ ctuState[<<l, last>>] >= SAO
      <3>1. ReadyPRESAO(l, c)
        BY <2>2 DEF ReadyPRESAO, IsLastCol, AtLeast
      <3> QED
        BY <1>3, <1>4, <1>14, <3>1 DEF Ready
    <2>3. CASE ctuState[<<l, last>>] < SAO
      <3> DEFINE u == <<l, last>>
      <3>1. u \in Task /\ u[1] = l /\ u[2] = last
        BY <1>3 DEF Task
      <3>2. ctuState[u] = PRESAO
        <4>1. s <= ctuState[u] /\ ctuState[u] \in 0 .. 14
          BY <1>1, <1>2, <3>1
        <4> QED
          BY <1>14, <2>3, <4>1
      <3>3. AtLeast(l - 1, last, SAO)
        BY <1>3, <1>5, <1>14
      <3>4. ReadyPRESAO(l, last)
        BY <1>5, <1>14, <3>3 DEF ReadyPRESAO, IsLastCol
      <3>5. where[u] # "returned"
        BY <1>1, <3>1, <3>2
      <3> QED
        BY <3>1, <3>2, <3>4, <3>5 DEF Ready
    <2>4. ctuState[<<l, last>>] \in 0 .. 14
      BY <1>1, <1>3 DEF Task
    <2> QED
      BY <2>1, <2>2, <2>3, <2>4
  <1>15. CASE s = ALF
    <2>1. ReadyALF(l, c)
      BY <1>5, <1>7, <1>15 DEF ReadyALF
    <2> QED
      BY <1>3, <1>4, <1>15, <2>1 DEF Ready
  <1>16. CASE s \in {LF_INIT, SAO}
    BY <1>3, <1>4, <1>16 DEF Ready
  <1> QED
    BY <1>3, <1>4, <1>8, <1>9, <1>10, <1>11, <1>12, <1>13, <1>14, <1>15, <1>16
    DEF ContStates

\* The guards of the stages never block each other for ever, for any size of
\* the picture and of the tasks (DecLibRecon.cpp:735-1090).
THEOREM NoWavefrontDeadlockCorrect == Spec => []NoWavefrontDeadlock
  <1>1. Init => ThrownInv
    BY DEF Init, ThrownInv
  <1>2. IInv => TypeOK
    BY DEF IInv
  <1>3. Spec => []ThrownInv
    BY <1>1, <1>2, NextThrownInv, InductiveInvariant, PTL DEF Spec
  <1> QED
    BY <1>3, InductiveInvariant, SomeGuardTrue, PTL

=============================================================================
