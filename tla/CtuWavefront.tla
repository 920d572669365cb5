---------------------------- MODULE CtuWavefront ----------------------------
(***************************************************************************)
(* The reconstruction of one picture in vvdec: DecLibRecon::ctuTask.       *)
(*                                                                         *)
(* The picture is a grid of CTUs.  Each line is cut into tasks of          *)
(* NumColPerTask neighbouring CTUs (the last one may be narrower), and     *)
(* every task runs the same ladder of stages over its CTUs: motion         *)
(* derivation, loop filter initialisation, inter and intra prediction,     *)
(* inverse reshaping, vertical and horizontal deblocking, SAO and ALF.     *)
(* The tasks share nothing but the atomics ctuStates[]: a task enters a    *)
(* stage when the states of its neighbours say that the samples the stage  *)
(* reads are final, and otherwise returns false to the thread pool, which  *)
(* calls it again later.  Every stage works in place, in buffers that the  *)
(* neighbours use too, so each guard has two sides: what the stage needs   *)
(* must have been made, and nobody may still need what it overwrites.      *)
(*                                                                         *)
(* The pool is modelled in ThreadPool.tla; here a task that is not inside  *)
(* ctuTask may be called at any time, by any thread.                       *)
(***************************************************************************)
EXTENDS Integers, FiniteSets

CONSTANTS WidthInCtus,    \* pcv->widthInCtus
          HeightInCtus,   \* pcv->heightInCtus
          NumColPerTask,  \* CTUs of one task
          NumThreads,     \* threads of the pool
          MaxRunning,     \* bound: how many of them may be in this picture
          MayFail         \* whether parsing, references and stages may throw

ASSUME SizesAssumption ==
  /\ WidthInCtus \in Nat \ {0}
  /\ HeightInCtus \in Nat \ {0}
  /\ NumColPerTask \in 1 .. WidthInCtus
  /\ NumThreads \in Nat \ {0}
  /\ MaxRunning \in 1 .. NumThreads
  /\ MayFail \in BOOLEAN

(***************************************************************************)
(* enum TaskType.  The order of the values is what the guards compare.     *)
(***************************************************************************)
MIDER      == 0    \* derive the motion info
MIDER_cont == 1
LF_INIT    == 2    \* compute the deblocking strengths
INTER      == 3    \* residual and inter prediction
INTRA      == 4    \* intra prediction
INTRA_cont == 5
RSP        == 6    \* inverse reshaping
LF_V       == 7    \* deblock the vertical edges
LF_V_cont  == 8
LF_H       == 9    \* deblock the horizontal edges
PRESAO     == 10   \* copy the deblocked line
SAO        == 11   \* sample adaptive offset, then the borders ALF reads
SAO_cont   == 12
ALF        == 13   \* adaptive loop filter, into the buffer SAO read from
DONE       == 14
TaskType   == MIDER .. DONE

\* The stage whose code a task in this state runs: a *_cont state is stored
\* by the loop of the stage before it.
StageOf(s) == IF s \in {MIDER_cont, INTRA_cont, LF_V_cont, SAO_cont}
              THEN s - 1 ELSE s

\* The last state a task has while it runs stage s, and the next stage.
LastState(s) == IF s \in {MIDER, INTRA, LF_V, SAO} THEN s + 1 ELSE s
NextStage(s) == LastState(s) + 1

NumTasksPerLine ==
  WidthInCtus \div NumColPerTask
    + (IF WidthInCtus % NumColPerTask = 0 THEN 0 ELSE 1)

Lines == 0 .. HeightInCtus - 1
Cols  == 0 .. NumTasksPerLine - 1
Task  == Lines \X Cols

CtuStart(c) == c * NumColPerTask
CtuEnd(c)   == IF CtuStart(c) + NumColPerTask <= WidthInCtus
               THEN CtuStart(c) + NumColPerTask ELSE WidthInCtus
NumCtus(c)  == CtuEnd(c) - CtuStart(c)

VARIABLES
  allIntra,    \* every slice of the picture is intra
  doALF,       \* param->common.doALF
  lineParsed,  \* ctuParsedBarrier of the last CTU of each line
  refExt,      \* the barriers of refPicExtDepBarriers, as one barrier
  ctuState,    \* ctuStates[], one per task
  where,       \* where each task is, see Where
  iter,        \* iterations the current stage's loops have completed
  exc          \* m_ctuTaskCounter.hasException()

vars == <<allIntra, doALF, lineParsed, refExt, ctuState, where, iter, exc>>
picture == <<allIntra, doALF>>
inputs  == <<lineParsed, refExt>>

BarrierState == {"locked", "unlocked", "error"}

Where == {"submitted",  \* in the pool, its barriers not seen unlocked yet
          "queued",     \* in the pool, barriers passed and cleared
          "atCase",     \* inside ctuTask, at the guard of a case
          "inStage",    \* inside ctuTask, in the loops of a stage
          "returned",   \* ctuTask returned true
          "thrown",     \* the task ended with an exception at a guard,
          "failed"}     \* or in the middle of a stage

TypeOK ==
  /\ allIntra \in BOOLEAN
  /\ doALF \in BOOLEAN
  /\ lineParsed \in [Lines -> BarrierState]
  /\ refExt \in BarrierState
  /\ ctuState \in [Task -> TaskType]
  /\ where \in [Task -> Where]
  /\ iter \in [Task -> Nat]
  /\ exc \in BOOLEAN

\* The width of the tasks that decompressPicture chooses for a picture: about
\* one task per thread and line, and two where there is only intra prediction.
ColPerTask(intra) ==
  LET share == WidthInCtus \div (IF intra THEN 2 * NumThreads ELSE NumThreads)
      width == IF intra THEN share ELSE share + 1
  IN  IF width = 0 THEN 1 ELSE IF width > WidthInCtus THEN WidthInCtus ELSE width

\* CommonTaskParam::reset and the end of decompressPicture: all states are
\* MIDER and every task has been added to the pool.  Only slices that are not
\* intra have reference pictures.
Init ==
  /\ allIntra \in BOOLEAN
  /\ NumColPerTask = ColPerTask(allIntra)
  /\ doALF \in BOOLEAN
  /\ lineParsed = [l \in Lines |-> "locked"]
  /\ refExt \in IF allIntra THEN {"unlocked"} ELSE {"locked", "unlocked"}
  /\ ctuState = [t \in Task |-> MIDER]
  /\ where = [t \in Task |-> "submitted"]
  /\ iter = [t \in Task |-> 0]
  /\ exc = FALSE

-----------------------------------------------------------------------------
(***************************************************************************)
(* The guards of the cases of ctuTask.  Every test in the code has the     *)
(* form "if the neighbour exists and its state is below s return false".   *)
(***************************************************************************)
AtLeast(l, c, s) == <<l, c>> \in Task => ctuState[<<l, c>>] >= s

\* Faulty variants of the guards below, each with one test forgotten or
\* tightened: the task above to the right, its first CTU, the line below, and
\* the neighbours to the right.
ReadyMIDERNoAboveRight(l, c) ==
  AtLeast(l, c - 1, LF_INIT) /\ AtLeast(l - 1, c, LF_INIT)

ReadyRSPNoBelowRight(l, c) ==
  AtLeast(l + 1, c, RSP) /\ AtLeast(l, c + 1, INTRA_cont)

ReadyLF_HNoRight(l, c) ==
  AtLeast(l - 1, c, LF_H) /\ AtLeast(l - 1, c + 1, LF_V_cont)

ReadyPRESAONoLineBelow(l, c) ==
  IF c = NumTasksPerLine - 1
  THEN AtLeast(l - 1, c, SAO) /\ \A k \in Cols : AtLeast(l, k, PRESAO)
  ELSE AtLeast(l, NumTasksPerLine - 1, SAO)

ReadyPRESAOLineBelowFirst(l, c) ==
  IF c = NumTasksPerLine - 1
  THEN /\ AtLeast(l - 1, c, SAO)
       /\ \A k \in Cols : AtLeast(l, k, PRESAO) /\ AtLeast(l + 1, k, SAO)
  ELSE AtLeast(l, NumTasksPerLine - 1, SAO)

ReadyALFNoRight(l, c) ==
  doALF =>
    /\ \A m \in {l - 1, l + 1} : AtLeast(m, c - 1, ALF) /\ AtLeast(m, c, ALF)
    /\ AtLeast(l, c - 1, ALF)

ReadyMIDER(l, c) ==
  /\ AtLeast(l, c - 1, LF_INIT)
  /\ IF c + 1 < NumTasksPerLine THEN AtLeast(l - 1, c + 1, MIDER_cont)
                                ELSE AtLeast(l - 1, c, LF_INIT)

ReadyINTER(l, c) ==
  /\ allIntra => AtLeast(l, c - 2, INTRA) /\ AtLeast(l - 1, c, INTRA)
  /\ refExt = "unlocked"

ReadyINTRA(l, c) ==
  /\ AtLeast(l, c - 1, RSP)
  /\ IF c + 1 < NumTasksPerLine THEN AtLeast(l - 1, c + 1, INTRA_cont)
                                ELSE AtLeast(l - 1, c, RSP)

ReadyRSP(l, c) ==
  /\ AtLeast(l + 1, c + 1, INTRA_cont)
  /\ AtLeast(l + 1, c, RSP)
  /\ AtLeast(l, c + 1, INTRA_cont)

ReadyLF_V(l, c) == AtLeast(l, c - 1, LF_V)

ReadyLF_H(l, c) ==
  /\ AtLeast(l - 1, c, LF_H)
  /\ AtLeast(l - 1, c + 1, LF_V_cont)
  /\ AtLeast(l, c + 1, LF_V_cont)

\* The last task of a line copies the whole line, the others wait for it.
IsLastCol(c) == c = NumTasksPerLine - 1

ReadyPRESAO(l, c) ==
  IF IsLastCol(c)
  THEN /\ AtLeast(l - 1, c, SAO)
       /\ \A k \in Cols : AtLeast(l, k, PRESAO) /\ AtLeast(l + 1, k, PRESAO)
  ELSE AtLeast(l, NumTasksPerLine - 1, SAO)

ReadyALF(l, c) ==
  doALF =>
    /\ \A m \in {l - 1, l + 1} : /\ AtLeast(m, c - 1, ALF)
                                 /\ AtLeast(m, c, ALF)
                                 /\ AtLeast(m, c + 1, SAO_cont)
    /\ AtLeast(l, c - 1, ALF)
    /\ AtLeast(l, c + 1, SAO_cont)

Ready(t) ==
  LET l == t[1]
      c == t[2]
      s == ctuState[t]
  IN  /\ s = MIDER  => ReadyMIDER(l, c)
      /\ s = INTER  => ReadyINTER(l, c)
      /\ s = INTRA  => ReadyINTRA(l, c)
      /\ s = RSP    => ReadyRSP(l, c)
      /\ s = LF_V   => ReadyLF_V(l, c)
      /\ s = LF_H   => ReadyLF_H(l, c)
      /\ s = PRESAO => ReadyPRESAO(l, c)
      /\ s = ALF    => ReadyALF(l, c)

\* How often the loops of a stage run.  SAO has two loops: the offsets, and
\* with ALF the extension of the borders.  (A sequence without SAO skips the
\* copy and the offsets: the iterations then stand for no code.)
Iterations(t) ==
  LET s == StageOf(ctuState[t])
      n == NumCtus(t[2])
  IN  CASE s = PRESAO -> IF IsLastCol(t[2]) THEN 1 ELSE 0
        [] s = SAO    -> IF doALF THEN 2 * n ELSE n
        [] s = ALF    -> IF doALF THEN n ELSE 0
        [] OTHER      -> n

\* Whether the loop stores the *_cont state after this iteration.
StoresCont(t) ==
  LET s == StageOf(ctuState[t])
  IN  \/ s \in {MIDER, INTRA, LF_V}
      \/ s = SAO /\ iter[t] >= NumCtus(t[2])

-----------------------------------------------------------------------------
(***************************************************************************)
(* The inputs: the parser unlocks the barriers of the lines (in any order, *)
(* with tiles), the border extension of the reference pictures ends, and   *)
(* either of them may end in an exception.                                 *)
(***************************************************************************)
LineParsed(l) ==
  /\ lineParsed[l] = "locked"
  /\ lineParsed' = [lineParsed EXCEPT ![l] = "unlocked"]
  /\ UNCHANGED <<picture, refExt, ctuState, where, iter, exc>>

\* The catch block of parseTask sets the exception on every CTU's barrier.
ParseFails ==
  /\ MayFail
  /\ \E l \in Lines : lineParsed[l] = "locked"
  /\ lineParsed' = [l \in Lines |-> "error"]
  /\ UNCHANGED <<picture, refExt, ctuState, where, iter, exc>>

RefsExtended ==
  /\ refExt = "locked"
  /\ refExt' \in IF MayFail THEN {"unlocked", "error"} ELSE {"unlocked"}
  /\ UNCHANGED <<picture, lineParsed, ctuState, where, iter, exc>>

-----------------------------------------------------------------------------
\* The task ends with an exception: the pool stores it in the task counter
\* and never calls the task again.
Throw(t, place) ==
  /\ where' = [where EXCEPT ![t] = place]
  /\ exc' = TRUE
  /\ UNCHANGED <<picture, inputs, ctuState, iter>>

\* The pool finds the barriers of the task unlocked and clears them, so that
\* a later exception in them is not seen by this task.
PassBarriers(t) ==
  /\ where[t] = "submitted"
  /\ lineParsed[t[1]] = "unlocked"
  /\ where' = [where EXCEPT ![t] = "queued"]
  /\ UNCHANGED <<picture, inputs, ctuState, iter, exc>>

BarrierThrows(t) ==
  /\ where[t] = "submitted"
  /\ lineParsed[t[1]] = "error"
  /\ Throw(t, "thrown")

\* ctuTask is entered by a free thread (the others may be busy with parsing,
\* or with another picture); it first looks at the picture's exception.
Running == {t \in Task : where[t] \in {"atCase", "inStage"}}

Call(t) ==
  /\ where[t] = "queued"
  /\ Cardinality(Running) < MaxRunning
  /\ ~exc
  /\ where' = [where EXCEPT ![t] = "atCase"]
  /\ UNCHANGED <<picture, inputs, ctuState, iter, exc>>

\* Faulty variant: it returns false and is called again.
RethrowNever(t) ==
  /\ where[t] = "queued"
  /\ exc
  /\ UNCHANGED vars

Rethrow(t) ==
  /\ where[t] = "queued"
  /\ exc
  /\ Throw(t, "thrown")

ReturnFalse(t) ==
  /\ where[t] = "atCase"
  /\ ~ Ready(t)
  /\ ctuState[t] = INTER => refExt # "error"
  /\ where' = [where EXCEPT ![t] = "queued"]
  /\ UNCHANGED <<picture, inputs, ctuState, iter, exc>>

\* isBlocked() of a reference's barrier throws.
RefThrows(t) ==
  /\ where[t] = "atCase"
  /\ ctuState[t] = INTER
  /\ refExt = "error"
  /\ Throw(t, "thrown")

EnterStage(t) ==
  /\ where[t] = "atCase"
  /\ Ready(t)
  /\ where' = [where EXCEPT ![t] = "inStage"]
  /\ UNCHANGED <<picture, inputs, ctuState, iter, exc>>

\* One iteration of the stage's loop, with the *_cont state it stores.
ProcessCtu(t) ==
  /\ where[t] = "inStage"
  /\ iter[t] < Iterations(t)
  /\ iter' = [iter EXCEPT ![t] = @ + 1]
  /\ ctuState' = IF StoresCont(t)
                 THEN [ctuState EXCEPT ![t] = LastState(StageOf(@))]
                 ELSE ctuState
  /\ UNCHANGED <<picture, inputs, where, exc>>

StageThrows(t) ==
  /\ MayFail
  /\ where[t] = "inStage"
  /\ iter[t] < Iterations(t)
  /\ Throw(t, "failed")

\* The state of the next stage is stored and its case entered without a new
\* look at the exception; after the last one ctuTask returns true.
LeaveStage(t) ==
  /\ where[t] = "inStage"
  /\ iter[t] = Iterations(t)
  /\ ctuState' = [ctuState EXCEPT ![t] = NextStage(StageOf(@))]
  /\ where' = [where EXCEPT
                 ![t] = IF ctuState'[t] = DONE THEN "returned" ELSE "atCase"]
  /\ iter' = [iter EXCEPT ![t] = 0]
  /\ UNCHANGED <<picture, inputs, exc>>

TaskStep(t) ==
  \/ PassBarriers(t)
  \/ BarrierThrows(t)
  \/ Call(t)
  \/ Rethrow(t)
  \/ ReturnFalse(t)
  \/ RefThrows(t)
  \/ EnterStage(t)
  \/ ProcessCtu(t)
  \/ StageThrows(t)
  \/ LeaveStage(t)

Next ==
  \/ \E l \in Lines : LineParsed(l)
  \/ ParseFails
  \/ RefsExtended
  \/ \E t \in Task : TaskStep(t)

Spec == Init /\ [][Next]_vars

\* The parser and the border extension end, no thread stops, and a thread that
\* searches for work starts behind the slot it served last, so that a task that
\* waits in the pool is not passed over for ever.
Fairness ==
  /\ \A l \in Lines : WF_vars(LineParsed(l))
  /\ WF_vars(RefsExtended)
  /\ \A t \in Task : WF_vars(TaskStep(t)) /\ SF_vars(Call(t))

FairSpec == Spec /\ Fairness

-----------------------------------------------------------------------------
(***************************************************************************)
(* What the stages have done to a CTU <<x, y>>, and what they are doing.   *)
(***************************************************************************)
Ctu == (0 .. WidthInCtus - 1) \X (0 .. HeightInCtus - 1)

Owner(p) == <<p[2], p[1] \div NumColPerTask>>
Index(p) == p[1] - CtuStart(p[1] \div NumColPerTask)

\* The (first) loop of stage s has run over the CTU.
Passed(s, p) ==
  LET t == Owner(p)
  IN  \/ ctuState[t] > LastState(s)
      \/ StageOf(ctuState[t]) = s /\ iter[t] > Index(p)

\* It has at least begun to.
Begun(s, p) ==
  LET t == Owner(p)
  IN  \/ ctuState[t] > LastState(s)
      \/ /\ StageOf(ctuState[t]) = s
         /\ where[t] \in {"inStage", "failed"}
         /\ iter[t] >= Index(p)

\* A thread is inside the body of the (first) loop of stage s for the CTU.
At(s, p) ==
  LET t == Owner(p)
  IN  /\ where[t] = "inStage"
      /\ StageOf(ctuState[t]) = s
      /\ iter[t] = Index(p)
      /\ iter[t] < Iterations(t)

\* The line copy of PRESAO, made by the last task of the line.
LastOfLine(y) == <<y, NumTasksPerLine - 1>>
CopyingLine(y) == /\ where[LastOfLine(y)] = "inStage"
                  /\ ctuState[LastOfLine(y)] = PRESAO

\* The second loop of SAO has extended the borders next to the CTU.
Extended(p) ==
  LET t == Owner(p)
  IN  \/ ctuState[t] > SAO_cont
      \/ /\ StageOf(ctuState[t]) = SAO
         /\ iter[t] > NumCtus(t[2]) + Index(p)

Neighbours(p, offsets) == {<<p[1] + o[1], p[2] + o[2]>> : o \in offsets} \cap Ctu

LeftAndAbove == {<<-1, 0>>, <<-1, -1>>, <<0, -1>>, <<1, -1>>}
Around == ((-1 .. 1) \X (-1 .. 1)) \ {<<0, 0>>}

(***************************************************************************)
(* Motion derivation reads the motion info of the CTUs to the left and     *)
(* above (merge candidates, history of the line), and the deblocking       *)
(* strengths compare motion across the CTU's left and top edges: it is     *)
(* final in all of them.                                                   *)
(***************************************************************************)
MotionSourcesReady ==
  \A p \in Ctu : At(MIDER, p) \/ At(LF_INIT, p) =>
    \A q \in Neighbours(p, LeftAndAbove) : Passed(MIDER, q)

(***************************************************************************)
(* Intra prediction reads reconstructed samples of the CTUs to the left    *)
(* and above: they are complete, and they have not yet been overwritten by *)
(* the inverse reshaping, which works in place (nor, after it, deblocked). *)
(***************************************************************************)
IntraSourcesReady ==
  \A p \in Ctu : At(INTRA, p) =>
    \A q \in Neighbours(p, LeftAndAbove) : Passed(INTRA, q) /\ ~ Begun(RSP, q)

(***************************************************************************)
(* Deblocking vertical edges changes samples on both sides of the CTU's    *)
(* left edge: the left CTU has been reshaped, and not been deblocked       *)
(* horizontally.  Deblocking horizontal edges needs the vertical edges     *)
(* done in the CTU, the one above and the ones to their right, whose left  *)
(* edges reach into them; and it changes the bottom of the CTU above,      *)
(* which must not have been copied for SAO.                                *)
(***************************************************************************)
DeblockSourcesReady ==
  \A p \in Ctu :
    /\ At(LF_V, p) =>
         \A q \in Neighbours(p, {<<-1, 0>>}) : Passed(RSP, q) /\ ~ Begun(LF_H, q)
    /\ At(LF_H, p) =>
         /\ \A q \in Neighbours(p, {<<0, 0>>, <<1, 0>>, <<0, -1>>, <<1, -1>>}) :
              Passed(LF_V, q)
         /\ \A q \in Neighbours(p, {<<0, -1>>}) :
              /\ ctuState[LastOfLine(q[2])] <= PRESAO
              /\ ~ CopyingLine(q[2])

(***************************************************************************)
(* The copy of a line for SAO takes the line and the first rows of the     *)
(* next one: both are completely deblocked, and no CTU of them has had     *)
(* its offsets added in place.  The offsets of a CTU then read the copies  *)
(* of its own line and of the line above.                                  *)
(***************************************************************************)
SaoSourcesReady ==
  /\ \A y \in Lines : CopyingLine(y) =>
       \A p \in Ctu : p[2] \in {y, y + 1} => Passed(LF_H, p) /\ ~ Begun(SAO, p)
  /\ \A p \in Ctu : At(SAO, p) =>
       \A y \in {p[2], p[2] - 1} \cap Lines :
         ctuState[LastOfLine(y)] > PRESAO

(***************************************************************************)
(* ALF reads the samples around the CTU after SAO with the borders         *)
(* extended, and writes into the buffer that SAO reads its copies from     *)
(* (m_fltBuf is both): every CTU around it is through SAO.                 *)
(***************************************************************************)
AlfSourcesReady ==
  \A p \in Ctu : At(ALF, p) =>
    \A q \in Neighbours(p, Around) : Passed(SAO, q) /\ Extended(q)

(***************************************************************************)
(* The guards never block each other for ever.  Once the inputs are there  *)
(* and nothing has thrown, a picture with unfinished tasks, none of them   *)
(* in a stage, has a task that can enter its next stage.                   *)
(***************************************************************************)
InputsReady == /\ \A l \in Lines : lineParsed[l] = "unlocked"
               /\ refExt = "unlocked"
               /\ ~ exc

NoWavefrontDeadlock ==
  InputsReady /\ (\A t \in Task : where[t] # "inStage") =>
    \/ \A t \in Task : where[t] = "returned"
    \/ \E t \in Task : where[t] # "returned" /\ Ready(t)

(***************************************************************************)
(* Every task leaves the pool, by returning true or with an exception:     *)
(* otherwise the picture's task counter never reaches zero and             *)
(* waitForAllTasks blocks the decoder for ever.                            *)
(***************************************************************************)
AllTasksLeave == <>(\A t \in Task : where[t] \in {"returned", "thrown", "failed"})

=============================================================================
