------------------------------ MODULE EncSlice ------------------------------
(***************************************************************************)
(* The coding of pictures in vvenc: EncSlice::xProcessCtuTask.             *)
(*                                                                         *)
(* Every CTU of a picture is a task of the thread pool, and climbs a       *)
(* ladder of stages: encoding, inverse reshaping with the deblocking of    *)
(* vertical edges, deblocking of horizontal edges, and SAO.  There most    *)
(* tasks end; the last CTU of a line of a tile goes on for the line, with  *)
(* the statistics, the derivation and the application of ALF and CCALF.    *)
(* A task looks at the states of its neighbours and either runs one stage  *)
(* or returns false to be called again.  The stages work in place in the   *)
(* reconstruction, so a guard has two sides: what the stage reads has been *)
(* made, and nobody needs any more what it overwrites.                     *)
(*                                                                         *)
(* With inter-frame parallel processing (ifpLines > 0) a picture is coded  *)
(* while its reference pictures are: a line starts when the lines it may   *)
(* refer to have been finished.                                            *)
(***************************************************************************)
EXTENDS Integers, FiniteSets

CONSTANTS WidthInCtus,   \* pcv->widthInCtus
          HeightInCtus,  \* pcv->heightInCtus
          NumPics,       \* pictures, in coding order
          RefPics,       \* the active reference pictures of each
          Configs,       \* encoder configurations
          MaxRunning     \* bound: tasks inside xProcessCtuTask

Picture == 0 .. NumPics - 1
Cols    == 0 .. WidthInCtus - 1
Lines   == 0 .. HeightInCtus - 1
Ctu     == Cols \X Lines

\* A tile is known by its last column and its last line.
ConfigType ==
  [ifpLines     : Nat,            \* m_ifpLines
   asuHeight    : Nat \ {0},      \* height of an ALF unit in CTUs
   wpp          : BOOLEAN,        \* entropyCodingSyncEnabled
   tileParallel : BOOLEAN,        \* m_tileParallelCtuEnc
   acrossTiles  : BOOLEAN,        \* loopFilterAcrossTilesEnabled
   encDelays    : SUBSET (Nat \ {0}), \* m_ctuEncDelay, without and with IBC
   lastCol      : [Cols -> Cols], \* of the tile of each column
   lastRow      : [Lines -> Lines]]

Tiling(n, last) ==
  \A i \in 0 .. n - 1 :
    last[i] >= i /\ \A j \in i .. last[i] : last[j] = last[i]

\* The encoder accepts inter-frame parallel processing with one row of tiles.
ASSUME SizesAssumption ==
  /\ WidthInCtus \in Nat \ {0}
  /\ HeightInCtus \in Nat \ {0}
  /\ NumPics \in Nat
  /\ RefPics \in [Picture -> SUBSET Picture]
  /\ \A p \in Picture : RefPics[p] \subseteq 0 .. p - 1
  /\ MaxRunning \in Nat \ {0}

ASSUME ConfigAssumption ==
  /\ Configs \subseteq ConfigType
  /\ \A g \in Configs :
       /\ Tiling(WidthInCtus, g.lastCol)
       /\ Tiling(HeightInCtus, g.lastRow)
       /\ g.ifpLines > 0 => \A y \in Lines : g.lastRow[y] = HeightInCtus - 1

(***************************************************************************)
(* enum TaskType: the states of a CTU, in the order the guards compare.    *)
(***************************************************************************)
CTU_ENCODE           == 0
RESHAPE_LF_VER       == 1
LF_HOR               == 2
SAO_FILTER           == 3
ALF_GET_STATISTICS   == 4
ALF_DERIVE_FILTER    == 5
ALF_RECONSTRUCT      == 6
CCALF_GET_STATISTICS == 7
CCALF_DERIVE_FILTER  == 8
CCALF_RECONSTRUCT    == 9
FINISH_SLICE         == 10
PROCESS_DONE         == 11
TaskType == CTU_ENCODE .. PROCESS_DONE

VARIABLES
  cfg,          \* m_pcEncCfg, with the tiles of the PPS
  encDelay,     \* m_ctuEncDelay of each picture
  state,        \* m_processStates of each picture
  at,           \* where each task is, see Where
  tileColsDone  \* m_tileColsDone of each picture: per line, tile columns
                \* through CCALF_RECONSTRUCT, and one more for the line

vars   == <<cfg, encDelay, state, at, tileColsDone>>
inputs == <<cfg, encDelay>>

Where == {"absent",     \* the picture has not been started
          "queued",     \* in the pool
          "inStage",    \* in the body of the case of its state
          "fallThrough",\* at the guard of CCALF_GET_STATISTICS, from the case before
          "extending",  \* extending the borders of the finished line
          "leaving",    \* about to store the state after CCALF_RECONSTRUCT
          "returned"}   \* the task returned true

TypeOK ==
  /\ cfg \in Configs
  /\ encDelay \in [Picture -> cfg.encDelays]
  /\ state \in [Picture -> [Ctu -> TaskType]]
  /\ at \in [Picture -> [Ctu -> Where]]
  /\ tileColsDone \in [Picture -> [Lines -> Nat]]

Init ==
  /\ cfg \in Configs
  /\ encDelay \in [Picture -> cfg.encDelays]
  /\ state = [p \in Picture |-> [c \in Ctu |-> CTU_ENCODE]]
  /\ at = [p \in Picture |-> [c \in Ctu |-> "absent"]]
  /\ tileColsDone = [p \in Picture |-> [l \in Lines |-> 0]]

-----------------------------------------------------------------------------
(***************************************************************************)
(* Geometry.                                                               *)
(***************************************************************************)
Lesser(a, b) == IF a <= b THEN a ELSE b

Nb(c, dx, dy)  == <<c[1] + dx, c[2] + dy>>
SameCol(c, d)  == cfg.lastCol[c[1]] = cfg.lastCol[d[1]]
SameRow(c, d)  == cfg.lastRow[c[2]] = cfg.lastRow[d[2]]
SameTile(c, d) == SameCol(c, d) /\ SameRow(c, d)

CanFilterCtuBdry(c, d) == cfg.acrossTiles \/ SameTile(c, d)

NumTileCols == Cardinality({cfg.lastCol[x] : x \in Cols})
HasTiles    == /\ cfg.tileParallel
               /\ \/ cfg.lastCol[0] # WidthInCtus - 1
                  \/ cfg.lastRow[0] # HeightInCtus - 1

\* The last CTU of the line of a tile, whose task works for the line.
LastInTile(c) == <<cfg.lastCol[c[1]], c[2]>>
LineTask      == {c \in Ctu : LastInTile(c) = c}
TileLine(c)   == {d \in Ctu : LastInTile(d) = LastInTile(c)}

\* The order of the addresses ctuRsAddr.
Before(c, d) == c[2] < d[2] \/ (c[2] = d[2] /\ c[1] < d[1])

LastCtu == <<WidthInCtus - 1, HeightInCtus - 1>>

\* m_alfDeriveCtu and m_ccalfDeriveCtu: the filters are derived from the
\* statistics of the CTUs up to these.
AlfDeriveCtu ==
  IF cfg.ifpLines > 0
  THEN <<WidthInCtus - 1,
         Lesser((cfg.ifpLines \div cfg.asuHeight) * cfg.asuHeight + cfg.asuHeight,
                HeightInCtus) - 1>>
  ELSE LastCtu
CcalfDeriveCtu ==
  IF cfg.ifpLines > 0
  THEN <<WidthInCtus - 1, Lesser(cfg.ifpLines + 1, HeightInCtus) - 1>>
  ELSE LastCtu

-----------------------------------------------------------------------------
(***************************************************************************)
(* The guards.  The code's tests have the form "if the neighbour exists    *)
(* and its state is not past s return false"; the checkCtuTaskNb functions *)
(* skip neighbours across a tile boundary that is not filtered.            *)
(***************************************************************************)
Past(p, d, s)        == d \in Ctu => state[p][d] > s
FilterPast(p, c, d, s) == d \in Ctu /\ CanFilterCtuBdry(c, d) => state[p][d] > s

\* Process CTUs of a line from left to right, with tiles in parallel in each.
LineOrder(p, c) ==
  \/ /\ cfg.tileParallel
     /\ state[p][c] = CTU_ENCODE
     /\ c[1] > 0 /\ ~ SameTile(c, Nb(c, -1, 0))
  \/ Past(p, Nb(c, -1, 0), state[p][c])

\* Faulty variant: the tile columns are enough, whatever happens to the borders.
RefPicCtuLineReadyEarly(p, line) ==
  \A q \in RefPics[p] :
    tileColsDone[q][Lesser(line, HeightInCtus - 1)] >= NumTileCols

\* refPicCtuLineReady.
RefPicCtuLineReady(p, line) ==
  \A q \in RefPics[p] :
    tileColsDone[q][Lesser(line, HeightInCtus - 1)] >= NumTileCols + 1

LineStart(c) ==
  c[1] = 0 \/ (cfg.tileParallel /\ ~ SameTile(c, Nb(c, -1, 0)))

ReadyCtuEncode(p, c) ==
  /\ cfg.ifpLines > 0 /\ LineStart(c) =>
       RefPicCtuLineReady(p, c[2] + cfg.ifpLines)
  /\ \/ cfg.tileParallel /\ c[2] > 0 /\ ~ SameTile(c, Nb(c, 0, -1))
     \/ /\ Past(p, Nb(c, 0, -1), CTU_ENCODE)
        /\ cfg.wpp \/ Past(p, Nb(c, 1, -1), CTU_ENCODE)

\* The furthest column right of c that has to be encoded before c is filtered.
CheckRight(p, c)  == Lesser(encDelay[p], cfg.lastCol[c[1]] - c[1])
CheckLeft(c)      == IF c[1] > 0 THEN -1 ELSE 0

\* Faulty variant: the line below is forgotten.
ReadyReshapeLfVerNoBelow(p, c) ==
  /\ HasTiles => \A i \in CheckLeft(c) .. CheckRight(p, c) :
                   FilterPast(p, c, Nb(c, i, -1), CTU_ENCODE)
  /\ \A i \in 0 .. CheckRight(p, c) : FilterPast(p, c, Nb(c, i, 0), CTU_ENCODE)

ReadyReshapeLfVer(p, c) ==
  /\ HasTiles => \A i \in CheckLeft(c) .. CheckRight(p, c) :
                   FilterPast(p, c, Nb(c, i, -1), CTU_ENCODE)
  /\ \A i \in (IF HasTiles THEN CheckLeft(c) ELSE CheckRight(p, c))
                .. CheckRight(p, c) :
       FilterPast(p, c, Nb(c, i, 0), CTU_ENCODE)
  /\ FilterPast(p, c, Nb(c, Lesser(1, cfg.lastCol[c[1]] - c[1]), 1), CTU_ENCODE)

ReadyLfHor(p, c) ==
  /\ FilterPast(p, c, Nb(c, 0, -1), LF_HOR)
  /\ FilterPast(p, c, Nb(c, 1, 0), RESHAPE_LF_VER)

\* Faulty variant: the CTU below to the right is forgotten.
ReadySaoFilterNoBelowRight(p, c) ==
  /\ \A dx \in {0, 1} : Past(p, Nb(c, dx, -1), SAO_FILTER)
  /\ \A d \in {Nb(c, 1, 0), Nb(c, 0, 1)} : Past(p, d, LF_HOR)

ReadySaoFilter(p, c) ==
  /\ \A dx \in {0, 1} : Past(p, Nb(c, dx, -1), SAO_FILTER)
  /\ \A d \in {Nb(c, 1, 0), Nb(c, 0, 1), Nb(c, 1, 1)} : Past(p, d, LF_HOR)

\* Faulty variant: only the task's own tile is looked at.
ReadyAlfGetStatisticsOwnTile(p, c) == FilterPast(p, c, Nb(c, 0, 1), SAO_FILTER)

ReadyAlfGetStatistics(p, c) ==
  \A d \in {Nb(c, 1, 0), Nb(c, 0, 1), Nb(c, 1, 1)} :
    FilterPast(p, c, d, SAO_FILTER)

\* A derivation waits for the statistics of all lines up to it; the lines
\* after it choose among the derived filters in coding order.
AfterDerivation(p, c, derive, stage, next) ==
  cfg.ifpLines > 0 => /\ state[p][derive] >= next
                      /\ FilterPast(p, c, Nb(c, 0, -1), stage)

ReadyAlfDeriveFilter(p, c) ==
  IF c = AlfDeriveCtu
  THEN \A d \in LineTask : d[2] <= c[2] => state[p][d] > ALF_GET_STATISTICS
  ELSE AfterDerivation(p, c, AlfDeriveCtu, ALF_DERIVE_FILTER, ALF_RECONSTRUCT)

BottomLineOfAsu(y) ==
  Lesser((y \div cfg.asuHeight) * cfg.asuHeight + cfg.asuHeight - 1,
         HeightInCtus - 1)

\* Faulty variant: the derivation's CTU has to be past ALF_RECONSTRUCT.
ReadyAlfReconstructLate(p, c) == state[p][AlfDeriveCtu] > ALF_RECONSTRUCT

ReadyAlfReconstruct(p, c) ==
  /\ state[p][AlfDeriveCtu] >= ALF_RECONSTRUCT
  /\ cfg.ifpLines > 0 /\ Before(AlfDeriveCtu, c) /\ cfg.asuHeight > 1 =>
       state[p][<<c[1], BottomLineOfAsu(c[2])>>] >= ALF_RECONSTRUCT

ReadyCcalfGetStatistics(p, c) ==
  \A dy \in {-1, 1} : FilterPast(p, c, Nb(c, 0, dy), ALF_RECONSTRUCT)

ReadyCcalfDeriveFilter(p, c) ==
  IF c = CcalfDeriveCtu
  THEN \A d \in LineTask : d[2] <= c[2] => state[p][d] > CCALF_GET_STATISTICS
  ELSE AfterDerivation(p, c, CcalfDeriveCtu, CCALF_DERIVE_FILTER, CCALF_RECONSTRUCT)

\* Faulty variant: the line below is forgotten.
ReadyCcalfReconstructNoBelow(p, c) ==
  /\ state[p][CcalfDeriveCtu] >= CCALF_RECONSTRUCT
  /\ cfg.ifpLines > 0 => FilterPast(p, c, Nb(c, 0, -1), CCALF_RECONSTRUCT)

ReadyCcalfReconstruct(p, c) ==
  /\ state[p][CcalfDeriveCtu] >= CCALF_RECONSTRUCT
  /\ cfg.ifpLines > 0 =>
       /\ FilterPast(p, c, Nb(c, 0, -1), CCALF_RECONSTRUCT)
       /\ FilterPast(p, c, Nb(c, 0, 1), CCALF_GET_STATISTICS)

ReadyFinishSlice(p, c) == \A d \in Ctu \ {c} : state[p][d] >= FINISH_SLICE

ReadyFor(p, c, s) ==
  /\ s = CTU_ENCODE           => ReadyCtuEncode(p, c)
  /\ s = RESHAPE_LF_VER       => ReadyReshapeLfVer(p, c)
  /\ s = LF_HOR               => ReadyLfHor(p, c)
  /\ s = SAO_FILTER           => ReadySaoFilter(p, c)
  /\ s = ALF_GET_STATISTICS   => ReadyAlfGetStatistics(p, c)
  /\ s = ALF_DERIVE_FILTER    => ReadyAlfDeriveFilter(p, c)
  /\ s = ALF_RECONSTRUCT      => ReadyAlfReconstruct(p, c)
  /\ s = CCALF_GET_STATISTICS => ReadyCcalfGetStatistics(p, c)
  /\ s = CCALF_DERIVE_FILTER  => ReadyCcalfDeriveFilter(p, c)
  /\ s = CCALF_RECONSTRUCT    => ReadyCcalfReconstruct(p, c)
  /\ s = FINISH_SLICE         => ReadyFinishSlice(p, c)

\* The state a task stores at the end of a stage.
NextState(c, s) ==
  CASE s = SAO_FILTER /\ c \notin LineTask -> PROCESS_DONE
    [] s = ALF_GET_STATISTICS /\ Before(c, AlfDeriveCtu) -> ALF_RECONSTRUCT
    [] s = CCALF_GET_STATISTICS /\ Before(c, CcalfDeriveCtu) -> CCALF_RECONSTRUCT
    [] s = CCALF_RECONSTRUCT /\ c # LastCtu -> PROCESS_DONE
    [] OTHER -> s + 1

-----------------------------------------------------------------------------
(***************************************************************************)
(* The steps of the tasks.  A guard reads the states one by one; states    *)
(* only grow, so when it holds it holds for all of them at the last read.  *)
(***************************************************************************)
Inside(p, c)   == at[p][c] \notin {"absent", "queued", "returned"}
AllReturned(p) == \A c \in Ctu : at[p][c] = "returned"

\* EncGOP starts a picture when its references are reconstructed, or, with
\* inter-frame parallel processing, at once; xProcessCtus adds its tasks.
ProcessCtus(p) ==
  /\ \A c \in Ctu : at[p][c] = "absent"
  /\ cfg.ifpLines > 0 \/ \A q \in RefPics[p] : AllReturned(q)
  /\ at' = [at EXCEPT ![p] = [c \in Ctu |-> "queued"]]
  /\ UNCHANGED <<inputs, state, tileColsDone>>

Move(p, c, place) == at' = [at EXCEPT ![p][c] = place]
Store(p, c, s)    == state' = [state EXCEPT ![p][c] = s]

\* A thread calls xProcessCtuTask and finds the task ready.
EnterStage(p, c) ==
  /\ at[p][c] = "queued"
  /\ LineOrder(p, c)
  /\ ReadyFor(p, c, state[p][c])
  /\ Cardinality({x \in Picture \X Ctu : Inside(x[1], x[2])}) < MaxRunning
  /\ Move(p, c, "inStage")
  /\ UNCHANGED <<inputs, state, tileColsDone>>

\* Most stages store the next state and return, mostly false.
LeaveStage(p, c) ==
  LET next == NextState(c, state[p][c])
  IN  /\ at[p][c] = "inStage"
      /\ state[p][c] \notin {ALF_RECONSTRUCT, CCALF_RECONSTRUCT}
      /\ Store(p, c, next)
      /\ Move(p, c, IF next = PROCESS_DONE THEN "returned" ELSE "queued")
      /\ UNCHANGED <<inputs, tileColsDone>>

\* The case of ALF_RECONSTRUCT continues in the next one, without another look
\* at the CTU to the left.
LeaveAlfReconstruct(p, c) ==
  /\ at[p][c] = "inStage"
  /\ state[p][c] = ALF_RECONSTRUCT
  /\ Store(p, c, CCALF_GET_STATISTICS)
  /\ Move(p, c, "fallThrough")
  /\ UNCHANGED <<inputs, tileColsDone>>

FallThrough(p, c) ==
  /\ at[p][c] = "fallThrough"
  /\ Move(p, c, IF ReadyCcalfGetStatistics(p, c) THEN "inStage" ELSE "queued")
  /\ UNCHANGED <<inputs, state, tileColsDone>>

\* After CCALF the tile column is counted; the task that counts the last one
\* extends the borders of the line, and then lets the line be referred to.
CountTileCol(p, c) ==
  /\ at[p][c] = "inStage"
  /\ state[p][c] = CCALF_RECONSTRUCT
  /\ tileColsDone' = [tileColsDone EXCEPT ![p][c[2]] = @ + 1]
  /\ Move(p, c, IF tileColsDone'[p][c[2]] >= NumTileCols
                THEN "extending" ELSE "leaving")
  /\ UNCHANGED <<inputs, state>>

ExtendBorders(p, c) ==
  /\ at[p][c] = "extending"
  /\ tileColsDone' = IF cfg.ifpLines > 0
                     THEN [tileColsDone EXCEPT ![p][c[2]] = @ + 1]
                     ELSE tileColsDone
  /\ Move(p, c, "leaving")
  /\ UNCHANGED <<inputs, state>>

\* The last CTU of the picture goes on to FINISH_SLICE; calling it again is the
\* same as its falling through, as no other CTU is in a state to hold it up.
LeaveCcalfReconstruct(p, c) ==
  /\ at[p][c] = "leaving"
  /\ Store(p, c, NextState(c, CCALF_RECONSTRUCT))
  /\ Move(p, c, IF c = LastCtu THEN "queued" ELSE "returned")
  /\ UNCHANGED <<inputs, tileColsDone>>

TaskStep(p, c) ==
  \/ EnterStage(p, c)
  \/ LeaveStage(p, c)
  \/ LeaveAlfReconstruct(p, c)
  \/ FallThrough(p, c)
  \/ CountTileCol(p, c)
  \/ ExtendBorders(p, c)
  \/ LeaveCcalfReconstruct(p, c)

Next == \E p \in Picture : ProcessCtus(p) \/ \E c \in Ctu : TaskStep(p, c)

Spec == Init /\ [][Next]_vars

\* The threads of the pool look for a task that is ready as long as there are
\* tasks, and no stage runs for ever.
FairSpec == Spec /\ WF_vars(Next)

-----------------------------------------------------------------------------
(***************************************************************************)
(* What the stages have done to a CTU, and what they are doing.            *)
(***************************************************************************)
Running(p, c, s) == at[p][c] = "inStage" /\ state[p][c] = s
Begun(p, c, s)   == state[p][c] > s \/ (state[p][c] = s /\ at[p][c] \in
                                          {"inStage", "extending", "leaving"})
Done(p, c, s)    == state[p][c] > s

Around(c, offsets) == {Nb(c, o[1], o[2]) : o \in offsets} \cap Ctu

\* What intra prediction and IBC may read besides the CTU itself.
EncodeSources(p, c) ==
  {d \in Ctu :
     /\ SameTile(c, d)
     /\ \/ d \in Around(c, {<<-1, -1>>, <<0, -1>>})
        \/ d = Nb(c, 1, -1) /\ ~ cfg.wpp
        \/ d[2] = c[2] /\ d[1] < c[1] /\ d[1] >= c[1] - encDelay[p]}

(***************************************************************************)
(* Intra prediction and IBC read the CTUs of the tile to the left and      *)
(* above before any filter: they have been encoded, and neither they are   *)
(* reshaped and deblocked in place yet, nor the CTU to their right, whose  *)
(* left edge reaches into them.                                            *)
(***************************************************************************)
EncodeSourcesReady ==
  \A p \in Picture, c \in Ctu : Running(p, c, CTU_ENCODE) =>
    \A d \in EncodeSources(p, c) :
      /\ Done(p, d, CTU_ENCODE)
      /\ \A e \in Around(d, {<<0, 0>>, <<1, 0>>}) :
           CanFilterCtuBdry(d, e) => ~ Begun(p, e, RESHAPE_LF_VER)

\* Deblocking vertical edges changes the CTU to the left as well, deblocking
\* horizontal edges the one above.
DeblockSourcesReady ==
  \A p \in Picture, c \in Ctu :
    /\ Running(p, c, RESHAPE_LF_VER) =>
         \A d \in Around(c, {<<-1, 0>>}) : CanFilterCtuBdry(c, d) =>
           Done(p, d, RESHAPE_LF_VER) /\ ~ Begun(p, d, LF_HOR)
    /\ Running(p, c, LF_HOR) =>
         /\ \A d \in Around(c, {<<1, 0>>, <<0, -1>>, <<1, -1>>}) :
              CanFilterCtuBdry(c, d) => Done(p, d, RESHAPE_LF_VER)
         /\ \A d \in Around(c, {<<-1, 0>>, <<0, -1>>, <<-1, -1>>}) :
              ~ Begun(p, d, SAO_FILTER)

\* SAO copies the CTU moved by some samples to the right and down, so that the
\* copies of the CTUs to the left and above hold the rest of it, and adds the
\* offsets in place.
SaoSourcesReady ==
  \A p \in Picture, c \in Ctu : Running(p, c, SAO_FILTER) =>
    /\ \A d \in Around(c, {<<-1, 0>>, <<-1, -1>>, <<0, -1>>}) :
         Done(p, d, SAO_FILTER)
    /\ \A d \in Around(c, {<<1, 0>>, <<0, 1>>, <<1, 1>>}) :
         Done(p, d, LF_HOR) /\ ~ Begun(p, d, SAO_FILTER)

(***************************************************************************)
(* The in-loop filters work in place next to each other: what deblocking   *)
(* and SAO read and change around the CTU is through the stage before, and *)
(* no neighbour has begun the stage after.                                 *)
(***************************************************************************)
LoopFilterSourcesReady == DeblockSourcesReady /\ SaoSourcesReady

(***************************************************************************)
(* ALF works on a copy of the samples after SAO, for the statistics and    *)
(* for the filtering: the CTUs of the line and all around it have made     *)
(* their copies, so nobody deblocks or copies any more what ALF overwrites.*)
(***************************************************************************)
AlfSourcesReady ==
  \A p \in Picture, c \in Ctu :
    Running(p, c, ALF_GET_STATISTICS) \/ Running(p, c, ALF_RECONSTRUCT) =>
      \A d \in TileLine(c) : \A e \in Around(d, (-1 .. 1) \X (-1 .. 1)) :
        CanFilterCtuBdry(d, e) => Done(p, e, SAO_FILTER)

(***************************************************************************)
(* The filters of ALF and of CCALF are derived from the statistics of all  *)
(* CTUs they are derived for, the lines after them choose in coding order, *)
(* and no line is filtered before.  The statistics of CCALF and its        *)
(* derivation read the chroma samples that CCALF changes in place.         *)
(***************************************************************************)
FiltersDerivedFromAll ==
  \A p \in Picture, c \in LineTask :
    /\ Running(p, c, ALF_DERIVE_FILTER) =>
         \A d \in LineTask : Before(d, c) =>
           /\ c = AlfDeriveCtu => Done(p, d, ALF_GET_STATISTICS)
           /\ Before(AlfDeriveCtu, d) /\ SameCol(c, d) => Done(p, d, ALF_DERIVE_FILTER)
    /\ Running(p, c, ALF_RECONSTRUCT) => Done(p, AlfDeriveCtu, ALF_DERIVE_FILTER)
    /\ Running(p, c, CCALF_DERIVE_FILTER) =>
         \A d \in LineTask : Before(d, c) =>
           /\ c = CcalfDeriveCtu => /\ Done(p, d, CCALF_GET_STATISTICS)
                                    /\ ~ Begun(p, d, CCALF_RECONSTRUCT)
           /\ Before(CcalfDeriveCtu, d) /\ SameCol(c, d) =>
                Done(p, d, CCALF_DERIVE_FILTER)
    /\ Running(p, c, CCALF_RECONSTRUCT) =>
         /\ Done(p, CcalfDeriveCtu, CCALF_DERIVE_FILTER)
         /\ \A d \in Around(c, {<<0, -1>>, <<0, 1>>}) :
              CanFilterCtuBdry(c, d) => Done(p, d, CCALF_GET_STATISTICS)

\* No task changes the samples of a line any more, and its borders are there.
LineFinished(q, y) ==
  \A c \in LineTask : c[2] = y =>
    /\ at[q][c] # "extending"
    /\ Done(q, c, CCALF_RECONSTRUCT) \/ at[q][c] = "leaving"

(***************************************************************************)
(* Motion vectors of a CTU reach up to ifpLines lines below it (anywhere   *)
(* without inter-frame parallel processing): in every reference picture    *)
(* the lines up to there are finished, although the code looks only at the *)
(* counter of the lowest one, and only at the start of a line.             *)
(***************************************************************************)
RefLinesReady ==
  \A p \in Picture, c \in Ctu : Running(p, c, CTU_ENCODE) =>
    \A q \in RefPics[p] :
      IF cfg.ifpLines > 0
      THEN \A y \in Lines : y <= c[2] + cfg.ifpLines => LineFinished(q, y)
      ELSE AllReturned(q)

(***************************************************************************)
(* The guards never block each other for ever: every picture is finished,  *)
(* in every layout of tiles, with the lines that wait for other pictures.  *)
(***************************************************************************)
AllPicturesEnd == <>(\A p \in Picture : AllReturned(p))

=============================================================================
