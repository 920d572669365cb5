--------------------------- MODULE EncSlice_proofs ---------------------------
(***************************************************************************)
(* Proofs about EncSlice, for any number of pictures of any size that      *)
(* refer to each other, in every configuration and layout of tiles.        *)
(***************************************************************************)
EXTENDS EncSlice, FiniteSetTheorems, TLAPS

-----------------------------------------------------------------------------
(***************************************************************************)
(* Geometry.                                                               *)
(***************************************************************************)

\* Addresses.
LEMMA CtuPosition ==
  ASSUME NEW c \in Ctu
  PROVE  /\ c = <<c[1], c[2]>>
         /\ c[1] \in Int /\ 0 <= c[1] /\ c[1] < WidthInCtus
         /\ c[2] \in Int /\ 0 <= c[2] /\ c[2] < HeightInCtus
         /\ c[1] \in Cols /\ c[2] \in Lines
  BY SizesAssumption DEF Ctu, Cols, Lines

LEMMA CtuOfPosition ==
  ASSUME NEW x \in Int, NEW y \in Int
  PROVE  <<x, y>> \in Ctu <=> /\ 0 <= x /\ x < WidthInCtus
                              /\ 0 <= y /\ y < HeightInCtus
  BY SizesAssumption DEF Ctu, Cols, Lines

\* What a configuration is.
LEMMA ConfigFacts ==
  ASSUME NEW g \in Configs
  PROVE  /\ g.ifpLines \in Nat
         /\ g.asuHeight \in Nat \ {0}
         /\ g.encDelays \subseteq Nat \ {0}
         /\ g.lastCol \in [Cols -> Cols]
         /\ g.lastRow \in [Lines -> Lines]
         /\ \A x \in Cols : /\ x <= g.lastCol[x]
                            /\ \A z \in x .. g.lastCol[x] : g.lastCol[z] = g.lastCol[x]
         /\ g.ifpLines > 0 => \A y \in Lines : g.lastRow[y] = HeightInCtus - 1
  BY SizesAssumption, ConfigAssumption DEF ConfigType, Tiling, Cols, Lines

\* A tile column is an interval, and ends with its last column.
LEMMA TileColumns ==
  ASSUME cfg \in Configs, NEW x \in Cols
  PROVE  /\ cfg.lastCol[x] \in Cols /\ x <= cfg.lastCol[x]
         /\ cfg.lastCol[cfg.lastCol[x]] = cfg.lastCol[x]
         /\ \A z \in Cols :
              x <= z /\ z <= cfg.lastCol[x] => cfg.lastCol[z] = cfg.lastCol[x]
         /\ \A y, z \in Cols :
              x <= z /\ z <= y /\ cfg.lastCol[y] = cfg.lastCol[x]
                => cfg.lastCol[z] = cfg.lastCol[x]
  <1>1. /\ cfg.lastCol \in [Cols -> Cols]
        /\ \A u \in Cols : /\ u <= cfg.lastCol[u]
                           /\ \A z \in u .. cfg.lastCol[u] : cfg.lastCol[z] = cfg.lastCol[u]
    BY ConfigFacts
  <1>2. cfg.lastCol[x] \in Cols /\ x <= cfg.lastCol[x]
    BY <1>1
  <1>3. \A z \in Cols : z \in Int
    BY SizesAssumption DEF Cols
  <1>4. cfg.lastCol[x] \in x .. cfg.lastCol[x]
    BY <1>2, <1>3
  <1>5. \A z \in Cols : x <= z /\ z <= cfg.lastCol[x] => cfg.lastCol[z] = cfg.lastCol[x]
    BY <1>1, <1>2, <1>3
  <1>6. \A y, z \in Cols : x <= z /\ z <= y /\ cfg.lastCol[y] = cfg.lastCol[x]
                             => z <= cfg.lastCol[x]
    BY <1>1, <1>3
  <1> QED
    BY <1>1, <1>2, <1>4, <1>5, <1>6

\* The CTUs the filters are derived at are the last of their lines.
LEMMA DeriveCtus ==
  ASSUME cfg \in Configs
  PROVE  /\ AlfDeriveCtu \in Ctu /\ AlfDeriveCtu \in LineTask
         /\ CcalfDeriveCtu \in Ctu /\ CcalfDeriveCtu \in LineTask
         /\ LastCtu \in Ctu /\ LastCtu \in LineTask
         /\ cfg.ifpLines = 0 => AlfDeriveCtu = LastCtu /\ CcalfDeriveCtu = LastCtu
  <1>1. /\ cfg.ifpLines \in Nat /\ cfg.asuHeight \in Nat \ {0}
        /\ WidthInCtus \in Nat \ {0} /\ HeightInCtus \in Nat \ {0}
    BY ConfigFacts, SizesAssumption
  <1>2. \A y \in Int : 0 <= y /\ y < HeightInCtus =>
          <<WidthInCtus - 1, y>> \in Ctu /\ <<WidthInCtus - 1, y>> \in LineTask
    <2> SUFFICES ASSUME NEW y \in Int, 0 <= y, y < HeightInCtus
                 PROVE  <<WidthInCtus - 1, y>> \in Ctu
                        /\ <<WidthInCtus - 1, y>> \in LineTask
      OBVIOUS
    <2>1. <<WidthInCtus - 1, y>> \in Ctu
      BY <1>1, CtuOfPosition
    <2>2. WidthInCtus - 1 \in Cols /\ \A x \in Cols : x \in Int /\ x <= WidthInCtus - 1
      BY <1>1 DEF Cols
    <2>3. cfg.lastCol[WidthInCtus - 1] = WidthInCtus - 1
      BY <1>1, <2>2, TileColumns
    <2> QED
      BY <2>1, <2>3 DEF LineTask, LastInTile
  <1> DEFINE q == cfg.ifpLines \div cfg.asuHeight
  <1>3. q \in Nat
    BY <1>1
  <1>4. q * cfg.asuHeight \in Nat
    BY <1>1, <1>3
  <1> DEFINE lines == q * cfg.asuHeight + cfg.asuHeight
  <1>5. lines \in Nat \ {0}
    BY <1>1, <1>4
  <1>6. AlfDeriveCtu = IF cfg.ifpLines > 0
                       THEN <<WidthInCtus - 1, Lesser(lines, HeightInCtus) - 1>>
                       ELSE LastCtu
    BY DEF AlfDeriveCtu
  <1> HIDE DEF lines
  <1>7. /\ Lesser(lines, HeightInCtus) - 1 \in Int
        /\ 0 <= Lesser(lines, HeightInCtus) - 1
        /\ Lesser(lines, HeightInCtus) - 1 < HeightInCtus
    BY <1>1, <1>5 DEF Lesser
  <1>8. /\ Lesser(cfg.ifpLines + 1, HeightInCtus) - 1 \in Int
        /\ 0 <= Lesser(cfg.ifpLines + 1, HeightInCtus) - 1
        /\ Lesser(cfg.ifpLines + 1, HeightInCtus) - 1 < HeightInCtus
    BY <1>1 DEF Lesser
  <1>9. LastCtu \in Ctu /\ LastCtu \in LineTask
    BY <1>1, <1>2 DEF LastCtu
  <1>10. AlfDeriveCtu \in Ctu /\ AlfDeriveCtu \in LineTask
    BY <1>2, <1>6, <1>7, <1>9
  <1>11. CcalfDeriveCtu \in Ctu /\ CcalfDeriveCtu \in LineTask
    BY <1>2, <1>8, <1>9 DEF CcalfDeriveCtu
  <1>12. cfg.ifpLines = 0 => AlfDeriveCtu = LastCtu /\ CcalfDeriveCtu = LastCtu
    BY <1>1, <1>6 DEF CcalfDeriveCtu
  <1> QED
    BY <1>9, <1>10, <1>11, <1>12

\* The last line of an ALF unit is a line.
LEMMA AsuLine ==
  ASSUME cfg \in Configs, NEW y \in Lines
  PROVE  BottomLineOfAsu(y) \in Lines
  <1>1. /\ cfg.asuHeight \in Nat \ {0}
        /\ HeightInCtus \in Nat \ {0}
        /\ y \in Nat
    BY ConfigFacts, SizesAssumption DEF Lines
  <1> DEFINE q == y \div cfg.asuHeight
  <1>2. q \in Nat
    BY <1>1
  <1>3. q * cfg.asuHeight \in Nat
    BY <1>1, <1>2
  <1> DEFINE top == q * cfg.asuHeight
  <1>4. BottomLineOfAsu(y) = Lesser(top + cfg.asuHeight - 1, HeightInCtus - 1)
    BY DEF BottomLineOfAsu
  <1> HIDE DEF top
  <1>5. top \in Nat
    BY <1>3 DEF top
  <1> QED
    BY <1>1, <1>4, <1>5 DEF Lines, Lesser

-----------------------------------------------------------------------------
(***************************************************************************)
(* The inductive invariant.  The states only grow, so what a task has      *)
(* found when it entered a stage stays true: the guard of the stage, and   *)
(* that the CTU to the left was through it.  With the latter all CTUs to   *)
(* the left are, as far as the task of each goes on that far itself.       *)
(***************************************************************************)

\* The stages that the task of a CTU goes through.
Ladder(c, s) ==
  /\ s \in CTU_ENCODE .. FINISH_SLICE
  /\ s > SAO_FILTER => c \in LineTask
  /\ s = ALF_DERIVE_FILTER => ~ Before(c, AlfDeriveCtu)
  /\ s = CCALF_DERIVE_FILTER => ~ Before(c, CcalfDeriveCtu)
  /\ s = FINISH_SLICE => c = LastCtu

\* The place of a task and its state.
PlacesAgree ==
  \A p \in Picture, c \in Ctu :
    /\ state[p][c] = PROCESS_DONE \/ Ladder(c, state[p][c])
    /\ at[p][c] = "absent" => state[p][c] = CTU_ENCODE
    /\ at[p][c] = "fallThrough" => state[p][c] = CCALF_GET_STATISTICS
    /\ at[p][c] \in {"extending", "leaving"} => state[p][c] = CCALF_RECONSTRUCT
    /\ at[p][c] = "returned" <=> state[p][c] = PROCESS_DONE

\* The guard of every stage that has begun is true.
GuardsHeld ==
  \A p \in Picture, c \in Ctu : \A s \in CTU_ENCODE .. FINISH_SLICE :
    Ladder(c, s) /\ Begun(p, c, s) => ReadyFor(p, c, s)

\* Up to SAO the CTUs to the left are through a stage that has begun; tiles
\* may be encoded in parallel.
LeftDone ==
  \A p \in Picture, c \in Ctu, d \in Ctu : \A s \in CTU_ENCODE .. SAO_FILTER :
    Begun(p, c, s) /\ d[2] = c[2] /\ d[1] < c[1] =>
      \/ s = CTU_ENCODE /\ ~ SameCol(c, d)
      \/ state[p][d] > s

\* With inter-frame parallel processing the lines above are through a
\* derivation, where they have one, and through CCALF.
UpDone ==
  cfg.ifpLines > 0 =>
    \A p \in Picture, c \in Ctu, d \in Ctu :
      \A s \in {ALF_DERIVE_FILTER, CCALF_DERIVE_FILTER, CCALF_RECONSTRUCT} :
        /\ Ladder(c, s) /\ Begun(p, c, s)
        /\ d[1] = c[1] /\ d[2] < c[2]
        /\ s = ALF_DERIVE_FILTER => Before(AlfDeriveCtu, d)
        /\ s = CCALF_DERIVE_FILTER => Before(CcalfDeriveCtu, d)
        => state[p][d] > s

\* What the reference lines need was there at the start of the line.
RefsHeld ==
  cfg.ifpLines > 0 =>
    \A p \in Picture, c \in Ctu :
      Begun(p, c, CTU_ENCODE) => RefPicCtuLineReady(p, c[2] + cfg.ifpLines)

\* Without inter-frame parallel processing a picture waits for its references.
StartsInOrder ==
  \A p \in Picture, c \in Ctu :
    at[p][c] # "absent" => cfg.ifpLines > 0 \/ \A q \in RefPics[p] : AllReturned(q)

\* The tile columns of a line that have been counted.
LastCols == {cfg.lastCol[x] : x \in Cols}
Counted(q, c) == state[q][c] > CCALF_RECONSTRUCT \/ at[q][c] \in {"extending", "leaving"}
CountedCols(q, y) == {x \in LastCols : Counted(q, <<x, y>>)}

Extending(q, y) == {c \in Ctu : c[2] = y /\ at[q][c] = "extending"}

\* The counter is exact: one for each tile column, and one more when all are
\* counted and the one task that extends the borders has done so.
Exact(q, y) ==
  /\ \/ tileColsDone[q][y] = Cardinality(CountedCols(q, y))
     \/ /\ tileColsDone[q][y] = NumTileCols + 1
        /\ CountedCols(q, y) = LastCols
        /\ Extending(q, y) = {}
  /\ Extending(q, y) # {} => CountedCols(q, y) = LastCols
  /\ \A c, d \in Extending(q, y) : c = d

CounterExact == \A q \in Picture, y \in Lines : Exact(q, y)

IInv ==
  /\ TypeOK
  /\ PlacesAgree
  /\ GuardsHeld
  /\ LeftDone
  /\ UpDone
  /\ RefsHeld
  /\ StartsInOrder
  /\ CounterExact

-----------------------------------------------------------------------------
(***************************************************************************)
(* States and counters grow, and the guards with them.                     *)
(***************************************************************************)
Grows ==
  /\ UNCHANGED inputs
  /\ \A p \in Picture, c \in Ctu : state[p][c] <= state'[p][c]
  /\ \A p \in Picture, l \in Lines : tileColsDone[p][l] <= tileColsDone'[p][l]

LEMMA SameGeometry ==
  ASSUME UNCHANGED inputs
  PROVE  /\ (AlfDeriveCtu = AlfDeriveCtu') /\ (CcalfDeriveCtu = CcalfDeriveCtu')
         /\ LineTask = LineTask' /\ NumTileCols = NumTileCols' /\ LastCols = LastCols'
         /\ HasTiles <=> HasTiles'
         /\ \A c, d : SameCol(c, d) <=> SameCol(c, d)'
         /\ \A c, d : SameTile(c, d) <=> SameTile(c, d)'
         /\ \A c, d : CanFilterCtuBdry(c, d) <=> CanFilterCtuBdry(c, d)'
         /\ \A c, s : Ladder(c, s) <=> Ladder(c, s)'
         /\ \A p, c : CheckRight(p, c) = CheckRight(p, c)'
         /\ \A c : LineStart(c) <=> LineStart(c)'
         /\ \A y : BottomLineOfAsu(y) = BottomLineOfAsu(y)'
  <1>1. cfg = cfg' /\ encDelay = encDelay'
    BY DEF inputs
  <1>2. /\ (AlfDeriveCtu = AlfDeriveCtu') /\ (CcalfDeriveCtu = CcalfDeriveCtu')
        /\ LineTask = LineTask' /\ NumTileCols = NumTileCols' /\ LastCols = LastCols'
    BY <1>1, Zenon DEF AlfDeriveCtu, CcalfDeriveCtu, LineTask, LastInTile, NumTileCols, LastCols
  <1>3. /\ HasTiles <=> HasTiles'
        /\ \A c, d : SameCol(c, d) <=> SameCol(c, d)'
        /\ \A c, d : SameTile(c, d) <=> SameTile(c, d)'
    BY <1>1 DEF HasTiles, SameCol, SameTile, SameRow
  <1>4. \A c, d : CanFilterCtuBdry(c, d) <=> CanFilterCtuBdry(c, d)'
    BY <1>1, <1>3 DEF CanFilterCtuBdry
  <1>5. \A c, s : Ladder(c, s) <=> Ladder(c, s)'
    BY <1>2 DEF Ladder
  <1>6. \A p, c : CheckRight(p, c) = CheckRight(p, c)'
    BY <1>1 DEF CheckRight
  <1>7. \A c : LineStart(c) <=> LineStart(c)'
    BY <1>1, <1>3 DEF LineStart
  <1>8. \A y : BottomLineOfAsu(y) = BottomLineOfAsu(y)'
    BY <1>1 DEF BottomLineOfAsu
  <1> QED
    BY <1>2, <1>3, <1>4, <1>5, <1>6, <1>7, <1>8

\* The states are numbers.
LEMMA StateTypes ==
  ASSUME TypeOK
  PROVE  /\ cfg \in Configs
         /\ \A p \in Picture : encDelay[p] \in Nat \ {0}
         /\ \A p \in Picture, c \in Ctu :
              /\ state[p][c] \in Int /\ 0 <= state[p][c] /\ state[p][c] <= PROCESS_DONE
              /\ at[p][c] \in Where
         /\ \A p \in Picture, l \in Lines : tileColsDone[p][l] \in Nat
  <1>1. TaskType = 0 .. 11
    BY DEF TaskType, CTU_ENCODE, PROCESS_DONE
  <1>2. \A p \in Picture, c \in Ctu : state[p][c] \in 0 .. 11
    BY <1>1, Zenon DEF TypeOK
  <1>3. \A p \in Picture : encDelay[p] \in cfg.encDelays
    BY DEF TypeOK
  <1>4. cfg.encDelays \subseteq Nat \ {0}
    BY ConfigFacts DEF TypeOK
  <1>5. \A p \in Picture, c \in Ctu : at[p][c] \in Where
    BY Zenon DEF TypeOK
  <1>6. \A p \in Picture, l \in Lines : tileColsDone[p][l] \in Nat
    BY Zenon DEF TypeOK
  <1>7. cfg \in Configs
    BY DEF TypeOK
  <1>8. \A p \in Picture : encDelay[p] \in Nat \ {0}
    BY <1>3, <1>4
  <1>9. \A p \in Picture, c \in Ctu :
          state[p][c] \in Int /\ 0 <= state[p][c] /\ state[p][c] <= PROCESS_DONE
    BY <1>2 DEF PROCESS_DONE
  <1> QED
    BY <1>5, <1>6, <1>7, <1>8, <1>9

LEMMA StateTypesNext ==
  ASSUME TypeOK'
  PROVE  /\ \A p \in Picture, c \in Ctu :
              state'[p][c] \in Int /\ 0 <= state'[p][c] /\ state'[p][c] <= PROCESS_DONE
         /\ \A p \in Picture, l \in Lines : tileColsDone'[p][l] \in Nat
  <1>1. TaskType = 0 .. 11
    BY DEF TaskType, CTU_ENCODE, PROCESS_DONE
  <1>2. \A p \in Picture, c \in Ctu : state'[p][c] \in 0 .. 11
    BY <1>1, Zenon DEF TypeOK
  <1>3. \A p \in Picture, l \in Lines : tileColsDone'[p][l] \in Nat
    BY Zenon DEF TypeOK
  <1> QED
    BY <1>2, <1>3 DEF PROCESS_DONE

LEMMA PastGrows ==
  ASSUME TypeOK, TypeOK', Grows, NEW p \in Picture, NEW c, NEW d, NEW s \in Int
  PROVE  /\ Past(p, d, s) => Past(p, d, s)'
         /\ FilterPast(p, c, d, s) => FilterPast(p, c, d, s)'
         /\ d \in Ctu /\ state[p][d] > s => state'[p][d] > s
         /\ d \in Ctu /\ state[p][d] >= s => state'[p][d] >= s
  <1>1. \A u \in Ctu : state[p][u] \in Int /\ state'[p][u] \in Int
    BY StateTypes, StateTypesNext
  <1>2. CanFilterCtuBdry(c, d) <=> CanFilterCtuBdry(c, d)'
    BY SameGeometry DEF Grows
  <1> QED
    BY <1>1, <1>2 DEF Grows, Past, FilterPast

\* There are finitely many tile columns, and at least one.
LEMMA TileColsCounted ==
  ASSUME cfg \in Configs
  PROVE  /\ LastCols \subseteq Cols /\ LastCols # {} /\ IsFiniteSet(LastCols)
         /\ NumTileCols = Cardinality(LastCols) /\ NumTileCols \in Nat
         /\ \A x \in LastCols : cfg.lastCol[x] = x
         /\ \A c \in LineTask : c[1] \in LastCols
         /\ \A x \in LastCols, y \in Lines : <<x, y>> \in LineTask
  <1>1. LastCols \subseteq Cols /\ \A x \in LastCols : cfg.lastCol[x] = x
    BY TileColumns DEF LastCols
  <1>2. 0 \in Cols
    BY SizesAssumption DEF Cols
  <1>3. IsFiniteSet(Cols)
    BY FS_Interval, SizesAssumption DEF Cols
  <1>4. IsFiniteSet(LastCols) /\ Cardinality(LastCols) \in Nat
    BY <1>1, <1>3, FS_Subset, FS_CardinalityType
  <1>5. \A c \in LineTask : c[1] \in LastCols
    <2> SUFFICES ASSUME NEW c \in LineTask PROVE c[1] \in LastCols
      OBVIOUS
    <2>1. c \in Ctu /\ LastInTile(c) = c
      BY DEF LineTask
    <2>2. c[1] \in Cols /\ cfg.lastCol[c[1]] = c[1]
      BY <2>1, CtuPosition DEF LastInTile
    <2> QED
      BY <2>2 DEF LastCols
  <1>6. \A x \in LastCols, y \in Lines : <<x, y>> \in LineTask
    BY <1>1 DEF LineTask, LastInTile, Ctu
  <1> QED
    BY <1>1, <1>2, <1>4, <1>5, <1>6 DEF LastCols, NumTileCols

LEMMA RefPicCtuLineReadyGrows ==
  ASSUME TypeOK, TypeOK', Grows, NEW p \in Picture, NEW line \in Nat,
         RefPicCtuLineReady(p, line)
  PROVE  RefPicCtuLineReady(p, line)'
  <1>1. NumTileCols = NumTileCols'
    BY SameGeometry DEF Grows
  <1>2. RefPics[p] \subseteq Picture
    BY SizesAssumption
  <1>3. Lesser(line, HeightInCtus - 1) \in Lines
    BY SizesAssumption DEF Lesser, Lines
  <1> DEFINE l == Lesser(line, HeightInCtus - 1)
             n == NumTileCols + 1
  <1>4. n' = n
    BY <1>1
  <1>5. \A q \in RefPics[p] : /\ tileColsDone[q][l] >= n
                              /\ tileColsDone[q][l] \in Nat /\ tileColsDone'[q][l] \in Nat
                              /\ tileColsDone[q][l] <= tileColsDone'[q][l]
    BY <1>2, <1>3, StateTypes, StateTypesNext DEF Grows, RefPicCtuLineReady
  <1>6. n \in Int
    BY TileColsCounted, StateTypes
  <1> HIDE DEF n
  <1>7. \A q \in RefPics[p] : tileColsDone'[q][l] >= n
    BY <1>5, <1>6
  <1> QED
    BY <1>4, <1>7 DEF RefPicCtuLineReady, n

LEMMA EncodeGuardGrows ==
  ASSUME TypeOK, TypeOK', Grows, NEW p \in Picture, NEW c \in Ctu,
         ReadyCtuEncode(p, c)
  PROVE  ReadyCtuEncode(p, c)'
  <1>1. cfg = cfg' /\ cfg.ifpLines \in Nat
    BY StateTypes, ConfigFacts DEF Grows, inputs
  <1>2. c[2] + cfg.ifpLines \in Nat
    BY <1>1, CtuPosition
  <1>3. cfg.ifpLines > 0 /\ LineStart(c) => RefPicCtuLineReady(p, c[2] + cfg.ifpLines)'
    BY <1>1, <1>2, RefPicCtuLineReadyGrows DEF ReadyCtuEncode
  <1>4. (LineStart(c) <=> LineStart(c)') /\ (\A u, d : SameTile(u, d) <=> SameTile(u, d)')
    BY SameGeometry DEF Grows
  <1>5. \A d : Past(p, d, CTU_ENCODE) => Past(p, d, CTU_ENCODE)'
    BY PastGrows DEF CTU_ENCODE
  <1> QED
    BY <1>1, <1>3, <1>4, <1>5 DEF ReadyCtuEncode

LEMMA ReshapeGuardGrows ==
  ASSUME TypeOK, TypeOK', Grows, NEW p \in Picture, NEW c \in Ctu,
         ReadyReshapeLfVer(p, c)
  PROVE  ReadyReshapeLfVer(p, c)'
  <1>1. cfg = cfg' /\ (HasTiles <=> HasTiles') /\ CheckRight(p, c) = CheckRight(p, c)'
    BY SameGeometry DEF Grows, inputs
  <1>2. \A d : FilterPast(p, c, d, CTU_ENCODE) => FilterPast(p, c, d, CTU_ENCODE)'
    BY PastGrows DEF CTU_ENCODE
  <1> QED
    BY <1>1, <1>2 DEF ReadyReshapeLfVer

LEMMA FilterGuardsGrow ==
  ASSUME TypeOK, TypeOK', Grows, NEW p \in Picture, NEW c \in Ctu
  PROVE  /\ ReadyLfHor(p, c) => ReadyLfHor(p, c)'
         /\ ReadySaoFilter(p, c) => ReadySaoFilter(p, c)'
         /\ ReadyAlfGetStatistics(p, c) => ReadyAlfGetStatistics(p, c)'
         /\ ReadyCcalfGetStatistics(p, c) => ReadyCcalfGetStatistics(p, c)'
  <1>1. \A d : \A s \in Int : Past(p, d, s) => Past(p, d, s)'
    BY PastGrows
  <1>2. \A d : \A s \in Int : FilterPast(p, c, d, s) => FilterPast(p, c, d, s)'
    BY PastGrows
  <1>3. {RESHAPE_LF_VER, LF_HOR, SAO_FILTER, ALF_RECONSTRUCT} \subseteq Int
    BY DEF RESHAPE_LF_VER, LF_HOR, SAO_FILTER, ALF_RECONSTRUCT
  <1>4. ReadyLfHor(p, c) => ReadyLfHor(p, c)'
    BY <1>2, <1>3 DEF ReadyLfHor
  <1>5. ReadySaoFilter(p, c) => ReadySaoFilter(p, c)'
    BY <1>1, <1>3 DEF ReadySaoFilter
  <1>6. ReadyAlfGetStatistics(p, c) => ReadyAlfGetStatistics(p, c)'
    BY <1>2, <1>3 DEF ReadyAlfGetStatistics
  <1>7. ReadyCcalfGetStatistics(p, c) => ReadyCcalfGetStatistics(p, c)'
    BY <1>2, <1>3 DEF ReadyCcalfGetStatistics
  <1> QED
    BY <1>4, <1>5, <1>6, <1>7

LEMMA AlfGuardsGrow ==
  ASSUME TypeOK, TypeOK', Grows, NEW p \in Picture, NEW c \in Ctu
  PROVE  /\ ReadyAlfDeriveFilter(p, c) => ReadyAlfDeriveFilter(p, c)'
         /\ ReadyAlfReconstruct(p, c) => ReadyAlfReconstruct(p, c)'
  <1>1. /\ cfg = cfg' /\ (AlfDeriveCtu = AlfDeriveCtu') /\ LineTask = LineTask'
        /\ \A y : BottomLineOfAsu(y) = BottomLineOfAsu(y)'
    BY SameGeometry DEF Grows, inputs
  <1>2. {ALF_GET_STATISTICS, ALF_DERIVE_FILTER, ALF_RECONSTRUCT} \subseteq Int
    BY DEF ALF_GET_STATISTICS, ALF_DERIVE_FILTER, ALF_RECONSTRUCT
  <1>3. AlfDeriveCtu \in Ctu /\ LineTask \subseteq Ctu
    BY DeriveCtus, StateTypes DEF LineTask
  <1>4. \A d : \A s \in Int : FilterPast(p, c, d, s) => FilterPast(p, c, d, s)'
    BY PastGrows
  <1>5. \A d \in Ctu : state[p][d] >= ALF_RECONSTRUCT => state'[p][d] >= ALF_RECONSTRUCT
    BY <1>2, PastGrows
  <1>6. ReadyAlfDeriveFilter(p, c) => ReadyAlfDeriveFilter(p, c)'
    <2>1. CASE c = AlfDeriveCtu
      <3>1. \A d \in LineTask :
              state[p][d] > ALF_GET_STATISTICS => state'[p][d] > ALF_GET_STATISTICS
        BY <1>2, <1>3, PastGrows
      <3> QED
        BY <1>1, <2>1, <3>1 DEF ReadyAlfDeriveFilter
    <2>2. CASE c # AlfDeriveCtu
      BY <1>1, <1>2, <1>3, <1>4, <1>5, <2>2 DEF ReadyAlfDeriveFilter, AfterDerivation
    <2> QED
      BY <2>1, <2>2
  <1>7. ReadyAlfReconstruct(p, c) => ReadyAlfReconstruct(p, c)'
    <2>1. BottomLineOfAsu(c[2]) \in Lines /\ c[1] \in Cols
      BY AsuLine, StateTypes, CtuPosition
    <2>2. <<c[1], BottomLineOfAsu(c[2])>> \in Ctu
      BY <2>1 DEF Ctu
    <2> QED
      BY <1>1, <1>3, <1>5, <2>2 DEF ReadyAlfReconstruct
  <1> QED
    BY <1>6, <1>7

LEMMA CcalfGuardsGrow ==
  ASSUME TypeOK, TypeOK', Grows, NEW p \in Picture, NEW c \in Ctu
  PROVE  /\ ReadyCcalfDeriveFilter(p, c) => ReadyCcalfDeriveFilter(p, c)'
         /\ ReadyCcalfReconstruct(p, c) => ReadyCcalfReconstruct(p, c)'
  <1>1. cfg = cfg' /\ (CcalfDeriveCtu = CcalfDeriveCtu') /\ LineTask = LineTask'
    BY SameGeometry DEF Grows, inputs
  <1>2. {CCALF_GET_STATISTICS, CCALF_DERIVE_FILTER, CCALF_RECONSTRUCT} \subseteq Int
    BY DEF CCALF_GET_STATISTICS, CCALF_DERIVE_FILTER, CCALF_RECONSTRUCT
  <1>3. CcalfDeriveCtu \in Ctu /\ LineTask \subseteq Ctu
    BY DeriveCtus, StateTypes DEF LineTask
  <1>4. \A d \in Ctu :
          /\ state[p][d] >= CCALF_RECONSTRUCT => state'[p][d] >= CCALF_RECONSTRUCT
          /\ state[p][d] > CCALF_GET_STATISTICS => state'[p][d] > CCALF_GET_STATISTICS
    BY <1>2, PastGrows
  <1>5. \A d : \A s \in Int : FilterPast(p, c, d, s) => FilterPast(p, c, d, s)'
    BY PastGrows
  <1>6. ReadyCcalfDeriveFilter(p, c) => ReadyCcalfDeriveFilter(p, c)'
    <2>1. CASE c = CcalfDeriveCtu
      BY <1>1, <1>3, <1>4, <2>1 DEF ReadyCcalfDeriveFilter
    <2>2. CASE c # CcalfDeriveCtu
      BY <1>1, <1>2, <1>3, <1>4, <1>5, <2>2 DEF ReadyCcalfDeriveFilter, AfterDerivation
    <2> QED
      BY <2>1, <2>2
  <1>7. ReadyCcalfReconstruct(p, c) => ReadyCcalfReconstruct(p, c)'
    BY <1>1, <1>2, <1>3, <1>4, <1>5 DEF ReadyCcalfReconstruct
  <1> QED
    BY <1>6, <1>7

LEMMA GuardsGrow ==
  ASSUME TypeOK, TypeOK', Grows, NEW p \in Picture, NEW c \in Ctu,
         NEW s \in Int, ReadyFor(p, c, s)
  PROVE  ReadyFor(p, c, s)'
  <1>1. ReadyFinishSlice(p, c) => ReadyFinishSlice(p, c)'
    <2>1. \A d \in Ctu : state[p][d] >= FINISH_SLICE => state'[p][d] >= FINISH_SLICE
      BY PastGrows DEF FINISH_SLICE
    <2> QED
      BY <2>1 DEF ReadyFinishSlice
  <1> QED
    BY <1>1, EncodeGuardGrows, ReshapeGuardGrows, FilterGuardsGrow, AlfGuardsGrow,
       CcalfGuardsGrow DEF ReadyFor

-----------------------------------------------------------------------------
(***************************************************************************)
(* What the steps of a task do to its state and place.                     *)
(***************************************************************************)
Enters(p, c, s) ==
  /\ state[p][c] = s
  /\ ReadyFor(p, c, s)
  /\ s # CCALF_GET_STATISTICS => LineOrder(p, c)

Alone(p, c) ==
  \A q \in Picture, d \in Ctu :
    q # p \/ d # c => state'[q][d] = state[q][d] /\ at'[q][d] = at[q][d]

\* It enters the stage of its state, ...
StepIn(p, c) ==
  /\ Enters(p, c, state[p][c])
  /\ at[p][c] \in {"queued", "fallThrough"} /\ at'[p][c] = "inStage"
  /\ state'[p][c] = state[p][c]

\* ... finds the next case not ready, ...
StepBack(p, c) ==
  /\ at[p][c] = "fallThrough" /\ at'[p][c] = "queued"
  /\ state'[p][c] = state[p][c]

\* ... goes on within CCALF_RECONSTRUCT, ...
StepOn(p, c) ==
  /\ state[p][c] = CCALF_RECONSTRUCT /\ state'[p][c] = CCALF_RECONSTRUCT
  /\ at[p][c] \in {"inStage", "extending"} /\ at'[p][c] \in {"extending", "leaving"}

\* ... or leaves the stage.
StepOut(p, c) ==
  /\ state'[p][c] = NextState(c, state[p][c])
  /\ \/ at[p][c] = "inStage"
     \/ at[p][c] = "leaving" /\ state[p][c] = CCALF_RECONSTRUCT
  /\ \/ at'[p][c] = "queued" /\ state'[p][c] # PROCESS_DONE
     \/ at'[p][c] = "returned" /\ state'[p][c] = PROCESS_DONE
     \/ at'[p][c] = "fallThrough" /\ state'[p][c] = CCALF_GET_STATISTICS

Step(p, c) ==
  /\ TypeOK' /\ UNCHANGED inputs /\ Alone(p, c)
  /\ \A q \in Picture, l \in Lines : tileColsDone[q][l] <= tileColsDone'[q][l]
  /\ StepIn(p, c) \/ StepBack(p, c) \/ StepOn(p, c) \/ StepOut(p, c)

LEMMA MoveAlone ==
  ASSUME TypeOK, NEW p \in Picture, NEW c \in Ctu, NEW place \in Where, Move(p, c, place)
  PROVE  /\ at' \in [Picture -> [Ctu -> Where]]
         /\ at'[p][c] = place
         /\ \A q \in Picture, d \in Ctu : q # p \/ d # c => at'[q][d] = at[q][d]
  BY DEF TypeOK, Move

LEMMA StoreAlone ==
  ASSUME TypeOK, NEW p \in Picture, NEW c \in Ctu, NEW s \in TaskType, Store(p, c, s)
  PROVE  /\ state' \in [Picture -> [Ctu -> TaskType]]
         /\ state'[p][c] = s
         /\ \A q \in Picture, d \in Ctu : q # p \/ d # c => state'[q][d] = state[q][d]
  BY DEF TypeOK, Store

LEMMA CountUp ==
  ASSUME TypeOK, NEW p \in Picture, NEW y \in Lines,
         tileColsDone' = [tileColsDone EXCEPT ![p][y] = @ + 1]
  PROVE  /\ tileColsDone' \in [Picture -> [Lines -> Nat]]
         /\ tileColsDone'[p][y] = tileColsDone[p][y] + 1
         /\ \A q \in Picture, l \in Lines :
              /\ q # p \/ l # y => tileColsDone'[q][l] = tileColsDone[q][l]
              /\ tileColsDone[q][l] <= tileColsDone'[q][l]
  <1>1. tileColsDone \in [Picture -> [Lines -> Nat]]
    BY DEF TypeOK
  <1>2. tileColsDone[p][y] \in Nat /\ tileColsDone[p][y] + 1 \in Nat
    BY <1>1
  <1>3. tileColsDone' \in [Picture -> [Lines -> Nat]]
    BY <1>1, <1>2
  <1>4. /\ tileColsDone'[p][y] = tileColsDone[p][y] + 1
        /\ \A q \in Picture, l \in Lines :
             q # p \/ l # y => tileColsDone'[q][l] = tileColsDone[q][l]
    BY <1>1
  <1>5. \A q \in Picture, l \in Lines : tileColsDone[q][l] \in Nat
    BY StateTypes
  <1>6. \A q \in Picture, l \in Lines : tileColsDone[q][l] <= tileColsDone'[q][l]
    <2> SUFFICES ASSUME NEW q \in Picture, NEW l \in Lines
                 PROVE  tileColsDone[q][l] <= tileColsDone'[q][l]
      OBVIOUS
    <2>1. CASE q = p /\ l = y
      BY <1>2, <1>4, <2>1
    <2>2. CASE q # p \/ l # y
      BY <1>4, <1>5, <2>2
    <2> QED
      BY <2>1, <2>2
  <1> QED
    BY <1>3, <1>4, <1>6

\* The next state of a stage a task is in.
LEMMA NextStates ==
  ASSUME cfg \in Configs, NEW c \in Ctu, NEW s, Ladder(c, s)
  PROVE  /\ NextState(c, s) \in TaskType
         /\ s < NextState(c, s)
         /\ NextState(c, s) = PROCESS_DONE \/ Ladder(c, NextState(c, s))
         /\ \A r \in CTU_ENCODE .. FINISH_SLICE :
              s < r /\ r < NextState(c, s) => ~ Ladder(c, r)
  <1>1. s \in 0 .. 10
    BY DEF Ladder, CTU_ENCODE, FINISH_SLICE
  <1> USE DEF CTU_ENCODE, RESHAPE_LF_VER, LF_HOR, SAO_FILTER, ALF_GET_STATISTICS,
              ALF_DERIVE_FILTER, ALF_RECONSTRUCT, CCALF_GET_STATISTICS,
              CCALF_DERIVE_FILTER, CCALF_RECONSTRUCT, FINISH_SLICE, PROCESS_DONE
  <1>2. CASE s = SAO_FILTER /\ c \notin LineTask
    <2>1. NextState(c, s) = 11
      BY <1>2 DEF NextState
    <2> QED
      BY <1>2, <2>1 DEF Ladder, TaskType
  <1>3. CASE s = ALF_GET_STATISTICS /\ Before(c, AlfDeriveCtu)
    <2>1. NextState(c, s) = 6
      BY <1>3 DEF NextState
    <2> QED
      BY <1>3, <2>1 DEF Ladder, TaskType
  <1>4. CASE s = CCALF_GET_STATISTICS /\ Before(c, CcalfDeriveCtu)
    <2>1. NextState(c, s) = 9
      BY <1>4 DEF NextState
    <2> QED
      BY <1>4, <2>1 DEF Ladder, TaskType
  <1>5. CASE s = CCALF_RECONSTRUCT /\ c # LastCtu
    <2>1. NextState(c, s) = 11
      BY <1>5 DEF NextState
    <2> QED
      BY <1>5, <2>1 DEF Ladder, TaskType
  <1>6. CASE /\ ~ (s = SAO_FILTER /\ c \notin LineTask)
             /\ ~ (s = ALF_GET_STATISTICS /\ Before(c, AlfDeriveCtu))
             /\ ~ (s = CCALF_GET_STATISTICS /\ Before(c, CcalfDeriveCtu))
             /\ ~ (s = CCALF_RECONSTRUCT /\ c # LastCtu)
    <2>1. NextState(c, s) = s + 1
      BY <1>6 DEF NextState
    <2>2. s + 1 = 11 \/ Ladder(c, s + 1)
      BY <1>1, <1>6 DEF Ladder
    <2> QED
      BY <1>1, <2>1, <2>2 DEF TaskType
  <1> QED
    BY <1>2, <1>3, <1>4, <1>5, <1>6

LEMMA TypeNext ==
  ASSUME TypeOK, UNCHANGED inputs,
         state' \in [Picture -> [Ctu -> TaskType]],
         at' \in [Picture -> [Ctu -> Where]],
         tileColsDone' \in [Picture -> [Lines -> Nat]]
  PROVE  TypeOK'
  BY DEF TypeOK, inputs

LEMMA TaskSteps ==
  ASSUME TypeOK, PlacesAgree, NEW p \in Picture, NEW c \in Ctu, TaskStep(p, c)
  PROVE  Step(p, c)
  <1>1. /\ state \in [Picture -> [Ctu -> TaskType]]
        /\ at \in [Picture -> [Ctu -> Where]]
        /\ tileColsDone \in [Picture -> [Lines -> Nat]]
        /\ \A q \in Picture, l \in Lines : tileColsDone[q][l] <= tileColsDone[q][l]
        /\ cfg \in Configs /\ c[2] \in Lines
    BY StateTypes, CtuPosition DEF TypeOK
  <1>2. /\ "queued" \in Where /\ "inStage" \in Where /\ "fallThrough" \in Where
        /\ "extending" \in Where /\ "leaving" \in Where /\ "returned" \in Where
    BY DEF Where
  <1>3. ASSUME EnterStage(p, c)
        PROVE  Step(p, c)
    <2>1. Move(p, c, "inStage") /\ state' = state /\ tileColsDone' = tileColsDone
          /\ UNCHANGED inputs
      BY <1>3 DEF EnterStage
    <2>2. TypeOK' /\ Alone(p, c) /\ at'[p][c] = "inStage"
      BY <1>1, <1>2, <2>1, MoveAlone, TypeNext DEF Alone
    <2>3. StepIn(p, c)
      BY <1>3, <2>1, <2>2 DEF EnterStage, StepIn, Enters
    <2> QED
      BY <1>1, <2>1, <2>2, <2>3 DEF Step
  <1>4. ASSUME LeaveStage(p, c)
        PROVE  Step(p, c)
    <2> DEFINE next == NextState(c, state[p][c])
               place == IF next = PROCESS_DONE THEN "returned" ELSE "queued"
    <2>1. /\ at[p][c] = "inStage" /\ tileColsDone' = tileColsDone /\ UNCHANGED inputs
          /\ Store(p, c, next) /\ Move(p, c, place)
      BY <1>4 DEF LeaveStage
    <2>2. Ladder(c, state[p][c])
      BY <2>1 DEF PlacesAgree
    <2>3. next \in TaskType
      BY <1>1, <2>2, NextStates
    <2>4. place \in Where
      BY <1>2
    <2>5. TypeOK' /\ Alone(p, c) /\ at'[p][c] = place /\ state'[p][c] = next
      BY <1>1, <2>1, <2>3, <2>4, MoveAlone, StoreAlone, TypeNext DEF Alone
    <2>6. StepOut(p, c)
      BY <2>1, <2>5 DEF StepOut
    <2> QED
      BY <1>1, <2>1, <2>5, <2>6 DEF Step
  <1>5. ASSUME LeaveAlfReconstruct(p, c)
        PROVE  Step(p, c)
    <2>1. /\ at[p][c] = "inStage" /\ state[p][c] = ALF_RECONSTRUCT
          /\ tileColsDone' = tileColsDone /\ UNCHANGED inputs
          /\ Store(p, c, CCALF_GET_STATISTICS) /\ Move(p, c, "fallThrough")
      BY <1>5 DEF LeaveAlfReconstruct
    <2>2. CCALF_GET_STATISTICS \in TaskType
          /\ NextState(c, ALF_RECONSTRUCT) = CCALF_GET_STATISTICS
      BY DEF NextState, TaskType, CTU_ENCODE, PROCESS_DONE, SAO_FILTER, ALF_GET_STATISTICS,
             ALF_RECONSTRUCT, CCALF_GET_STATISTICS, CCALF_RECONSTRUCT
    <2>3. /\ TypeOK' /\ Alone(p, c)
          /\ at'[p][c] = "fallThrough" /\ state'[p][c] = CCALF_GET_STATISTICS
      BY <1>1, <1>2, <2>1, <2>2, MoveAlone, StoreAlone, TypeNext DEF Alone
    <2>4. StepOut(p, c)
      BY <2>1, <2>2, <2>3 DEF StepOut
    <2> QED
      BY <1>1, <2>1, <2>3, <2>4 DEF Step
  <1>6. ASSUME FallThrough(p, c)
        PROVE  Step(p, c)
    <2> DEFINE place == IF ReadyCcalfGetStatistics(p, c) THEN "inStage" ELSE "queued"
    <2>1. /\ at[p][c] = "fallThrough" /\ Move(p, c, place)
          /\ state' = state /\ tileColsDone' = tileColsDone /\ UNCHANGED inputs
      BY <1>6 DEF FallThrough
    <2>2. place \in Where
      BY <1>2
    <2>3. TypeOK' /\ Alone(p, c) /\ at'[p][c] = place
      BY <1>1, <2>1, <2>2, MoveAlone, TypeNext DEF Alone
    <2>4. state[p][c] = CCALF_GET_STATISTICS
      BY <2>1 DEF PlacesAgree
    <2>5. CASE ReadyCcalfGetStatistics(p, c)
      <3>1. ReadyFor(p, c, CCALF_GET_STATISTICS)
        BY <2>5 DEF ReadyFor, CTU_ENCODE, RESHAPE_LF_VER, LF_HOR, SAO_FILTER,
             ALF_GET_STATISTICS, ALF_DERIVE_FILTER, ALF_RECONSTRUCT, CCALF_GET_STATISTICS,
             CCALF_DERIVE_FILTER, CCALF_RECONSTRUCT, FINISH_SLICE
      <3>2. StepIn(p, c)
        BY <2>1, <2>3, <2>4, <2>5, <3>1 DEF StepIn, Enters
      <3> QED
        BY <1>1, <2>1, <2>3, <3>2 DEF Step
    <2>6. CASE ~ ReadyCcalfGetStatistics(p, c)
      <3>1. StepBack(p, c)
        BY <2>1, <2>3, <2>6 DEF StepBack
      <3> QED
        BY <1>1, <2>1, <2>3, <3>1 DEF Step
    <2> QED
      BY <2>5, <2>6
  <1>7. ASSUME CountTileCol(p, c)
        PROVE  Step(p, c)
    <2> DEFINE place == IF tileColsDone'[p][c[2]] >= NumTileCols THEN "extending" ELSE "leaving"
    <2>1. /\ at[p][c] = "inStage" /\ state[p][c] = CCALF_RECONSTRUCT /\ Move(p, c, place)
          /\ state' = state /\ UNCHANGED inputs
          /\ tileColsDone' = [tileColsDone EXCEPT ![p][c[2]] = @ + 1]
      BY <1>7 DEF CountTileCol
    <2>2. place \in Where
      BY <1>2
    <2>3. TypeOK' /\ Alone(p, c) /\ at'[p][c] = place
      BY <1>1, <2>1, <2>2, MoveAlone, CountUp, TypeNext DEF Alone
    <2>4. StepOn(p, c)
      BY <2>1, <2>3 DEF StepOn
    <2>5. \A q \in Picture, l \in Lines : tileColsDone[q][l] <= tileColsDone'[q][l]
      BY <1>1, <2>1, CountUp
    <2> QED
      BY <2>1, <2>3, <2>4, <2>5 DEF Step
  <1>8. ASSUME ExtendBorders(p, c)
        PROVE  Step(p, c)
    <2>1. /\ at[p][c] = "extending" /\ Move(p, c, "leaving")
          /\ state' = state /\ UNCHANGED inputs
          /\ \/ tileColsDone' = [tileColsDone EXCEPT ![p][c[2]] = @ + 1]
             \/ tileColsDone' = tileColsDone
      BY <1>8 DEF ExtendBorders
    <2>2. /\ tileColsDone' \in [Picture -> [Lines -> Nat]]
          /\ \A q \in Picture, l \in Lines : tileColsDone[q][l] <= tileColsDone'[q][l]
      BY <1>1, <2>1, CountUp
    <2>3. TypeOK' /\ Alone(p, c) /\ at'[p][c] = "leaving"
      BY <1>1, <1>2, <2>1, <2>2, MoveAlone, TypeNext DEF Alone
    <2>4. state[p][c] = CCALF_RECONSTRUCT
      BY <2>1 DEF PlacesAgree
    <2>5. StepOn(p, c)
      BY <2>1, <2>3, <2>4 DEF StepOn
    <2> QED
      BY <2>1, <2>2, <2>3, <2>5 DEF Step
  <1>9. ASSUME LeaveCcalfReconstruct(p, c)
        PROVE  Step(p, c)
    <2> DEFINE next == NextState(c, CCALF_RECONSTRUCT)
               place == IF c = LastCtu THEN "queued" ELSE "returned"
    <2>1. /\ at[p][c] = "leaving" /\ Store(p, c, next) /\ Move(p, c, place)
          /\ tileColsDone' = tileColsDone /\ UNCHANGED inputs
      BY <1>9 DEF LeaveCcalfReconstruct
    <2>2. state[p][c] = CCALF_RECONSTRUCT
      BY <2>1 DEF PlacesAgree
    <2>3. /\ c = LastCtu => next = FINISH_SLICE
          /\ c # LastCtu => next = PROCESS_DONE
          /\ FINISH_SLICE # PROCESS_DONE /\ next \in TaskType
      BY DEF NextState, TaskType, CTU_ENCODE, SAO_FILTER, ALF_GET_STATISTICS, FINISH_SLICE,
             CCALF_GET_STATISTICS, CCALF_RECONSTRUCT, PROCESS_DONE
    <2>4. place \in Where
      BY <1>2
    <2>5. TypeOK' /\ Alone(p, c) /\ at'[p][c] = place /\ state'[p][c] = next
      BY <1>1, <2>1, <2>3, <2>4, MoveAlone, StoreAlone, TypeNext DEF Alone
    <2>6. StepOut(p, c)
      BY <2>1, <2>2, <2>3, <2>5 DEF StepOut
    <2> QED
      BY <1>1, <2>1, <2>5, <2>6 DEF Step
  <1> QED
    BY <1>3, <1>4, <1>5, <1>6, <1>7, <1>8, <1>9 DEF TaskStep

\* A stage that has begun after a step had begun before, or the task entered it.
Begins ==
  \A p \in Picture, c \in Ctu : \A s \in CTU_ENCODE .. FINISH_SLICE :
    Ladder(c, s) /\ Begun(p, c, s)' => Begun(p, c, s) \/ Enters(p, c, s)

LEMMA StepGrows ==
  ASSUME TypeOK, PlacesAgree, NEW p \in Picture, NEW c \in Ctu, Step(p, c)
  PROVE  Grows
  <1>1. state'[p][c] >= state[p][c]
    <2>1. CASE StepOut(p, c)
      <3>1. at[p][c] # "returned"
        BY <2>1 DEF StepOut
      <3>2. Ladder(c, state[p][c])
        BY <3>1 DEF PlacesAgree
      <3>3. state[p][c] < NextState(c, state[p][c]) /\ NextState(c, state[p][c]) \in Int
        BY <3>2, NextStates, StateTypes DEF TaskType, CTU_ENCODE, PROCESS_DONE
      <3> QED
        BY <2>1, <3>3, StateTypes DEF StepOut
    <2>2. CASE StepIn(p, c) \/ StepBack(p, c) \/ StepOn(p, c)
      BY <2>2, StateTypes DEF StepIn, StepBack, StepOn
    <2> QED
      BY <2>1, <2>2 DEF Step
  <1>2. \A q \in Picture, d \in Ctu : state[q][d] <= state'[q][d]
    <2> SUFFICES ASSUME NEW q \in Picture, NEW d \in Ctu
                 PROVE  state[q][d] <= state'[q][d]
      OBVIOUS
    <2>1. CASE q = p /\ d = c
      BY <1>1, <2>1, StateTypes, StateTypesNext DEF Step
    <2>2. CASE q # p \/ d # c
      BY <2>2, StateTypes DEF Step, Alone
    <2> QED
      BY <2>1, <2>2
  <1> QED
    BY <1>2 DEF Grows, Step

LEMMA StepPlaces ==
  ASSUME TypeOK, PlacesAgree, NEW p \in Picture, NEW c \in Ctu, Step(p, c)
  PROVE  PlacesAgree'
  <1>1. \A d, s : Ladder(d, s) <=> Ladder(d, s)'
    BY SameGeometry DEF Step
  <1>2. /\ state'[p][c] = PROCESS_DONE \/ Ladder(c, state'[p][c])
        /\ at'[p][c] # "absent"
        /\ at'[p][c] = "fallThrough" => state'[p][c] = CCALF_GET_STATISTICS
        /\ at'[p][c] \in {"extending", "leaving"} => state'[p][c] = CCALF_RECONSTRUCT
        /\ at'[p][c] = "returned" <=> state'[p][c] = PROCESS_DONE
    <2>0. CCALF_RECONSTRUCT # PROCESS_DONE /\ CCALF_GET_STATISTICS # PROCESS_DONE
      BY DEF CCALF_RECONSTRUCT, CCALF_GET_STATISTICS, PROCESS_DONE
    <2>1. CASE StepOut(p, c)
      <3>1. at[p][c] # "returned"
        BY <2>1 DEF StepOut
      <3>2. Ladder(c, state[p][c])
        BY <3>1 DEF PlacesAgree
      <3>3. NextState(c, state[p][c]) = PROCESS_DONE \/ Ladder(c, NextState(c, state[p][c]))
        BY <3>2, NextStates, StateTypes
      <3> QED
        BY <2>0, <2>1, <3>3 DEF StepOut
    <2>2. CASE StepIn(p, c)
      BY <2>2 DEF StepIn, PlacesAgree
    <2>3. CASE StepBack(p, c)
      BY <2>3 DEF StepBack, PlacesAgree
    <2>4. CASE StepOn(p, c)
      BY <2>0, <2>4 DEF StepOn, PlacesAgree
    <2> QED
      BY <2>1, <2>2, <2>3, <2>4 DEF Step
  <1> SUFFICES ASSUME NEW q \in Picture, NEW d \in Ctu
               PROVE  /\ state'[q][d] = PROCESS_DONE \/ Ladder(d, state'[q][d])
                      /\ at'[q][d] = "absent" => state'[q][d] = CTU_ENCODE
                      /\ at'[q][d] = "fallThrough" => state'[q][d] = CCALF_GET_STATISTICS
                      /\ at'[q][d] \in {"extending", "leaving"} =>
                           state'[q][d] = CCALF_RECONSTRUCT
                      /\ at'[q][d] = "returned" <=> state'[q][d] = PROCESS_DONE
    BY <1>1 DEF PlacesAgree
  <1>3. CASE q = p /\ d = c
    BY <1>2, <1>3
  <1>4. CASE q # p \/ d # c
    BY <1>4 DEF Step, Alone, PlacesAgree
  <1> QED
    BY <1>3, <1>4

LEMMA StepBegins ==
  ASSUME TypeOK, PlacesAgree, NEW p \in Picture, NEW c \in Ctu, Step(p, c)
  PROVE  Begins
  <1> SUFFICES ASSUME NEW q \in Picture, NEW d \in Ctu, NEW s \in CTU_ENCODE .. FINISH_SLICE,
                      Ladder(d, s), Begun(q, d, s)'
               PROVE  Begun(q, d, s) \/ Enters(q, d, s)
    BY DEF Begins
  <1>1. \/ state'[q][d] > s
        \/ state'[q][d] = s /\ at'[q][d] \in {"inStage", "extending", "leaving"}
    BY DEF Begun
  <1>2. CASE q # p \/ d # c
    BY <1>1, <1>2 DEF Step, Alone, Begun
  <1>3. CASE q = p /\ d = c
    <2>1. CASE StepIn(p, c)
      BY <1>1, <1>3, <2>1 DEF StepIn, Begun
    <2>2. CASE StepBack(p, c)
      BY <1>1, <1>3, <2>2 DEF StepBack, Begun
    <2>3. CASE StepOn(p, c)
      BY <1>1, <1>3, <2>3 DEF StepOn, Begun
    <2>4. CASE StepOut(p, c)
      <3>1. at[p][c] # "returned"
        BY <2>4 DEF StepOut
      <3>2. Ladder(c, state[p][c])
        BY <3>1 DEF PlacesAgree
      <3>3. s < NextState(c, state[p][c])
        BY <1>1, <1>3, <2>4 DEF StepOut
      <3>4. ~ (state[p][c] < s)
        BY <1>3, <3>2, <3>3, NextStates, StateTypes
      <3>5. state[p][c] >= s
        BY <3>4, StateTypes DEF CTU_ENCODE, FINISH_SLICE
      <3> QED
        BY <1>3, <2>4, <3>5, StateTypes DEF StepOut, Begun, CTU_ENCODE, FINISH_SLICE
    <2> QED
      BY <2>1, <2>2, <2>3, <2>4 DEF Step
  <1> QED
    BY <1>2, <1>3

LEMMA ProcessCtusStep ==
  ASSUME TypeOK, PlacesAgree, NEW p \in Picture, ProcessCtus(p)
  PROVE  /\ TypeOK' /\ PlacesAgree' /\ Grows /\ Begins
         /\ \A q \in Picture, d \in Ctu :
              at'[q][d] = IF q = p THEN "queued" ELSE at[q][d]
  <1>1. /\ \A c \in Ctu : at[p][c] = "absent"
        /\ at' = [at EXCEPT ![p] = [c \in Ctu |-> "queued"]]
        /\ UNCHANGED inputs /\ state' = state /\ tileColsDone' = tileColsDone
    BY DEF ProcessCtus
  <1>2. /\ at' \in [Picture -> [Ctu -> Where]]
        /\ \A q \in Picture, d \in Ctu : at'[q][d] = IF q = p THEN "queued" ELSE at[q][d]
    <2>1. at \in [Picture -> [Ctu -> Where]] /\ "queued" \in Where
      BY DEF TypeOK, Where
    <2>2. [c \in Ctu |-> "queued"] \in [Ctu -> Where]
      BY <2>1
    <2> QED
      BY <1>1, <2>1, <2>2
  <1>3. TypeOK'
    BY <1>1, <1>2, TypeNext DEF TypeOK
  <1>4. Grows
    BY <1>1, StateTypes DEF Grows
  <1>5. \A d, s : Ladder(d, s) <=> Ladder(d, s)'
    BY <1>1, SameGeometry
  <1>6. PlacesAgree'
    <2>1. CTU_ENCODE # PROCESS_DONE
      BY DEF CTU_ENCODE, PROCESS_DONE
    <2>2. \A q \in Picture, d \in Ctu :
            \/ at[q][d] = at'[q][d]
            \/ at'[q][d] = "queued" /\ at[q][d] = "absent"
      BY <1>1, <1>2
    <2> QED
      BY <1>1, <1>5, <2>1, <2>2 DEF PlacesAgree
  <1>7. Begins
    BY <1>1, <1>2 DEF Begins, Begun
  <1> QED
    BY <1>2, <1>3, <1>4, <1>6, <1>7

LEMMA NextGrows ==
  ASSUME TypeOK, PlacesAgree, [Next]_vars
  PROVE  TypeOK' /\ PlacesAgree' /\ Grows /\ Begins
  <1>1. CASE UNCHANGED vars
    <2>1. UNCHANGED inputs /\ state' = state /\ tileColsDone' = tileColsDone /\ at' = at
      BY <1>1 DEF vars, inputs
    <2>2. \A d, s : Ladder(d, s) <=> Ladder(d, s)'
      BY <2>1, SameGeometry
    <2>3. TypeOK'
      BY <2>1, TypeNext DEF TypeOK
    <2>4. Grows
      BY <2>1, StateTypes DEF Grows
    <2>5. PlacesAgree'
      BY <2>1, <2>2 DEF PlacesAgree
    <2>6. Begins
      BY <2>1 DEF Begins, Begun
    <2> QED
      BY <2>3, <2>4, <2>5, <2>6
  <1>2. ASSUME NEW p \in Picture, ProcessCtus(p)
        PROVE  TypeOK' /\ PlacesAgree' /\ Grows /\ Begins
    BY <1>2, ProcessCtusStep
  <1>3. ASSUME NEW p \in Picture, NEW c \in Ctu, TaskStep(p, c)
        PROVE  TypeOK' /\ PlacesAgree' /\ Grows /\ Begins
    BY <1>3, TaskSteps, StepGrows, StepPlaces, StepBegins DEF Step
  <1> QED
    BY <1>1, <1>2, <1>3 DEF Next

-----------------------------------------------------------------------------
(***************************************************************************)
(* The parts of the invariant that follow from the guards, and that states *)
(* grow.                                                                   *)
(***************************************************************************)
LEMMA GuardsHeldNext ==
  ASSUME TypeOK, TypeOK', Grows, Begins, GuardsHeld
  PROVE  GuardsHeld'
  <1> SUFFICES ASSUME NEW p \in Picture, NEW c \in Ctu, NEW s \in CTU_ENCODE .. FINISH_SLICE,
                      Ladder(c, s)', Begun(p, c, s)'
               PROVE  ReadyFor(p, c, s)'
    BY DEF GuardsHeld
  <1>1. Ladder(c, s)
    BY SameGeometry DEF Grows
  <1>2. Begun(p, c, s) \/ Enters(p, c, s)
    BY <1>1 DEF Begins
  <1>3. ReadyFor(p, c, s)
    BY <1>1, <1>2 DEF GuardsHeld, Enters
  <1>4. s \in Int
    BY DEF CTU_ENCODE, FINISH_SLICE
  <1> QED
    BY <1>3, <1>4, GuardsGrow

\* Every CTU goes through the stages up to SAO.
LEMMA LowLadder ==
  ASSUME NEW c, NEW s \in CTU_ENCODE .. SAO_FILTER
  PROVE  Ladder(c, s) /\ s \in CTU_ENCODE .. FINISH_SLICE /\ s \in Int
  BY DEF Ladder, CTU_ENCODE, SAO_FILTER, FINISH_SLICE, ALF_DERIVE_FILTER, CCALF_DERIVE_FILTER

\* The CTU to the left, and its tile column.
LEMMA LeftNeighbour ==
  ASSUME cfg \in Configs, NEW c \in Ctu, NEW d \in Ctu, d[2] = c[2], d[1] < c[1]
  PROVE  /\ Nb(c, -1, 0) \in Ctu
         /\ Nb(c, -1, 0)[1] = c[1] - 1 /\ Nb(c, -1, 0)[2] = c[2]
         /\ d = Nb(c, -1, 0) \/ d[1] < Nb(c, -1, 0)[1]
         /\ SameCol(c, d) => SameCol(c, Nb(c, -1, 0)) /\ SameCol(Nb(c, -1, 0), d)
         /\ SameTile(c, Nb(c, -1, 0)) <=> SameCol(c, Nb(c, -1, 0))
  <1> DEFINE left == <<c[1] - 1, c[2]>>
  <1>1. Nb(c, -1, 0) = left
    BY CtuPosition DEF Nb
  <1>2. left \in Ctu /\ left[1] = c[1] - 1 /\ left[2] = c[2]
    <2>1. /\ c[1] \in Int /\ c[1] < WidthInCtus /\ d[1] \in Int /\ 0 <= d[1]
          /\ c[2] \in Int /\ 0 <= c[2] /\ c[2] < HeightInCtus /\ WidthInCtus \in Int
      BY CtuPosition, SizesAssumption
    <2>2. c[1] - 1 \in Int /\ 0 <= c[1] - 1 /\ c[1] - 1 < WidthInCtus
      BY <2>1
    <2>3. left \in Ctu
      BY <2>1, <2>2, CtuOfPosition
    <2> QED
      BY <2>3
  <1>3. d = <<d[1], d[2]>> /\ d[1] \in Int /\ c[1] \in Int
    BY CtuPosition
  <1>4. d = left \/ d[1] < left[1]
    BY <1>2, <1>3
  <1>5. d[1] \in Cols /\ c[1] \in Cols /\ left[1] \in Cols
    BY <1>2, CtuPosition
  <1>6. SameCol(c, d) => SameCol(c, left) /\ SameCol(left, d)
    <2>1. d[1] <= left[1] /\ left[1] <= c[1]
      BY <1>2, <1>3, <1>4
    <2>2. cfg.lastCol[c[1]] = cfg.lastCol[d[1]] => cfg.lastCol[left[1]] = cfg.lastCol[d[1]]
      BY <1>5, <2>1, TileColumns
    <2> QED
      BY <2>2 DEF SameCol
  <1>7. SameTile(c, left) <=> SameCol(c, left)
    BY <1>2 DEF SameTile, SameRow
  <1> QED
    BY <1>1, <1>2, <1>4, <1>6, <1>7

LEMMA LeftDoneNext ==
  ASSUME TypeOK, TypeOK', Grows, Begins, LeftDone
  PROVE  LeftDone'
  <1> SUFFICES ASSUME NEW p \in Picture, NEW c \in Ctu, NEW d \in Ctu,
                      NEW s \in CTU_ENCODE .. SAO_FILTER,
                      Begun(p, c, s)', d[2] = c[2], d[1] < c[1]
               PROVE  \/ s = CTU_ENCODE /\ ~ SameCol(c, d)'
                      \/ state'[p][d] > s
    BY DEF LeftDone
  <1>1. Begun(p, c, s) \/ Enters(p, c, s)
    BY LowLadder DEF Begins
  <1>2. SameCol(c, d) <=> SameCol(c, d)'
    BY SameGeometry DEF Grows
  <1>3. state[p][d] > s => state'[p][d] > s
    BY PastGrows, LowLadder
  <1> SUFFICES \/ s = CTU_ENCODE /\ ~ SameCol(c, d)
               \/ state[p][d] > s
    BY <1>2, <1>3
  <1>4. CASE Begun(p, c, s)
    BY <1>4 DEF LeftDone
  <1>5. CASE Enters(p, c, s)
    <2> DEFINE left == Nb(c, -1, 0)
    <2>1. /\ left \in Ctu /\ left[2] = c[2]
          /\ d = left \/ d[1] < left[1]
          /\ SameCol(c, d) => SameCol(c, left) /\ SameCol(left, d)
          /\ SameTile(c, left) <=> SameCol(c, left)
      BY LeftNeighbour, StateTypes
    <2>2. state[p][c] = s /\ LineOrder(p, c)
      <3>1. s # CCALF_GET_STATISTICS
        BY DEF CCALF_GET_STATISTICS, SAO_FILTER, CTU_ENCODE
      <3> QED
        BY <1>5, <3>1 DEF Enters
    <2>3. CASE s = CTU_ENCODE /\ ~ SameTile(c, left)
      BY <2>1, <2>3
    <2>4. CASE state[p][left] > s
      <3>1. Begun(p, left, s)
        BY <2>4 DEF Begun
      <3>2. CASE d = left
        BY <2>4, <3>2
      <3>3. CASE d[1] < left[1]
        BY <2>1, <3>1, <3>3 DEF LeftDone
      <3> QED
        BY <2>1, <3>2, <3>3
    <2> QED
      BY <2>1, <2>2, <2>3, <2>4 DEF LineOrder, Past
  <1> QED
    BY <1>1, <1>4, <1>5

\* The CTU above, with inter-frame parallel processing.
LEMMA UpNeighbour ==
  ASSUME cfg \in Configs, cfg.ifpLines > 0,
         NEW c \in Ctu, NEW d \in Ctu, d[1] = c[1], d[2] < c[2]
  PROVE  /\ Nb(c, 0, -1) \in Ctu
         /\ Nb(c, 0, -1)[1] = c[1] /\ Nb(c, 0, -1)[2] = c[2] - 1
         /\ d = Nb(c, 0, -1) \/ d[2] < Nb(c, 0, -1)[2]
         /\ CanFilterCtuBdry(c, Nb(c, 0, -1))
         /\ c \in LineTask => Nb(c, 0, -1) \in LineTask
  <1> DEFINE up == <<c[1], c[2] - 1>>
  <1>1. Nb(c, 0, -1) = up
    BY CtuPosition DEF Nb
  <1>2. up \in Ctu /\ up[1] = c[1] /\ up[2] = c[2] - 1
    <2>1. /\ c[2] \in Int /\ c[2] < HeightInCtus /\ d[2] \in Int /\ 0 <= d[2]
          /\ c[1] \in Int /\ 0 <= c[1] /\ c[1] < WidthInCtus /\ HeightInCtus \in Int
      BY CtuPosition, SizesAssumption
    <2>2. c[2] - 1 \in Int /\ 0 <= c[2] - 1 /\ c[2] - 1 < HeightInCtus
      BY <2>1
    <2>3. up \in Ctu
      BY <2>1, <2>2, CtuOfPosition
    <2> QED
      BY <2>3
  <1>3. d = <<d[1], d[2]>> /\ d[2] \in Int /\ c[2] \in Int
    BY CtuPosition
  <1>4. d = up \/ d[2] < up[2]
    BY <1>2, <1>3
  <1>5. c[2] \in Lines /\ up[2] \in Lines
    BY <1>2, CtuPosition
  <1>6. SameRow(c, up)
    BY <1>5, ConfigFacts DEF SameRow
  <1>7. CanFilterCtuBdry(c, up)
    BY <1>2, <1>6 DEF CanFilterCtuBdry, SameTile, SameCol
  <1>8. c \in LineTask => up \in LineTask
    <2> HAVE c \in LineTask
    <2>1. cfg.lastCol[c[1]] = c[1]
      BY CtuPosition DEF LineTask, LastInTile
    <2>2. LastInTile(up) = up
      BY <1>2, <2>1 DEF LastInTile
    <2> QED
      BY <1>2, <2>2 DEF LineTask
  <1> QED
    BY <1>1, <1>2, <1>4, <1>7, <1>8

LEMMA UpDoneNext ==
  ASSUME TypeOK, TypeOK', Grows, Begins, UpDone
  PROVE  UpDone'
  <1> USE DEF CTU_ENCODE, ALF_GET_STATISTICS, ALF_DERIVE_FILTER, CCALF_GET_STATISTICS,
              CCALF_DERIVE_FILTER, CCALF_RECONSTRUCT, FINISH_SLICE
  <1>1. /\ cfg = cfg' /\ (AlfDeriveCtu = AlfDeriveCtu') /\ (CcalfDeriveCtu = CcalfDeriveCtu')
        /\ \A c, s : Ladder(c, s) <=> Ladder(c, s)'
    BY SameGeometry DEF Grows, inputs
  <1> SUFFICES ASSUME cfg.ifpLines > 0,
                      NEW p \in Picture, NEW c \in Ctu, NEW d \in Ctu,
                      NEW s \in {ALF_DERIVE_FILTER, CCALF_DERIVE_FILTER, CCALF_RECONSTRUCT},
                      Ladder(c, s), Begun(p, c, s)', d[1] = c[1], d[2] < c[2],
                      s = ALF_DERIVE_FILTER => Before(AlfDeriveCtu, d),
                      s = CCALF_DERIVE_FILTER => Before(CcalfDeriveCtu, d)
               PROVE  state[p][d] > s
    <2>1. \A p \in Picture, d \in Ctu :
            \A s \in {ALF_DERIVE_FILTER, CCALF_DERIVE_FILTER, CCALF_RECONSTRUCT} :
              state[p][d] > s => state'[p][d] > s
      BY PastGrows
    <2>2. \A d : /\ Before(AlfDeriveCtu, d) <=> Before(AlfDeriveCtu, d)'
                 /\ Before(CcalfDeriveCtu, d) <=> Before(CcalfDeriveCtu, d)'
      BY <1>1 DEF Before
    <2> QED
      BY <1>1, <2>1, <2>2 DEF UpDone
  <1>2. Begun(p, c, s) \/ Enters(p, c, s)
    BY DEF Begins
  <1>3. CASE Begun(p, c, s)
    BY <1>3 DEF UpDone
  <1>4. CASE Enters(p, c, s)
    <2> DEFINE up == Nb(c, 0, -1)
    <2>1. /\ up \in Ctu /\ up[1] = c[1] /\ up[2] = c[2] - 1
          /\ d = up \/ d[2] < up[2]
          /\ CanFilterCtuBdry(c, up)
          /\ c \in LineTask => up \in LineTask
      BY UpNeighbour, StateTypes
    <2>2. ReadyFor(p, c, s)
      BY <1>4 DEF Enters
    <2>3. \A u \in Ctu : Before(u, d) => Before(u, c) /\ u # c /\ ~ Before(c, u)
      BY CtuPosition DEF Before
    <2>4. \A u \in Ctu : Before(u, d) => ~ Before(up, u)
      BY <2>1, CtuPosition DEF Before
    <2>5. AlfDeriveCtu \in Ctu /\ CcalfDeriveCtu \in Ctu
      BY DeriveCtus, StateTypes
    <2>6. state[p][up] > s
      <3>1. CASE s = ALF_DERIVE_FILTER
        <4>1. c # AlfDeriveCtu
          BY <2>3, <2>5, <3>1
        <4>2. FilterPast(p, c, up, ALF_DERIVE_FILTER)
          BY <2>2, <3>1, <4>1 DEF ReadyFor, ReadyAlfDeriveFilter, AfterDerivation
        <4> QED
          BY <2>1, <3>1, <4>2 DEF FilterPast
      <3>2. CASE s = CCALF_DERIVE_FILTER
        <4>1. c # CcalfDeriveCtu
          BY <2>3, <2>5, <3>2
        <4>2. FilterPast(p, c, up, CCALF_DERIVE_FILTER)
          BY <2>2, <3>2, <4>1 DEF ReadyFor, ReadyCcalfDeriveFilter, AfterDerivation
        <4> QED
          BY <2>1, <3>2, <4>2 DEF FilterPast
      <3>3. CASE s = CCALF_RECONSTRUCT
        <4>1. FilterPast(p, c, up, CCALF_RECONSTRUCT)
          BY <2>2, <3>3 DEF ReadyFor, ReadyCcalfReconstruct
        <4> QED
          BY <2>1, <3>3, <4>1 DEF FilterPast
      <3> QED
        BY <3>1, <3>2, <3>3
    <2>7. Begun(p, up, s)
      BY <2>6 DEF Begun
    <2>8. Ladder(up, s)
      <3>1. c \in LineTask /\ s \in CTU_ENCODE .. FINISH_SLICE /\ s # FINISH_SLICE
        BY DEF Ladder, SAO_FILTER
      <3>2. s = ALF_DERIVE_FILTER => ~ Before(up, AlfDeriveCtu)
        BY <2>4, <2>5
      <3>3. s = CCALF_DERIVE_FILTER => ~ Before(up, CcalfDeriveCtu)
        BY <2>4, <2>5
      <3> QED
        BY <2>1, <3>1, <3>2, <3>3 DEF Ladder
    <2>9. CASE d = up
      BY <2>6, <2>9
    <2>10. CASE d[2] < up[2]
      BY <2>1, <2>7, <2>8, <2>10 DEF UpDone
    <2> QED
      BY <2>1, <2>9, <2>10
  <1> QED
    BY <1>2, <1>3, <1>4

LEMMA RefsHeldNext ==
  ASSUME TypeOK, TypeOK', Grows, Begins, RefsHeld
  PROVE  RefsHeld'
  <1>1. cfg = cfg' /\ cfg \in Configs /\ cfg.ifpLines \in Nat
    BY StateTypes, ConfigFacts DEF Grows, inputs
  <1> SUFFICES ASSUME cfg.ifpLines > 0, NEW p \in Picture, NEW c \in Ctu,
                      Begun(p, c, CTU_ENCODE)'
               PROVE  RefPicCtuLineReady(p, c[2] + cfg.ifpLines)'
    BY <1>1 DEF RefsHeld
  <1>2. c[2] \in Nat /\ c[2] + cfg.ifpLines \in Nat /\ c[1] \in Nat
    BY <1>1, CtuPosition
  <1> SUFFICES RefPicCtuLineReady(p, c[2] + cfg.ifpLines)
    BY <1>1, <1>2, RefPicCtuLineReadyGrows
  <1>3. Begun(p, c, CTU_ENCODE) \/ Enters(p, c, CTU_ENCODE)
    <2>1. CTU_ENCODE \in CTU_ENCODE .. SAO_FILTER
      BY DEF CTU_ENCODE, SAO_FILTER
    <2> QED
      BY <2>1, LowLadder DEF Begins
  <1>4. CASE Begun(p, c, CTU_ENCODE)
    BY <1>4 DEF RefsHeld
  <1>5. CASE Enters(p, c, CTU_ENCODE)
    <2>1. state[p][c] = CTU_ENCODE /\ LineOrder(p, c) /\ ReadyCtuEncode(p, c)
      BY <1>5 DEF Enters, ReadyFor, CTU_ENCODE, CCALF_GET_STATISTICS
    <2>2. CASE LineStart(c)
      BY <2>1, <2>2 DEF ReadyCtuEncode
    <2>3. CASE ~ LineStart(c)
      <3> DEFINE left == Nb(c, -1, 0)
      <3>1. left = <<c[1] - 1, c[2]>>
        BY <1>2 DEF Nb
      <3>2. c[1] > 0 /\ ~ (cfg.tileParallel /\ ~ SameTile(c, left))
        BY <1>2, <2>3 DEF LineStart
      <3>3. left \in Ctu /\ left[2] = c[2]
        <4>1. /\ c[1] - 1 \in Int /\ 0 <= c[1] - 1 /\ c[1] - 1 < WidthInCtus
              /\ c[2] \in Int /\ 0 <= c[2] /\ c[2] < HeightInCtus
          BY <1>2, <3>2, CtuPosition, SizesAssumption
        <4>2. <<c[1] - 1, c[2]>> \in Ctu
          BY <4>1, CtuOfPosition
        <4> QED
          BY <3>1, <4>2
      <3>4. state[p][left] > CTU_ENCODE
        BY <2>1, <3>2, <3>3 DEF LineOrder, Past
      <3> QED
        BY <3>3, <3>4 DEF RefsHeld, Begun
    <2> QED
      BY <2>2, <2>3
  <1> QED
    BY <1>3, <1>4, <1>5

LEMMA StartsInOrderNext ==
  ASSUME TypeOK, PlacesAgree, StartsInOrder, [Next]_vars
  PROVE  StartsInOrder'
  <1>1. TypeOK' /\ PlacesAgree' /\ Grows
    BY NextGrows
  <1>2. \A q \in Picture : AllReturned(q) => AllReturned(q)'
    <2>1. \A q \in Picture, c \in Ctu :
            at[q][c] = "returned" => at'[q][c] = "returned"
      <3> SUFFICES ASSUME NEW q \in Picture, NEW c \in Ctu, state[q][c] = PROCESS_DONE
                   PROVE  state'[q][c] = PROCESS_DONE
        BY <1>1 DEF PlacesAgree
      <3>1. state'[q][c] >= PROCESS_DONE /\ state'[q][c] <= PROCESS_DONE
        BY <1>1, StateTypes, StateTypesNext DEF Grows
      <3> QED
        BY <1>1, <3>1, StateTypesNext DEF PROCESS_DONE
    <2> QED
      BY <2>1 DEF AllReturned
  <1>3. \A p \in Picture : RefPics[p] \subseteq Picture
    BY SizesAssumption
  <1> DEFINE Started(p) == cfg.ifpLines > 0 \/ \A q \in RefPics[p] : AllReturned(q)
  <1>4. \A p \in Picture : Started(p) => Started(p)'
    BY <1>1, <1>2, <1>3 DEF Grows, inputs
  <1>5. \A p \in Picture, c \in Ctu :
          at'[p][c] # "absent" => at[p][c] # "absent" \/ Started(p)
    <2>1. CASE UNCHANGED vars
      BY <2>1 DEF vars
    <2>2. ASSUME NEW q \in Picture, ProcessCtus(q)
          PROVE  \A p \in Picture, c \in Ctu :
                   at'[p][c] # "absent" => at[p][c] # "absent" \/ Started(p)
      <3>1. Started(q)
        BY <2>2 DEF ProcessCtus
      <3> HIDE DEF Started
      <3> QED
        BY <2>2, <3>1, ProcessCtusStep
    <2>3. ASSUME NEW q \in Picture, NEW d \in Ctu, TaskStep(q, d)
          PROVE  \A p \in Picture, c \in Ctu :
                   at'[p][c] # "absent" => at[p][c] # "absent" \/ Started(p)
      <3>1. Step(q, d)
        BY <2>3, TaskSteps
      <3>2. at[q][d] # "absent"
        BY <3>1 DEF Step, StepIn, StepBack, StepOn, StepOut
      <3> HIDE DEF Started
      <3> QED
        BY <3>1, <3>2 DEF Step, Alone
    <2> QED
      BY <2>1, <2>2, <2>3 DEF Next
  <1> HIDE DEF Started
  <1>6. \A p \in Picture, c \in Ctu : at[p][c] # "absent" => Started(p)
    BY DEF StartsInOrder, Started
  <1>7. \A p \in Picture, c \in Ctu : at'[p][c] # "absent" => Started(p)'
    BY <1>4, <1>5, <1>6
  <1> QED
    BY <1>7 DEF StartsInOrder, Started

-----------------------------------------------------------------------------
(***************************************************************************)
(* The counter of finished tile columns.                                   *)
(***************************************************************************)
\* Where nothing is counted and nobody starts or stops extending, it stays exact.
LEMMA ExactKept ==
  ASSUME NEW q \in Picture, NEW y \in Lines, UNCHANGED inputs,
         tileColsDone'[q][y] = tileColsDone[q][y],
         \A c \in Ctu : c[2] = y => (at'[q][c] = "extending" <=> at[q][c] = "extending"),
         \A c \in LineTask : c[2] = y => (Counted(q, c)' <=> Counted(q, c)),
         TypeOK, Exact(q, y)
  PROVE  Exact(q, y)'
  <1>1. NumTileCols = NumTileCols' /\ LastCols = LastCols'
    BY SameGeometry
  <1>2. \A x \in LastCols : <<x, y>> \in LineTask /\ <<x, y>>[2] = y
    BY TileColsCounted, StateTypes
  <1>3. CountedCols(q, y)' = CountedCols(q, y)
    BY <1>1, <1>2 DEF CountedCols
  <1>4. Extending(q, y)' = Extending(q, y)
    BY DEF Extending
  <1> QED
    BY <1>1, <1>3, <1>4 DEF Exact

\* The steps that leave the counter alone.
LEMMA QuietSteps ==
  ASSUME TypeOK, PlacesAgree, NEW p \in Picture, NEW c \in Ctu,
         \/ EnterStage(p, c) \/ LeaveStage(p, c) \/ LeaveAlfReconstruct(p, c)
         \/ FallThrough(p, c) \/ LeaveCcalfReconstruct(p, c)
  PROVE  /\ tileColsDone' = tileColsDone
         /\ at'[p][c] = "extending" <=> at[p][c] = "extending"
         /\ c \in LineTask => (Counted(p, c)' <=> Counted(p, c))
  <1> USE DEF CTU_ENCODE, SAO_FILTER, ALF_GET_STATISTICS, ALF_RECONSTRUCT,
              CCALF_GET_STATISTICS, CCALF_RECONSTRUCT, FINISH_SLICE, PROCESS_DONE
  <1>1. /\ at \in [Picture -> [Ctu -> Where]] /\ state \in [Picture -> [Ctu -> TaskType]]
        /\ state[p][c] \in Int /\ cfg \in Configs
    BY StateTypes DEF TypeOK
  <1>2. /\ tileColsDone' = tileColsDone
        /\ \/ EnterStage(p, c) \/ LeaveStage(p, c) \/ LeaveAlfReconstruct(p, c)
           \/ FallThrough(p, c) \/ LeaveCcalfReconstruct(p, c)
    BY DEF EnterStage, LeaveStage, LeaveAlfReconstruct, FallThrough, LeaveCcalfReconstruct
  <1>3. CASE EnterStage(p, c)
    BY <1>1, <1>2, <1>3 DEF EnterStage, Move, Counted
  <1>4. CASE FallThrough(p, c)
    BY <1>1, <1>2, <1>4 DEF FallThrough, Move, Counted
  <1>5. CASE LeaveAlfReconstruct(p, c)
    BY <1>1, <1>2, <1>5 DEF LeaveAlfReconstruct, Move, Store, Counted
  <1>6. CASE LeaveCcalfReconstruct(p, c)
    <2>1. state[p][c] = CCALF_RECONSTRUCT
      BY <1>6 DEF LeaveCcalfReconstruct, PlacesAgree
    <2>2. state'[p][c] = NextState(c, CCALF_RECONSTRUCT)
      BY <1>1, <1>6 DEF LeaveCcalfReconstruct, Store
    <2>3. NextState(c, CCALF_RECONSTRUCT) \in {FINISH_SLICE, PROCESS_DONE}
      BY DEF NextState
    <2>4. at[p][c] = "leaving" /\ at'[p][c] \in {"queued", "returned"}
      BY <1>1, <1>6 DEF LeaveCcalfReconstruct, Move
    <2> QED
      BY <1>2, <2>1, <2>2, <2>3, <2>4 DEF Counted
  <1>7. CASE LeaveStage(p, c)
    <2> DEFINE s == state[p][c]
               next == NextState(c, s)
    <2>1. /\ at[p][c] = "inStage" /\ s # CCALF_RECONSTRUCT
          /\ state'[p][c] = next /\ at'[p][c] \in {"queued", "returned"}
      BY <1>1, <1>7 DEF LeaveStage, Store, Move
    <2>2. Ladder(c, s)
      BY <2>1 DEF PlacesAgree
    <2>3. next \in Int /\ s < next /\ (c \in LineTask /\ s < 9 => next <= 9)
      <3>1. s \in 0 .. 10 /\ next \in TaskType /\ s < next
        BY <1>1, <2>2, NextStates DEF Ladder
      <3>2. c \in LineTask /\ s < 9 => next \in {s + 1, 6, 9}
        BY <3>1 DEF NextState
      <3> QED
        BY <3>1, <3>2 DEF TaskType
    <2> QED
      BY <1>1, <1>2, <2>1, <2>3 DEF Counted
  <1> QED
    BY <1>2, <1>3, <1>4, <1>5, <1>6, <1>7

LEMMA CountTileColExact ==
  ASSUME TypeOK, PlacesAgree, CounterExact, NEW p \in Picture, NEW c \in Ctu,
         CountTileCol(p, c), Step(p, c)
  PROVE  Exact(p, c[2])'
  <1> DEFINE y == c[2]
             counted == CountedCols(p, y)
  <1>1. /\ at[p][c] = "inStage" /\ state[p][c] = CCALF_RECONSTRUCT
        /\ tileColsDone' = [tileColsDone EXCEPT ![p][y] = @ + 1]
        /\ Move(p, c, IF tileColsDone'[p][y] >= NumTileCols THEN "extending" ELSE "leaving")
        /\ UNCHANGED inputs /\ state' = state
        /\ y \in Lines /\ cfg \in Configs
    BY CtuPosition, StateTypes DEF CountTileCol
  <1>2. Exact(p, y)
    BY <1>1 DEF CounterExact
  <1>3. c \in LineTask
    BY <1>1 DEF PlacesAgree, Ladder, CCALF_RECONSTRUCT, SAO_FILTER, PROCESS_DONE
  <1>4. /\ LastCols = LastCols' /\ NumTileCols = NumTileCols'
        /\ NumTileCols = Cardinality(LastCols) /\ NumTileCols \in Nat
        /\ IsFiniteSet(LastCols) /\ c[1] \in LastCols
    BY <1>1, <1>3, SameGeometry, TileColsCounted
  <1>5. /\ tileColsDone'[p][y] = tileColsDone[p][y] + 1
        /\ at'[p][c] = IF tileColsDone'[p][y] >= NumTileCols THEN "extending" ELSE "leaving"
    <2>1. tileColsDone'[p][y] = tileColsDone[p][y] + 1
      BY <1>1, CountUp
    <2>2. at \in [Picture -> [Ctu -> Where]]
      BY DEF TypeOK
    <2> QED
      BY <1>1, <2>1, <2>2 DEF Move
  <1>6. ~ Counted(p, c) /\ Counted(p, c)'
    BY <1>1, <1>5 DEF Counted, CCALF_RECONSTRUCT
  <1>7. c[1] \notin counted
    BY <1>6, CtuPosition DEF CountedCols
  <1>8. CountedCols(p, y)' = counted \cup {c[1]}
    <2>1. \A x \in LastCols : <<x, y>> \in Ctu
      BY <1>1, TileColsCounted DEF LineTask
    <2>2. \A x \in LastCols : x # c[1] => <<x, y>> # c
      BY CtuPosition
    <2>3. \A x \in LastCols : x # c[1] => (Counted(p, <<x, y>>)' <=> Counted(p, <<x, y>>))
      BY <2>1, <2>2 DEF Step, Alone, Counted
    <2>4. Counted(p, <<c[1], y>>)'
      BY <1>6, CtuPosition
    <2> QED
      BY <1>4, <2>3, <2>4 DEF CountedCols
  <1>9. counted # LastCols /\ counted \in SUBSET LastCols
    BY <1>4, <1>7 DEF CountedCols
  <1>10. tileColsDone[p][y] = Cardinality(counted) /\ Extending(p, y) = {}
    BY <1>2, <1>9 DEF Exact
  <1>11. IsFiniteSet(counted) /\ Cardinality(counted) \in Nat
    BY <1>4, <1>9, FS_Subset, FS_CardinalityType
  <1>12. /\ Cardinality(CountedCols(p, y)') = Cardinality(counted) + 1
         /\ CountedCols(p, y)' \in SUBSET LastCols
    BY <1>4, <1>7, <1>8, <1>9, <1>11, FS_AddElement
  <1>13. tileColsDone'[p][y] = Cardinality(CountedCols(p, y)')
    BY <1>5, <1>10, <1>12
  <1>14. Extending(p, y)' = IF at'[p][c] = "extending" THEN {c} ELSE {}
    BY <1>10 DEF Extending, Step, Alone
  <1>15. at'[p][c] = "extending" => CountedCols(p, y)' = LastCols
    <2> HAVE at'[p][c] = "extending"
    <2>1. tileColsDone'[p][y] >= NumTileCols
      BY <1>5
    <2>2. Cardinality(CountedCols(p, y)') <= NumTileCols
      BY <1>4, <1>12, FS_Subset
    <2>3. Cardinality(CountedCols(p, y)') = NumTileCols
      BY <1>4, <1>11, <1>12, <1>13, <2>1, <2>2
    <2> QED
      BY <1>4, <1>12, <2>3, FS_Subset
  <1> QED
    BY <1>4, <1>13, <1>14, <1>15 DEF Exact

LEMMA ExtendBordersExact ==
  ASSUME TypeOK, PlacesAgree, CounterExact, NEW p \in Picture, NEW c \in Ctu,
         ExtendBorders(p, c), Step(p, c)
  PROVE  Exact(p, c[2])'
  <1> DEFINE y == c[2]
  <1>1. /\ at[p][c] = "extending" /\ state' = state /\ UNCHANGED inputs
        /\ Move(p, c, "leaving") /\ y \in Lines /\ cfg \in Configs
        /\ \/ tileColsDone' = [tileColsDone EXCEPT ![p][y] = @ + 1]
           \/ tileColsDone' = tileColsDone
    BY CtuPosition, StateTypes DEF ExtendBorders
  <1>2. Exact(p, y)
    BY <1>1 DEF CounterExact
  <1>3. /\ LastCols = LastCols' /\ NumTileCols = NumTileCols'
        /\ NumTileCols = Cardinality(LastCols)
    BY <1>1, SameGeometry, TileColsCounted
  <1>4. c \in Extending(p, y)
    BY <1>1 DEF Extending
  <1>5. /\ CountedCols(p, y) = LastCols /\ tileColsDone[p][y] = NumTileCols
        /\ \A d \in Extending(p, y) : d = c
    BY <1>2, <1>3, <1>4 DEF Exact
  <1>6. at'[p][c] = "leaving"
    <2>1. at \in [Picture -> [Ctu -> Where]]
      BY DEF TypeOK
    <2> QED
      BY <1>1, <2>1 DEF Move
  <1>7. Extending(p, y)' = {}
    BY <1>5, <1>6 DEF Extending, Step, Alone
  <1>8. CountedCols(p, y)' = LastCols
    <2>1. \A x \in LastCols : Counted(p, <<x, y>>) /\ <<x, y>> \in Ctu
      BY <1>1, <1>5, TileColsCounted DEF CountedCols, LineTask
    <2>2. \A d \in Ctu : Counted(p, d) => Counted(p, d)'
      <3> SUFFICES ASSUME NEW d \in Ctu, Counted(p, d) PROVE Counted(p, d)'
        OBVIOUS
      <3>1. CASE d = c
        BY <1>6, <3>1 DEF Counted
      <3>2. CASE d # c
        BY <3>2 DEF Counted, Step, Alone
      <3> QED
        BY <3>1, <3>2
    <2> QED
      BY <1>3, <2>1, <2>2 DEF CountedCols
  <1>9. tileColsDone'[p][y] \in {NumTileCols, NumTileCols + 1}
    BY <1>1, <1>5, CountUp
  <1> QED
    BY <1>3, <1>7, <1>8, <1>9 DEF Exact

LEMMA CounterExactNext ==
  ASSUME TypeOK, PlacesAgree, CounterExact, [Next]_vars
  PROVE  CounterExact'
  <1>1. CASE UNCHANGED vars
    <2>1. UNCHANGED inputs /\ state' = state /\ at' = at /\ tileColsDone' = tileColsDone
      BY <1>1 DEF vars, inputs
    <2> QED
      BY <2>1, ExactKept DEF CounterExact, Counted
  <1>2. ASSUME NEW p \in Picture, ProcessCtus(p)
        PROVE  CounterExact'
    <2>1. /\ UNCHANGED inputs /\ state' = state /\ tileColsDone' = tileColsDone
          /\ \A c \in Ctu : at[p][c] = "absent"
          /\ \A q \in Picture, d \in Ctu : at'[q][d] = IF q = p THEN "queued" ELSE at[q][d]
      BY <1>2, ProcessCtusStep DEF ProcessCtus
    <2>2. \A q \in Picture, d \in Ctu :
            /\ at'[q][d] = "extending" <=> at[q][d] = "extending"
            /\ at'[q][d] = "leaving" <=> at[q][d] = "leaving"
      BY <2>1
    <2>3. \A q \in Picture, d \in LineTask : Counted(q, d)' <=> Counted(q, d)
      BY <2>1, <2>2 DEF Counted, LineTask
    <2> QED
      BY <2>1, <2>2, <2>3, ExactKept DEF CounterExact
  <1>3. ASSUME NEW p \in Picture, NEW c \in Ctu, TaskStep(p, c)
        PROVE  CounterExact'
    <2>1. Step(p, c) /\ UNCHANGED inputs /\ c[2] \in Lines
      BY <1>3, TaskSteps, CtuPosition DEF Step
    <2>2. \/ tileColsDone' = tileColsDone
          \/ tileColsDone' = [tileColsDone EXCEPT ![p][c[2]] = @ + 1]
      BY <1>3 DEF TaskStep, EnterStage, LeaveStage, LeaveAlfReconstruct, FallThrough,
                  CountTileCol, ExtendBorders, LeaveCcalfReconstruct
    <2>3. ASSUME NEW q \in Picture, NEW y \in Lines, q # p \/ y # c[2]
          PROVE  Exact(q, y)'
      <3>1. tileColsDone'[q][y] = tileColsDone[q][y]
        BY <2>1, <2>2, <2>3, CountUp
      <3>2. \A d \in Ctu : d[2] = y => state'[q][d] = state[q][d] /\ at'[q][d] = at[q][d]
        BY <2>1, <2>3 DEF Step, Alone
      <3>3. \A d \in LineTask : d[2] = y => (Counted(q, d)' <=> Counted(q, d))
        BY <3>2 DEF Counted, LineTask
      <3> QED
        BY <2>1, <3>1, <3>2, <3>3, ExactKept DEF CounterExact
    <2>4. Exact(p, c[2])'
      <3>1. CASE CountTileCol(p, c)
        BY <2>1, <3>1, CountTileColExact
      <3>2. CASE ExtendBorders(p, c)
        BY <2>1, <3>2, ExtendBordersExact
      <3>3. CASE ~ CountTileCol(p, c) /\ ~ ExtendBorders(p, c)
        <4>1. /\ tileColsDone' = tileColsDone
              /\ at'[p][c] = "extending" <=> at[p][c] = "extending"
              /\ c \in LineTask => (Counted(p, c)' <=> Counted(p, c))
          BY <1>3, <3>3, QuietSteps DEF TaskStep
        <4>2. \A d \in Ctu : d # c =>
                /\ at'[p][d] = "extending" <=> at[p][d] = "extending"
                /\ Counted(p, d)' <=> Counted(p, d)
          BY <2>1 DEF Step, Alone, Counted
        <4>3. LineTask \subseteq Ctu
          BY DEF LineTask
        <4>4. \A d \in Ctu : at'[p][d] = "extending" <=> at[p][d] = "extending"
          BY <4>1, <4>2
        <4>5. \A d \in LineTask : Counted(p, d)' <=> Counted(p, d)
          BY <4>1, <4>2, <4>3
        <4> QED
          BY <2>1, <4>1, <4>4, <4>5, ExactKept DEF CounterExact
      <3> QED
        BY <3>1, <3>2, <3>3
    <2> QED
      BY <2>3, <2>4 DEF CounterExact
  <1> QED
    BY <1>1, <1>2, <1>3 DEF Next

-----------------------------------------------------------------------------
(***************************************************************************)
(* The invariant is inductive.                                             *)
(***************************************************************************)
LEMMA InitIInv == Init => IInv
  <1> SUFFICES ASSUME Init PROVE IInv
    OBVIOUS
  <1> USE DEF CTU_ENCODE, PROCESS_DONE, FINISH_SLICE, SAO_FILTER, CCALF_RECONSTRUCT,
              ALF_DERIVE_FILTER, CCALF_DERIVE_FILTER
  <1>1. /\ \A p \in Picture, c \in Ctu : state[p][c] = 0 /\ at[p][c] = "absent"
        /\ \A p \in Picture, y \in Lines : tileColsDone[p][y] = 0
        /\ cfg \in Configs
    BY DEF Init
  <1>2. TypeOK
    BY DEF Init, TypeOK, Where, TaskType
  <1>3. PlacesAgree
    BY <1>1 DEF PlacesAgree, Ladder
  <1>4. \A p \in Picture, c \in Ctu : \A s \in 0 .. 10 : ~ Begun(p, c, s)
    BY <1>1 DEF Begun
  <1>5. GuardsHeld
    BY <1>4 DEF GuardsHeld
  <1>6. LeftDone
    BY <1>4 DEF LeftDone
  <1>7. UpDone
    BY <1>4 DEF UpDone
  <1>8. RefsHeld
    BY <1>4 DEF RefsHeld
  <1>9. StartsInOrder
    BY <1>1 DEF StartsInOrder
  <1>10. CounterExact
    <2> SUFFICES ASSUME NEW q \in Picture, NEW y \in Lines PROVE Exact(q, y)
      BY DEF CounterExact
    <2>1. \A x \in LastCols : <<x, y>> \in Ctu
      BY <1>1, TileColsCounted DEF LineTask
    <2>2. CountedCols(q, y) = {}
      BY <1>1, <2>1 DEF CountedCols, Counted
    <2>3. Extending(q, y) = {}
      BY <1>1 DEF Extending
    <2> QED
      BY <1>1, <2>2, <2>3, FS_EmptySet DEF Exact
  <1> QED
    BY <1>2, <1>3, <1>5, <1>6, <1>7, <1>8, <1>9, <1>10 DEF IInv

LEMMA NextIInv == IInv /\ [Next]_vars => IInv'
  <1> SUFFICES ASSUME IInv, [Next]_vars PROVE IInv'
    OBVIOUS
  <1>1. /\ TypeOK /\ PlacesAgree /\ GuardsHeld /\ LeftDone /\ UpDone /\ RefsHeld
        /\ StartsInOrder /\ CounterExact
    BY DEF IInv
  <1>2. TypeOK' /\ PlacesAgree' /\ Grows /\ Begins
    BY <1>1, NextGrows
  <1>3. GuardsHeld'
    BY <1>1, <1>2, GuardsHeldNext
  <1>4. LeftDone'
    BY <1>1, <1>2, LeftDoneNext
  <1>5. UpDone'
    BY <1>1, <1>2, UpDoneNext
  <1>6. RefsHeld'
    BY <1>1, <1>2, RefsHeldNext
  <1>7. StartsInOrder'
    BY <1>1, StartsInOrderNext
  <1>8. CounterExact'
    BY <1>1, CounterExactNext
  <1> QED
    BY <1>2, <1>3, <1>4, <1>5, <1>6, <1>7, <1>8 DEF IInv

\* The inductive invariant holds in every state of every run.
THEOREM InductiveInvariant == Spec => []IInv
  BY InitIInv, NextIInv, PTL DEF Spec

\* The variables keep their types.
THEOREM TypeCorrect == Spec => []TypeOK
  <1>1. IInv => TypeOK
    BY DEF IInv
  <1> QED
    BY <1>1, InductiveInvariant, PTL

-----------------------------------------------------------------------------
(***************************************************************************)
(* What the guards that were found true say, for use in the theorems.      *)
(***************************************************************************)

\* A guard that held, and the stage that needs it.
LEMMA GuardOfBegun ==
  ASSUME IInv, NEW p \in Picture, NEW c \in Ctu, NEW s \in CTU_ENCODE .. SAO_FILTER,
         Begun(p, c, s)
  PROVE  ReadyFor(p, c, s)
  BY LowLadder DEF IInv, GuardsHeld

\* A stage that has begun or is run was preceded by those below it.
LEMMA BegunBelow ==
  ASSUME TypeOK, NEW p \in Picture, NEW c \in Ctu, NEW s \in Int, NEW r \in Int,
         Begun(p, c, s), r < s
  PROVE  Begun(p, c, r) /\ state[p][c] > r
  BY StateTypes DEF Begun

LEMMA RunningBegun ==
  ASSUME NEW p \in Picture, NEW c \in Ctu, NEW s, Running(p, c, s)
  PROVE  Begun(p, c, s) /\ state[p][c] = s
  BY DEF Running, Begun

\* The CTU at an offset.
LEMMA Offset ==
  ASSUME NEW c \in Ctu, NEW dx \in Int, NEW dy \in Int
  PROVE  /\ Nb(c, dx, dy) = <<c[1] + dx, c[2] + dy>>
         /\ Nb(c, dx, dy)[1] = c[1] + dx
         /\ Nb(c, dx, dy)[2] = c[2] + dy
         /\ Nb(c, dx, dy) \in Ctu <=> /\ 0 <= c[1] + dx /\ c[1] + dx < WidthInCtus
                                      /\ 0 <= c[2] + dy /\ c[2] + dy < HeightInCtus
  <1>1. c[1] \in Int /\ c[2] \in Int
    BY CtuPosition
  <1>2. c[1] + dx \in Int /\ c[2] + dy \in Int
    BY <1>1
  <1> QED
    BY <1>2, CtuOfPosition DEF Nb

LEMMA Neighbour ==
  ASSUME NEW c \in Ctu, NEW S, NEW d \in Around(c, S)
  PROVE  d \in Ctu /\ \E o \in S : d = Nb(c, o[1], o[2])
  BY DEF Around

LEMMA NeighbourBack ==
  ASSUME NEW c \in Ctu, NEW dx \in Int, NEW dy \in Int, NEW ex \in Int, NEW ey \in Int,
         dx + ex = 0, dy + ey = 0
  PROVE  c = Nb(Nb(c, dx, dy), ex, ey)
  <1>1. c = <<c[1], c[2]>> /\ c[1] \in Int /\ c[2] \in Int
    BY CtuPosition
  <1>2. Nb(Nb(c, dx, dy), ex, ey) = <<(c[1] + dx) + ex, (c[2] + dy) + ey>>
    BY DEF Nb
  <1>3. (c[1] + dx) + ex = c[1] /\ (c[2] + dy) + ey = c[2]
    <2>1. \A n, m, k \in Int : m + k = 0 => (n + m) + k = n
      OBVIOUS
    <2> QED
      BY <1>1, <2>1
  <1> QED
    BY <1>1, <1>2, <1>3

\* Same tile and same line or the line next to it, seen from the column.
LEMMA AcrossColumn ==
  ASSUME NEW c, NEW d, NEW u, u[1] = c[1], u[2] = d[2], CanFilterCtuBdry(c, d)
  PROVE  CanFilterCtuBdry(c, u) /\ CanFilterCtuBdry(u, d) /\ CanFilterCtuBdry(d, c)
  BY DEF CanFilterCtuBdry, SameTile, SameCol, SameRow

\* A CTU of the tile to the right on the line has been encoded after c.
LEMMA EncodedInOrder ==
  ASSUME IInv, NEW p \in Picture, NEW c \in Ctu, NEW g \in Ctu,
         g[2] = c[2], c[1] <= g[1], SameCol(g, c), state[p][g] > CTU_ENCODE
  PROVE  state[p][c] > CTU_ENCODE
  <1>1. CASE c[1] = g[1]
    <2>1. c = g
      BY <1>1, CtuPosition
    <2> QED
      BY <2>1
  <1>2. CASE c[1] < g[1]
    <2>1. Begun(p, g, CTU_ENCODE)
      BY DEF Begun
    <2>2. CTU_ENCODE \in CTU_ENCODE .. SAO_FILTER
      BY DEF CTU_ENCODE, SAO_FILTER
    <2> QED
      BY <1>2, <2>1, <2>2 DEF IInv, LeftDone
  <1> QED
    BY <1>1, <1>2, CtuPosition

\* The CTUs of a line up to one that is through SAO are.
LEMMA SaoInOrder ==
  ASSUME IInv, NEW p \in Picture, NEW g \in Ctu, NEW e \in Ctu,
         g[2] = e[2], e[1] <= g[1], state[p][g] > SAO_FILTER
  PROVE  state[p][e] > SAO_FILTER
  <1>1. CASE e[1] = g[1]
    <2>1. e = g
      BY <1>1, CtuPosition
    <2> QED
      BY <2>1
  <1>2. CASE e[1] < g[1]
    <2>1. Begun(p, g, SAO_FILTER)
      BY DEF Begun
    <2>2. SAO_FILTER \in CTU_ENCODE .. SAO_FILTER /\ SAO_FILTER # CTU_ENCODE
      BY DEF CTU_ENCODE, SAO_FILTER
    <2> QED
      BY <1>2, <2>1, <2>2 DEF IInv, LeftDone
  <1> QED
    BY <1>1, <1>2, CtuPosition

\* Before c is encoded, what it reads is not deblocked.
LEMMA SourceNotDeblocked ==
  ASSUME IInv, NEW p \in Picture, NEW c \in Ctu, NEW d \in EncodeSources(p, c),
         state[p][c] = CTU_ENCODE
  PROVE  ~ Begun(p, d, RESHAPE_LF_VER)
  <1>1. d \in Ctu /\ SameCol(c, d) /\ SameRow(c, d)
    BY DEF EncodeSources, SameTile
  <1>2. /\ cfg \in Configs /\ encDelay[p] \in Nat \ {0}
        /\ c[1] \in Cols /\ d[1] \in Cols /\ c[1] \in Int /\ d[1] \in Int
        /\ c[2] \in Int /\ 0 <= c[2] /\ c[2] < HeightInCtus /\ 0 <= d[1] /\ 0 <= c[1]
        /\ d[2] \in Int /\ WidthInCtus \in Int
    BY <1>1, StateTypes, CtuPosition, SizesAssumption DEF IInv
  <1> DEFINE last == cfg.lastCol[d[1]]
  <1>3. /\ last \in Int /\ last < WidthInCtus /\ d[1] <= last /\ c[1] <= last
        /\ last = cfg.lastCol[c[1]]
    BY <1>1, <1>2, TileColumns, SizesAssumption DEF SameCol, Cols
  <1> SUFFICES ASSUME Begun(p, d, RESHAPE_LF_VER) PROVE FALSE
    OBVIOUS
  <1>4. ReadyReshapeLfVer(p, d)
    <2>1. RESHAPE_LF_VER \in CTU_ENCODE .. SAO_FILTER
      BY DEF RESHAPE_LF_VER, CTU_ENCODE, SAO_FILTER
    <2>2. ReadyFor(p, d, RESHAPE_LF_VER)
      BY <1>1, <2>1, GuardOfBegun
    <2> QED
      BY <2>2 DEF ReadyFor
  <1>5. ASSUME NEW gx \in Int, d[1] <= gx, c[1] <= gx, gx <= last,
               FilterPast(p, d, <<gx, c[2]>>, CTU_ENCODE)
        PROVE  FALSE
    <2> DEFINE g == <<gx, c[2]>>
    <2>1. g \in Ctu
      BY <1>2, <1>3, <1>5, CtuOfPosition
    <2>2. gx \in Cols
      BY <1>2, <1>3, <1>5, SizesAssumption DEF Cols
    <2>3. cfg.lastCol[gx] = last
      BY <1>2, <1>5, <2>2, TileColumns
    <2>4. CanFilterCtuBdry(d, g) /\ SameCol(g, c)
      BY <1>1, <1>3, <2>3 DEF CanFilterCtuBdry, SameTile, SameCol, SameRow
    <2>5. state[p][g] > CTU_ENCODE
      BY <1>5, <2>1, <2>4 DEF FilterPast
    <2>6. state[p][c] > CTU_ENCODE
      BY <1>5, <2>1, <2>4, <2>5, EncodedInOrder
    <2> QED
      BY <2>6 DEF CTU_ENCODE
  <1>6. CASE \E dx \in {-1, 0, 1} : d = Nb(c, dx, -1)
    <2>1. PICK dx \in {-1, 0, 1} : d = Nb(c, dx, -1)
      BY <1>6
    <2>2. d[1] = c[1] + dx /\ d[2] = c[2] - 1
      BY <1>2, <2>1 DEF Nb
    <2> DEFINE i == Lesser(1, last - d[1])
               gx == d[1] + i
    <2>3. /\ i \in Int /\ gx \in Int /\ d[1] <= gx /\ c[1] <= gx /\ gx <= last
      BY <1>2, <1>3, <2>2 DEF Lesser
    <2>4. FilterPast(p, d, Nb(d, i, 1), CTU_ENCODE)
      BY <1>4 DEF ReadyReshapeLfVer
    <2>5. Nb(d, i, 1) = <<gx, c[2]>>
      BY <1>2, <2>2 DEF Nb
    <2> QED
      BY <1>5, <2>3, <2>4, <2>5
  <1>7. CASE d[2] = c[2] /\ d[1] < c[1] /\ d[1] >= c[1] - encDelay[p]
    <2> DEFINE i == CheckRight(p, d)
               gx == d[1] + i
    <2>1. i \in Int /\ gx \in Int /\ d[1] <= gx /\ c[1] <= gx /\ gx <= last /\ 0 <= i
      BY <1>2, <1>3, <1>7 DEF CheckRight, Lesser
    <2>2. i \in (IF HasTiles THEN CheckLeft(d) ELSE i) .. i
      BY <1>2, <2>1 DEF CheckLeft
    <2>3. FilterPast(p, d, Nb(d, i, 0), CTU_ENCODE)
      BY <1>4, <2>2 DEF ReadyReshapeLfVer
    <2>4. Nb(d, i, 0) = <<gx, c[2]>>
      BY <1>2, <1>7 DEF Nb
    <2> QED
      BY <1>5, <2>1, <2>3, <2>4
  <1>8. \/ \E dx \in {-1, 0, 1} : d = Nb(c, dx, -1)
        \/ d[2] = c[2] /\ d[1] < c[1] /\ d[1] >= c[1] - encDelay[p]
    BY DEF EncodeSources, Around
  <1> QED
    BY <1>6, <1>7, <1>8

\* What c reads has been encoded.
LEMMA SourceEncoded ==
  ASSUME IInv, NEW p \in Picture, NEW c \in Ctu, NEW d \in EncodeSources(p, c),
         Running(p, c, CTU_ENCODE)
  PROVE  state[p][d] > CTU_ENCODE
  <1>1. d \in Ctu /\ SameCol(c, d) /\ SameRow(c, d)
    BY DEF EncodeSources, SameTile
  <1>2. Begun(p, c, CTU_ENCODE) /\ CTU_ENCODE \in CTU_ENCODE .. SAO_FILTER
    BY RunningBegun DEF CTU_ENCODE, SAO_FILTER
  <1>3. ReadyCtuEncode(p, c)
    <2>1. ReadyFor(p, c, CTU_ENCODE)
      BY <1>2, GuardOfBegun
    <2> QED
      BY <2>1 DEF ReadyFor
  <1>4. CASE d[2] = c[2] /\ d[1] < c[1]
    BY <1>1, <1>2, <1>4 DEF IInv, LeftDone
  <1>5. CASE d \in {Nb(c, -1, -1), Nb(c, 0, -1)} \/ (d = Nb(c, 1, -1) /\ ~ cfg.wpp)
    <2> DEFINE up == Nb(c, 0, -1)
    <2>1. up = <<c[1], c[2] - 1>> /\ d[2] = c[2] - 1 /\ c[1] \in Int /\ c[2] \in Int
      BY <1>5, CtuPosition DEF Nb
    <2>2. up \in Ctu
      <3>1. d[2] \in Lines /\ c[1] \in Cols
        BY <1>1, CtuPosition
      <3> QED
        BY <2>1, <3>1 DEF Ctu
    <2>3. SameTile(c, up)
      BY <1>1, <2>1 DEF SameTile, SameCol, SameRow
    <2>4. state[p][up] > CTU_ENCODE /\ (cfg.wpp \/ Past(p, Nb(c, 1, -1), CTU_ENCODE))
      BY <1>3, <2>2, <2>3 DEF ReadyCtuEncode, Past
    <2>5. CASE d = Nb(c, -1, -1)
      <3>1. d[1] = c[1] - 1
        BY <2>1, <2>5 DEF Nb
      <3>2. SameCol(up, d)
        BY <1>1, <2>1 DEF SameCol
      <3> QED
        BY <1>1, <2>1, <2>2, <2>4, <3>1, <3>2, EncodedInOrder
    <2>6. CASE d = up
      BY <2>4, <2>6
    <2>7. CASE d = Nb(c, 1, -1) /\ ~ cfg.wpp
      BY <1>1, <2>4, <2>7 DEF Past
    <2> QED
      BY <1>5, <2>5, <2>6, <2>7
  <1> QED
    BY <1>4, <1>5 DEF EncodeSources, Around

\* Intra prediction and IBC read CTUs that are encoded, and not yet filtered.
THEOREM EncodeReadsUnfiltered == Spec => []EncodeSourcesReady
  <1>1. IInv => EncodeSourcesReady
    <2> SUFFICES ASSUME IInv, NEW p \in Picture, NEW c \in Ctu, Running(p, c, CTU_ENCODE),
                        NEW d \in EncodeSources(p, c)
                 PROVE  /\ Done(p, d, CTU_ENCODE)
                        /\ \A e \in Around(d, {<<0, 0>>, <<1, 0>>}) :
                             ~ Begun(p, e, RESHAPE_LF_VER)
      BY DEF EncodeSourcesReady
    <2>1. d \in Ctu /\ state[p][c] = CTU_ENCODE
      BY DEF EncodeSources, Running
    <2>2. ~ Begun(p, d, RESHAPE_LF_VER)
      BY <2>1, SourceNotDeblocked
    <2>3. ASSUME NEW e \in Around(d, {<<0, 0>>, <<1, 0>>}), Begun(p, e, RESHAPE_LF_VER)
          PROVE  FALSE
      <3>1. e \in Ctu /\ (e = Nb(d, 0, 0) \/ e = Nb(d, 1, 0))
        BY DEF Around
      <3>2. e = d \/ (d[2] = e[2] /\ d[1] < e[1])
        BY <2>1, <3>1, CtuPosition DEF Nb
      <3>3. RESHAPE_LF_VER \in CTU_ENCODE .. SAO_FILTER /\ RESHAPE_LF_VER # CTU_ENCODE
        BY DEF RESHAPE_LF_VER, CTU_ENCODE, SAO_FILTER
      <3>4. e # d => state[p][d] > RESHAPE_LF_VER
        BY <2>1, <2>3, <3>1, <3>2, <3>3 DEF IInv, LeftDone
      <3> QED
        BY <2>2, <2>3, <3>4 DEF Begun
    <2> QED
      BY <2>1, <2>3, SourceEncoded DEF Done
  <1> QED
    BY <1>1, InductiveInvariant, PTL

\* Neighbours of deblocking vertical edges.
LEMMA VerticalEdges ==
  ASSUME IInv, NEW p \in Picture, NEW c \in Ctu, Running(p, c, RESHAPE_LF_VER),
         NEW d \in Ctu, d = Nb(c, -1, 0), CanFilterCtuBdry(c, d)
  PROVE  state[p][d] > RESHAPE_LF_VER /\ ~ Begun(p, d, LF_HOR)
  <1>1. Begun(p, c, RESHAPE_LF_VER) /\ state[p][c] = RESHAPE_LF_VER
    BY RunningBegun
  <1>2. d[2] = c[2] /\ d[1] < c[1]
    BY CtuPosition DEF Nb
  <1>3. /\ RESHAPE_LF_VER \in CTU_ENCODE .. SAO_FILTER /\ RESHAPE_LF_VER # CTU_ENCODE
        /\ LF_HOR \in CTU_ENCODE .. SAO_FILTER
    BY DEF RESHAPE_LF_VER, LF_HOR, CTU_ENCODE, SAO_FILTER
  <1>4. state[p][d] > RESHAPE_LF_VER
    BY <1>1, <1>2, <1>3 DEF IInv, LeftDone
  <1>5. ASSUME Begun(p, d, LF_HOR) PROVE FALSE
    <2>1. ReadyFor(p, d, LF_HOR)
      BY <1>3, <1>5, GuardOfBegun
    <2>2. FilterPast(p, d, Nb(d, 1, 0), RESHAPE_LF_VER)
      BY <2>1 DEF ReadyFor, ReadyLfHor
    <2>3. c = Nb(d, 1, 0)
      BY NeighbourBack
    <2>4. CanFilterCtuBdry(d, c)
      BY DEF CanFilterCtuBdry, SameTile, SameCol, SameRow
    <2> QED
      BY <1>1, <2>2, <2>3, <2>4 DEF FilterPast, RESHAPE_LF_VER
  <1> QED
    BY <1>4, <1>5

\* Neighbours of deblocking horizontal edges: those it needs ...
LEMMA HorizontalEdges ==
  ASSUME IInv, NEW p \in Picture, NEW c \in Ctu, Running(p, c, LF_HOR),
         NEW d \in Ctu, d \in {Nb(c, 1, 0), Nb(c, 0, -1), Nb(c, 1, -1)},
         CanFilterCtuBdry(c, d)
  PROVE  state[p][d] > RESHAPE_LF_VER
  <1>1. Begun(p, c, LF_HOR) /\ LF_HOR \in CTU_ENCODE .. SAO_FILTER
    BY RunningBegun DEF LF_HOR, CTU_ENCODE, SAO_FILTER
  <1>2. ReadyLfHor(p, c)
    <2>1. ReadyFor(p, c, LF_HOR)
      BY <1>1, GuardOfBegun
    <2> QED
      BY <2>1 DEF ReadyFor
  <1>3. \A e \in Ctu : state[p][e] > LF_HOR => state[p][e] > RESHAPE_LF_VER
    BY StateTypes DEF IInv, LF_HOR, RESHAPE_LF_VER
  <1>4. CASE d = Nb(c, 1, 0)
    BY <1>2, <1>4 DEF ReadyLfHor, FilterPast
  <1>5. CASE d = Nb(c, 0, -1)
    BY <1>2, <1>3, <1>5 DEF ReadyLfHor, FilterPast
  <1>6. CASE d = Nb(c, 1, -1)
    <2> DEFINE up == Nb(c, 0, -1)
    <2>1. /\ up = <<c[1], c[2] - 1>> /\ d[2] = c[2] - 1 /\ d = <<c[1] + 1, c[2] - 1>>
          /\ c[1] \in Int /\ c[2] \in Int
      BY <1>6, CtuPosition DEF Nb
    <2>2. up \in Ctu
      <3>1. d[2] \in Lines /\ c[1] \in Cols
        BY CtuPosition
      <3> QED
        BY <2>1, <3>1 DEF Ctu
    <2>3. CanFilterCtuBdry(c, up) /\ CanFilterCtuBdry(up, d)
      BY <2>1, AcrossColumn
    <2>4. state[p][up] > LF_HOR
      BY <1>2, <2>2, <2>3 DEF ReadyLfHor, FilterPast
    <2>5. ReadyFor(p, up, LF_HOR)
      BY <1>1, <2>2, <2>4, GuardOfBegun DEF Begun
    <2>6. FilterPast(p, up, Nb(up, 1, 0), RESHAPE_LF_VER)
      BY <2>5 DEF ReadyFor, ReadyLfHor
    <2>7. Nb(up, 1, 0) = d
      BY <2>1 DEF Nb
    <2> QED
      BY <2>3, <2>6, <2>7 DEF FilterPast
  <1> QED
    BY <1>4, <1>5, <1>6

\* ... and those it overwrites.
LEMMA HorizontalEdgesBack ==
  ASSUME IInv, NEW p \in Picture, NEW c \in Ctu, Running(p, c, LF_HOR),
         NEW d \in Ctu, d \in {Nb(c, -1, 0), Nb(c, 0, -1), Nb(c, -1, -1)}
  PROVE  ~ Begun(p, d, SAO_FILTER)
  <1> SUFFICES ASSUME Begun(p, d, SAO_FILTER) PROVE FALSE
    OBVIOUS
  <1>1. SAO_FILTER \in CTU_ENCODE .. SAO_FILTER
    BY DEF CTU_ENCODE, SAO_FILTER
  <1>2. ReadyFor(p, d, SAO_FILTER)
    BY <1>1, GuardOfBegun
  <1>3. \A e \in {Nb(d, 1, 0), Nb(d, 0, 1), Nb(d, 1, 1)} : Past(p, e, LF_HOR)
    BY <1>2 DEF ReadyFor, ReadySaoFilter
  <1>4. c \in {Nb(d, 1, 0), Nb(d, 0, 1), Nb(d, 1, 1)}
    <2>1. CASE d = Nb(c, -1, 0)
      BY <2>1, NeighbourBack
    <2>2. CASE d = Nb(c, 0, -1)
      BY <2>2, NeighbourBack
    <2>3. CASE d = Nb(c, -1, -1)
      BY <2>3, NeighbourBack
    <2> QED
      BY <2>1, <2>2, <2>3
  <1>5. state[p][c] > LF_HOR
    BY <1>3, <1>4 DEF Past
  <1> QED
    BY <1>5 DEF Running, LF_HOR

\* Neighbours of SAO: those before ...
LEMMA SaoBefore ==
  ASSUME IInv, NEW p \in Picture, NEW c \in Ctu, Running(p, c, SAO_FILTER),
         NEW d \in Ctu, d \in {Nb(c, -1, 0), Nb(c, -1, -1), Nb(c, 0, -1)}
  PROVE  state[p][d] > SAO_FILTER
  <1>1. /\ Begun(p, c, SAO_FILTER) /\ SAO_FILTER \in CTU_ENCODE .. SAO_FILTER
        /\ SAO_FILTER # CTU_ENCODE
    BY RunningBegun DEF CTU_ENCODE, SAO_FILTER
  <1>2. ReadySaoFilter(p, c)
    <2>1. ReadyFor(p, c, SAO_FILTER)
      BY <1>1, GuardOfBegun
    <2> QED
      BY <2>1 DEF ReadyFor
  <1>3. CASE d = Nb(c, -1, 0)
    <2>1. d[2] = c[2] /\ d[1] < c[1]
      BY <1>3, CtuPosition DEF Nb
    <2> QED
      BY <1>1, <2>1 DEF IInv, LeftDone
  <1>4. CASE d \in {Nb(c, -1, -1), Nb(c, 0, -1)}
    <2> DEFINE up == Nb(c, 0, -1)
    <2>1. /\ up = <<c[1], c[2] - 1>> /\ d[2] = c[2] - 1 /\ d[1] <= c[1]
          /\ c[1] \in Int /\ c[2] \in Int
      BY <1>4, CtuPosition DEF Nb
    <2>2. up \in Ctu
      <3>1. d[2] \in Lines /\ c[1] \in Cols
        BY CtuPosition
      <3> QED
        BY <2>1, <3>1 DEF Ctu
    <2>3. state[p][up] > SAO_FILTER
      BY <1>2, <2>2 DEF ReadySaoFilter, Past
    <2> QED
      BY <2>1, <2>2, <2>3, SaoInOrder
  <1> QED
    BY <1>3, <1>4

\* ... and those after.
LEMMA SaoAfter ==
  ASSUME IInv, NEW p \in Picture, NEW c \in Ctu, Running(p, c, SAO_FILTER),
         NEW d \in Ctu, d \in {Nb(c, 1, 0), Nb(c, 0, 1), Nb(c, 1, 1)}
  PROVE  state[p][d] > LF_HOR /\ ~ Begun(p, d, SAO_FILTER)
  <1>1. /\ Begun(p, c, SAO_FILTER) /\ state[p][c] = SAO_FILTER
        /\ SAO_FILTER \in CTU_ENCODE .. SAO_FILTER /\ SAO_FILTER # CTU_ENCODE
    BY RunningBegun DEF CTU_ENCODE, SAO_FILTER
  <1>2. ReadySaoFilter(p, c)
    <2>1. ReadyFor(p, c, SAO_FILTER)
      BY <1>1, GuardOfBegun
    <2> QED
      BY <2>1 DEF ReadyFor
  <1>3. state[p][d] > LF_HOR
    BY <1>2 DEF ReadySaoFilter, Past
  <1>4. ASSUME NEW e \in Ctu, e[2] = c[2], c[1] < e[1]
        PROVE  ~ Begun(p, e, SAO_FILTER) /\ ~ (state[p][e] > SAO_FILTER)
    <2>1. ASSUME Begun(p, e, SAO_FILTER) PROVE FALSE
      <3>1. state[p][c] > SAO_FILTER
        BY <1>1, <1>4, <2>1 DEF IInv, LeftDone
      <3> QED
        BY <1>1, <3>1 DEF SAO_FILTER
    <2> QED
      BY <2>1 DEF Begun
  <1>5. ASSUME Begun(p, d, SAO_FILTER) PROVE FALSE
    <2>1. ReadyFor(p, d, SAO_FILTER)
      BY <1>1, <1>5, GuardOfBegun
    <2>2. Past(p, Nb(d, 0, -1), SAO_FILTER)
      BY <2>1 DEF ReadyFor, ReadySaoFilter
    <2>3. CASE d = Nb(c, 1, 0)
      <3>1. d[2] = c[2] /\ c[1] < d[1]
        BY <2>3, CtuPosition DEF Nb
      <3> QED
        BY <1>4, <1>5, <3>1
    <2>4. CASE d = Nb(c, 0, 1)
      <3>1. c = Nb(d, 0, -1)
        BY <2>4, NeighbourBack
      <3> QED
        BY <1>1, <2>2, <3>1 DEF Past, SAO_FILTER
    <2>5. CASE d = Nb(c, 1, 1)
      <3> DEFINE right == Nb(d, 0, -1)
      <3>1. /\ right = <<c[1] + 1, c[2]>> /\ d[1] = c[1] + 1
            /\ c[1] \in Int /\ c[2] \in Int
        BY <2>5, CtuPosition DEF Nb
      <3>2. right \in Ctu
        <4>1. d[1] \in Cols /\ c[2] \in Lines
          BY CtuPosition
        <4> QED
          BY <3>1, <4>1 DEF Ctu
      <3> QED
        BY <1>4, <2>2, <3>1, <3>2 DEF Past
    <2> QED
      BY <2>3, <2>4, <2>5
  <1> QED
    BY <1>3, <1>5

\* Deblocking and SAO find what they read, and overwrite nothing still needed.
THEOREM LoopFiltersInPlace == Spec => []LoopFilterSourcesReady
  <1>1. IInv => DeblockSourcesReady
    <2> SUFFICES ASSUME IInv, NEW p \in Picture, NEW c \in Ctu
                 PROVE  /\ Running(p, c, RESHAPE_LF_VER) =>
                             \A d \in Around(c, {<<-1, 0>>}) : CanFilterCtuBdry(c, d) =>
                               Done(p, d, RESHAPE_LF_VER) /\ ~ Begun(p, d, LF_HOR)
                        /\ Running(p, c, LF_HOR) =>
                             /\ \A d \in Around(c, {<<1, 0>>, <<0, -1>>, <<1, -1>>}) :
                                  CanFilterCtuBdry(c, d) => Done(p, d, RESHAPE_LF_VER)
                             /\ \A d \in Around(c, {<<-1, 0>>, <<0, -1>>, <<-1, -1>>}) :
                                  ~ Begun(p, d, SAO_FILTER)
      BY DEF DeblockSourcesReady
    <2>1. \A d \in Around(c, {<<-1, 0>>}) : d \in Ctu /\ d = Nb(c, -1, 0)
      BY DEF Around
    <2>2. \A d \in Around(c, {<<1, 0>>, <<0, -1>>, <<1, -1>>}) :
            d \in Ctu /\ d \in {Nb(c, 1, 0), Nb(c, 0, -1), Nb(c, 1, -1)}
      BY DEF Around
    <2>3. \A d \in Around(c, {<<-1, 0>>, <<0, -1>>, <<-1, -1>>}) :
            d \in Ctu /\ d \in {Nb(c, -1, 0), Nb(c, 0, -1), Nb(c, -1, -1)}
      BY DEF Around
    <2> QED
      BY <2>1, <2>2, <2>3, VerticalEdges, HorizontalEdges, HorizontalEdgesBack DEF Done
  <1>2. IInv => SaoSourcesReady
    <2> SUFFICES ASSUME IInv, NEW p \in Picture, NEW c \in Ctu, Running(p, c, SAO_FILTER)
                 PROVE  /\ \A d \in Around(c, {<<-1, 0>>, <<-1, -1>>, <<0, -1>>}) :
                             Done(p, d, SAO_FILTER)
                        /\ \A d \in Around(c, {<<1, 0>>, <<0, 1>>, <<1, 1>>}) :
                             Done(p, d, LF_HOR) /\ ~ Begun(p, d, SAO_FILTER)
      BY DEF SaoSourcesReady
    <2>1. \A d \in Around(c, {<<-1, 0>>, <<-1, -1>>, <<0, -1>>}) :
            d \in Ctu /\ d \in {Nb(c, -1, 0), Nb(c, -1, -1), Nb(c, 0, -1)}
      BY DEF Around
    <2>2. \A d \in Around(c, {<<1, 0>>, <<0, 1>>, <<1, 1>>}) :
            d \in Ctu /\ d \in {Nb(c, 1, 0), Nb(c, 0, 1), Nb(c, 1, 1)}
      BY DEF Around
    <2> QED
      BY <2>1, <2>2, SaoBefore, SaoAfter DEF Done
  <1>3. IInv => LoopFilterSourcesReady
    BY <1>1, <1>2 DEF LoopFilterSourcesReady
  <1> QED
    BY <1>3, InductiveInvariant, PTL

\* A CTU that is past SAO and not finished works for its line.
LEMMA RunningLadder ==
  ASSUME IInv, NEW p \in Picture, NEW c \in Ctu, NEW s \in CTU_ENCODE .. FINISH_SLICE,
         Running(p, c, s)
  PROVE  Ladder(c, s) /\ ReadyFor(p, c, s) /\ Begun(p, c, s)
  <1>1. state[p][c] = s /\ Begun(p, c, s) /\ s # PROCESS_DONE
    BY RunningBegun DEF CTU_ENCODE, FINISH_SLICE, PROCESS_DONE
  <1>2. Ladder(c, s)
    BY <1>1 DEF IInv, PlacesAgree
  <1> QED
    BY <1>1, <1>2 DEF IInv, GuardsHeld

\* The CTUs around a line that works on ALF are through SAO.
LEMMA AlfSurroundings ==
  ASSUME IInv, NEW p \in Picture, NEW c \in Ctu, NEW s \in {ALF_GET_STATISTICS, ALF_RECONSTRUCT},
         Running(p, c, s), NEW d \in TileLine(c),
         NEW dx \in -1 .. 1, NEW dy \in -1 .. 1, Nb(d, dx, dy) \in Ctu,
         CanFilterCtuBdry(d, Nb(d, dx, dy))
  PROVE  state[p][Nb(d, dx, dy)] > SAO_FILTER
  <1> DEFINE e == Nb(d, dx, dy)
  <1> USE DEF CTU_ENCODE, SAO_FILTER, ALF_GET_STATISTICS, ALF_RECONSTRUCT, FINISH_SLICE
  <1>1. s \in CTU_ENCODE .. FINISH_SLICE /\ s \in Int
    OBVIOUS
  <1>2. Ladder(c, s) /\ Begun(p, c, s) /\ state[p][c] = s
    BY <1>1, RunningLadder DEF Running
  <1>3. c \in LineTask
    BY <1>2 DEF Ladder
  <1>4. ReadyAlfGetStatistics(p, c)
    <2>1. Ladder(c, 4) /\ Begun(p, c, 4)
      BY <1>2, <1>3 DEF Ladder, Begun, ALF_DERIVE_FILTER, CCALF_DERIVE_FILTER
    <2>2. ReadyFor(p, c, 4)
      BY <2>1 DEF IInv, GuardsHeld
    <2> QED
      BY <2>2 DEF ReadyFor
  <1>5. state[p][c] > SAO_FILTER
    BY <1>2
  <1>6. ReadySaoFilter(p, c)
    <2>1. ReadyFor(p, c, 3)
      BY <1>5, GuardOfBegun DEF Begun
    <2> QED
      BY <2>1 DEF ReadyFor
  <1>7. /\ d \in Ctu /\ d[2] = c[2] /\ d[1] <= c[1] /\ SameCol(c, d)
        /\ c[1] \in Int /\ c[2] \in Int /\ d[1] \in Int
    <2>1. d \in Ctu /\ c \in Ctu /\ LastInTile(d) = c
      BY <1>3 DEF TileLine, LineTask
    <2>2. d[2] = c[2] /\ cfg.lastCol[d[1]] = c[1] /\ cfg.lastCol[c[1]] = c[1]
      BY <1>3, <2>1, CtuPosition DEF LastInTile, LineTask
    <2>3. d[1] <= c[1]
      BY <2>1, <2>2, CtuPosition, TileColumns, StateTypes DEF IInv
    <2> QED
      BY <2>1, <2>2, <2>3, CtuPosition DEF SameCol
  <1>8. e[1] = d[1] + dx /\ e[2] = c[2] + dy /\ e \in Ctu /\ e[1] \in Int
    BY <1>7 DEF Nb
  <1> DEFINE g == <<c[1], c[2] + dy>>
  <1>9. g \in Ctu /\ CanFilterCtuBdry(c, g)
    <2>1. c[1] \in Cols /\ e[2] \in Lines
      BY <1>8, CtuPosition
    <2>2. g \in Ctu
      BY <1>8, <2>1 DEF Ctu
    <2>3. CanFilterCtuBdry(c, g)
      BY <1>7, <1>8 DEF CanFilterCtuBdry, SameTile, SameCol, SameRow
    <2> QED
      BY <2>2, <2>3
  <1>10. state[p][g] > SAO_FILTER
    <2>1. CASE dy = 0
      BY <1>5, <2>1, CtuPosition
    <2>2. CASE dy = -1
      <3>1. g = Nb(c, 0, -1)
        BY <1>7, <2>2 DEF Nb
      <3> QED
        BY <1>6, <1>9, <3>1 DEF ReadySaoFilter, Past
    <2>3. CASE dy = 1
      <3>1. g = Nb(c, 0, 1)
        BY <1>7, <2>3 DEF Nb
      <3> QED
        BY <1>4, <1>9, <3>1 DEF ReadyAlfGetStatistics, FilterPast
    <2> QED
      BY <2>1, <2>2, <2>3
  <1>11. CASE e[1] <= c[1]
    BY <1>8, <1>9, <1>10, <1>11, SaoInOrder
  <1>12. CASE e[1] > c[1]
    <2>1. d[1] = c[1] /\ dx = 1
      BY <1>7, <1>8, <1>12
    <2>2. d = c
      BY <1>7, <2>1, CtuPosition
    <2>3. e = Nb(c, 1, dy)
      BY <2>1, <2>2
    <2>4. CASE dy = -1
      BY <1>6, <1>8, <2>3, <2>4 DEF ReadySaoFilter, Past
    <2>5. CASE dy = 0 \/ dy = 1
      <3>1. e \in {Nb(c, 1, 0), Nb(c, 0, 1), Nb(c, 1, 1)}
        BY <2>3, <2>5
      <3>2. FilterPast(p, c, e, SAO_FILTER)
        BY <1>4, <3>1 DEF ReadyAlfGetStatistics
      <3> QED
        BY <1>8, <2>2, <3>2 DEF FilterPast
    <2> QED
      BY <2>4, <2>5
  <1> QED
    BY <1>7, <1>8, <1>11, <1>12

\* ALF reads copies that have been made.
THEOREM AlfReadsAfterSao == Spec => []AlfSourcesReady
  <1>1. IInv => AlfSourcesReady
    <2> SUFFICES ASSUME IInv, NEW p \in Picture, NEW c \in Ctu,
                        Running(p, c, ALF_GET_STATISTICS) \/ Running(p, c, ALF_RECONSTRUCT),
                        NEW d \in TileLine(c),
                        NEW e \in Around(d, (-1 .. 1) \X (-1 .. 1)), CanFilterCtuBdry(d, e)
                 PROVE  Done(p, e, SAO_FILTER)
      BY DEF AlfSourcesReady
    <2>1. PICK o \in (-1 .. 1) \X (-1 .. 1) : e = Nb(d, o[1], o[2]) /\ e \in Ctu
      BY DEF Around
    <2>2. o[1] \in -1 .. 1 /\ o[2] \in -1 .. 1
      OBVIOUS
    <2> QED
      BY <2>1, <2>2, AlfSurroundings DEF Done
  <1> QED
    BY <1>1, InductiveInvariant, PTL

\* A line above in the same tile column.
LEMMA LinesAbove ==
  ASSUME IInv, NEW p \in Picture, NEW c \in LineTask, NEW d \in LineTask, Before(d, c),
         NEW s \in {ALF_DERIVE_FILTER, CCALF_DERIVE_FILTER}, Running(p, c, s), SameCol(c, d),
         s = ALF_DERIVE_FILTER => Before(AlfDeriveCtu, d),
         s = CCALF_DERIVE_FILTER => Before(CcalfDeriveCtu, d)
  PROVE  state[p][d] > s
  <1>1. c \in Ctu /\ d \in Ctu
    BY DEF LineTask
  <1>2. d[1] = c[1]
    BY <1>1, CtuPosition DEF LineTask, LastInTile, SameCol
  <1>3. d[2] < c[2]
    BY <1>1, <1>2, CtuPosition DEF Before
  <1>4. s \in CTU_ENCODE .. FINISH_SLICE
    BY DEF CTU_ENCODE, FINISH_SLICE, ALF_DERIVE_FILTER, CCALF_DERIVE_FILTER
  <1>5. Ladder(c, s) /\ Begun(p, c, s)
    BY <1>1, <1>4, RunningLadder
  <1>6. cfg.ifpLines > 0
    <2>1. cfg.ifpLines \in Nat
      BY StateTypes, ConfigFacts DEF IInv
    <2>2. ASSUME cfg.ifpLines = 0 PROVE FALSE
      <3>1. Before(LastCtu, d)
        BY <2>2, DeriveCtus, StateTypes DEF IInv, ALF_DERIVE_FILTER, CCALF_DERIVE_FILTER
      <3>2. LastCtu[1] = WidthInCtus - 1 /\ LastCtu[2] = HeightInCtus - 1
        BY DEF LastCtu
      <3>3. /\ d[1] \in Int /\ d[1] < WidthInCtus /\ d[2] \in Int /\ d[2] < HeightInCtus
            /\ WidthInCtus \in Int /\ HeightInCtus \in Int
        BY <1>1, CtuPosition, SizesAssumption
      <3> QED
        BY <3>1, <3>2, <3>3 DEF Before
    <2> QED
      BY <2>1, <2>2
  <1> QED
    BY <1>1, <1>2, <1>3, <1>5, <1>6 DEF IInv, UpDone

\* The statistics of CCALF around a line that is filtered are taken.
LEMMA CcalfStatisticsTaken ==
  ASSUME IInv, NEW p \in Picture, NEW c \in LineTask, Running(p, c, CCALF_RECONSTRUCT),
         NEW d \in Ctu, d \in {Nb(c, 0, -1), Nb(c, 0, 1)}, CanFilterCtuBdry(c, d)
  PROVE  state[p][d] > CCALF_GET_STATISTICS
  <1> USE DEF CTU_ENCODE, CCALF_GET_STATISTICS, CCALF_DERIVE_FILTER, CCALF_RECONSTRUCT,
              FINISH_SLICE
  <1>1. ReadyCcalfReconstruct(p, c)
    <2>1. ReadyFor(p, c, CCALF_RECONSTRUCT)
      BY RunningLadder DEF LineTask
    <2> QED
      BY <2>1 DEF ReadyFor
  <1>2. state[p][d] \in Int /\ cfg \in Configs /\ cfg.ifpLines \in Nat
    BY StateTypes, ConfigFacts DEF IInv
  <1>3. CASE cfg.ifpLines > 0
    <2>1. \/ FilterPast(p, c, d, CCALF_RECONSTRUCT)
          \/ FilterPast(p, c, d, CCALF_GET_STATISTICS)
      BY <1>1, <1>3 DEF ReadyCcalfReconstruct
    <2> QED
      BY <1>2, <2>1 DEF FilterPast
  <1>4. CASE cfg.ifpLines = 0
    <2>1. CcalfDeriveCtu = LastCtu /\ LastCtu \in Ctu /\ LastCtu \in LineTask
      BY <1>2, <1>4, DeriveCtus
    <2>2. Ladder(LastCtu, CCALF_DERIVE_FILTER)
      <3>1. ~ Before(LastCtu, LastCtu)
        BY <2>1, CtuPosition DEF Before
      <3> QED
        BY <2>1, <3>1 DEF Ladder, ALF_DERIVE_FILTER
    <2>3. Begun(p, LastCtu, CCALF_DERIVE_FILTER)
      <3>1. state[p][LastCtu] >= CCALF_RECONSTRUCT /\ state[p][LastCtu] \in Int
        BY <1>1, <2>1, StateTypes DEF ReadyCcalfReconstruct, IInv
      <3> QED
        BY <3>1 DEF Begun
    <2>4. ReadyFor(p, LastCtu, CCALF_DERIVE_FILTER)
      BY <2>1, <2>2, <2>3 DEF IInv, GuardsHeld
    <2>5. \A e \in LineTask : e[2] <= LastCtu[2] => state[p][e] > CCALF_GET_STATISTICS
      BY <2>1, <2>4 DEF ReadyFor, ReadyCcalfDeriveFilter
    <2>6. d \in LineTask
      <3>1. c \in Ctu /\ c[1] \in Int /\ cfg.lastCol[c[1]] = c[1]
        BY CtuPosition DEF LineTask, LastInTile
      <3>2. d[1] = c[1] /\ d = <<d[1], d[2]>>
        BY <3>1, CtuPosition DEF Nb
      <3> QED
        BY <3>1, <3>2 DEF LineTask, LastInTile
    <2>7. d[2] <= LastCtu[2]
      BY CtuPosition, SizesAssumption DEF LastCtu
    <2> QED
      BY <2>5, <2>6, <2>7
  <1> QED
    BY <1>2, <1>3, <1>4

\* The filters are derived from all statistics they are for, and used after that.
THEOREM DerivationsComplete == Spec => []FiltersDerivedFromAll
  <1> USE DEF CTU_ENCODE, ALF_GET_STATISTICS, ALF_DERIVE_FILTER, ALF_RECONSTRUCT,
              CCALF_GET_STATISTICS, CCALF_DERIVE_FILTER, CCALF_RECONSTRUCT, FINISH_SLICE
  <1>1. IInv => FiltersDerivedFromAll
    <2> SUFFICES ASSUME IInv, NEW p \in Picture, NEW c \in LineTask
                 PROVE
      /\ Running(p, c, ALF_DERIVE_FILTER) =>
           \A d \in LineTask : Before(d, c) =>
             /\ c = AlfDeriveCtu => state[p][d] > ALF_GET_STATISTICS
             /\ Before(AlfDeriveCtu, d) /\ SameCol(c, d) => state[p][d] > ALF_DERIVE_FILTER
      /\ Running(p, c, ALF_RECONSTRUCT) => state[p][AlfDeriveCtu] > ALF_DERIVE_FILTER
      /\ Running(p, c, CCALF_DERIVE_FILTER) =>
           \A d \in LineTask : Before(d, c) =>
             /\ c = CcalfDeriveCtu => /\ state[p][d] > CCALF_GET_STATISTICS
                                      /\ ~ Begun(p, d, CCALF_RECONSTRUCT)
             /\ Before(CcalfDeriveCtu, d) /\ SameCol(c, d) =>
                  state[p][d] > CCALF_DERIVE_FILTER
      /\ Running(p, c, CCALF_RECONSTRUCT) =>
           /\ state[p][CcalfDeriveCtu] > CCALF_DERIVE_FILTER
           /\ \A d \in Around(c, {<<0, -1>>, <<0, 1>>}) :
                CanFilterCtuBdry(c, d) => state[p][d] > CCALF_GET_STATISTICS
      BY Zenon DEF FiltersDerivedFromAll, Done
    <2>1. c \in Ctu /\ \A d \in LineTask : d \in Ctu
      BY DEF LineTask
    <2>2. AlfDeriveCtu \in Ctu /\ CcalfDeriveCtu \in Ctu
      BY DeriveCtus, StateTypes DEF IInv
    <2>3. \A d \in LineTask : Before(d, c) => d[2] <= c[2]
      BY <2>1, CtuPosition DEF Before
    <2>4. state[p][AlfDeriveCtu] \in Int /\ state[p][CcalfDeriveCtu] \in Int
      BY <2>2, StateTypes DEF IInv
    <2>5. ASSUME Running(p, c, ALF_DERIVE_FILTER), NEW d \in LineTask, Before(d, c)
          PROVE  /\ c = AlfDeriveCtu => state[p][d] > ALF_GET_STATISTICS
                 /\ Before(AlfDeriveCtu, d) /\ SameCol(c, d) => state[p][d] > ALF_DERIVE_FILTER
      <3>1. ReadyFor(p, c, ALF_DERIVE_FILTER)
        BY <2>1, <2>5, RunningLadder
      <3>2. c = AlfDeriveCtu => state[p][d] > ALF_GET_STATISTICS
        BY <2>3, <2>5, <3>1 DEF ReadyFor, ReadyAlfDeriveFilter
      <3> QED
        BY <2>5, <3>2, LinesAbove
    <2>6. ASSUME Running(p, c, ALF_RECONSTRUCT)
          PROVE  state[p][AlfDeriveCtu] > ALF_DERIVE_FILTER
      <3>1. ReadyFor(p, c, ALF_RECONSTRUCT)
        BY <2>1, <2>6, RunningLadder
      <3> QED
        BY <2>4, <3>1 DEF ReadyFor, ReadyAlfReconstruct
    <2>7. ASSUME Running(p, c, CCALF_DERIVE_FILTER), NEW d \in LineTask, Before(d, c)
          PROVE  /\ c = CcalfDeriveCtu => /\ state[p][d] > CCALF_GET_STATISTICS
                                          /\ ~ Begun(p, d, CCALF_RECONSTRUCT)
                 /\ Before(CcalfDeriveCtu, d) /\ SameCol(c, d) =>
                      state[p][d] > CCALF_DERIVE_FILTER
      <3>1. ReadyFor(p, c, CCALF_DERIVE_FILTER) /\ state[p][c] = CCALF_DERIVE_FILTER
        BY <2>1, <2>7, RunningLadder DEF Running
      <3>2. c = CcalfDeriveCtu => state[p][d] > CCALF_GET_STATISTICS
        BY <2>3, <2>7, <3>1 DEF ReadyFor, ReadyCcalfDeriveFilter
      <3>3. ASSUME c = CcalfDeriveCtu, Begun(p, d, CCALF_RECONSTRUCT) PROVE FALSE
        <4>1. Ladder(d, CCALF_RECONSTRUCT)
          BY DEF Ladder
        <4>2. ReadyFor(p, d, CCALF_RECONSTRUCT)
          BY <2>1, <3>3, <4>1 DEF IInv, GuardsHeld
        <4>3. state[p][c] >= CCALF_RECONSTRUCT
          BY <3>3, <4>2 DEF ReadyFor, ReadyCcalfReconstruct
        <4> QED
          BY <3>1, <4>3
      <3> QED
        BY <2>7, <3>2, <3>3, LinesAbove
    <2>8. ASSUME Running(p, c, CCALF_RECONSTRUCT)
          PROVE  /\ state[p][CcalfDeriveCtu] > CCALF_DERIVE_FILTER
                 /\ \A d \in Around(c, {<<0, -1>>, <<0, 1>>}) :
                      CanFilterCtuBdry(c, d) => state[p][d] > CCALF_GET_STATISTICS
      <3>1. ReadyFor(p, c, CCALF_RECONSTRUCT)
        BY <2>1, <2>8, RunningLadder
      <3>2. state[p][CcalfDeriveCtu] > CCALF_DERIVE_FILTER
        BY <2>4, <3>1 DEF ReadyFor, ReadyCcalfReconstruct
      <3>3. \A d \in Around(c, {<<0, -1>>, <<0, 1>>}) :
              d \in Ctu /\ d \in {Nb(c, 0, -1), Nb(c, 0, 1)}
        BY DEF Around
      <3> QED
        BY <2>8, <3>2, <3>3, CcalfStatisticsTaken
    <2> QED
      BY <2>5, <2>6, <2>7, <2>8
  <1> QED
    BY <1>1, InductiveInvariant, PTL

\* A line whose counter says so is finished, with the lines above it.
LEMMA CounterMeansFinished ==
  ASSUME IInv, cfg.ifpLines > 0, NEW q \in Picture, NEW y \in Lines, NEW z \in Lines, z <= y,
         tileColsDone[q][y] >= NumTileCols + 1
  PROVE  LineFinished(q, z)
  <1> USE DEF SAO_FILTER, ALF_DERIVE_FILTER, CCALF_DERIVE_FILTER, CCALF_RECONSTRUCT,
              FINISH_SLICE, PROCESS_DONE, CTU_ENCODE
  <1>1. cfg \in Configs /\ TypeOK
    BY StateTypes DEF IInv
  <1>2. CountedCols(q, y) = LastCols /\ Extending(q, y) = {}
    <2>1. Exact(q, y)
      BY DEF IInv, CounterExact
    <2>2. /\ IsFiniteSet(LastCols) /\ NumTileCols = Cardinality(LastCols)
          /\ NumTileCols \in Nat
      BY <1>1, TileColsCounted
    <2>3. CountedCols(q, y) \in SUBSET LastCols
      BY DEF CountedCols
    <2>4. Cardinality(CountedCols(q, y)) <= NumTileCols
          /\ Cardinality(CountedCols(q, y)) \in Nat
      BY <2>2, <2>3, FS_Subset, FS_CardinalityType
    <2>5. tileColsDone[q][y] # Cardinality(CountedCols(q, y))
      BY <2>2, <2>4
    <2> QED
      BY <2>1, <2>5 DEF Exact
  <1> SUFFICES ASSUME NEW c \in LineTask, c[2] = z
               PROVE  /\ at[q][c] # "extending"
                      /\ state[q][c] > CCALF_RECONSTRUCT \/ at[q][c] = "leaving"
    BY DEF LineFinished, Done
  <1>3. c \in Ctu /\ c = <<c[1], z>> /\ c[1] \in LastCols /\ z \in Int /\ y \in Int
    BY <1>1, TileColsCounted, CtuPosition, SizesAssumption DEF LineTask, Lines
  <1> DEFINE g == <<c[1], y>>
  <1>4. Counted(q, g) /\ g \in LineTask /\ g \in Ctu
    BY <1>1, <1>2, <1>3, TileColsCounted DEF CountedCols, LineTask
  <1>5. CASE z = y
    <2>1. c \notin Extending(q, y)
      BY <1>2
    <2>2. at[q][c] # "extending"
      BY <1>3, <1>5, <2>1 DEF Extending
    <2> QED
      BY <1>3, <1>4, <1>5, <2>2 DEF Counted
  <1>6. CASE z < y
    <2>1. Begun(q, g, CCALF_RECONSTRUCT)
      BY <1>4 DEF Counted, Begun, IInv, PlacesAgree
    <2>2. Ladder(g, CCALF_RECONSTRUCT)
      BY <1>4 DEF Ladder
    <2>3. state[q][c] > CCALF_RECONSTRUCT
      BY <1>3, <1>4, <1>6, <2>1, <2>2 DEF IInv, UpDone
    <2>4. at[q][c] # "extending"
      BY <1>3, <2>3 DEF IInv, PlacesAgree
    <2> QED
      BY <2>3, <2>4
  <1> QED
    BY <1>3, <1>5, <1>6

\* Everything in reach of motion vectors is finished in the reference pictures.
THEOREM ReferencesFinished == Spec => []RefLinesReady
  <1>1. IInv => RefLinesReady
    <2> SUFFICES ASSUME IInv, NEW p \in Picture, NEW c \in Ctu, Running(p, c, CTU_ENCODE),
                        NEW q \in RefPics[p]
                 PROVE  IF cfg.ifpLines > 0
                        THEN \A z \in Lines : z <= c[2] + cfg.ifpLines => LineFinished(q, z)
                        ELSE AllReturned(q)
      BY DEF RefLinesReady
    <2>1. q \in Picture
      BY SizesAssumption
    <2>2. ASSUME cfg.ifpLines > 0, NEW z \in Lines, z <= c[2] + cfg.ifpLines
          PROVE  LineFinished(q, z)
      <3> DEFINE y == Lesser(c[2] + cfg.ifpLines, HeightInCtus - 1)
      <3>1. cfg.ifpLines \in Nat /\ c[2] \in Nat /\ z \in Int /\ z <= HeightInCtus - 1
            /\ HeightInCtus \in Nat \ {0}
        BY StateTypes, ConfigFacts, CtuPosition, SizesAssumption DEF IInv, Lines
      <3>2. y \in Lines /\ z <= y
        BY <2>2, <3>1 DEF Lesser, Lines
      <3>3. RefPicCtuLineReady(p, c[2] + cfg.ifpLines)
        BY <2>2, RunningBegun DEF IInv, RefsHeld
      <3>4. tileColsDone[q][y] >= NumTileCols + 1
        BY <3>3 DEF RefPicCtuLineReady
      <3> QED
        BY <2>1, <2>2, <3>2, <3>4, CounterMeansFinished
    <2>3. ~ (cfg.ifpLines > 0) => AllReturned(q)
      BY DEF IInv, StartsInOrder, Running
    <2> QED
      BY <2>2, <2>3
  <1> QED
    BY <1>1, InductiveInvariant, PTL
=============================================================================
