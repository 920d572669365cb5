------------------------ MODULE EncStages_order_proofs ------------------------
(***************************************************************************)
(* Proofs about the order of EncStages, for any configurations and inputs. *)
(* The frames come to each stage in the order of the lists, so the MCTF    *)
(* filter sees its window; pictures get their slice headers in coding      *)
(* order, none missing, so no CHECK fails; and the access units leave the  *)
(* encoder in that order, each once: the stages implement AccessUnits.     *)
(***************************************************************************)
EXTENDS EncStages_coding_proofs

-----------------------------------------------------------------------------
(***************************************************************************)
(* How a stage's step changes the lists: what stays is the same picture,   *)
(* and what is new has come from the stage before.                         *)
(***************************************************************************)
Flowed(i, un, wanted, free, d) ==
  /\ Pics(i)' = Pics(i) \ free
  /\ \A k \in Stages : k # i => Pics(k) \subseteq Pics(k)'
  /\ \A k \in Stages : \A p \in Pics(k)' :
       \/ /\ p \in Pics(k) /\ list'[k][p].unit = list[k][p].unit
          /\ SameCoding(list'[k][p], list[k][p])
       \/ /\ k > i /\ p = d /\ d \in wanted \cap Pics(i) /\ p \notin Pics(k)
          /\ Accepts(k, d) /\ Takers(i + 1, d) = {k}
          /\ list'[k][p].unit = list[i][d].unit /\ Fresh(list'[k][p])
  /\ d \in wanted \cap Pics(i) => \A k \in Takers(i + 1, d) : d \in Pics(k)'
  /\ DOMAIN unit' = DOMAIN unit /\ \A v \in DOMAIN unit : unit'[v].intra = un[v].intra

\* A stage's end moves pictures as Flowed says, and checks the picture it
\* gives on.
LEMMA FinishingFlows ==
  ASSUME FlowSafe, NEW i \in Stages, NEW l, NEW un, NEW wanted, NEW free, NEW d,
         Finishing(i, l, un, wanted, free, d),
         \A p \in Pics(i) : SameCoding(l[p], list[i][p])
  PROVE  /\ Flowed(i, un, wanted, free, d)
         /\ ok' <=> /\ ok /\ wanted \subseteq Pics(i)
                    /\ d \in wanted => \A j \in Takers(i + 1, d) : InsertCheck(j, d)
  <1>1. /\ Shape /\ UnitsCounted /\ call.flush \in BOOLEAN
        /\ Sendable(i, l, un, wanted, free, d) /\ Countable(i, l, un, wanted, d)
        /\ d \in wanted \cap Pics(i) => \A j \in Stages : j > i => d \notin Pics(j)
    BY DEF FlowSafe, CallSafe, Finishing, Countable
  <1>2. ok' <=> /\ ok /\ wanted \subseteq Pics(i)
                /\ d \in wanted => \A j \in Takers(i + 1, d) : InsertCheck(j, d)
    BY <1>1, SendingCounts
  <1>3. Finished(i, l, un, wanted, free, d)
    BY FlowFinish
  <1>4. /\ Pics(i)' = Pics(i) \ free
        /\ \A k \in Stages : k # i => Pics(k) \subseteq Pics(k)'
        /\ \A k \in Stages : \A p \in Pics(k)' : Comes(i, l, un, wanted, d, k, p)
        /\ DOMAIN unit' = DOMAIN unit /\ \A v \in DOMAIN unit : unit'[v].intra = un[v].intra
    BY <1>3 DEF Finished
  <1>5. \A k \in Stages : \A p \in Pics(k)' :
          IF p \in Pics(k) THEN SameCoding(list'[k][p], list[k][p]) ELSE Fresh(list'[k][p])
    BY <1>1, SendingCoding DEF Pics
  <1>6. ASSUME NEW k \in Stages, NEW p \in Pics(k)'
        PROVE  \/ /\ p \in Pics(k) /\ list'[k][p].unit = list[k][p].unit
                  /\ SameCoding(list'[k][p], list[k][p])
               \/ /\ k > i /\ p = d /\ d \in wanted \cap Pics(i) /\ p \notin Pics(k)
                  /\ Accepts(k, d) /\ Takers(i + 1, d) = {k}
                  /\ list'[k][p].unit = list[i][d].unit /\ Fresh(list'[k][p])
    <2>1. Comes(i, l, un, wanted, d, k, p)
      BY <1>4
    <2>2. CASE p \in Pics(k) /\ list'[k][p].unit = list[k][p].unit
      BY <1>5, <2>2
    <2>3. CASE /\ k > i /\ p = d /\ d \in wanted \cap Pics(i)
               /\ Accepts(k, d) /\ Takers(i + 1, d) = {k}
               /\ list'[k][p].unit = list[i][d].unit
      BY <1>1, <1>5, <2>3
    <2> QED
      BY <2>1, <2>2, <2>3 DEF Comes
  <1>7. d \in wanted \cap Pics(i) => \A k \in Takers(i + 1, d) : d \in Pics(k)'
    <2> SUFFICES ASSUME d \in wanted \cap Pics(i), NEW k \in Takers(i + 1, d)
                 PROVE  d \in Pics(k)'
      OBVIOUS
    <2>1. Handed(i, l, un, wanted, free, d)
      BY <1>1, Sending
    <2>2. k \in Stages /\ k >= i + 1 /\ Accepts(k, d)
      BY DEF Takers
    <2>3. k > i
      BY <2>2, StageNames
    <2>4. PICK j \in Stages :
            /\ Takers(i + 1, d) = {j} /\ list'[j] = Sent(j, l, un, d)
      BY <2>1, <2>2, <2>3 DEF Handed
    <2>5. list'[k] = Insert(k, d, NewPicture(l[d].unit, un[l[d].unit].prev))
      BY <2>4 DEF Sent
    <2>6. d \in DOMAIN list'[k]
      <3>1. PICK m, pic : /\ m = Insert(k, d, pic) /\ m = list'[k]
                          /\ pic = NewPicture(l[d].unit, un[l[d].unit].prev)
        BY <2>5
      <3>2. Joined(list[k], m, d, pic)
        BY <1>1, <2>2, <3>1, InsertCoding
      <3> QED
        BY <3>1, <3>2 DEF Joined
    <2> QED
      BY <2>6 DEF Pics
  <1>8. Flowed(i, un, wanted, free, d)
    BY <1>4, <1>6, <1>7 DEF Flowed
  <1> QED
    BY <1>2, <1>8

\* Nothing moves; pictures may be coded.
Stays ==
  /\ \A k \in Stages : Pics(k)' = Pics(k) /\ \A p \in Pics(k) : list'[k][p].unit = list[k][p].unit
  /\ unit' = unit

\* Marking the pictures for the flush leaves them where they are.
LEMMA MarkedStays ==
  ASSUME Shape, call.flush \in BOOLEAN, NEW i \in Stages,
         list' = [list EXCEPT ![i] = Marked(i)], unit' = unit
  PROVE  Stays /\ \A k \in Stages : \A p \in Pics(k) : SameCoding(list'[k][p], list[k][p])
  <1>1. DOMAIN list = Stages
    BY DEF Shape
  <1>2. list'[i] = Marked(i) /\ \A k \in Stages : k # i => list'[k] = list[k]
    BY <1>1
  <1>3. Alike(Marked(i), list[i]) /\ \A p \in Pics(i) : SameCoding(Marked(i)[p], list[i][p])
    BY MarkedSame, MarkedCoding
  <1>4. ASSUME NEW k \in Stages
        PROVE  /\ DOMAIN list'[k] = DOMAIN list[k]
               /\ \A p \in Pics(k) : /\ list'[k][p].unit = list[k][p].unit
                                     /\ SameCoding(list'[k][p], list[k][p])
    <2>1. CASE k = i
      BY <2>1, <1>2, <1>3 DEF Alike, Pics
    <2>2. CASE k # i
      BY <2>2, <1>2, SameCodingSelf DEF Pics
    <2> QED
      BY <2>1, <2>2
  <1> QED
    BY <1>4 DEF Stays, Pics

-----------------------------------------------------------------------------
(***************************************************************************)
(* The steps of the stages, case by case.                                  *)
(***************************************************************************)

\* A new picture is linked and sent on.
Linking(last) ==
  /\ main = "pre" /\ main' = "filter" /\ ~ call.flush
  /\ last \in Pics(Pre) /\ (\A q \in Pics(Pre) : q <= last)
  /\ last > lastPoc /\ last = picsRcvd - 1 /\ lastPoc' = last
  /\ Flowed(Pre, LinkPrevQpaBufs(last), {last}, Pics(Pre) \ KeptPics, last)

\* The flush empties the pre-processing.
Emptying ==
  /\ main = "pre" /\ main' = "filter" /\ call.flush /\ Pics(Pre) # {}
  /\ lastPoc' = lastPoc /\ lastPoc = picsRcvd - 1
  /\ Flowed(Pre, FixStartOfLastGop, {}, Pics(Pre), 0)

\* Nothing is new.
Waits ==
  /\ main = "pre" /\ main' = IF call.flush /\ Pics(Pre) # {} THEN "pre" ELSE "filter"
  /\ lastPoc' = lastPoc /\ Stays
  /\ \A k \in Stages : \A p \in Pics(k) : SameCoding(list'[k][p], list[k][p])
  /\ Pics(Pre) # {} => lastPoc = picsRcvd - 1

\* A run of pre-processing links a frame, empties the stage or waits.
LEMMA PreProcessCases ==
  ASSUME FlowSafe, PreProcess
  PROVE  /\ (\E last \in Int : Linking(last)) \/ Emptying \/ Waits
         /\ ok' <=> ok
         /\ UNCHANGED <<cfg, filterPoc, lastPicIn, gop, busy, call, picsRcvd, auList, delivered>>
  <1>1. /\ Shape /\ CallSafe /\ Pre \in Stages /\ call.flush \in BOOLEAN /\ DOMAIN list = Stages
    BY StageNames DEF FlowSafe, Shape, CallSafe
  <1>2. /\ gop' = gop /\ busy' = busy /\ cfg' = cfg /\ call' = call /\ picsRcvd' = picsRcvd
        /\ filterPoc' = filterPoc /\ lastPicIn' = lastPicIn /\ auList' = auList
        /\ delivered' = delivered /\ main = "pre" /\ main' \in {"pre", "filter"}
    BY DEF PreProcess, returned, Repeat, Skip
  <1>3. \A p \in Pics(Pre) : SameCoding(Marked(Pre)[p], list[Pre][p])
    BY <1>1, MarkedCoding
  <1>4. CASE ~ Ready(Pre)
    <2>1. Pics(Pre) = {}
      BY <1>1, <1>4, ReadyPre
    <2>2. /\ list' = [list EXCEPT ![Pre] = Marked(Pre)] /\ unit' = unit /\ ok' = ok
          /\ lastPoc' = lastPoc /\ main' = "filter"
      BY <1>4 DEF PreProcess, Skip
    <2>3. Stays /\ \A k \in Stages : \A p \in Pics(k) : SameCoding(list'[k][p], list[k][p])
      BY <1>1, <2>2, MarkedStays
    <2>4. Waits
      BY <1>2, <2>1, <2>2, <2>3 DEF Waits
    <2> QED
      BY <1>2, <2>2, <2>4
  <1>5. CASE Ready(Pre)
    <2>1. Pics(Pre) # {}
      BY <1>1, <1>5, ReadyPre
    <2>2. PICK last : last = Last(Pre, Pics(Pre))
      OBVIOUS
    <2>3. last \in Pics(Pre) /\ (\A q \in Pics(Pre) : q <= last) /\ last \in Int /\ lastPoc \in Int
      BY <1>1, <2>1, <2>2, LastMember, ListTypes DEF Shape
    <2>4. lastPoc' = IF lastPoc <= last THEN last ELSE lastPoc
      <3>1. lastPoc' = Max({lastPoc, last})
        BY <1>5, <2>2 DEF PreProcess
      <3> QED
        BY <2>3, <3>1, LargerOf
    <2>5. /\ main' = IF call.flush /\ Pics(Pre)' # {} THEN "pre" ELSE "filter"
          /\ IF last > lastPoc
             THEN SendAndFree(Pre, Marked(Pre), LinkPrevQpaBufs(last), {last}, Pics(Pre) \ KeptPics)
             ELSE IF Marked(Pre)[last].flush
             THEN SendAndFree(Pre, Marked(Pre), FixStartOfLastGop, {}, Pics(Pre))
             ELSE list' = [list EXCEPT ![Pre] = Marked(Pre)] /\ unit' = unit /\ ok' = ok
      BY <1>5, <2>2 DEF PreProcess, Repeat, Pics
    <2>6. CASE last > lastPoc
      <3>1. lastPoc' = last
        BY <2>3, <2>4, <2>6
      <3>2. main = "pre" /\ ~ call.flush /\ last = picsRcvd - 1
        BY <2>3, <2>6, LastIsNew
      <3>3. Finishing(Pre, Marked(Pre), LinkPrevQpaBufs(last), {last}, Pics(Pre) \ KeptPics, last)
        BY <1>2, <2>3, <2>5, <2>6, <3>1, LinkFinishing
      <3>4. PICK un, wanted, free, l :
              /\ un = LinkPrevQpaBufs(last) /\ wanted = {last} /\ free = Pics(Pre) \ KeptPics
              /\ l = Marked(Pre)
        OBVIOUS
      <3>5. /\ Flowed(Pre, un, wanted, free, last)
            /\ ok' <=> /\ ok /\ wanted \subseteq Pics(Pre)
                       /\ last \in wanted => \A j \in Takers(Pre + 1, last) : InsertCheck(j, last)
        BY <1>1, <1>3, <3>3, <3>4, FinishingFlows
      <3>6. \A j : InsertCheck(j, last)
        BY <3>2 DEF InsertCheck, FlushedBy
      <3>7. ok' <=> ok
        BY <2>3, <3>4, <3>5, <3>6
      <3>8. Linking(last)
        BY <1>2, <2>3, <2>5, <2>6, <3>1, <3>2, <3>4, <3>5 DEF Linking
      <3> QED
        BY <1>2, <2>3, <3>7, <3>8
    <2>7. CASE ~ (last > lastPoc)
      <3>1. lastPoc' = lastPoc
        BY <2>3, <2>4, <2>7
      <3>2. lastPoc = picsRcvd - 1
        BY <2>3, <2>7, LastIsNew
      <3>3. CASE Marked(Pre)[last].flush
        <4>1. call.flush
          BY <1>1, <2>3, <3>3, MarkedSame DEF CallSafe
        <4>2. SendAndFree(Pre, Marked(Pre), FixStartOfLastGop, {}, Pics(Pre))
          BY <2>5, <2>7, <3>3
        <4>3. Finishing(Pre, Marked(Pre), FixStartOfLastGop, {}, Pics(Pre), 0)
          BY <1>2, <3>1, <3>2, <4>1, <4>2, PreFlushFinishing
        <4>4. PICK un, wanted, free, l, d :
                /\ un = FixStartOfLastGop /\ wanted = {} /\ free = Pics(Pre)
                /\ l = Marked(Pre) /\ d = 0
          OBVIOUS
        <4>5. /\ Flowed(Pre, un, wanted, free, d)
              /\ ok' <=> /\ ok /\ wanted \subseteq Pics(Pre)
                         /\ d \in wanted => \A j \in Takers(Pre + 1, d) : InsertCheck(j, d)
          BY <1>1, <1>3, <4>3, <4>4, FinishingFlows
        <4>6. ok' <=> ok
          BY <4>4, <4>5
        <4>7. Pics(Pre)' = {}
          BY <4>4, <4>5 DEF Flowed
        <4>8. Emptying
          BY <1>2, <2>1, <2>5, <3>1, <3>2, <4>1, <4>4, <4>5, <4>7 DEF Emptying
        <4> QED
          BY <1>2, <4>6, <4>8
      <3>4. CASE ~ Marked(Pre)[last].flush
        <4>1. list' = [list EXCEPT ![Pre] = Marked(Pre)] /\ unit' = unit /\ ok' = ok
          BY <2>5, <2>7, <3>4
        <4>2. Stays /\ \A k \in Stages : \A p \in Pics(k) : SameCoding(list'[k][p], list[k][p])
          BY <1>1, <4>1, MarkedStays
        <4>3. Pics(Pre)' = Pics(Pre)
          BY <1>1, <4>2 DEF Stays
        <4>4. Waits
          BY <1>2, <2>1, <2>5, <3>1, <3>2, <4>2, <4>3 DEF Waits
        <4> QED
          BY <1>2, <4>1, <4>4
      <3> QED
        BY <3>3, <3>4
    <2> QED
      BY <2>6, <2>7
  <1> QED
    BY <1>4, <1>5

\* The picture that is last, or first, in the order of a list.
LEMMA LastOf ==
  ASSUME NEW i, NEW S, S # {}, NEW n \in Int, \A p \in S : Key(i, p) \in Int /\ Key(i, p) <= n
  PROVE  Last(i, S) \in S /\ \A p \in S : Key(i, p) <= Key(i, Last(i, S))
  <1> DEFINE T == {n - Key(i, p) : p \in S}
  <1>1. T \in SUBSET Nat /\ T # {}
    OBVIOUS
  <1>2. PICK t \in T : \A y \in T : t <= y
    BY <1>1, LeastMember
  <1>3. PICK p \in S : t = n - Key(i, p)
    BY <1>2
  <1>4. \A q \in S : Key(i, q) <= Key(i, p)
    BY <1>2, <1>3
  <1> QED
    BY <1>4 DEF Last

\* First is the least picture where the order is bounded below.
LEMMA FirstOf ==
  ASSUME NEW i, NEW S, S # {}, NEW n \in Int, \A p \in S : Key(i, p) \in Int /\ n <= Key(i, p)
  PROVE  First(i, S) \in S /\ \A p \in S : Key(i, First(i, S)) <= Key(i, p)
  <1> DEFINE T == {Key(i, p) - n : p \in S}
  <1>1. T \in SUBSET Nat /\ T # {}
    OBVIOUS
  <1>2. PICK t \in T : \A y \in T : t <= y
    BY <1>1, LeastMember
  <1>3. PICK p \in S : t = Key(i, p) - n
    BY <1>2
  <1>4. \A q \in S : Key(i, p) <= Key(i, q)
    <2> TAKE q \in S
    <2>1. Key(i, q) - n \in T
      OBVIOUS
    <2>2. Key(i, p) - n <= Key(i, q) - n /\ Key(i, p) \in Int /\ Key(i, q) \in Int
      BY <1>2, <1>3, <2>1
    <2> QED
      BY <2>2
  <1> QED
    BY <1>4 DEF First

\* The last picture of the filter has the highest order count.
LEMMA LastInFilter ==
  ASSUME Shape, Pics(Filter) # {}, NEW last, last = Last(Filter, Pics(Filter))
  PROVE  last \in Pics(Filter) /\ last \in Int /\ \A p \in Pics(Filter) : p <= last
  <1>1. /\ \A p \in Pics(Filter) : p \in Int /\ p <= picsRcvd /\ Key(Filter, p) = p
        /\ picsRcvd \in Int
    BY ListTypes, StageNames DEF Shape, Received, Key
  <1> QED
    BY <1>1, LastOf

\* A frame is filtered, if there is one, and sent on.
Filtering(last) ==
  /\ main = "filter"
  /\ main' = IF call.flush /\ Pics(Filter)' # {} THEN "filter" ELSE "gop"
  /\ Ready(Filter) /\ HasNewPicture(last) /\ last = Last(Filter, Pics(Filter))
  /\ filterPoc' = filterPoc + 1 /\ lastPicIn' = last
  /\ Flowed(Filter, unit, Filtered(last), {p \in Pics(Filter) : p <= filterPoc - cfg.range},
            filterPoc)

\* The filter has not enough pictures, or no new one.
Idles ==
  /\ main = "filter"
  /\ main' = IF call.flush /\ Pics(Filter) # {} THEN "filter" ELSE "gop"
  /\ ~ (Ready(Filter) /\ HasNewPicture(Last(Filter, Pics(Filter))))
  /\ filterPoc' = filterPoc /\ lastPicIn' = lastPicIn
  /\ Stays /\ \A k \in Stages : \A p \in Pics(k) : SameCoding(list'[k][p], list[k][p])

\* What a stage's step does not change.
OnlyFlows == UNCHANGED <<cfg, busy, call, picsRcvd, auList, delivered>>

\* The CHECKs of the filter: it finds its frame, and the frame may go on.
FilterChecks(last) ==
  ok' <=> /\ ok /\ Filtered(last) \subseteq Pics(Filter)
          /\ filterPoc \in Filtered(last) =>
               \A j \in Takers(Gop, filterPoc) : InsertCheck(j, filterPoc)

\* A run of the filter takes a frame or has nothing to do.
LEMMA FilterCases ==
  ASSUME FlowSafe, FilterPictures
  PROVE  /\ (\E last : Filtering(last) /\ FilterChecks(last)) \/ (Idles /\ (ok' <=> ok))
         /\ OnlyFlows /\ gop' = gop /\ lastPoc' = lastPoc
  <1>1. Shape /\ Filter \in Stages /\ call.flush \in BOOLEAN /\ DOMAIN list = Stages /\ Filter + 1 = Gop
    BY StageNames DEF FlowSafe, CallSafe, Shape
  <1>2. /\ OnlyFlows /\ gop' = gop /\ lastPoc' = lastPoc /\ main = "filter"
        /\ main' \in {"filter", "gop"}
    BY DEF FilterPictures, returned, Repeat, Skip, OnlyFlows
  <1>4. \A p \in Pics(Filter) : SameCoding(Marked(Filter)[p], list[Filter][p])
    BY <1>1, MarkedCoding
  <1>5. CASE Ready(Filter) /\ HasNewPicture(Last(Filter, Pics(Filter)))
    <2>1. PICK last : last = Last(Filter, Pics(Filter))
      OBVIOUS
    <2>2. PICK free, wanted, un, l, d :
             /\ free = {p \in Pics(Filter) : p <= filterPoc - cfg.range}
             /\ wanted = Filtered(last) /\ un = unit /\ l = Marked(Filter) /\ d = filterPoc
      OBVIOUS
    <2>3. SendAndFree(Filter, Marked(Filter), unit, wanted, free) /\ filterPoc' = filterPoc + 1
      BY <1>5, <2>1, <2>2 DEF FilterPictures
    <2>4. free \in SUBSET Pics(Filter)
      BY <2>2
    <2>5. Finishing(Filter, Marked(Filter), unit, wanted, free, filterPoc)
      BY <1>2, <2>2, <2>3, <2>4, FilterFinishing DEF OnlyFlows
    <2>6. Finishing(Filter, l, un, wanted, free, d)
      BY <2>2, <2>5
    <2>7. \A p \in Pics(Filter) : SameCoding(l[p], list[Filter][p])
      BY <1>4, <2>2
    <2>8. /\ Flowed(Filter, un, wanted, free, d)
          /\ ok' <=> /\ ok /\ wanted \subseteq Pics(Filter)
                     /\ d \in wanted => \A j \in Takers(Filter + 1, d) : InsertCheck(j, d)
      BY <1>1, <2>6, <2>7, FinishingFlows
    <2>9. FilterChecks(last)
      BY <1>1, <2>2, <2>8 DEF FilterChecks
    <2>10. main' = IF call.flush /\ Pics(Filter)' # {} THEN "filter" ELSE "gop"
      BY <1>5 DEF FilterPictures, Repeat, Pics
    <2>11. lastPicIn' = last
      BY <1>5, <2>1 DEF FilterPictures
    <2>12. Flowed(Filter, unit, Filtered(last), {p \in Pics(Filter) : p <= filterPoc - cfg.range},
                  filterPoc)
      BY <2>2, <2>8
    <2>13. Filtering(last)
      BY <1>2, <1>5, <2>1, <2>3, <2>10, <2>11, <2>12 DEF Filtering
    <2> QED
      BY <1>2, <2>9, <2>13
  <1>6. CASE ~ (Ready(Filter) /\ HasNewPicture(Last(Filter, Pics(Filter))))
    <2>1. /\ list' = [list EXCEPT ![Filter] = Marked(Filter)] /\ unit' = unit /\ ok' = ok
          /\ filterPoc' = filterPoc /\ lastPicIn' = lastPicIn
      BY <1>6 DEF FilterPictures, Skip
    <2>2. Stays /\ \A k \in Stages : \A p \in Pics(k) : SameCoding(list'[k][p], list[k][p])
      BY <1>1, <2>1, MarkedStays
    <2>3. main' = IF call.flush /\ Pics(Filter) # {} THEN "filter" ELSE "gop"
      <3>1. CASE Ready(Filter)
        <4>1. main' = IF call.flush /\ Pics(Filter)' # {} THEN "filter" ELSE "gop"
          BY <1>6, <3>1 DEF FilterPictures, Repeat, Pics
        <4>2. Pics(Filter)' = Pics(Filter)
          BY <1>1, <2>2 DEF Stays
        <4> QED
          BY <4>1, <4>2
      <3>2. CASE ~ Ready(Filter)
        <4>1. main' = "gop"
          BY <1>6, <3>2 DEF FilterPictures, Skip
        <4>2. ~ (call.flush /\ Pics(Filter) # {})
          BY <3>2 DEF Ready
        <4> QED
          BY <4>1, <4>2
      <3> QED
        BY <3>1, <3>2
    <2>4. Idles
      BY <1>2, <1>6, <2>1, <2>2, <2>3 DEF Idles
    <2> QED
      BY <1>2, <2>1, <2>4
  <1> QED
    BY <1>5, <1>6

\* Written pictures are released.
Releasing ==
  /\ main = "release" /\ main' = "end"
  /\ Flowed(Gop, unit, {call.au} \ {None},
            {p \in Pics(Gop) : AllPicsDone \/ Unneeded(Outputs[p])}, call.au)
  /\ DOMAIN gop' = DOMAIN gop
  /\ \A x \in DOMAIN gop : x # "pocRecOut" => gop'[x] = gop[x]

\* Releasing takes pictures out of the GOP encoder only.
LEMMA ReleaseCases ==
  ASSUME FlowSafe, DOMAIN gop = {"input", "proc", "output", "lastCodingNum", "pocRecOut"},
         ReleasePictures
  PROVE  /\ Releasing /\ OnlyFlows
         /\ UNCHANGED <<lastPoc, filterPoc, lastPicIn>>
         /\ ok' <=> ok /\ {call.au} \ {None} \subseteq Pics(Gop)
  <1>1. Shape /\ Gop \in Stages
    BY StageNames DEF FlowSafe
  <1>2. /\ OnlyFlows /\ lastPoc' = lastPoc /\ filterPoc' = filterPoc /\ lastPicIn' = lastPicIn
        /\ main = "release" /\ main' = "end" /\ gop' = [gop EXCEPT !.pocRecOut = NextRecOut]
    BY DEF ReleasePictures, returned, OnlyFlows, looking
  <1>3. PICK wanted, free, d, un, l :
          /\ free = {p \in Pics(Gop) : AllPicsDone \/ Unneeded(Outputs[p])}
          /\ wanted = {call.au} \ {None} /\ d = call.au /\ un = unit /\ l = Outputs
    OBVIOUS
  <1>4. Finishing(Gop, l, un, wanted, free, d)
    BY <1>3, ReleaseFinishing
  <1>5. \A p \in Pics(Gop) : SameCoding(l[p], list[Gop][p])
    BY <1>1, <1>3, OutputsCoding
  <1>6. /\ Flowed(Gop, un, wanted, free, d)
        /\ ok' <=> /\ ok /\ wanted \subseteq Pics(Gop)
                   /\ d \in wanted => \A j \in Takers(Gop + 1, d) : InsertCheck(j, d)
    BY <1>1, <1>4, <1>5, FinishingFlows
  <1>7. Takers(Gop + 1, d) = {}
    BY StageNames DEF Takers
  <1>8. Flowed(Gop, unit, {call.au} \ {None},
               {p \in Pics(Gop) : AllPicsDone \/ Unneeded(Outputs[p])}, call.au)
    BY <1>3, <1>6
  <1>9. ok' <=> ok /\ {call.au} \ {None} \subseteq Pics(Gop)
    BY <1>3, <1>6, <1>7
  <1>10. /\ DOMAIN gop' = DOMAIN gop
         /\ \A x \in DOMAIN gop : x # "pocRecOut" => gop'[x] = gop[x]
    BY <1>2
  <1>11. Releasing
    BY <1>2, <1>8, <1>10 DEF Releasing
  <1> QED
    BY <1>2, <1>9, <1>11

\* A frame has come in.
Taking(u) ==
  /\ Spare(u) /\ TakeUnit(u) /\ call.pending /\ main = "input" /\ main' = "pre"
  /\ UNCHANGED <<cfg, lastPoc, filterPoc, lastPicIn, gop, busy, auList, delivered>>

\* Where the calling thread is with all pictures that were flushed out of the
\* first stages.
GopPlaces == {"gop", "init", "encode", "output", "release", "end"}

\* No frame moves.
Quiet ==
  /\ Stays /\ UNCHANGED <<cfg, lastPoc, filterPoc, lastPicIn, picsRcvd>>
  /\ main' \in GopPlaces => main \in GopPlaces /\ call'.flush = call.flush
  /\ main' = "filter" \/ main = "filter" => main' = main /\ call'.flush = call.flush
  /\ call.flush => call'.flush \/ picsRcvd = -cfg.lead

\* Coding changes no list and no unit.
LEMMA CodedStays ==
  ASSUME Shape, NEW l, list' = [list EXCEPT ![Gop] = l], DOMAIN l = Pics(Gop),
         \A p \in Pics(Gop) : l[p].unit = list[Gop][p].unit, unit' = unit
  PROVE  Stays
  <1>1. list'[Gop] = l /\ \A k \in Stages : k # Gop => list'[k] = list[k]
    BY StageNames DEF Shape
  <1> QED
    BY <1>1 DEF Stays, Pics

\* Nor does the end of a picture encoder.
LEMMA ReconStays ==
  ASSUME Shape, NEW p, list' = [list EXCEPT ![Gop][p].recon = TRUE], unit' = unit
  PROVE  Stays
  <1>1. Coding
    BY ReconCoded
  <1> QED
    BY <1>1 DEF Coding, Alike, Stays, Pics

\* The other steps move no frame.
LEMMA QuietSteps ==
  ASSUME FlowSafe,
         \/ EncodeFrame \/ EncodeFlush \/ StartGop \/ InitPicture \/ EncodePicture \/ EndEncode
         \/ WriteAccessUnit \/ EndOfStages \/ (\E p \in busy : FinishPicture(p))
         \/ UNCHANGED vars
  PROVE  Quiet
  <1>1. Shape /\ CallSafe /\ call.flush \in BOOLEAN /\ DOMAIN call = {"flush", "pending", "au"}
        /\ Gop \in Stages
    BY StageNames DEF FlowSafe, CallSafe
  <1>2. CASE EncodeFrame
    <2>1. /\ Stays /\ UNCHANGED <<cfg, lastPoc, filterPoc, lastPicIn, picsRcvd>>
          /\ call'.flush = call.flush /\ main = "idle" /\ main' = "input"
      BY <1>1, <1>2 DEF EncodeFrame, stages, looking, returned, Stays, Pics
    <2> QED
      BY <1>1, <2>1 DEF Quiet, GopPlaces
  <1>3. CASE EncodeFlush
    <2>1. /\ Stays /\ UNCHANGED <<cfg, lastPoc, filterPoc, lastPicIn, picsRcvd>>
          /\ call'.flush /\ main = "idle" /\ main' = "input"
      BY <1>1, <1>3 DEF EncodeFlush, stages, looking, returned, Stays, Pics
    <2> QED
      BY <1>1, <2>1 DEF Quiet, GopPlaces
  <1>4. CASE StartGop
    <2>1. /\ list' = [list EXCEPT ![Gop] = Marked(Gop)] /\ unit' = unit
          /\ UNCHANGED <<cfg, lastPoc, filterPoc, lastPicIn, picsRcvd>>
          /\ call' = call /\ main = "gop" /\ main' \in {"init", "end"}
      BY <1>4 DEF StartGop, looking, returned
    <2>2. Stays
      BY <1>1, <2>1, MarkedStays
    <2> QED
      BY <1>1, <2>1, <2>2 DEF Quiet, GopPlaces
  <1>5. CASE InitPicture
    <2>1. /\ unit' = unit /\ UNCHANGED <<cfg, lastPoc, filterPoc, lastPicIn, picsRcvd>>
          /\ call' = call /\ main = "init" /\ main' \in {"init", "output", "encode"}
      BY <1>5 DEF InitPicture, Encode, looking, returned
    <2>2. list' = list \/ \E p \in Pics(Gop) : list' = [list EXCEPT ![Gop] = InitFirstSlice(p)]
      BY <1>5 DEF InitPicture, NextToInit, Uninitialized
    <2>3. CASE list' = list
      BY <1>1, <2>1, <2>3 DEF Quiet, GopPlaces, Stays, Pics
    <2>4. ASSUME NEW p \in Pics(Gop), list' = [list EXCEPT ![Gop] = InitFirstSlice(p)]
          PROVE  Stays
      <3>1. PICK l : l = InitFirstSlice(p)
        OBVIOUS
      <3>2. DOMAIN l = Pics(Gop) /\ \A q \in Pics(Gop) : l[q].unit = list[Gop][q].unit
        BY <1>1, <3>1, InitFirstSliceList
      <3> QED
        BY <1>1, <2>1, <2>4, <3>1, <3>2, CodedStays
    <2> QED
      BY <1>1, <2>1, <2>2, <2>3, <2>4 DEF Quiet, GopPlaces
  <1>6. CASE EncodePicture
    <2>1. /\ unit' = unit /\ UNCHANGED <<cfg, lastPoc, filterPoc, lastPicIn, picsRcvd>>
          /\ call' = call /\ main = "encode" /\ main' = main
          /\ list' = list \/ \E p : list' = [list EXCEPT ![Gop][p].recon = TRUE]
      BY <1>6 DEF EncodePicture, looking, returned
    <2>2. Stays
      BY <1>1, <2>1, ReconStays DEF Stays, Pics
    <2> QED
      BY <1>1, <2>1, <2>2 DEF Quiet, GopPlaces
  <1>7. CASE EndEncode
    <2>1. /\ Stays /\ UNCHANGED <<cfg, lastPoc, filterPoc, lastPicIn, picsRcvd>>
          /\ call' = call /\ main = "encode" /\ main' = "output"
      BY <1>7 DEF EndEncode, stages, looking, returned, Stays, Pics
    <2> QED
      BY <1>1, <2>1 DEF Quiet, GopPlaces
  <1>8. CASE WriteAccessUnit
    <2>1. /\ unit' = unit /\ UNCHANGED <<cfg, lastPoc, filterPoc, lastPicIn, picsRcvd>>
          /\ main = "output" /\ main' = "release"
          /\ list' = list \/ \E p : list' = [list EXCEPT ![Gop] = WrittenList(p)]
          /\ call' = call \/ \E p : call' = [call EXCEPT !.au = p]
      BY <1>8 DEF WriteAccessUnit, WrittenList, looking, returned
    <2>2. call'.flush = call.flush
      BY <1>1, <2>1
    <2>3. ASSUME NEW p, list' = [list EXCEPT ![Gop] = WrittenList(p)]
          PROVE  Stays
      <3>1. PICK l : l = WrittenList(p)
        OBVIOUS
      <3>2. DOMAIN l = Pics(Gop) /\ \A q \in Pics(Gop) : l[q].unit = list[Gop][q].unit
        BY <1>1, <3>1, WrittenListIs
      <3> QED
        BY <1>1, <2>1, <2>3, <3>1, <3>2, CodedStays
    <2>4. Stays
      BY <2>1, <2>3 DEF Stays, Pics
    <2> QED
      BY <1>1, <2>1, <2>2, <2>4 DEF Quiet, GopPlaces
  <1>9. CASE EndOfStages
    <2>1. /\ Stays /\ UNCHANGED <<cfg, lastPoc, filterPoc, lastPicIn, picsRcvd>>
          /\ main = "end" /\ main' \in {"wait", "input", "idle", "done"}
      BY <1>9 DEF EndOfStages, StayInCall, ReturnFromCall, stages, looking, Stays, Pics
    <2>2. \/ call' = [call EXCEPT !.au = None]
          \/ call' = [call EXCEPT !.au = None, !.flush = FALSE] /\ picsRcvd = -cfg.lead
      BY <1>9 DEF EndOfStages, StayInCall, ReturnFromCall
    <2>3. call.flush => call'.flush \/ picsRcvd = -cfg.lead
      BY <1>1, <2>2
    <2> QED
      BY <1>1, <2>1, <2>3 DEF Quiet, GopPlaces
  <1>10. CASE \E p \in busy : FinishPicture(p)
    <2>1. /\ unit' = unit /\ UNCHANGED <<cfg, lastPoc, filterPoc, lastPicIn, picsRcvd>>
          /\ call' = call /\ main' = IF main = "wait" THEN "input" ELSE main
          /\ \E p : list' = [list EXCEPT ![Gop][p].recon = TRUE]
      BY <1>10 DEF FinishPicture, looking, returned
    <2>2. Stays
      BY <1>1, <2>1, ReconStays
    <2> QED
      BY <1>1, <2>1, <2>2 DEF Quiet, GopPlaces
  <1>11. CASE UNCHANGED vars
    BY <1>1, <1>11 DEF Quiet, Stays, GopPlaces, vars, stages, looking, returned, Pics
  <1> QED
    BY <1>2, <1>3, <1>4, <1>5, <1>6, <1>7, <1>8, <1>9, <1>10, <1>11

\* The steps, by what they do to the frames.
LEMMA FrameSteps ==
  ASSUME FlowSafe, [Next]_vars
  PROVE  (\E u : Taking(u)) \/ PreProcess \/ FilterPictures \/ ReleasePictures \/ Quiet
  <1>1. CASE AddInput
    <2>1. /\ main = "input" /\ main' = "pre"
          /\ UNCHANGED <<cfg, lastPoc, filterPoc, lastPicIn, gop, busy, auList, delivered>>
      BY <1>1 DEF AddInput, looking
    <2>2. CASE call.pending /\ FreeUnit # {}
      <3>1. PICK u \in FreeUnit : TakeUnit(u)
        BY <1>1, <2>2 DEF AddInput, TakeUnit
      <3>2. Spare(u)
        BY FreeUnitSpare
      <3> QED
        BY <2>1, <2>2, <3>1, <3>2 DEF Taking
    <2>3. CASE ~ (call.pending /\ FreeUnit # {})
      <3>1. unit' = unit /\ list' = list /\ picsRcvd' = picsRcvd /\ call' = call
        BY <1>1, <2>3 DEF AddInput
      <3> QED
        BY <2>1, <3>1 DEF Quiet, Stays, GopPlaces, Pics
    <2> QED
      BY <2>2, <2>3
  <1> QED
    BY <1>1, QuietSteps DEF Next, RunStages, Done

-----------------------------------------------------------------------------
(***************************************************************************)
(* The invariant of the frames: what the stages hold, at which frame the   *)
(* filter is, and which pictures will be intra.                            *)
(***************************************************************************)
SameUnits ==
  \A i, j \in Stages : \A p \in Pics(i) \cap Pics(j) : list[i][p].unit = list[j][p].unit

\* The filter has the frames from the first one its next frame may be filtered
\* with; as long as frames come in it is cfg.range frames behind them.
FilterHolds == Pics(Filter) = {q \in filterPoc - cfg.range .. lastPoc : Accepts(Filter, q)}
Paced ==
  ~ call.flush \/ picsRcvd = -cfg.lead =>
    IF filterPoc = 0
    THEN lastPicIn = None /\ (lastPoc < cfg.range \/ (main = "filter" /\ lastPoc = cfg.range))
    ELSE /\ lastPicIn = filterPoc + cfg.range - 1
         /\ lastPoc = lastPicIn \/ (main = "filter" /\ lastPoc = lastPicIn + 1)

\* A flush empties the stages one after the other.
Drained ==
  call.flush => /\ main \in GopPlaces \cup {"filter"} => Pics(Pre) = {}
                /\ main \in GopPlaces => Pics(Filter) = {}

FramesFlow == SameUnits /\ FilterHolds /\ Paced /\ Drained

-----------------------------------------------------------------------------
(***************************************************************************)
(* Its proof.                                                              *)
(***************************************************************************)
LEMMA UnitsFlow ==
  ASSUME FlowSafe, NEW i \in Stages, NEW un, NEW wanted, NEW free, NEW d,
         Flowed(i, un, wanted, free, d), SameUnits
  PROVE  SameUnits'
  <1> SUFFICES ASSUME NEW j \in Stages, NEW k \in Stages, NEW p \in Pics(j)' \cap Pics(k)'
               PROVE  list'[j][p].unit = list'[k][p].unit
    BY DEF SameUnits
  <1> DEFINE Old(m) == p \in Pics(m) /\ list'[m][p].unit = list[m][p].unit
             New(m) == /\ p = d /\ d \in Pics(i) /\ Takers(i + 1, d) = {m}
                       /\ list'[m][p].unit = list[i][d].unit
  <1>1. \A m \in Stages : p \in Pics(m)' => Old(m) \/ New(m)
    BY DEF Flowed
  <1>2. CASE Old(j) /\ Old(k)
    BY <1>2 DEF SameUnits
  <1>3. CASE Old(j) /\ New(k)
    <2>1. list[j][p].unit = list[i][p].unit
      BY <1>3 DEF SameUnits
    <2> QED
      BY <1>3, <2>1
  <1>4. CASE New(j) /\ Old(k)
    <2>1. list[k][p].unit = list[i][p].unit
      BY <1>4 DEF SameUnits
    <2> QED
      BY <1>4, <2>1
  <1>5. CASE New(j) /\ New(k)
    BY <1>5
  <1> QED
    BY <1>1, <1>2, <1>3, <1>4, <1>5

\* Where no picture moves, units stay.
LEMMA UnitsStay ==
  ASSUME Stays, SameUnits
  PROVE  SameUnits'
  BY DEF Stays, SameUnits

\* A new frame is in no list but the first.
LEMMA TakingIs ==
  ASSUME FlowSafe, NEW u, Taking(u)
  PROVE  /\ Pics(Pre)' = Pics(Pre) \cup {picsRcvd} /\ picsRcvd' = picsRcvd + 1
         /\ Pics(Filter)' = Pics(Filter) /\ Pics(Gop)' = Pics(Gop)
         /\ \A k \in Stages : \A p \in Pics(k) : p # picsRcvd /\ list'[k][p].unit = list[k][p].unit
         /\ \A k \in Stages : \A p \in Pics(k) : SameCoding(list'[k][p], list[k][p])
         /\ list'[Gop] = list[Gop]
         /\ \A v \in DOMAIN unit : v # u => v \in DOMAIN unit' /\ unit'[v] = unit[v]
         /\ \A k \in Stages : \A p \in Pics(k) : list[k][p].unit # u /\ list[k][p].unit \in DOMAIN unit
         /\ DOMAIN call' = DOMAIN call /\ call'.flush = call.flush /\ ~ call.flush /\ call'.au = call.au
  <1>1. /\ Shape /\ CallSafe /\ Linked /\ call.flush \in BOOLEAN /\ DOMAIN list = Stages /\ Pre \in Stages
        /\ Stages = {Pre, Filter, Gop} /\ Pre # Filter /\ Pre # Gop
        /\ DOMAIN call = {"flush", "pending", "au"}
    BY StageNames DEF FlowSafe, CallSafe, Shape, Stages
  <1>2. PICK m, p, pic : m = list'[Pre] /\ p = picsRcvd /\ pic = NewPicture(u, {})
    OBVIOUS
  <1>3. /\ m = Insert(Pre, p, pic) /\ p \in Int
        /\ list'[Filter] = list[Filter] /\ list'[Gop] = list[Gop]
        /\ \A v \in DOMAIN unit : v # u => v \in DOMAIN unit' /\ unit'[v] = unit[v]
        /\ picsRcvd' = picsRcvd + 1
        /\ DOMAIN call' = DOMAIN call /\ call'.flush = call.flush /\ call'.au = call.au
        /\ ~ call.flush
    BY <1>1, <1>2 DEF Taking, TakeUnit, CallSafe, Shape
  <1>4. \A k \in Stages : \A q \in Pics(k) :
          q # p /\ list[k][q].unit # u /\ list[k][q].unit \in DOMAIN unit
    <2>1. \A k \in Stages : \A q \in Pics(k) : q # p
      BY <1>1, <1>2, <1>3, ListTypes DEF Received
    <2> QED
      BY <1>1, <2>1 DEF Taking, Spare, Linked, Links
  <1>5. pic \in PicRec
    <2>1. u \in Int
      BY DEF Taking, Spare
    <2> QED
      BY <1>1, <1>2, <2>1, NewPictureType
  <1>6. Joined(list[Pre], m, p, pic) /\ Added(list[Pre], m, p, pic)
    BY <1>1, <1>3, <1>5, InsertCoding, Inserted
  <1>7. /\ DOMAIN m = Pics(Pre) \cup {p}
        /\ \A q \in Pics(Pre) : m[q].unit = list[Pre][q].unit /\ SameCoding(m[q], list[Pre][q])
    BY <1>1, <1>4, <1>6 DEF Joined, Added, Pics
  <1>8. \A k \in {Filter, Gop} : \A q \in Pics(k) :
          list'[k][q].unit = list[k][q].unit /\ SameCoding(list'[k][q], list[k][q])
    BY <1>3, SameCodingSelf DEF Pics
  <1>9. \A k \in Stages : \A q \in Pics(k) :
          list'[k][q].unit = list[k][q].unit /\ SameCoding(list'[k][q], list[k][q])
    BY <1>1, <1>2, <1>7, <1>8
  <1>10. /\ Pics(Pre)' = Pics(Pre) \cup {picsRcvd}
         /\ Pics(Filter)' = Pics(Filter) /\ Pics(Gop)' = Pics(Gop)
    BY <1>2, <1>3, <1>7 DEF Pics
  <1> QED
    BY <1>2, <1>3, <1>4, <1>9, <1>10

\* A new frame comes to one stage only.
LEMMA UnitsTaking ==
  ASSUME FlowSafe, SameUnits, NEW u, Taking(u)
  PROVE  SameUnits'
  <1>1. /\ Stages = {Pre, Filter, Gop} /\ Pre # Filter /\ Pre # Gop
        /\ Pics(Pre)' = Pics(Pre) \cup {picsRcvd}
        /\ Pics(Filter)' = Pics(Filter) /\ Pics(Gop)' = Pics(Gop)
        /\ \A k \in Stages : \A p \in Pics(k) : p # picsRcvd /\ list'[k][p].unit = list[k][p].unit
    BY TakingIs, StageNames DEF Stages
  <1> QED
    BY <1>1 DEF SameUnits

\* Every step keeps SameUnits.
LEMMA UnitsNext ==
  ASSUME FlowSafe, SameUnits, [Next]_vars,
         DOMAIN gop = {"input", "proc", "output", "lastCodingNum", "pocRecOut"}
  PROVE  SameUnits'
  <1>1. {Pre, Filter, Gop} \subseteq Stages
    BY StageNames
  <1>2. CASE \E u : Taking(u)
    BY <1>2, UnitsTaking
  <1>3. CASE PreProcess
    <2>1. (\E last \in Int : Linking(last)) \/ Emptying \/ Waits
      BY <1>3, PreProcessCases
    <2>2. \A last : Linking(last) => SameUnits'
      BY <1>1, UnitsFlow DEF Linking
    <2>3. Emptying => SameUnits'
      BY <1>1, UnitsFlow DEF Emptying
    <2> QED
      BY <2>1, <2>2, <2>3, UnitsStay DEF Waits
  <1>4. CASE FilterPictures
    <2>1. (\E last : Filtering(last)) \/ Idles
      BY <1>4, FilterCases
    <2>2. \A last : Filtering(last) => SameUnits'
      BY <1>1, UnitsFlow DEF Filtering
    <2> QED
      BY <2>1, <2>2, UnitsStay DEF Idles
  <1>5. CASE ReleasePictures
    <2>1. Releasing
      BY <1>5, ReleaseCases
    <2> QED
      BY <1>1, <2>1, UnitsFlow DEF Releasing
  <1>6. CASE Quiet
    BY <1>6, UnitsStay DEF Quiet
  <1> QED
    BY <1>2, <1>3, <1>4, <1>5, <1>6, FrameSteps

\* What the filter accepts, and how many pictures it waits for.
LEMMA LeadIs ==
  ASSUME cfg \in Configs
  PROVE  /\ LeadFrames \in Nat /\ LeadFrames <= cfg.range /\ LeadFrames <= cfg.lead
         /\ cfg.range \in Nat /\ cfg.lead \in Nat /\ cfg.lead <= 64
         /\ MinQueueSize[Filter] = LeadFrames + 1 + cfg.range
         /\ \A q : Accepts(Filter, q) <=> q >= -LeadFrames
         /\ \A q : Accepts(Gop, q) <=> q >= 0 /\ ~ IsLeadTrail(q)
  <1>1. cfg.range \in Nat /\ cfg.lead \in Nat /\ cfg.lead <= 64
    BY ConfigType
  <1>2. PICK a, b \in Nat : a = cfg.range /\ b = cfg.lead
    BY <1>1
  <1>3. PICK m \in Nat : m = IF a <= b THEN a ELSE b
    BY <1>2
  <1>4. \A x \in {a, b} : (\A y \in {a, b} : y >= x) <=> x = m
    BY <1>3
  <1>5. Min({a, b}) = m
    BY <1>3, <1>4 DEF Min
  <1>6. LeadFrames = m
    BY <1>2, <1>5 DEF LeadFrames
  <1>7. LeadFrames \in Nat /\ LeadFrames <= cfg.range /\ LeadFrames <= cfg.lead
    BY <1>2, <1>3, <1>6
  <1>8. MinQueueSize[Filter] = LeadFrames + 1 + cfg.range
    BY StageNames DEF MinQueueSize
  <1>9. StartPoc[Filter] = -LeadFrames /\ StartPoc[Gop] = 0 /\ Filter # Gop
    BY StageNames DEF StartPoc
  <1> QED
    BY <1>1, <1>7, <1>8, <1>9 DEF Accepts

\* The counts of the frames.
LEMMA PocTypes ==
  ASSUME FlowSafe
  PROVE  /\ cfg \in Configs /\ lastPoc \in Int /\ filterPoc \in Nat /\ picsRcvd \in Int
         /\ call.flush \in BOOLEAN
         /\ \A i \in Stages : Pics(i) \subseteq Int /\ IsFiniteSet(Pics(i))
  BY ListTypes DEF FlowSafe, Shape, CallSafe

\* What a stage accepts depends on the configuration only.
LEMMA ConfigSame ==
  ASSUME cfg' = cfg
  PROVE  /\ \A i, q : Accepts(i, q)' <=> Accepts(i, q)
         /\ \A q : (IsLeadTrail(q)' <=> IsLeadTrail(q)) /\ CodingNum(q)' = CodingNum(q)
  BY DEF Accepts, StartPoc, LeadFrames, IsLeadTrail, CodingNum

\* A frame that pre-processing passes on is the next one of the filter.
LEMMA HoldsLink ==
  ASSUME FlowSafe, FilterHolds, Paced, cfg' = cfg, filterPoc' = filterPoc,
         NEW last \in Int, Linking(last)
  PROVE  FilterHolds'
  <1>1. /\ cfg \in Configs /\ lastPoc \in Int /\ filterPoc \in Nat /\ picsRcvd \in Int
        /\ Pics(Filter) \subseteq Int /\ Filter \in Stages /\ Pre \in Stages /\ Filter # Pre
        /\ Pre + 1 = Filter
    BY PocTypes, StageNames
  <1>2. PICK lead, range, lf \in Nat :
          lead = cfg.lead /\ range = cfg.range /\ lf = LeadFrames /\ lf <= range /\ lf <= lead
    BY <1>1, LeadIs
  <1>3. \A q : Accepts(Filter, q) <=> q >= -lf
    BY <1>1, <1>2, LeadIs
  <1>4. last = picsRcvd - 1 /\ last > lastPoc /\ lastPoc' = last /\ ~ call.flush /\ main = "pre"
    BY DEF Linking
  <1>5. Pics(Filter)' = Pics(Filter) \cup {q \in {last} : q >= -lf}
    <2>1. PICK un, wanted, free :
            Flowed(Pre, un, wanted, free, last) /\ wanted = {last}
      BY DEF Linking
    <2>2. last \in Pics(Pre)
      BY DEF Linking
    <2>3. \A p \in Pics(Filter)' : p \in Pics(Filter) \/ (p = last /\ Accepts(Filter, last))
      BY <1>1, <2>1 DEF Flowed
    <2>4. Pics(Filter) \subseteq Pics(Filter)'
      BY <1>1, <2>1 DEF Flowed
    <2>5. Accepts(Filter, last) => last \in Pics(Filter)'
      <3> SUFFICES ASSUME Accepts(Filter, last) PROVE last \in Pics(Filter)'
        OBVIOUS
      <3>1. Filter \in Takers(Filter, last)
        BY <1>1, StageNames DEF Takers
      <3>2. \A k \in Takers(Pre + 1, last) : last \in Pics(k)'
        BY <2>1, <2>2 DEF Flowed
      <3> QED
        BY <1>1, <3>1, <3>2
    <2> QED
      BY <1>3, <2>3, <2>4, <2>5
  <1>6. Pics(Filter) = {q \in filterPoc - range .. lastPoc : q >= -lf}
    BY <1>2, <1>3 DEF FilterHolds
  <1>7. \A q \in Int : q >= -lf /\ q < last => q <= lastPoc
    BY <1>1, <1>2, <1>4 DEF FlowSafe, Ordered, Processed
  <1>8. last >= -lf => last >= filterPoc - range
    BY <1>1, <1>2, <1>4 DEF Paced
  <1>9. Pics(Filter)' = {q \in filterPoc - range .. last : q >= -lf}
    <2>1. ASSUME NEW q \in Pics(Filter)' PROVE q \in filterPoc - range .. last /\ q >= -lf
      BY <2>1, <1>1, <1>2, <1>4, <1>5, <1>6, <1>8
    <2>2. ASSUME NEW q \in filterPoc - range .. last, q >= -lf PROVE q \in Pics(Filter)'
      <3>1. q = last \/ (q < last /\ q \in Int /\ filterPoc - range <= q)
        BY <1>1, <1>2
      <3>2. CASE q = last
        BY <2>2, <3>2, <1>5
      <3>3. CASE q < last /\ q \in Int /\ filterPoc - range <= q
        <4>1. q <= lastPoc
          BY <2>2, <3>3, <1>7
        <4>2. q \in filterPoc - range .. lastPoc
          BY <4>1, <3>3, <1>1, <1>2
        <4> QED
          BY <4>2, <2>2, <1>5, <1>6
      <3> QED
        BY <3>1, <3>2, <3>3
    <2> QED
      BY <2>1, <2>2
  <1>10. \A q : Accepts(Filter, q)' <=> q >= -lf
    BY <1>3, ConfigSame
  <1> QED
    BY <1>2, <1>4, <1>9, <1>10 DEF FilterHolds

\* The number of frames in a window.
LEMMA WindowSize ==
  ASSUME NEW a \in Int, NEW b \in Int, NEW c \in Int, NEW S, S = {q \in a .. b : q >= c}
  PROVE  Cardinality(S) = LET m == IF a >= c THEN a ELSE c IN IF b >= m THEN b - m + 1 ELSE 0
  <1>1. PICK m \in Int : m = IF a >= c THEN a ELSE c
    OBVIOUS
  <1>2. S = m .. b
    BY <1>1
  <1>3. Cardinality(m .. b) = IF m > b THEN 0 ELSE b - m + 1
    BY FS_Interval
  <1>4. Cardinality(S) = Cardinality(m .. b)
    BY <1>2
  <1>5. (IF m > b THEN 0 ELSE b - m + 1) = (IF b >= m THEN b - m + 1 ELSE 0)
    BY <1>1
  <1> QED
    BY <1>1, <1>3, <1>4, <1>5

\* While frames come in, the filter runs when the last one completes the window
\* of its next frame.
LEMMA FilterPaced ==
  ASSUME FlowSafe, FilterHolds, Paced, main = "filter",
         ~ call.flush \/ picsRcvd = -cfg.lead, NEW last, last = Last(Filter, Pics(Filter))
  PROVE  /\ Ready(Filter) /\ HasNewPicture(last) <=> lastPoc = filterPoc + cfg.range
         /\ lastPoc = filterPoc + cfg.range => last = lastPoc
         /\ lastPoc <= filterPoc + cfg.range
  <1>1. /\ cfg \in Configs /\ lastPoc \in Int /\ filterPoc \in Nat /\ picsRcvd \in Int
        /\ Filter \in Stages /\ Shape /\ CallSafe /\ call.flush \in BOOLEAN
    BY PocTypes, StageNames DEF FlowSafe
  <1>2. PICK range, lf, at, to \in Int :
          /\ range = cfg.range /\ lf = LeadFrames /\ 0 <= lf /\ lf <= range
          /\ at = filterPoc /\ to = lastPoc /\ 0 <= at
    BY <1>1, LeadIs
  <1>3. MinQueueSize[Filter] = lf + 1 + range /\ \A q : Accepts(Filter, q) <=> q >= -lf
    BY <1>1, <1>2, LeadIs
  <1>4. Pics(Filter) = {q \in at - range .. to : q >= -lf}
    BY <1>2, <1>3 DEF FilterHolds
  <1>5. PICK n \in Int : /\ n = Cardinality(Pics(Filter))
                         /\ n = LET m == IF at - range >= -lf THEN at - range ELSE -lf
                                IN IF to >= m THEN to - m + 1 ELSE 0
    <2>1. PICK S : S = Pics(Filter)
      OBVIOUS
    <2>2. S = {q \in at - range .. to : q >= -lf}
      BY <1>4, <2>1
    <2>3. Cardinality(S) = LET m == IF at - range >= -lf THEN at - range ELSE -lf
                           IN IF to >= m THEN to - m + 1 ELSE 0
      <3>1. at - range \in Int /\ -lf \in Int
        BY <1>2
      <3> QED
        BY <2>2, <3>1, WindowSize
    <2> QED
      BY <2>1, <2>3, <1>2
  <1>6. Ready(Filter) <=> n >= lf + 1 + range \/ (Pics(Filter) # {} /\ call.flush)
    BY <1>3, <1>5 DEF Ready
  <1>7. CASE call.flush
    <2>1. Pics(Filter) = {} /\ to < 0
      <3>1. picsRcvd = -cfg.lead /\ cfg.lead \in Nat
        BY <1>1, <1>7, LeadIs
      <3>2. Received = {}
        BY <3>1 DEF Received
      <3>3. to < 0
        BY <1>1, <1>2, <1>7, <3>1 DEF FlowSafe, Ordered, Processed, None
      <3> QED
        BY <1>1, <3>2, <3>3, ListTypes
    <2>2. n = 0
      BY <1>5, <2>1, FS_EmptySet
    <2> QED
      BY <1>2, <1>6, <2>1, <2>2
  <1>8. CASE ~ call.flush
    <2>1. /\ at = 0 => lastPicIn = None /\ to <= range
          /\ at # 0 => lastPicIn = at + range - 1 /\ to >= at + range - 1 /\ to <= at + range
      BY <1>2, <1>8 DEF Paced
    <2>2. to >= 0 /\ to >= at - range => last = to /\ Pics(Filter) # {}
      <3> SUFFICES ASSUME to >= 0, to >= at - range PROVE last = to /\ Pics(Filter) # {}
        OBVIOUS
      <3>1. to \in Pics(Filter) /\ \A q \in Pics(Filter) : q <= to /\ q \in Int
        BY <1>2, <1>4
      <3>2. last \in Pics(Filter) /\ to <= last
        BY <1>1, <3>1, LastInFilter
      <3> QED
        BY <1>2, <3>1, <3>2
    <2>3. last \in Pics(Filter) => (HasNewPicture(last) <=> lastPicIn # last)
      <3>1. last \in Pics(Filter) => ~ Marked(Filter)[last].flush
        BY <1>1, <1>8, MarkedSame DEF CallSafe
      <3> QED
        BY <3>1 DEF HasNewPicture
    <2>4. CASE to = at + range
      <3>1. n >= lf + 1 + range
        BY <1>2, <1>5, <2>4
      <3>2. last = to /\ Pics(Filter) # {} /\ last \in Pics(Filter)
        BY <1>1, <1>2, <2>2, <2>4, LastInFilter
      <3>3. lastPicIn # last
        BY <1>2, <2>1, <2>4, <3>2 DEF None
      <3> QED
        BY <1>2, <1>6, <2>3, <2>4, <3>1, <3>2, <3>3
    <2>5. CASE to # at + range /\ at = 0
      <3>1. n < lf + 1 + range /\ to <= at + range
        BY <1>2, <1>5, <2>1, <2>5
      <3> QED
        BY <1>2, <1>6, <1>8, <2>5, <3>1
    <2>6. CASE to # at + range /\ at # 0
      <3>3. at >= 1 /\ range >= 0
        BY <1>2, <2>6
      <3>4. lastPicIn = at + range - 1 /\ to >= at + range - 1 /\ to <= at + range
        BY <2>1, <2>6
      <3>1. to = at + range - 1 /\ to <= at + range /\ lastPicIn = to
        BY <2>6, <3>3, <3>4
      <3>5. CASE range = 0
        <4>1. n < lf + 1 + range
          BY <1>2, <1>5, <3>1, <3>3, <3>5
        <4> QED
          BY <1>2, <1>6, <1>8, <2>6, <3>1, <4>1
      <3>6. CASE range # 0
        <4>1. to >= 0 /\ to >= at - range
          BY <3>1, <3>3, <3>6
        <4>2. last = to /\ last \in Pics(Filter)
          BY <1>1, <2>2, <4>1, LastInFilter
        <4>3. ~ HasNewPicture(last)
          BY <2>3, <3>1, <4>2
        <4> QED
          BY <1>2, <2>6, <3>1, <4>3
      <3> QED
        BY <3>5, <3>6
    <2> QED
      BY <2>4, <2>5, <2>6
  <1> QED
    BY <1>1, <1>7, <1>8

\* Filtering a frame gives back those that leave the window.
LEMMA FilteringIs ==
  ASSUME FlowSafe, FilterHolds, lastPoc' = lastPoc, cfg' = cfg, NEW last, Filtering(last)
  PROVE  FilterHolds' /\ Pics(Pre)' = Pics(Pre)
  <1>1. /\ cfg \in Configs /\ lastPoc \in Int /\ filterPoc \in Nat /\ Pics(Filter) \subseteq Int
        /\ Filter \in Stages /\ Pre \in Stages /\ ~ (Filter > Filter) /\ ~ (Pre > Filter) /\ Pre # Filter
        /\ cfg.range \in Nat
    BY PocTypes, StageNames, LeadIs
  <1>2. /\ Pics(Filter)' = Pics(Filter) \ {p \in Pics(Filter) : p <= filterPoc - cfg.range}
        /\ filterPoc' = filterPoc + 1
    BY DEF Filtering, Flowed
  <1>3. Pics(Pre)' = Pics(Pre)
    BY <1>1 DEF Filtering, Flowed
  <1>4. PICK at, from, to \in Int : at = filterPoc /\ from = filterPoc - cfg.range /\ to = lastPoc
    BY <1>1
  <1>5. filterPoc' - cfg'.range = from + 1
    BY <1>1, <1>2, <1>4
  <1>6. Pics(Filter) = {q \in from .. to : Accepts(Filter, q)}
    BY <1>4 DEF FilterHolds
  <1>7. Pics(Filter)' = {q \in from + 1 .. to : Accepts(Filter, q)}
    BY <1>2, <1>4, <1>6
  <1>8. \A q : Accepts(Filter, q)' <=> Accepts(Filter, q)
    BY ConfigSame
  <1> QED
    BY <1>3, <1>4, <1>5, <1>7, <1>8 DEF FilterHolds

\* Steps without the filter keep its frames.
LEMMA HoldsStay ==
  ASSUME FilterHolds, Pics(Filter)' = Pics(Filter),
         UNCHANGED <<cfg, lastPoc, filterPoc>>
  PROVE  FilterHolds'
  <1>1. \A q : Accepts(Filter, q)' <=> Accepts(Filter, q)
    BY ConfigSame
  <1> QED
    BY <1>1 DEF FilterHolds

\* Releasing leaves the stages before, and the frames, alone.
LEMMA ReleasingIs ==
  ASSUME Releasing
  PROVE  /\ Pics(Pre)' = Pics(Pre) /\ Pics(Filter)' = Pics(Filter) /\ Pics(Gop)' \subseteq Pics(Gop)
         /\ \A k \in Stages : \A p \in Pics(k)' :
              /\ p \in Pics(k) /\ list'[k][p].unit = list[k][p].unit
              /\ SameCoding(list'[k][p], list[k][p])
         /\ DOMAIN unit' = DOMAIN unit /\ \A v \in DOMAIN unit : unit'[v].intra = unit[v].intra
  <1>1. /\ {Pre, Filter, Gop} \subseteq Stages /\ Filter # Gop /\ Pre # Gop
        /\ \A k \in Stages : ~ (k > Gop)
    BY StageNames
  <1>2. PICK wanted, free, un, d : Flowed(Gop, un, wanted, free, d) /\ un = unit
    BY DEF Releasing
  <1>3. \A k \in Stages : \A p \in Pics(k)' :
          /\ p \in Pics(k) /\ list'[k][p].unit = list[k][p].unit
          /\ SameCoding(list'[k][p], list[k][p])
    BY <1>1, <1>2 DEF Flowed
  <1>4. /\ \A k \in Stages : k # Gop => Pics(k) \subseteq Pics(k)'
        /\ DOMAIN unit' = DOMAIN unit /\ \A v \in DOMAIN unit : unit'[v].intra = unit[v].intra
    BY <1>2 DEF Flowed
  <1> QED
    BY <1>1, <1>3, <1>4

\* Every step keeps FilterHolds.
LEMMA HoldsNext ==
  ASSUME FlowSafe, FilterHolds, Paced, [Next]_vars,
         DOMAIN gop = {"input", "proc", "output", "lastCodingNum", "pocRecOut"}
  PROVE  FilterHolds'
  <1>1. /\ {Pre, Filter, Gop} \subseteq Stages /\ Filter # Pre /\ Filter # Gop /\ ~ (Filter > Gop)
    BY StageNames
  <1>2. ASSUME NEW u, Taking(u) PROVE FilterHolds'
    <2>1. Pics(Filter)' = Pics(Filter)
      BY <1>2, TakingIs
    <2> QED
      BY <1>2, <2>1, HoldsStay DEF Taking
  <1>3. CASE PreProcess
    <2>1. /\ (\E last \in Int : Linking(last)) \/ Emptying \/ Waits
          /\ UNCHANGED <<cfg, filterPoc>>
      BY <1>3, PreProcessCases
    <2>2. \A last \in Int : Linking(last) => FilterHolds'
      BY <2>1, HoldsLink
    <2>3. CASE Emptying
      <3>1. Pics(Filter)' = Pics(Filter) /\ lastPoc' = lastPoc
        BY <1>1, <2>3 DEF Emptying, Flowed
      <3> QED
        BY <2>1, <3>1, HoldsStay
    <2>4. CASE Waits
      <3>1. Pics(Filter)' = Pics(Filter) /\ lastPoc' = lastPoc
        BY <1>1, <2>4 DEF Waits, Stays
      <3> QED
        BY <2>1, <3>1, HoldsStay
    <2> QED
      BY <2>1, <2>2, <2>3, <2>4
  <1>4. CASE FilterPictures
    <2>1. /\ (\E last : Filtering(last)) \/ Idles
          /\ UNCHANGED <<cfg, lastPoc>>
      BY <1>4, FilterCases DEF OnlyFlows
    <2>2. CASE Idles
      <3>1. Pics(Filter)' = Pics(Filter) /\ filterPoc' = filterPoc
        BY <1>1, <2>2 DEF Idles, Stays
      <3> QED
        BY <2>1, <3>1, HoldsStay
    <2> QED
      BY <2>1, <2>2, FilteringIs
  <1>5. CASE ReleasePictures
    <2>1. Releasing /\ UNCHANGED <<cfg, lastPoc, filterPoc>>
      BY <1>5, ReleaseCases DEF OnlyFlows
    <2>2. Pics(Filter)' = Pics(Filter)
      BY <2>1, ReleasingIs
    <2> QED
      BY <2>1, <2>2, HoldsStay
  <1>6. CASE Quiet
    <2>1. Pics(Filter)' = Pics(Filter) /\ UNCHANGED <<cfg, lastPoc, filterPoc>>
      BY <1>1, <1>6 DEF Quiet, Stays
    <2> QED
      BY <2>1, HoldsStay
  <1> QED
    BY <1>2, <1>3, <1>4, <1>5, <1>6, FrameSteps

\* Every step keeps Paced.
LEMMA PacedNext ==
  ASSUME FlowSafe, FilterHolds, Paced, [Next]_vars,
         DOMAIN gop = {"input", "proc", "output", "lastCodingNum", "pocRecOut"}
  PROVE  Paced'
  <1>1. /\ cfg \in Configs /\ lastPoc \in Int /\ filterPoc \in Nat /\ picsRcvd \in Int
        /\ call.flush \in BOOLEAN /\ cfg.range \in Nat /\ cfg.lead \in Nat /\ picsRcvd >= -cfg.lead
        /\ call.pending => ~ call.flush
    BY PocTypes, LeadIs DEF FlowSafe, Shape, CallSafe
  <1>2. ASSUME NEW u, Taking(u) PROVE Paced'
    <2>1. /\ call'.flush = call.flush /\ ~ call.flush /\ main = "input" /\ main' = "pre"
          /\ UNCHANGED <<cfg, lastPoc, filterPoc, lastPicIn>>
      BY <1>2, TakingIs DEF Taking
    <2> QED
      BY <2>1 DEF Paced
  <1>3. CASE PreProcess
    <2>1. /\ (\E last \in Int : Linking(last)) \/ Emptying \/ Waits
          /\ UNCHANGED <<cfg, filterPoc, lastPicIn, call, picsRcvd>>
      BY <1>3, PreProcessCases
    <2>2. ASSUME NEW last \in Int, Linking(last) PROVE Paced'
      <3>1. /\ last = picsRcvd - 1 /\ last > lastPoc /\ lastPoc' = last /\ ~ call.flush
            /\ main = "pre" /\ main' = "filter"
        BY <2>2 DEF Linking
      <3>2. \/ last = lastPoc + 1
            \/ lastPoc = None /\ last <= 0
        BY <1>1, <3>1 DEF FlowSafe, Ordered, Processed
      <3>3. PICK range \in Nat : range = cfg.range
        BY <1>1
      <3>4. CASE filterPoc = 0
        <4>1. lastPicIn = None /\ lastPoc < range
          BY <3>1, <3>3, <3>4 DEF Paced
        <4>2. lastPoc' < range \/ lastPoc' = range
          BY <1>1, <3>1, <3>2, <4>1
        <4> QED
          BY <2>1, <3>1, <3>3, <3>4, <4>1, <4>2 DEF Paced
      <3>5. CASE filterPoc # 0
        <4>1. lastPicIn = filterPoc + range - 1 /\ lastPoc = lastPicIn
          BY <3>1, <3>3, <3>5 DEF Paced
        <4>2. lastPoc # None
          BY <1>1, <3>3, <3>5, <4>1 DEF None
        <4>3. lastPoc' = lastPicIn + 1
          BY <3>1, <3>2, <4>1, <4>2
        <4> QED
          BY <2>1, <3>1, <3>3, <3>5, <4>1, <4>3 DEF Paced
      <3> QED
        BY <3>4, <3>5
    <2>3. CASE Emptying
      <3>1. lastPoc' = lastPoc /\ main = "pre" /\ call.flush /\ Pics(Pre) # {}
        BY <2>3 DEF Emptying
      <3>2. picsRcvd # -cfg.lead
        <4>1. Received # {}
          BY <3>1, ListTypes, StageNames DEF FlowSafe
        <4> QED
          BY <1>1, <4>1 DEF Received
      <3> QED
        BY <2>1, <3>1, <3>2 DEF Paced
    <2>4. CASE Waits
      <3>1. lastPoc' = lastPoc /\ main = "pre"
        BY <2>4 DEF Waits
      <3> QED
        BY <2>1, <3>1 DEF Paced
    <2> QED
      BY <2>1, <2>2, <2>3, <2>4
  <1>4. CASE FilterPictures
    <2>1. /\ (\E last : Filtering(last)) \/ Idles
          /\ UNCHANGED <<cfg, lastPoc, call, picsRcvd>>
      BY <1>4, FilterCases DEF OnlyFlows
    <2> SUFFICES ASSUME ~ call.flush \/ picsRcvd = -cfg.lead
                 PROVE  IF filterPoc' = 0
                        THEN lastPicIn' = None /\ lastPoc < cfg.range
                        ELSE lastPicIn' = filterPoc' + cfg.range - 1 /\ lastPoc = lastPicIn'
      BY <2>1 DEF Paced
    <2>2. ASSUME NEW last, Filtering(last)
          PROVE  /\ filterPoc' = filterPoc + 1 /\ lastPicIn' = lastPoc
                 /\ lastPoc = filterPoc + cfg.range
      <3>1. /\ Ready(Filter) /\ HasNewPicture(last) /\ last = Last(Filter, Pics(Filter))
            /\ main = "filter" /\ filterPoc' = filterPoc + 1 /\ lastPicIn' = last
        BY <2>2 DEF Filtering
      <3>2. last = lastPoc /\ lastPoc = filterPoc + cfg.range
        BY <3>1, FilterPaced
      <3> QED
        BY <3>1, <3>2
    <2>3. CASE \E last : Filtering(last)
      BY <1>1, <2>2, <2>3
    <2>4. CASE Idles
      <3>1. PICK last : last = Last(Filter, Pics(Filter))
        OBVIOUS
      <3>2. /\ ~ (Ready(Filter) /\ HasNewPicture(last)) /\ main = "filter"
            /\ filterPoc' = filterPoc /\ lastPicIn' = lastPicIn
        BY <2>4, <3>1 DEF Idles
      <3>3. lastPoc # filterPoc + cfg.range
        BY <3>1, <3>2, FilterPaced
      <3> QED
        BY <1>1, <3>2, <3>3 DEF Paced
    <2> QED
      BY <2>1, <2>3, <2>4
  <1>5. CASE ReleasePictures
    <2>1. /\ main = "release" /\ UNCHANGED <<cfg, lastPoc, filterPoc, lastPicIn, call, picsRcvd>>
      BY <1>5, ReleaseCases DEF OnlyFlows, Releasing
    <2> QED
      BY <2>1 DEF Paced
  <1>6. CASE Quiet
    <2>1. /\ UNCHANGED <<cfg, lastPoc, filterPoc, lastPicIn, picsRcvd>>
          /\ main = "filter" => main' = main
          /\ call.flush => call'.flush \/ picsRcvd = -cfg.lead
      BY <1>6 DEF Quiet
    <2> QED
      BY <2>1 DEF Paced
  <1> QED
    BY <1>2, <1>3, <1>4, <1>5, <1>6, FrameSteps

\* Every step keeps Drained.
LEMMA DrainedNext ==
  ASSUME FlowSafe, FilterHolds, Drained, [Next]_vars,
         DOMAIN gop = {"input", "proc", "output", "lastCodingNum", "pocRecOut"}
  PROVE  Drained'
  <1>1. {Pre, Filter, Gop} \subseteq Stages
    BY StageNames
  <1>2. ASSUME NEW u, Taking(u) PROVE Drained'
    BY <1>2 DEF Taking, Drained, GopPlaces
  <1>3. CASE PreProcess
    <2>1. /\ (\E last \in Int : Linking(last)) \/ Emptying \/ Waits
          /\ UNCHANGED <<cfg, filterPoc, lastPicIn, call, picsRcvd>>
      BY <1>3, PreProcessCases
    <2>2. CASE \E last \in Int : Linking(last)
      BY <2>1, <2>2 DEF Linking, Drained
    <2>3. CASE Emptying
      <3>1. main' = "filter" /\ Pics(Pre)' = {}
        BY <2>3 DEF Emptying, Flowed
      <3> QED
        BY <3>1 DEF Drained, GopPlaces
    <2>4. CASE Waits
      <3>1. /\ Pics(Pre)' = Pics(Pre)
            /\ main' = IF call.flush /\ Pics(Pre) # {} THEN "pre" ELSE "filter"
        BY <1>1, <2>4 DEF Waits, Stays
      <3> QED
        BY <2>1, <3>1 DEF Drained, GopPlaces
    <2> QED
      BY <2>1, <2>2, <2>3, <2>4
  <1>4. CASE FilterPictures
    <2>1. /\ (\E last : Filtering(last)) \/ Idles
          /\ UNCHANGED <<cfg, lastPoc, call, picsRcvd>>
      BY <1>4, FilterCases DEF OnlyFlows
    <2>2. ASSUME NEW last, Filtering(last) PROVE Drained'
      <3>1. /\ Pics(Pre)' = Pics(Pre) /\ main = "filter"
            /\ main' = IF call.flush /\ Pics(Filter)' # {} THEN "filter" ELSE "gop"
        BY <2>1, <2>2, FilteringIs DEF Filtering
      <3> QED
        BY <2>1, <3>1 DEF Drained, GopPlaces
    <2>3. CASE Idles
      <3>1. /\ Pics(Pre)' = Pics(Pre) /\ Pics(Filter)' = Pics(Filter) /\ main = "filter"
            /\ main' = IF call.flush /\ Pics(Filter) # {} THEN "filter" ELSE "gop"
        BY <1>1, <2>3 DEF Idles, Stays
      <3> QED
        BY <2>1, <3>1 DEF Drained, GopPlaces
    <2> QED
      BY <2>1, <2>2, <2>3
  <1>5. CASE ReleasePictures
    <2>1. /\ Releasing /\ main = "release" /\ main' = "end" /\ call' = call
      BY <1>5, ReleaseCases DEF OnlyFlows, Releasing
    <2>2. Pics(Pre)' = Pics(Pre) /\ Pics(Filter)' = Pics(Filter)
      BY <2>1, ReleasingIs
    <2> QED
      BY <2>1, <2>2 DEF Drained, GopPlaces
  <1>6. CASE Quiet
    <2>1. Pics(Pre)' = Pics(Pre) /\ Pics(Filter)' = Pics(Filter)
      BY <1>1, <1>6 DEF Quiet, Stays
    <2> QED
      BY <1>6, <2>1 DEF Quiet, Drained
  <1> QED
    BY <1>2, <1>3, <1>4, <1>5, <1>6, FrameSteps

\* Initially nothing has come in.
LEMMA FramesInit ==
  Init => FramesFlow
  <1> SUFFICES ASSUME Init PROVE FramesFlow
    OBVIOUS
  <1>1. /\ cfg \in Configs /\ lastPoc = None /\ filterPoc = 0 /\ lastPicIn = None
        /\ call.flush = FALSE /\ \A i \in Stages : DOMAIN list[i] = {}
    BY DEF Init
  <1>2. \A i \in Stages : Pics(i) = {}
    BY <1>1 DEF Pics
  <1>3. cfg.range \in Nat /\ cfg.lead <= 64 /\ cfg.lead \in Nat /\ LeadFrames \in Nat /\ LeadFrames <= cfg.lead
        /\ \A q : Accepts(Filter, q) <=> q >= -LeadFrames
    BY <1>1, LeadIs
  <1>4. SameUnits
    BY <1>2 DEF SameUnits
  <1>5. FilterHolds
    <2>1. {q \in filterPoc - cfg.range .. lastPoc : Accepts(Filter, q)} = {}
      <3> SUFFICES ASSUME NEW q \in filterPoc - cfg.range .. lastPoc, q >= -LeadFrames
                   PROVE  FALSE
        BY <1>3
      <3> QED
        BY <1>1, <1>3 DEF None
    <2> QED
      BY <1>2, <2>1, StageNames DEF FilterHolds
  <1>6. Paced
    BY <1>1, <1>3 DEF Paced, None
  <1>7. Drained
    BY <1>1 DEF Drained
  <1> QED
    BY <1>4, <1>5, <1>6, <1>7 DEF FramesFlow

\* Every step keeps FramesFlow.
LEMMA FramesNext ==
  FlowSafe /\ Fed /\ CodingSafe /\ FramesFlow /\ [Next]_vars => FramesFlow'
  <1> SUFFICES ASSUME FlowSafe, CodingSafe, FramesFlow, [Next]_vars PROVE FramesFlow'
    OBVIOUS
  <1>1. DOMAIN gop = {"input", "proc", "output", "lastCodingNum", "pocRecOut"}
    BY DEF CodingSafe, Apart
  <1> QED
    BY <1>1, UnitsNext, HoldsNext, PacedNext, DrainedNext DEF FramesFlow

\* The filter goes on with its whole window, or in a flush.
LEMMA WindowSeen ==
  ASSUME FlowSafe, FramesFlow, [Next]_vars, filterPoc' # filterPoc,
         DOMAIN gop = {"input", "proc", "output", "lastCodingNum", "pocRecOut"}
  PROVE  \/ call.flush
         \/ {q \in (filterPoc - cfg.range)..(filterPoc + cfg.range) : Accepts(Filter, q)}
              \subseteq Pics(Filter)
  <1> SUFFICES ASSUME ~ call.flush
               PROVE  {q \in (filterPoc - cfg.range)..(filterPoc + cfg.range) : Accepts(Filter, q)}
                        \subseteq Pics(Filter)
    OBVIOUS
  <1>1. \E last : Filtering(last)
    <2>1. \A u : ~ Taking(u)
      BY DEF Taking
    <2>2. ~ PreProcess
      BY PreProcessCases
    <2>3. ~ ReleasePictures
      BY ReleaseCases
    <2>4. ~ Quiet
      BY DEF Quiet
    <2>5. FilterPictures
      BY <2>1, <2>2, <2>3, <2>4, FrameSteps
    <2>6. ~ Idles
      BY DEF Idles
    <2> QED
      BY <2>5, <2>6, FilterCases
  <1>2. PICK last : /\ Ready(Filter) /\ HasNewPicture(last) /\ last = Last(Filter, Pics(Filter))
                    /\ main = "filter"
    BY <1>1 DEF Filtering
  <1>3. lastPoc = filterPoc + cfg.range
    BY <1>2, FilterPaced DEF FramesFlow
  <1> QED
    BY <1>3 DEF FramesFlow, FilterHolds

\* In every reachable state a picture has one unit in all stages, the filter
\* holds the frames from cfg.range before its next one, and its progress
\* keeps pace with the input until a flush empties the stages in order.
THEOREM FramesInvariant ==
  Spec => [](FlowSafe /\ Fed /\ CodingSafe /\ FramesFlow)
  <1>1. Spec => [](FlowSafe /\ Fed /\ CodingSafe)
    BY CodingInvariant
  <1>2. Init => FramesFlow
    BY FramesInit
  <1>3. FlowSafe /\ Fed /\ CodingSafe /\ FramesFlow /\ [Next]_vars => FramesFlow'
    BY FramesNext
  <1> QED
    BY <1>1, <1>2, <1>3, PTL DEF Spec

\* A frame is filtered when the filter holds every frame up to cfg.range before
\* and after it, or is being flushed (MCTF.cpp, EncLib.cpp:475), for any range
\* and number of lead frames and however often the stage is run in between.
THEOREM WindowComplete ==
  Spec => FilterSeesWindow
  <1>1. /\ FlowSafe /\ Fed /\ CodingSafe /\ FramesFlow
        /\ [Next]_vars
        => [filterPoc' # filterPoc =>
             \/ call.flush
             \/ {q \in (filterPoc - cfg.range)..(filterPoc + cfg.range) : Accepts(Filter, q)}
                  \subseteq Pics(Filter)]_vars
    BY WindowSeen DEF CodingSafe, Apart
  <1> QED
    BY <1>1, FramesInvariant, PTL DEF Spec, FilterSeesWindow

-----------------------------------------------------------------------------
(***************************************************************************)
(* The first picture to be coded.                                          *)
(***************************************************************************)
ToCode   == {p \in Received : ~ IsLeadTrail(p)}
Intra(p) == \A i \in Stages : p \in Pics(i) => unit[list[i][p].unit].intra

\* No frame with coding number 0 came in, and of those that did p is coded first.
Leads(p) == \A q \in ToCode : CodingNum(q) # 0 /\ CodingNum(p) <= CodingNum(q)

\* The picture that will be coded first is intra, or waits for the flush that
\* makes it intra.
Led == \A p \in ToCode : p <= lastPoc =>
  /\ CodingNum(p) = 0 => Intra(p)
  /\ Leads(p) => p \in Pics(Pre) \/ Intra(p)

\* A finite set has a member that is last in the order of a list.
LEMMA FiniteHasLast ==
  ASSUME NEW i, NEW S, IsFiniteSet(S), S # {}, \A p \in S : Key(i, p) \in Int
  PROVE  Last(i, S) \in S
  <1> DEFINE HasLast(T) == \E p \in T : \A q \in T : Key(i, q) <= Key(i, p)
             Bad == {n \in Nat : \E T \in SUBSET S : T # {} /\ Cardinality(T) = n /\ ~ HasLast(T)}
  <1>1. Bad = {}
    <2> SUFFICES ASSUME Bad # {} PROVE FALSE
      OBVIOUS
    <2>1. PICK n \in Bad : \A m \in Bad : n <= m
      <3>1. Bad \in SUBSET Nat
        OBVIOUS
      <3> HIDE DEF Bad
      <3> QED
        BY <3>1, LeastMember
    <2>2. PICK T \in SUBSET S : T # {} /\ Cardinality(T) = n /\ ~ HasLast(T)
      OBVIOUS
    <2>3. PICK x \in T : TRUE
      BY <2>2
    <2>4. IsFiniteSet(T)
      BY FS_Subset
    <2>5. Cardinality(T \ {x}) = n - 1 /\ Cardinality(T \ {x}) \in Nat
      BY <2>2, <2>3, <2>4, FS_RemoveElement, FS_Subset, FS_CardinalityType
    <2>6. n - 1 \notin Bad
      BY <2>1
    <2>7. T \ {x} = {} \/ HasLast(T \ {x})
      BY <2>5, <2>6
    <2>8. CASE T \ {x} = {}
      <3>1. \A q \in T : q = x
        BY <2>8
      <3> QED
        BY <2>2, <2>3, <3>1
    <2>9. CASE HasLast(T \ {x})
      <3>1. PICK m \in T \ {x} : \A q \in T \ {x} : Key(i, q) <= Key(i, m)
        BY <2>9
      <3>2. Key(i, x) \in Int /\ Key(i, m) \in Int
        BY <2>3
      <3>3. CASE Key(i, x) <= Key(i, m)
        <4>1. \A q \in T : Key(i, q) <= Key(i, m)
          BY <3>1, <3>3
        <4> QED
          BY <2>2, <4>1
      <3>4. CASE Key(i, m) <= Key(i, x)
        <4>1. \A q \in T : Key(i, q) <= Key(i, x)
          <5> TAKE q \in T
          <5>1. CASE q = x
            BY <5>1, <3>2
          <5>2. CASE q # x
            <6>1. Key(i, q) <= Key(i, m) /\ Key(i, q) \in Int
              BY <5>2, <3>1
            <6> QED
              BY <6>1, <3>2, <3>4
          <5> QED
            BY <5>1, <5>2
        <4> QED
          BY <2>2, <2>3, <4>1
      <3> QED
        BY <3>2, <3>3, <3>4
    <2> QED
      BY <2>7, <2>8, <2>9
  <1>2. Cardinality(S) \in Nat
    BY FS_CardinalityType
  <1>3. HasLast(S)
    BY <1>1, <1>2
  <1> QED
    BY <1>3 DEF Last

\* The frames to be coded have coding numbers of their own.
LEMMA ToCodeNumbers ==
  ASSUME FlowSafe, Fed
  PROVE  /\ \A p \in ToCode : /\ p \in 0 .. Frames /\ p < picsRcvd /\ CodingNum(p) = cfg.codingNum[p]
                              /\ CodingNum(p) \in Nat
                              /\ \A q \in 0 .. p : q \in ToCode
         /\ \A p, q \in ToCode : CodingNum(p) = CodingNum(q) => p = q
         /\ \A i \in Stages : \A p \in Pics(i) : ~ IsLeadTrail(p) => p \in ToCode
         /\ \A p \in Pics(Gop) : p >= 0
  <1>1. /\ cfg \in Configs /\ Frames \in cfg.stops /\ Frames \in Nat /\ cfg.lead \in Nat
        /\ cfg.toEncode \in Nat /\ picsRcvd \in Int
    BY FramesMax, ConfigType DEF FlowSafe, Shape
  <1>2. picsRcvd <= Frames - cfg.lead
    <2>1. picsRcvd + (IF call.pending THEN 1 ELSE 0) <= Frames - cfg.lead
      BY DEF Fed
    <2> QED
      BY <1>1, <2>1
  <1>3. ASSUME NEW p \in ToCode
        PROVE  /\ p \in 0 .. Frames /\ p < picsRcvd /\ CodingNum(p) = cfg.codingNum[p]
               /\ \A q \in 0 .. p : q \in ToCode
    <2>1. /\ p \in Int /\ p < picsRcvd /\ p >= 0 /\ p <= Frames
          /\ cfg.toEncode > 0 => p < cfg.toEncode
      BY <1>1, <1>2 DEF ToCode, Received, IsLeadTrail
    <2>2. \A q \in 0 .. p : q \in ToCode
      BY <1>1, <2>1 DEF ToCode, Received, IsLeadTrail
    <2> QED
      BY <1>1, <2>1, <2>2 DEF CodingNum
  <1>4. \A p, q \in 0 .. Frames :
          /\ cfg.codingNum[p] \in Nat
          /\ cfg.codingNum[p] = cfg.codingNum[q] => p = q
    BY <1>1, EncStagesGopAssumption
  <1>5. \A i \in Stages : \A p \in Pics(i) : ~ IsLeadTrail(p) => p \in ToCode
    BY ListTypes DEF FlowSafe, ToCode
  <1>6. \A p \in Pics(Gop) : p >= 0
    BY ListTypes, StageNames DEF FlowSafe, Ordered
  <1> QED
    BY <1>3, <1>4, <1>5, <1>6

\* The pre-processing keeps the picture that is coded first.
LEMMA LeaderKept ==
  ASSUME FlowSafe, Fed, NEW p \in ToCode, Leads(p), p \in Pics(Pre)
  PROVE  StartOfLastGop = {p} /\ cfg.group[p] = 0
  <1>1. /\ cfg \in Configs /\ Frames \in cfg.stops /\ Pre \in Stages
        /\ IsFiniteSet(Pics(Pre))
    BY FramesMax, PocTypes, StageNames
  <1>2. /\ \A q \in ToCode : /\ q \in 0 .. Frames /\ CodingNum(q) = cfg.codingNum[q]
                             /\ CodingNum(q) \in Nat /\ \A r \in 0 .. q : r \in ToCode
        /\ \A q, r \in ToCode : CodingNum(q) = CodingNum(r) => q = r
        /\ \A q \in Pics(Pre) : ~ IsLeadTrail(q) => q \in ToCode
    BY <1>1, ToCodeNumbers
  <1>3. ASSUME NEW q \in ToCode PROVE cfg.group[q] = 0
    <2>1. \A r \in 0 .. q : cfg.codingNum[r] # 0
      <3> TAKE r \in 0 .. q
      <3>1. r \in ToCode
        BY <1>2
      <3> QED
        BY <1>2, <3>1 DEF Leads
    <2>2. q \in 0 .. Frames
      BY <1>2
    <2> QED
      BY <1>1, <2>1, <2>2, EncStagesGopAssumption
  <1>4. PICK coded : coded = {q \in Pics(Pre) : ~ IsLeadTrail(q)}
    OBVIOUS
  <1>5. p \in coded /\ coded \subseteq ToCode /\ IsFiniteSet(coded)
    BY <1>1, <1>2, <1>4, FS_Subset DEF ToCode
  <1>6. \A q : Key(Gop, q) = CodingNum(q)
    BY DEF Key
  <1>7. Last(Gop, coded) \in coded
    <2>1. \A q \in coded : Key(Gop, q) \in Int
      BY <1>2, <1>5, <1>6
    <2> QED
      BY <1>5, <2>1, FiniteHasLast
  <1>8. {q \in coded : cfg.group[q] = cfg.group[Last(Gop, coded)]} = coded
    BY <1>3, <1>5, <1>7
  <1>9. StartOfLastGop = {First(Gop, coded)}
    <2>1. StartOfLastGop = IF coded = {} THEN {}
                           ELSE {First(Gop, {q \in coded : cfg.group[q] = cfg.group[Last(Gop, coded)]})}
      BY <1>4 DEF StartOfLastGop
    <2> QED
      BY <1>5, <1>8, <2>1
  <1>10. First(Gop, coded) = p
    <2>1. \A q \in coded : Key(Gop, p) <= Key(Gop, q)
      BY <1>5, <1>6 DEF Leads
    <2>2. \A x \in coded : (\A q \in coded : Key(Gop, x) <= Key(Gop, q)) => x = p
      <3> SUFFICES ASSUME NEW x \in coded, \A q \in coded : Key(Gop, x) <= Key(Gop, q)
                   PROVE  x = p
        OBVIOUS
      <3>1. CodingNum(x) <= CodingNum(p) /\ CodingNum(p) <= CodingNum(x)
            /\ CodingNum(x) \in Nat /\ CodingNum(p) \in Nat
        BY <1>2, <1>5, <1>6, <2>1
      <3> QED
        BY <1>2, <1>5, <3>1
    <2> QED
      BY <1>5, <2>1, <2>2 DEF First
  <1> QED
    BY <1>3, <1>9, <1>10

\* What was marked intra stays so, while its units do.
LEMMA IntraKept ==
  ASSUME FlowSafe, NEW i \in Stages, NEW un, NEW wanted, NEW free, NEW d,
         Flowed(i, un, wanted, free, d), NEW p,
         \A k \in Stages : p \in Pics(k) => un[list[k][p].unit].intra
  PROVE  Intra(p)'
  <1> SUFFICES ASSUME NEW k \in Stages, p \in Pics(k)' PROVE unit'[list'[k][p].unit].intra
    BY StageNames DEF Intra
  <1>1. \A m \in Stages : \A q \in Pics(m) : list[m][q].unit \in DOMAIN unit
    BY DEF FlowSafe, Linked, Links
  <1>2. PICK m \in Stages : p \in Pics(m) /\ list'[k][p].unit = list[m][p].unit
    BY DEF Flowed
  <1>3. PICK v : v = list[m][p].unit
    OBVIOUS
  <1>4. v \in DOMAIN unit /\ un[v].intra /\ list'[k][p].unit = v
    BY <1>1, <1>2, <1>3
  <1>5. unit'[v].intra = un[v].intra
    BY <1>4 DEF Flowed
  <1> QED
    BY <1>4, <1>5

\* A frame that stays stays intra.
LEMMA IntraStays ==
  ASSUME Stays, NEW p
  PROVE  Intra(p)' <=> Intra(p)
  BY DEF Stays, Intra

\* Which frame leads is decided by the input alone.
LEMMA LeadsSame ==
  ASSUME UNCHANGED <<cfg, picsRcvd>>
  PROVE  ToCode' = ToCode /\ \A p : Leads(p)' <=> Leads(p)
  <1>1. \A q : (IsLeadTrail(q)' <=> IsLeadTrail(q)) /\ CodingNum(q)' = CodingNum(q)
    BY ConfigSame
  <1>2. ToCode' = ToCode
    BY <1>1 DEF ToCode, Received
  <1> QED
    BY <1>1, <1>2 DEF Leads

\* The pre-processing marks the frame with coding number 0.
LEMMA LinkIntra ==
  ASSUME Shape, Linked, NEW last \in Pics(Pre)
  PROVE  LinkPrevQpaBufs(last)[list[Pre][last].unit].intra <=> last >= 0 /\ CodingNum(last) = 0
  <1>1. PICK a : a = IF IsLeadTrail(last) THEN {} ELSE {list[Pre][q].unit : q \in PrevPics(last)}
    OBVIOUS
  <1>2. PICK b \in BOOLEAN : b <=> (last >= 0 /\ CodingNum(last) = 0)
    OBVIOUS
  <1>3. PICK u \in DOMAIN unit : u = list[Pre][last].unit
    BY StageNames DEF Linked, Links
  <1>4. PICK r \in UnitRec : r = unit[u]
    BY ListTypes
  <1>5. LinkPrevQpaBufs(last)[u] = [r EXCEPT !.prev = a, !.intra = b]
    BY <1>1, <1>2, <1>3, <1>4 DEF LinkPrevQpaBufs
  <1>6. [r EXCEPT !.prev = a, !.intra = b].intra = b
    BY DEF UnitRec
  <1> QED
    BY <1>2, <1>3, <1>5, <1>6

\* A frame with coding number 0 is intra once it is linked.
LEMMA LedLink ==
  ASSUME FlowSafe, Fed, SameUnits, Led, UNCHANGED <<cfg, picsRcvd>>,
         NEW last \in Int, Linking(last)
  PROVE  Led'
  <1>1. /\ Shape /\ Linked /\ Ordered /\ Processed /\ Pre \in Stages /\ Stages = {Pre, Filter, Gop}
        /\ lastPoc \in Int /\ picsRcvd \in Int /\ cfg.lead \in Nat /\ cfg.lead <= 64
    BY PocTypes, StageNames, LeadIs DEF FlowSafe, Ordered, Stages
  <1>2. /\ last \in Pics(Pre) /\ last > lastPoc /\ last = picsRcvd - 1 /\ lastPoc' = last
        /\ main = "pre"
    BY DEF Linking
  <1>3. PICK un, u, free, wanted :
           /\ un = LinkPrevQpaBufs(last) /\ u = list[Pre][last].unit
           /\ free = Pics(Pre) \ KeptPics /\ wanted = {last}
    OBVIOUS
  <1>4. Flowed(Pre, un, wanted, free, last)
    BY <1>3 DEF Linking
  <1>5. /\ \A v \in DOMAIN unit : v # u => un[v] = unit[v]
        /\ un[u].intra <=> last >= 0 /\ CodingNum(last) = 0
    BY <1>1, <1>2, <1>3, LinkedAnew, LinkIntra
  <1>6. ToCode' = ToCode /\ (\A p : Leads(p)' <=> Leads(p)) /\ \A p : CodingNum(p)' = CodingNum(p)
    BY LeadsSame, ConfigSame
  <1>7. ASSUME NEW p \in ToCode, Leads(p), p \in Pics(Pre)
        PROVE  p \in Pics(Pre)'
    <2>1. p \in KeptPics
      BY <1>7, LeaderKept DEF KeptPics
    <2> QED
      BY <1>3, <1>4, <1>7, <2>1 DEF Flowed
  <1>8. ASSUME NEW p \in ToCode, p # last, p <= last
        PROVE  p <= lastPoc /\ (Intra(p) => Intra(p)')
    <2>1. p <= lastPoc
      <3>1. p \in Int /\ -cfg.lead <= p /\ p < last
        BY <1>1, <1>2, <1>8 DEF ToCode, Received
      <3> QED
        BY <1>1, <1>2, <3>1 DEF Processed
    <2>2. ASSUME Intra(p) PROVE Intra(p)'
      <3>1. ASSUME NEW k \in Stages, p \in Pics(k) PROVE un[list[k][p].unit].intra
        <4>1. PICK v : v = list[k][p].unit
          OBVIOUS
        <4>2. v \in DOMAIN unit /\ unit[v].poc = p /\ unit[u].poc = last
          BY <1>1, <1>2, <1>3, <3>1, <4>1 DEF Linked, Links
        <4>3. un[v] = unit[v]
          BY <1>5, <1>8, <4>2
        <4> QED
          BY <2>2, <3>1, <4>1, <4>3 DEF Intra
      <3> QED
        BY <1>1, <1>4, <3>1, IntraKept
    <2> QED
      BY <2>1, <2>2
  <1>9. ASSUME last \in ToCode, CodingNum(last) = 0
        PROVE  Intra(last)'
    <2>1. last >= 0
      BY <1>9, ToCodeNumbers
    <2>2. \A k \in Stages : last \in Pics(k) => list[k][last].unit = u
      BY <1>1, <1>2, <1>3 DEF SameUnits
    <2> QED
      BY <1>1, <1>4, <1>5, <1>9, <2>1, <2>2, IntraKept
  <1>10. ASSUME NEW p \in ToCode, p <= last
         PROVE  /\ CodingNum(p) = 0 => Intra(p)'
                /\ Leads(p) => p \in Pics(Pre)' \/ Intra(p)'
    <2>1. CASE p = last
      BY <1>2, <1>7, <1>9, <2>1
    <2>2. CASE p # last
      <3>1. /\ CodingNum(p) = 0 => Intra(p)
            /\ Leads(p) => p \in Pics(Pre) \/ Intra(p)
        BY <1>8, <1>10, <2>2 DEF Led
      <3> QED
        BY <1>7, <1>8, <1>10, <2>2, <3>1
    <2> QED
      BY <2>1, <2>2
  <1> QED
    BY <1>2, <1>6, <1>10 DEF Led

\* The flush makes the leading frame intra before it leaves.
LEMMA LedEmpty ==
  ASSUME FlowSafe, Fed, SameUnits, Led, UNCHANGED <<cfg, picsRcvd>>, Emptying
  PROVE  Led'
  <1>1. Shape /\ Linked /\ Pre \in Stages
    BY StageNames DEF FlowSafe
  <1>2. PICK un, wanted, free, d :
          un = FixStartOfLastGop /\ Flowed(Pre, un, wanted, free, d)
    BY DEF Emptying
  <1>3. \A v \in DOMAIN unit :
          un[v].intra <=> unit[v].intra \/ \E p \in StartOfLastGop :
                                             list[Pre][p].unit = v /\ cfg.group[p] = 0
    BY <1>1, <1>2, FixedStart
  <1>4. \A k \in Stages : \A p \in Pics(k) : list[k][p].unit \in DOMAIN unit
    BY <1>1 DEF Linked, Links
  <1>5. ToCode' = ToCode /\ (\A p : Leads(p)' <=> Leads(p)) /\ \A p : CodingNum(p)' = CodingNum(p)
    BY LeadsSame, ConfigSame
  <1>6. ASSUME NEW p, Intra(p) PROVE Intra(p)'
    <2>1. \A k \in Stages : p \in Pics(k) => un[list[k][p].unit].intra
      BY <1>3, <1>4, <1>6 DEF Intra
    <2> QED
      BY <1>1, <1>2, <2>1, IntraKept
  <1>7. ASSUME NEW p \in ToCode, Leads(p), p \in Pics(Pre) PROVE Intra(p)'
    <2>1. StartOfLastGop = {p} /\ cfg.group[p] = 0
      BY <1>7, LeaderKept
    <2>2. \A k \in Stages : p \in Pics(k) => list[k][p].unit = list[Pre][p].unit
      BY <1>1, <1>7 DEF SameUnits
    <2>3. \A k \in Stages : p \in Pics(k) => un[list[k][p].unit].intra
      BY <1>3, <1>4, <2>1, <2>2
    <2> QED
      BY <1>1, <1>2, <2>3, IntraKept
  <1>8. lastPoc' = lastPoc
    BY DEF Emptying
  <1> QED
    BY <1>5, <1>6, <1>7, <1>8 DEF Led

\* Steps after pre-processing keep Led.
LEMMA LedKept ==
  ASSUME Led, UNCHANGED <<cfg, picsRcvd, lastPoc>>, Pics(Pre) \subseteq Pics(Pre)',
         \A p : Intra(p) => Intra(p)'
  PROVE  Led'
  <1>1. ToCode' = ToCode /\ (\A p : Leads(p)' <=> Leads(p)) /\ \A p : CodingNum(p)' = CodingNum(p)
    BY LeadsSame, ConfigSame
  <1> QED
    BY <1>1 DEF Led

\* So does a new frame.
LEMMA LedTaking ==
  ASSUME FlowSafe, Led, NEW u, Taking(u)
  PROVE  Led'
  <1>1. /\ cfg' = cfg /\ lastPoc' = lastPoc /\ main = "input" /\ picsRcvd \in Int /\ lastPoc \in Int
        /\ cfg.lead \in Nat /\ cfg.lead <= 64 /\ Processed /\ picsRcvd' = picsRcvd + 1
    BY TakingIs, PocTypes, LeadIs DEF Taking, FlowSafe, Ordered
  <1>2. lastPoc < picsRcvd
    BY <1>1 DEF Processed, None
  <1>3. \A q : (IsLeadTrail(q)' <=> IsLeadTrail(q)) /\ CodingNum(q)' = CodingNum(q)
    BY <1>1, ConfigSame
  <1>4. ToCode \subseteq ToCode' /\ \A p \in ToCode' : p <= lastPoc => p \in ToCode
    BY <1>1, <1>2, <1>3 DEF ToCode, Received
  <1>5. \A p : Leads(p)' => Leads(p)
    BY <1>3, <1>4 DEF Leads
  <1>6. ASSUME NEW p, p # picsRcvd, Intra(p) PROVE Intra(p)'
    <2> SUFFICES ASSUME NEW k \in Stages, p \in Pics(k)' PROVE unit'[list'[k][p].unit].intra
      BY StageNames DEF Intra
    <2>1. p \in Pics(k)
      BY <1>6, TakingIs, StageNames DEF Stages
    <2>2. PICK v : v = list[k][p].unit
      OBVIOUS
    <2>3. list'[k][p].unit = v /\ unit'[v] = unit[v] /\ unit[v].intra
      BY <1>6, <2>1, <2>2, TakingIs DEF Intra
    <2> QED
      BY <2>3
  <1>7. Pics(Pre) \subseteq Pics(Pre)'
    BY TakingIs
  <1>8. ASSUME NEW p \in ToCode', p <= lastPoc
        PROVE  /\ CodingNum(p) = 0 => Intra(p)'
               /\ Leads(p)' => p \in Pics(Pre)' \/ Intra(p)'
    <2>1. p \in ToCode /\ p # picsRcvd
      BY <1>1, <1>2, <1>4, <1>8 DEF ToCode, Received
    <2> QED
      BY <1>5, <1>6, <1>7, <1>8, <2>1 DEF Led
  <1> QED
    BY <1>1, <1>3, <1>8 DEF Led

\* Every step keeps Led.
LEMMA LedNext ==
  ASSUME FlowSafe, Fed, SameUnits, Led, [Next]_vars,
         DOMAIN gop = {"input", "proc", "output", "lastCodingNum", "pocRecOut"}
  PROVE  Led'
  <1>1. {Pre, Filter, Gop} \subseteq Stages /\ Filter # Pre /\ Gop # Pre
    BY StageNames
  <1>2. \A u : Taking(u) => Led'
    BY LedTaking
  <1>3. ASSUME Stays, UNCHANGED <<cfg, picsRcvd, lastPoc>> PROVE Led'
    <2>1. Pics(Pre)' = Pics(Pre)
      BY <1>1, <1>3 DEF Stays
    <2> QED
      BY <1>3, <2>1, IntraStays, LedKept
  <1>4. ASSUME NEW i \in Stages, i # Pre, NEW un, un = unit, NEW wanted, NEW free, NEW d,
               Flowed(i, un, wanted, free, d), UNCHANGED <<cfg, picsRcvd, lastPoc>>
        PROVE  Led'
    <2>1. Pics(Pre) \subseteq Pics(Pre)'
      BY <1>1, <1>4 DEF Flowed
    <2>2. ASSUME NEW p, Intra(p) PROVE Intra(p)'
      <3>1. \A k \in Stages : p \in Pics(k) => un[list[k][p].unit].intra
        BY <1>4, <2>2 DEF Intra
      <3> QED
        BY <1>4, <3>1, IntraKept
    <2> QED
      BY <1>4, <2>1, <2>2, LedKept
  <1>5. CASE PreProcess
    <2>1. /\ (\E last \in Int : Linking(last)) \/ Emptying \/ Waits
          /\ UNCHANGED <<cfg, picsRcvd>>
      BY <1>5, PreProcessCases
    <2>2. Waits => Led'
      BY <1>3, <2>1 DEF Waits
    <2> QED
      BY <2>1, <2>2, LedLink, LedEmpty
  <1>6. CASE FilterPictures
    <2>1. /\ (\E last : Filtering(last)) \/ Idles
          /\ UNCHANGED <<cfg, picsRcvd, lastPoc>>
      BY <1>6, FilterCases DEF OnlyFlows
    <2>2. Idles => Led'
      BY <1>3, <2>1 DEF Idles
    <2>3. ASSUME NEW last, Filtering(last) PROVE Led'
      <3>1. PICK un, wanted, free, d : un = unit /\ Flowed(Filter, un, wanted, free, d)
        BY <2>3 DEF Filtering
      <3> QED
        BY <1>1, <1>4, <2>1, <3>1
    <2> QED
      BY <2>1, <2>2, <2>3
  <1>7. CASE ReleasePictures
    <2>1. Releasing /\ UNCHANGED <<cfg, picsRcvd, lastPoc>>
      BY <1>7, ReleaseCases DEF OnlyFlows
    <2>2. PICK un, wanted, free, d : un = unit /\ Flowed(Gop, un, wanted, free, d)
      BY <2>1 DEF Releasing
    <2> QED
      BY <1>1, <1>4, <2>1, <2>2
  <1>8. CASE Quiet
    BY <1>3, <1>8 DEF Quiet
  <1> QED
    BY <1>2, <1>5, <1>6, <1>7, <1>8, FrameSteps

-----------------------------------------------------------------------------
(***************************************************************************)
(* The steps by what they do to the GOP encoder's pictures and queues.     *)
(***************************************************************************)
SameQueue == /\ gop'.input = gop.input /\ gop'.proc = gop.proc /\ gop'.output = gop.output
             /\ gop'.lastCodingNum = gop.lastCodingNum

\* Pictures come to the list and leave it, and the calling thread goes on.
ListMoves ==
  /\ \A p \in Pics(Gop)' :
       \/ p \in Pics(Gop) /\ SameCoding(list'[Gop][p], list[Gop][p])
       \/ /\ p \notin Pics(Gop) /\ Fresh(list'[Gop][p])
          /\ p \in Pics(Filter) /\ p = filterPoc /\ Accepts(Gop, p)
  /\ \A p \in Pics(Gop) \ Pics(Gop)' : list[Gop][p].finished
CallMoves ==
  \/ call'.au = None /\ main' # "release"
  \/ call'.au = call.au /\ main \notin {"release", "end"}
  \/ call'.au = call.au /\ main' = main /\ Pics(Gop)' = Pics(Gop)
  \/ call'.au = call.au /\ main' = "end"
Moves ==
  /\ cfg' = cfg /\ ListMoves /\ CallMoves /\ SameQueue /\ busy' = busy
  /\ \/ main' = main
     \/ main = "encode" /\ main' = "output" /\ EndEncode
     \/ main = "output" /\ main' = "release" /\ ~ OutputReady
     \/ main \notin {"encode", "output"} /\ main' \notin {"encode", "output"}

\* A step of the GOP encoder on its own list.
Coded ==
  /\ UNCHANGED <<cfg, unit, lastPoc, filterPoc, lastPicIn, picsRcvd, auList, delivered>>
  /\ \A i \in Stages : Pics(i)' = Pics(i) /\ \A p \in Pics(i) : list'[i][p].unit = list[i][p].unit
  /\ call'.flush = call.flush

\* Picture p gets its slice header.
Heading(p) ==
  /\ Coded /\ main = "init" /\ busy' = busy /\ call' = call
  /\ p \in NextToInit
  /\ \E s \in SUBSET (cfg.refs[p] \cap Pics(Gop)) : Initialized(list[Gop], list'[Gop], p, s)
  /\ gop'.output = Append(gop.output, p) /\ gop'.lastCodingNum = CodingNum(p)
  /\ \/ gop'.input = Append(gop.input, p) /\ gop'.proc = gop.proc
     \/ gop.proc = <<>> /\ gop'.proc = Append(gop.input, p) /\ gop'.input = <<>>
  /\ cfg.parallel = 0 => /\ gop.proc = <<>> => gop'.proc = Append(gop.input, p) /\ gop'.input = <<>>
                         /\ main' = IF gop'.proc = <<>> THEN "output" ELSE "encode"
  /\ cfg.parallel # 0 => main' = "init"

\* There is none to get one.
Queueing ==
  /\ Coded /\ main = "init" /\ busy' = busy /\ call' = call /\ list' = list
  /\ gop'.output = gop.output /\ gop'.lastCodingNum = gop.lastCodingNum
  /\ IF gop.proc = <<>> THEN gop'.proc = gop.input /\ gop'.input = <<>>
     ELSE gop'.proc = gop.proc /\ gop'.input = gop.input
  /\ main' = IF gop'.proc = <<>> THEN "output" ELSE "encode"

\* A picture encoder starts.
Encoding(p) ==
  /\ Coded /\ main = "encode" /\ main' = main /\ call' = call /\ p \in Members(gop.proc)
  /\ Members(gop'.proc) = Members(gop.proc) \ {p} /\ gop.proc # <<>>
  /\ gop'.input = gop.input /\ gop'.output = gop.output /\ gop'.lastCodingNum = gop.lastCodingNum
  /\ \/ busy' = busy \cup {p} /\ list' = list
     \/ busy' = busy /\ Reconstructed(list[Gop], list'[Gop], p)

\* It ends.
Completing(p) ==
  /\ Coded /\ SameQueue /\ call' = call /\ main' = (IF main = "wait" THEN "input" ELSE main)
  /\ p \in busy /\ busy' = busy \ {p} /\ Reconstructed(list[Gop], list'[Gop], p)

\* An access unit is written.
Writing(p) ==
  /\ Coded /\ main = "output" /\ main' = "release" /\ call'.au = p /\ busy' = busy
  /\ gop.output # <<>> /\ p = Head(gop.output) /\ p \in Open(list[Gop]) /\ list[Gop][p].recon
  /\ gop'.output = Tail(gop.output) /\ gop'.input = gop.input /\ gop'.proc = gop.proc
  /\ gop'.lastCodingNum = gop.lastCodingNum
  /\ Written(list[Gop], list'[Gop], p)

\* Steps that move no frame and code none only go on.
LEMMA StaysMoves ==
  ASSUME Stays, \A p \in Pics(Gop) : SameCoding(list'[Gop][p], list[Gop][p])
  PROVE  ListMoves /\ Pics(Gop)' = Pics(Gop)
  BY StageNames DEF Stays, ListMoves

\* So do steps that do not touch the lists.
LEMMA SameListMoves ==
  ASSUME list' = list
  PROVE  ListMoves /\ Pics(Gop)' = Pics(Gop)
  BY SameCodingSelf DEF ListMoves, Pics

\* Input takes a frame or has none to take.
LEMMA InputSteps ==
  ASSUME FlowSafe, AddInput
  PROVE  \/ \E u : Taking(u)
         \/ /\ list' = list /\ call' = call /\ main = "input" /\ main' = "pre"
            /\ UNCHANGED <<cfg, unit, lastPoc, filterPoc, lastPicIn, gop, busy, picsRcvd, auList, delivered>>
  <1>1. /\ main = "input" /\ main' = "pre"
        /\ UNCHANGED <<cfg, lastPoc, filterPoc, lastPicIn, gop, busy, auList, delivered>>
    BY DEF AddInput, looking
  <1>2. CASE call.pending /\ FreeUnit # {}
    <2>1. PICK u \in FreeUnit : TakeUnit(u)
      BY <1>2 DEF AddInput, TakeUnit
    <2>2. Spare(u)
      BY FreeUnitSpare
    <2> QED
      BY <1>1, <1>2, <2>1, <2>2 DEF Taking
  <1>3. CASE ~ (call.pending /\ FreeUnit # {})
    BY <1>1, <1>3 DEF AddInput
  <1> QED
    BY <1>2, <1>3

\* Nothing goes to the GOP encoder's list but what the filter has filtered.
LEMMA PreMoves ==
  ASSUME FlowSafe, PreProcess
  PROVE  Moves
  <1>1. /\ (\E last \in Int : Linking(last)) \/ Emptying \/ Waits
        /\ UNCHANGED <<cfg, gop, busy, call>>
    BY PreProcessCases
  <1>2. /\ {Pre, Filter, Gop} \subseteq Stages /\ Gop # Pre /\ cfg \in Configs /\ Pre + 1 = Filter
        /\ Filter < Gop /\ \A k \in Stages : k >= Filter /\ k < Gop => k = Filter
    BY StageNames, PocTypes
  <1>3. \A q \in Int : Accepts(Gop, q) => Accepts(Filter, q)
    BY <1>2, LeadIs
  <1>4. ASSUME NEW last \in Int, Linking(last)
        PROVE  ListMoves
    <2>1. PICK un, wanted, free : Flowed(Pre, un, wanted, free, last)
      BY <1>4 DEF Linking
    <2>2. ~ (Accepts(Gop, last) /\ Takers(Pre + 1, last) = {Gop})
      <3> SUFFICES ASSUME Accepts(Gop, last), Takers(Pre + 1, last) = {Gop} PROVE FALSE
        OBVIOUS
      <3>1. Gop \in Takers(Filter, last)
        BY <1>2
      <3>2. Filter \in Filter .. (Gop - 1)
        BY StageNames
      <3>3. ~ Accepts(Filter, last)
        BY <3>1, <3>2 DEF Takers
      <3> QED
        BY <1>3, <3>3
    <2>3. \A p \in Pics(Gop)' : p \in Pics(Gop) /\ SameCoding(list'[Gop][p], list[Gop][p])
      BY <1>2, <2>1, <2>2 DEF Flowed
    <2>4. Pics(Gop) \subseteq Pics(Gop)'
      BY <1>2, <2>1 DEF Flowed
    <2> QED
      BY <2>3, <2>4 DEF ListMoves
  <1>5. ASSUME Emptying PROVE ListMoves
    <2>1. PICK un, free : Flowed(Pre, un, {}, free, 0)
      BY <1>5 DEF Emptying
    <2>2. \A p \in Pics(Gop)' : p \in Pics(Gop) /\ SameCoding(list'[Gop][p], list[Gop][p])
      BY <1>2, <2>1 DEF Flowed
    <2>3. Pics(Gop) \subseteq Pics(Gop)'
      BY <1>2, <2>1 DEF Flowed
    <2> QED
      BY <2>2, <2>3 DEF ListMoves
  <1>6. ASSUME Waits PROVE ListMoves
    BY <1>2, <1>6, StaysMoves DEF Waits
  <1>7. main = "pre" /\ main' \in {"pre", "filter"}
    BY <1>1 DEF Linking, Emptying, Waits
  <1>8. ListMoves
    BY <1>1, <1>4, <1>5, <1>6
  <1> QED
    BY <1>1, <1>7, <1>8 DEF Moves, CallMoves, SameQueue

\* The filter moves pictures.
LEMMA FilterMoves ==
  ASSUME FlowSafe, FilterPictures
  PROVE  Moves
  <1>1. /\ (\E last : Filtering(last)) \/ Idles
        /\ UNCHANGED <<cfg, gop, busy, call>>
    BY FilterCases DEF OnlyFlows
  <1>2. /\ {Pre, Filter, Gop} \subseteq Stages /\ Gop # Filter
    BY StageNames
  <1>3. ASSUME NEW last, Filtering(last)
        PROVE  ListMoves
    <2>1. PICK un, wanted, free : Flowed(Filter, un, wanted, free, filterPoc)
      BY <1>3 DEF Filtering
    <2>2. \A p \in Pics(Gop)' :
            \/ p \in Pics(Gop) /\ SameCoding(list'[Gop][p], list[Gop][p])
            \/ /\ p = filterPoc /\ filterPoc \in Pics(Filter) /\ p \notin Pics(Gop)
               /\ Accepts(Gop, filterPoc) /\ Fresh(list'[Gop][p])
      BY <1>2, <2>1 DEF Flowed
    <2>3. Pics(Gop) \subseteq Pics(Gop)'
      BY <1>2, <2>1 DEF Flowed
    <2> QED
      BY <2>2, <2>3 DEF ListMoves
  <1>4. ASSUME Idles PROVE ListMoves
    BY <1>2, <1>4, StaysMoves DEF Idles
  <1>5. main = "filter" /\ main' \in {"filter", "gop"}
    BY <1>1 DEF Filtering, Idles
  <1>6. ListMoves
    BY <1>1, <1>3, <1>4
  <1> QED
    BY <1>1, <1>5, <1>6 DEF Moves, CallMoves, SameQueue

\* So does releasing.
LEMMA ReleaseMoves ==
  ASSUME FlowSafe, DOMAIN gop = {"input", "proc", "output", "lastCodingNum", "pocRecOut"},
         ReleasePictures
  PROVE  Moves
  <1>1. Releasing /\ UNCHANGED <<cfg, busy, call>>
    BY ReleaseCases DEF OnlyFlows
  <1>2. Shape /\ Gop \in Stages
    BY StageNames DEF FlowSafe
  <1>3. \A p \in Pics(Gop)' : p \in Pics(Gop) /\ SameCoding(list'[Gop][p], list[Gop][p])
    BY <1>1, <1>2, ReleasingIs
  <1>4. PICK free : /\ free = {p \in Pics(Gop) : AllPicsDone \/ Unneeded(Outputs[p])}
                    /\ Pics(Gop)' = Pics(Gop) \ free
    BY <1>1 DEF Releasing, Flowed
  <1>5. ASSUME NEW p \in Pics(Gop) \ Pics(Gop)' PROVE list[Gop][p].finished
    <2>1. AllPicsDone \/ Unneeded(Outputs[p])
      BY <1>4
    <2>2. AllPicsDone => list[Gop][p].finished
      BY DEF AllPicsDone, GopList
    <2> QED
      BY <1>2, <2>1, <2>2, OutputsCoding
  <1>6. ListMoves
    BY <1>3, <1>5 DEF ListMoves
  <1>7. SameQueue
    BY <1>1 DEF Releasing, SameQueue
  <1>8. main = "release" /\ main' = "end"
    BY <1>1 DEF Releasing
  <1> QED
    BY <1>1, <1>6, <1>7, <1>8 DEF Moves, CallMoves

\* So does input.
LEMMA TakingMoves ==
  ASSUME FlowSafe, NEW u, Taking(u)
  PROVE  Moves
  <1>1. /\ list'[Gop] = list[Gop] /\ Pics(Gop)' = Pics(Gop) /\ call'.au = call.au
    BY TakingIs
  <1>2. ListMoves
    BY <1>1, SameCodingSelf DEF ListMoves, Pics
  <1>3. UNCHANGED <<cfg, gop, busy>> /\ main = "input" /\ main' = "pre"
    BY DEF Taking
  <1> QED
    BY <1>1, <1>2, <1>3 DEF Moves, CallMoves, SameQueue

\* The remaining steps only go on.
LEMMA QuietMoves ==
  ASSUME FlowSafe, DOMAIN call = {"flush", "pending", "au"},
         \/ EncodeFrame \/ EncodeFlush \/ StartGop \/ EndEncode \/ EndOfStages \/ UNCHANGED vars
         \/ (WriteAccessUnit /\ ~ OutputReady)
  PROVE  Moves
  <1>1. Shape /\ Gop \in Stages /\ call.flush \in BOOLEAN
    BY StageNames DEF FlowSafe, CallSafe
  <1>2. CASE EncodeFrame \/ EncodeFlush
    <2>1. /\ list' = list /\ UNCHANGED <<cfg, gop, busy>> /\ main = "idle" /\ main' = "input"
          /\ call'.au = call.au
      BY <1>2 DEF EncodeFrame, EncodeFlush, stages
    <2> QED
      BY <2>1, SameListMoves DEF Moves, CallMoves, SameQueue
  <1>3. CASE StartGop
    <2>1. /\ list' = [list EXCEPT ![Gop] = Marked(Gop)] /\ unit' = unit
          /\ UNCHANGED <<cfg, gop, busy, call>>
          /\ main = "gop" /\ main' \in {"init", "end"}
      BY <1>3 DEF StartGop, looking, returned
    <2>2. ListMoves
      BY <1>1, <2>1, MarkedStays, StaysMoves
    <2> QED
      BY <2>1, <2>2 DEF Moves, CallMoves, SameQueue
  <1>4. CASE EndEncode
    <2>1. /\ list' = list /\ UNCHANGED <<cfg, gop, busy, call>>
          /\ main = "encode" /\ main' = "output"
      BY <1>4 DEF EndEncode, stages, looking, returned
    <2> QED
      BY <1>4, <2>1, SameListMoves DEF Moves, CallMoves, SameQueue
  <1>5. CASE EndOfStages
    <2>1. /\ list' = list /\ UNCHANGED <<cfg, gop, busy>>
          /\ main = "end" /\ main' \in {"wait", "input", "idle", "done"} /\ call'.au = None
      BY <1>5 DEF EndOfStages, StayInCall, ReturnFromCall, stages, looking
    <2> QED
      BY <2>1, SameListMoves DEF Moves, CallMoves, SameQueue
  <1>6. CASE UNCHANGED vars
    <2>1. list' = list /\ UNCHANGED <<cfg, gop, busy, main, call>>
      BY <1>6 DEF vars, stages, looking, returned
    <2> QED
      BY <2>1, SameListMoves DEF Moves, CallMoves, SameQueue
  <1>7. CASE WriteAccessUnit /\ ~ OutputReady
    <2>1. /\ list' = list /\ UNCHANGED <<cfg, gop, busy, call>>
          /\ main = "output" /\ main' = "release"
      BY <1>7 DEF WriteAccessUnit, looking, returned
    <2> QED
      BY <1>7, <2>1, SameListMoves DEF Moves, CallMoves, SameQueue
  <1> QED
    BY <1>2, <1>3, <1>4, <1>5, <1>6, <1>7

\* The GOP encoder's list l becomes m.
LEMMA CodedIs ==
  ASSUME Shape, NEW m, list'[Gop] = m, \A i \in Stages : i # Gop => list'[i] = list[i],
         DOMAIN m = Pics(Gop), \A p \in Pics(Gop) : m[p].unit = list[Gop][p].unit,
         UNCHANGED <<cfg, unit, lastPoc, filterPoc, lastPicIn, picsRcvd, auList, delivered>>,
         call'.flush = call.flush
  PROVE  Coded
  BY DEF Coded, Pics

\* Steps of the GOP encoder that leave the lists alone.
LEMMA SameListCoded ==
  ASSUME list' = list,
         UNCHANGED <<cfg, unit, lastPoc, filterPoc, lastPicIn, picsRcvd, auList, delivered>>,
         call'.flush = call.flush
  PROVE  Coded
  BY DEF Coded, Pics

\* The CHECK of the first picture.
FirstIntra(p) == ok' <=> ok /\ (gop.lastCodingNum = -1 => unit[GopList[p].unit].intra)

\* A slice header is written, or pictures with one are queued for encoders.
LEMMA InitCases ==
  ASSUME FlowSafe, Fed, CodingSafe, InitPicture
  PROVE  \/ Queueing /\ (ok' <=> ok)
         \/ \E p \in Pics(Gop) : Heading(p) /\ FirstIntra(p)
  <1>1. /\ Shape /\ DOMAIN list = Stages /\ Gop \in Stages /\ main = "init" /\ busy' = busy
        /\ DOMAIN gop = {"input", "proc", "output", "lastCodingNum", "pocRecOut"}
        /\ UNCHANGED <<cfg, unit, lastPoc, filterPoc, lastPicIn, picsRcvd, auList, delivered, call>>
        /\ gop.input \in Seq(Int)
    BY StageNames DEF FlowSafe, Shape, CodingSafe, Apart, OneEach, InitPicture, looking, returned
  <1>2. CASE NextToInit = {}
    <2>1. /\ gop' = TakeInput(gop) /\ list' = list /\ ok' = ok
          /\ main' = IF gop'.proc = <<>> THEN "output" ELSE "encode"
      BY <1>2 DEF InitPicture, Encode
    <2>2. /\ gop'.output = gop.output /\ gop'.lastCodingNum = gop.lastCodingNum
          /\ IF gop.proc = <<>> THEN gop'.proc = gop.input /\ gop'.input = <<>>
             ELSE gop'.proc = gop.proc /\ gop'.input = gop.input
      BY <1>1, <2>1 DEF TakeInput
    <2> QED
      BY <1>1, <2>1, <2>2, SameListCoded DEF Queueing
  <1>3. CASE NextToInit # {}
    <2>1. PICK p \in NextToInit :
            /\ list' = [list EXCEPT ![Gop] = InitFirstSlice(p)]
            /\ ok' = (ok /\ (gop.lastCodingNum = -1 => unit[GopList[p].unit].intra))
            /\ LET g == [gop EXCEPT !.input = Append(@, p), !.output = Append(@, p),
                                    !.lastCodingNum = CodingNum(p)]
               IN IF cfg.parallel = 0 THEN Encode(g) ELSE gop' = g /\ main' = "init"
      BY <1>3 DEF InitPicture
    <2>2. PICK m, s, in, out : /\ m = InitFirstSlice(p) /\ s = Rpl(p) \cap cfg.refs[p]
                               /\ in = Append(gop.input, p) /\ out = Append(gop.output, p)
      OBVIOUS
    <2>3. PICK g : g = [gop EXCEPT !.input = in, !.output = out, !.lastCodingNum = CodingNum(p)]
      OBVIOUS
    <2>4. IF cfg.parallel = 0 THEN Encode(g) ELSE gop' = g /\ main' = "init"
      BY <2>1, <2>2, <2>3
    <2>5. /\ g.input = in /\ g.output = out /\ g.lastCodingNum = CodingNum(p) /\ g.proc = gop.proc
          /\ DOMAIN g = DOMAIN gop
      BY <1>1, <2>3
    <2>6. p \in Pics(Gop) /\ ~ list[Gop][p].init
      BY DEF NextToInit, Uninitialized, GopList
    <2>7. list'[Gop] = m /\ \A i \in Stages : i # Gop => list'[i] = list[i]
      BY <1>1, <2>1, <2>2
    <2>8. /\ DOMAIN m = Pics(Gop) /\ m[p].init /\ m[p].refs = s
          /\ m[p].refCount = list[Gop][p].refCount
          /\ \A q \in Pics(Gop) : m[q].unit = list[Gop][q].unit
          /\ \A q \in Pics(Gop) : q # p =>
               /\ m[q].init = list[Gop][q].init /\ m[q].refs = list[Gop][q].refs
               /\ m[q].refCount = list[Gop][q].refCount + (IF q \in s THEN 1 ELSE 0)
          /\ \A q \in Pics(Gop) :
               m[q].recon = list[Gop][q].recon /\ m[q].finished = list[Gop][q].finished
      BY <1>1, <2>2, <2>6, InitFirstSliceList
    <2>9. Initialized(list[Gop], m, p, s) /\ s \in SUBSET (cfg.refs[p] \cap Pics(Gop))
      <3>1. p \notin cfg.refs[p]
        <4>1. p \in 0 .. Frames /\ CodingNum(p) \in Nat
              /\ (p \in cfg.refs[p] => CodingNum(p) < CodingNum(p))
          BY <2>6, CodingNumbers
        <4> QED
          BY <4>1
      <3>2. s \subseteq cfg.refs[p] \cap Pics(Gop) /\ p \notin s
        BY <2>2, <3>1 DEF Rpl
      <3>3. list[Gop][p].refCount \in Int
        BY <1>1, <2>6, ListTypes, PicFields
      <3>4. \A q \in Pics(Gop) : m[q].refCount = list[Gop][q].refCount + (IF q \in s THEN 1 ELSE 0)
        <4> TAKE q \in Pics(Gop)
        <4>1. CASE q = p
          BY <4>1, <2>8, <3>2, <3>3
        <4>2. CASE q # p
          BY <4>2, <2>8
        <4> QED
          BY <4>1, <4>2
      <3> QED
        BY <2>6, <2>8, <3>2, <3>4 DEF Initialized, Pics
    <2>10. Coded
      BY <1>1, <2>7, <2>8, CodedIs
    <2>11. CASE cfg.parallel = 0
      <3>1. gop' = TakeInput(g) /\ main' = IF gop'.proc = <<>> THEN "output" ELSE "encode"
        BY <2>4, <2>11 DEF Encode
      <3>2. /\ gop'.output = out /\ gop'.lastCodingNum = CodingNum(p)
            /\ IF gop.proc = <<>> THEN gop'.proc = in /\ gop'.input = <<>>
               ELSE gop'.proc = gop.proc /\ gop'.input = in
        BY <1>1, <2>5, <3>1 DEF TakeInput
      <3>3. Heading(p)
        BY <1>1, <2>1, <2>2, <2>7, <2>9, <2>10, <2>11, <3>1, <3>2 DEF Heading
      <3>4. FirstIntra(p)
        BY <2>1 DEF FirstIntra
      <3> QED
        BY <2>6, <3>3, <3>4
    <2>12. CASE cfg.parallel # 0
      <3>1. gop' = g /\ main' = "init"
        BY <2>4, <2>12
      <3>2. Heading(p)
        BY <1>1, <2>1, <2>2, <2>5, <2>7, <2>9, <2>10, <2>12, <3>1 DEF Heading
      <3>3. FirstIntra(p)
        BY <2>1 DEF FirstIntra
      <3> QED
        BY <2>6, <3>2, <3>3
    <2> QED
      BY <2>11, <2>12
  <1> QED
    BY <1>2, <1>3

\* An encoder is started for a picture.
LEMMA EncodeCases ==
  ASSUME FlowSafe, CodingSafe, EncodePicture
  PROVE  \E p : Encoding(p)
  <1>1. /\ Shape /\ DOMAIN list = Stages /\ Gop \in Stages
        /\ DOMAIN gop = {"input", "proc", "output", "lastCodingNum", "pocRecOut"}
        /\ Apart(gop, busy) /\ AllOpen(gop, busy, list[Gop])
    BY StageNames DEF FlowSafe, Shape, CodingSafe, Apart
  <1>2. /\ main = "encode" /\ main' = main /\ call' = call
        /\ UNCHANGED <<cfg, unit, lastPoc, filterPoc, lastPicIn, picsRcvd, auList, delivered>>
    BY DEF EncodePicture, looking, returned
  <1>3. PICK n \in ReadyToEncode : n = Min(ReadyToEncode)
    <2>1. ReadyToEncode \in SUBSET Nat /\ ReadyToEncode # {}
      <3>1. gop.proc \in Seq(Int)
        BY <1>1 DEF Apart, OneEach
      <3>2. DOMAIN gop.proc \subseteq Nat
        BY <3>1, LenProperties
      <3> QED
        BY <3>2 DEF ReadyToEncode, EncodePicture, CanStart
    <2>2. \E k \in ReadyToEncode : \A j \in ReadyToEncode : j >= k
      <3>1. PICK k \in ReadyToEncode : \A j \in ReadyToEncode : k <= j
        BY <2>1, LeastMember
      <3> QED
        BY <2>1, <3>1
    <2> QED
      BY <2>2 DEF Min
  <1>4. PICK p, t : /\ p = gop.proc[n]
                    /\ t = SubSeq(gop.proc, 1, n - 1) \o SubSeq(gop.proc, n + 1, Len(gop.proc))
    OBVIOUS
  <1>5. n \in DOMAIN gop.proc /\ p \in Members(gop.proc)
    BY <1>3, <1>4 DEF ReadyToEncode, Members
  <1>6. Members(t) = Members(gop.proc) \ {p}
    BY <1>1, <1>4, <1>5, Removed DEF Apart
  <1>7. /\ gop' = [gop EXCEPT !.proc = t]
        /\ IF cfg.threads THEN busy' = busy \cup {p} /\ UNCHANGED list
           ELSE list' = [list EXCEPT ![Gop][p].recon = TRUE] /\ UNCHANGED busy
    <2>1. /\ gop' = [gop EXCEPT !.proc = SubSeq(@, 1, n - 1) \o SubSeq(@, n + 1, Len(@))]
          /\ IF cfg.threads THEN busy' = busy \cup {gop.proc[n]} /\ UNCHANGED list
             ELSE list' = [list EXCEPT ![Gop][gop.proc[n]].recon = TRUE] /\ UNCHANGED busy
      BY <1>3 DEF EncodePicture
    <2> QED
      BY <2>1, <1>4
  <1>8. /\ gop'.input = gop.input /\ gop'.proc = t /\ gop'.output = gop.output
        /\ gop'.lastCodingNum = gop.lastCodingNum
    BY <1>1, <1>7
  <1>9. p \in Pics(Gop) /\ gop.proc # <<>>
    BY <1>1, <1>5 DEF AllOpen, Open, Pics
  <1>10. CASE cfg.threads
    <2>1. busy' = busy \cup {p} /\ list' = list
      BY <1>7, <1>10
    <2>2. Coded
      BY <1>2, <2>1, SameListCoded
    <2> QED
      BY <1>2, <1>5, <1>6, <1>8, <1>9, <2>1, <2>2 DEF Encoding
  <1>11. CASE ~ cfg.threads
    <2>1. busy' = busy /\ list' = [list EXCEPT ![Gop][p].recon = TRUE]
      BY <1>7, <1>11
    <2>2. Reconstructed(list[Gop], list'[Gop], p)
      BY <1>1, <1>9, <2>1, ReconstructedList
    <2>3. Stays
      BY <1>1, <1>2, <2>1, ReconStays
    <2>4. Coded
      BY <1>2, <2>3 DEF Coded, Stays
    <2> QED
      BY <1>2, <1>5, <1>6, <1>8, <1>9, <2>1, <2>2, <2>4 DEF Encoding
  <1> QED
    BY <1>10, <1>11

\* An encoder ends with its picture reconstructed.
LEMMA FinishCases ==
  ASSUME FlowSafe, CodingSafe, NEW p \in busy, FinishPicture(p)
  PROVE  Completing(p)
  <1>1. /\ Shape /\ AllOpen(gop, busy, list[Gop])
    BY DEF FlowSafe, CodingSafe
  <1>2. /\ UNCHANGED <<cfg, unit, lastPoc, filterPoc, lastPicIn, picsRcvd, auList, delivered, gop, call>>
        /\ list' = [list EXCEPT ![Gop][p].recon = TRUE] /\ busy' = busy \ {p}
        /\ main' = IF main = "wait" THEN "input" ELSE main
    BY DEF FinishPicture, looking, returned
  <1>3. p \in Pics(Gop)
    BY <1>1 DEF AllOpen, Open, Pics
  <1>4. Reconstructed(list[Gop], list'[Gop], p)
    BY <1>1, <1>2, <1>3, ReconstructedList
  <1>5. Stays
    BY <1>1, <1>2, ReconStays
  <1>6. Coded
    BY <1>2, <1>5 DEF Coded, Stays
  <1> QED
    BY <1>2, <1>4, <1>6 DEF Completing, SameQueue

\* The access unit of a picture is written.
LEMMA WriteCases ==
  ASSUME FlowSafe, CodingSafe, WriteAccessUnit, OutputReady, DOMAIN call = {"flush", "pending", "au"}
  PROVE  \E p : Writing(p)
  <1>1. /\ Shape /\ DOMAIN list = Stages /\ Gop \in Stages
        /\ DOMAIN gop = {"input", "proc", "output", "lastCodingNum", "pocRecOut"}
        /\ Apart(gop, busy) /\ AllOpen(gop, busy, list[Gop])
    BY StageNames DEF FlowSafe, Shape, CodingSafe, Apart
  <1>2. PICK p, m : p = Head(gop.output) /\ m = WrittenList(p)
    OBVIOUS
  <1>3. /\ list' = [list EXCEPT ![Gop] = m] /\ gop' = [gop EXCEPT !.output = Tail(@)]
        /\ call' = [call EXCEPT !.au = p]
        /\ main = "output" /\ main' = "release" /\ busy' = busy
        /\ UNCHANGED <<cfg, unit, lastPoc, filterPoc, lastPicIn, picsRcvd, auList, delivered>>
    BY <1>2 DEF WriteAccessUnit, WrittenList, looking, returned
  <1>4. list'[Gop] = m /\ \A i \in Stages : i # Gop => list'[i] = list[i]
    BY <1>1, <1>3
  <1>5. gop.output # <<>> /\ list[Gop][p].recon /\ OneEach(gop.output)
    BY <1>1, <1>2 DEF OutputReady, GopList, Apart
  <1>6. p \in Members(gop.output) /\ p \in Open(list[Gop])
    BY <1>1, <1>2, <1>5, Tailed DEF AllOpen
  <1>7. Written(list[Gop], m, p)
    BY <1>1, <1>2, <1>6, WrittenListIs DEF Written, Pics
  <1>8. DOMAIN m = Pics(Gop) /\ \A q \in Pics(Gop) : m[q].unit = list[Gop][q].unit
    BY <1>1, <1>2, WrittenListIs
  <1>9. call'.flush = call.flush /\ call'.au = p
    BY <1>3
  <1>10. Coded
    BY <1>1, <1>3, <1>4, <1>8, <1>9, CodedIs
  <1>11. /\ gop'.output = Tail(gop.output) /\ gop'.input = gop.input /\ gop'.proc = gop.proc
         /\ gop'.lastCodingNum = gop.lastCodingNum
    BY <1>1, <1>3
  <1> QED
    BY <1>2, <1>3, <1>4, <1>5, <1>6, <1>7, <1>9, <1>10, <1>11 DEF Writing

\* The steps, by what they do to the GOP encoder.
LEMMA GopSteps ==
  ASSUME FlowSafe, Fed, CodingSafe, [Next]_vars
  PROVE  \/ Moves \/ Queueing \/ (\E p \in Pics(Gop) : Heading(p))
         \/ (\E p : Encoding(p)) \/ (\E p : Completing(p)) \/ (\E p : Writing(p))
  <1>1. /\ DOMAIN call = {"flush", "pending", "au"}
        /\ DOMAIN gop = {"input", "proc", "output", "lastCodingNum", "pocRecOut"}
    BY DEF FlowSafe, CallSafe, CodingSafe, Apart
  <1>2. CASE AddInput
    <2>1. CASE \E u : Taking(u)
      BY <2>1, TakingMoves
    <2>2. CASE /\ list' = list /\ call' = call /\ main = "input" /\ main' = "pre"
               /\ UNCHANGED <<cfg, gop, busy>>
      BY <2>2, SameListMoves DEF Moves, CallMoves, SameQueue
    <2> QED
      BY <1>2, <2>1, <2>2, InputSteps
  <1>3. CASE InitPicture
    BY <1>3, InitCases
  <1>4. CASE EncodePicture
    BY <1>4, EncodeCases
  <1>5. CASE \E p \in busy : FinishPicture(p)
    BY <1>5, FinishCases
  <1>6. CASE WriteAccessUnit /\ OutputReady
    BY <1>1, <1>6, WriteCases
  <1>7. CASE PreProcess \/ FilterPictures \/ ReleasePictures
    BY <1>1, <1>7, PreMoves, FilterMoves, ReleaseMoves
  <1>8. CASE \/ EncodeFrame \/ EncodeFlush \/ StartGop \/ EndEncode \/ EndOfStages \/ UNCHANGED vars
             \/ (WriteAccessUnit /\ ~ OutputReady)
    BY <1>1, <1>8, QuietMoves
  <1> QED
    BY <1>2, <1>3, <1>4, <1>5, <1>6, <1>7, <1>8 DEF Next, RunStages, Done

-----------------------------------------------------------------------------
(***************************************************************************)
(* The invariant of the coding order.  A picture whose slice header is     *)
(* written waits for an encoder, has one, or is reconstructed; headers are *)
(* written in coding order, so references get theirs first.                *)
(***************************************************************************)
Wanted == \A p \in Pics(Gop) : ~ IsLeadTrail(p)
Queued(p) == p \in Members(gop.input) \cup Members(gop.proc) \cup busy
Placed == \A p \in Pics(Gop) : list[Gop][p].init /\ ~ list[Gop][p].recon => Queued(p)
Numbered ==
  /\ gop.lastCodingNum \in Int /\ gop.lastCodingNum >= -1
  /\ \A p \in Pics(Gop) : list[Gop][p].init <=> CodingNum(p) <= gop.lastCodingNum
Sequenced == \A p \in Members(gop.proc), q \in Members(gop.input) : CodingNum(p) < CodingNum(q)
RefsBefore ==
  \A p \in Open(list[Gop]) : \A r \in list[Gop][p].refs :
    list[Gop][r].init /\ CodingNum(r) < CodingNum(p)
Order == Wanted /\ Placed /\ Numbered /\ Sequenced /\ RefsBefore

\* All coding numbers up to the last one have been seen, as long as no flush has
\* emptied the stages before.
Begun == gop.lastCodingNum >= 0 => picsRcvd > 0
Gapless ==
  \/ \A k \in 0 .. gop.lastCodingNum : \E p \in 0 .. filterPoc - 1 : CodingNum(p) = k
  \/ call.flush /\ Pics(Pre) = {} /\ Pics(Filter) = {}

\* What the filter has passed on is in the list until it is coded.
Passed == {p \in ToCode : p < filterPoc /\ p <= lastPoc}
Conserved == \A p \in Passed : p \in Pics(Gop) \/ CodingNum(p) <= gop.lastCodingNum

\* Without parallel pictures there is one at a time.
OneByOne ==
  cfg.parallel = 0 =>
    /\ gop.input = <<>>
    /\ \/ gop.output = <<>> /\ gop.proc = <<>> /\ busy = {}
       \/ /\ main \in {"encode", "output"}
          /\ gop.output # <<>> /\ Tail(gop.output) = <<>>
          /\ Members(gop.proc) \cup busy \subseteq {Head(gop.output)}
          /\ main = "output" => gop.proc = <<>> /\ busy = {}

\* The access unit that encodePicture has got belongs to a picture of the list.
AuHeld ==
  /\ main \notin {"release", "end"} => call.au = None
  /\ main = "release" => call.au = None \/ call.au \in Pics(Gop)

CodingFlow == Led /\ Order /\ Begun /\ Gapless /\ Conserved /\ OneByOne /\ AuHeld

-----------------------------------------------------------------------------
(***************************************************************************)
(* Its proof.                                                              *)
(***************************************************************************)
LEMMA Numbering ==
  ASSUME FlowSafe, Fed
  PROVE  /\ \A p \in 0 .. Frames : /\ CodingNum(p) = cfg.codingNum[p] /\ CodingNum(p) \in Nat
                                   /\ \A q \in 0 .. Frames :
                                        /\ CodingNum(p) = CodingNum(q) => p = q
                                        /\ q \in cfg.refs[p] => CodingNum(q) < CodingNum(p)
         /\ \A i \in Stages : \A p \in Pics(i) : p \in Int /\ p < picsRcvd /\ p <= Frames
         /\ \A p \in Pics(Gop) : p \in 0 .. Frames
         /\ \A p \in ToCode : p \in 0 .. Frames
         /\ Frames \in Nat
  <1>1. /\ cfg \in Configs /\ Frames \in cfg.stops /\ Frames \in Nat /\ cfg.lead \in Nat
        /\ picsRcvd \in Int
    BY FramesMax, ConfigType DEF FlowSafe, Shape
  <1>2. picsRcvd <= Frames - cfg.lead
    <2>1. picsRcvd + (IF call.pending THEN 1 ELSE 0) <= Frames - cfg.lead
      BY DEF Fed
    <2> QED
      BY <1>1, <2>1
  <1>3. \A p, q \in 0 .. Frames : /\ cfg.codingNum[p] \in Nat
                                  /\ cfg.codingNum[p] = cfg.codingNum[q] => p = q
                                  /\ q \in cfg.refs[p] => cfg.codingNum[q] < cfg.codingNum[p]
    BY <1>1, EncStagesGopAssumption
  <1>4. \A p \in 0 .. Frames : CodingNum(p) = cfg.codingNum[p]
    BY <1>1 DEF CodingNum
  <1>5. \A i \in Stages : \A p \in Pics(i) : p \in Int /\ p < picsRcvd /\ p <= Frames
    BY <1>1, <1>2, ListTypes DEF FlowSafe, Received
  <1>6. \A p \in Pics(Gop) : p \in 0 .. Frames
    BY <1>1, CodingNumbers
  <1>7. \A p \in ToCode : p \in 0 .. Frames
    BY ToCodeNumbers
  <1> QED
    BY <1>1, <1>3, <1>4, <1>5, <1>6, <1>7

\* A picture that leaves the filter comes after all that have a slice header.
LEMMA NewIsNext ==
  ASSUME FlowSafe, Fed, Numbered, Gapless, filterPoc \in Pics(Filter)
  PROVE  /\ CodingNum(filterPoc) > gop.lastCodingNum /\ CodingNum(filterPoc) \in Nat
         /\ gop.lastCodingNum \in Int
  <1>1. /\ filterPoc \in Nat /\ filterPoc \in 0 .. Frames /\ Frames \in Nat
        /\ \A p \in 0 .. Frames : CodingNum(p) \in Nat
        /\ \A p, q \in 0 .. Frames : CodingNum(p) = CodingNum(q) => p = q
        /\ gop.lastCodingNum \in Int
    BY PocTypes, Numbering, StageNames DEF Numbered
  <1>2. ~ (CodingNum(filterPoc) <= gop.lastCodingNum)
    <2> SUFFICES ASSUME CodingNum(filterPoc) <= gop.lastCodingNum PROVE FALSE
      OBVIOUS
    <2>1. \A k \in 0 .. gop.lastCodingNum : \E p \in 0 .. filterPoc - 1 : CodingNum(p) = k
      BY DEF Gapless
    <2>2. CodingNum(filterPoc) \in 0 .. gop.lastCodingNum
      BY <1>1
    <2>3. PICK p \in 0 .. filterPoc - 1 : CodingNum(p) = CodingNum(filterPoc)
      BY <2>1, <2>2
    <2>4. p \in 0 .. Frames /\ p # filterPoc
      BY <1>1
    <2> QED
      BY <1>1, <2>3, <2>4
  <1>3. CodingNum(filterPoc) \in Nat
    BY <1>1
  <1> QED
    BY <1>1, <1>2, <1>3

\* Moving pictures keeps the coding order.
LEMMA MovesOrder ==
  ASSUME FlowSafe, Fed, CodingSafe, CodingSafe', Order, Gapless, Moves
  PROVE  Order'
  <1>1. /\ cfg' = cfg /\ ListMoves /\ SameQueue /\ busy' = busy
        /\ \A q : (IsLeadTrail(q)' <=> IsLeadTrail(q)) /\ CodingNum(q)' = CodingNum(q)
    BY ConfigSame DEF Moves
  <1>2. \A p \in Pics(Gop)' :
       \/ p \in Pics(Gop) /\ SameCoding(list'[Gop][p], list[Gop][p])
       \/ /\ p \notin Pics(Gop) /\ Fresh(list'[Gop][p])
          /\ p \in Pics(Filter) /\ p = filterPoc /\ Accepts(Gop, p)
    BY <1>1 DEF ListMoves
  <1>3. Wanted'
    <2>1. \A p \in Pics(Gop)' : ~ IsLeadTrail(p)
      BY <1>2 DEF Order, Wanted, Accepts
    <2> QED
      BY <1>1, <2>1 DEF Wanted
  <1>4. Placed'
    BY <1>1, <1>2 DEF Order, Placed, Queued, SameQueue, SameCoding, Fresh
  <1>5. Numbered'
    <2>1. ASSUME NEW p \in Pics(Gop)'
          PROVE  list'[Gop][p].init <=> CodingNum(p) <= gop.lastCodingNum
      <3>1. CASE p \in Pics(Gop) /\ SameCoding(list'[Gop][p], list[Gop][p])
        BY <3>1 DEF Order, Numbered, SameCoding
      <3>2. CASE p = filterPoc /\ p \in Pics(Filter) /\ Fresh(list'[Gop][p])
        <4>1. /\ CodingNum(p) > gop.lastCodingNum /\ CodingNum(p) \in Nat
              /\ gop.lastCodingNum \in Int
          BY <3>2, NewIsNext DEF Order
        <4>2. ~ (CodingNum(p) <= gop.lastCodingNum)
          BY <4>1
        <4> QED
          BY <3>2, <4>2 DEF Fresh
      <3> QED
        BY <1>2, <3>1, <3>2
    <2>2. gop'.lastCodingNum = gop.lastCodingNum
      BY <1>1 DEF SameQueue
    <2>3. gop.lastCodingNum \in Int /\ gop.lastCodingNum >= -1
      BY DEF Order, Numbered
    <2> QED
      BY <1>1, <2>1, <2>2, <2>3 DEF Numbered
  <1>6. Sequenced'
    BY <1>1 DEF Order, Sequenced, SameQueue
  <1>7. RefsBefore'
    <2>1. ASSUME NEW p \in Open(list'[Gop]), NEW r \in list'[Gop][p].refs
          PROVE  list'[Gop][r].init /\ CodingNum(r) < CodingNum(p)
      <3>1. p \in Pics(Gop)' /\ list'[Gop][p].init /\ ~ list'[Gop][p].finished /\ r \in Pics(Gop)'
        BY <2>1 DEF Open, Pics, CodingSafe, Referencing, AllHeld
      <3>2. p \in Pics(Gop) /\ SameCoding(list'[Gop][p], list[Gop][p])
        BY <1>2, <3>1 DEF Fresh
      <3>3. p \in Open(list[Gop]) /\ r \in list[Gop][p].refs
        BY <2>1, <3>1, <3>2 DEF Open, Pics, SameCoding
      <3>4. list[Gop][r].init /\ CodingNum(r) < CodingNum(p) /\ r \in Pics(Gop)
        BY <3>3 DEF Order, RefsBefore, CodingSafe, Referencing, AllHeld, Pics
      <3>5. SameCoding(list'[Gop][r], list[Gop][r])
        BY <1>2, <3>1, <3>4
      <3> QED
        BY <3>4, <3>5 DEF SameCoding
    <2> QED
      BY <1>1, <2>1 DEF RefsBefore
  <1> QED
    BY <1>3, <1>4, <1>5, <1>6, <1>7 DEF Order

\* A coding step that gives no new slice header.
LEMMA CodedOrder ==
  ASSUME Order, Coded, gop'.lastCodingNum = gop.lastCodingNum,
         \A p \in Pics(Gop) : /\ list'[Gop][p].init = list[Gop][p].init
                              /\ list'[Gop][p].refs = list[Gop][p].refs
                              /\ ~ list'[Gop][p].recon => ~ list[Gop][p].recon,
         Open(list'[Gop]) \subseteq Open(list[Gop]), AllHeld(list[Gop]),
         \A p : Queued(p) => Queued(p)' \/ list'[Gop][p].recon,
         Sequenced'
  PROVE  Order'
  <1>1. /\ \A q : (IsLeadTrail(q)' <=> IsLeadTrail(q)) /\ CodingNum(q)' = CodingNum(q)
        /\ Pics(Gop)' = Pics(Gop)
    BY ConfigSame, StageNames DEF Coded
  <1>2. Wanted'
    BY <1>1 DEF Order, Wanted
  <1>3. Placed'
    BY <1>1 DEF Order, Placed
  <1>4. Numbered'
    BY <1>1 DEF Order, Numbered
  <1>5. RefsBefore'
    <2>1. \A p \in Open(list[Gop]) : p \in Pics(Gop) /\ list[Gop][p].refs \subseteq Pics(Gop)
      BY DEF AllHeld, Open, Pics
    <2> QED
      BY <1>1, <2>1 DEF Order, RefsBefore
  <1> QED
    BY <1>2, <1>3, <1>4, <1>5 DEF Order

\* The next picture in coding order.
LEMMA NextIs ==
  ASSUME FlowSafe, Fed, Order, NEW p \in NextToInit
  PROVE  /\ p \in Pics(Gop) /\ ~ list[Gop][p].init /\ CodingNum(p) \in Nat
         /\ \A q \in Pics(Gop) : ~ list[Gop][q].init => CodingNum(p) <= CodingNum(q)
         /\ \A q \in Pics(Gop) : list[Gop][q].init => CodingNum(q) < CodingNum(p)
         /\ \A q \in Pics(Gop) : ~ list[Gop][q].init /\ q # p => CodingNum(p) < CodingNum(q)
         /\ gop.lastCodingNum < CodingNum(p) /\ gop.lastCodingNum \in Int
         /\ \/ CodingNum(p) = gop.lastCodingNum + 1
            \/ GopList[Last(Gop, Pics(Gop))].flush
  <1>1. /\ p \in Uninitialized /\ p = First(Gop, Uninitialized)
        /\ \/ CodingNum(p) = gop.lastCodingNum + 1
           \/ GopList[Last(Gop, Pics(Gop))].flush
    BY DEF NextToInit
  <1>3. \A q : q \in Uninitialized <=> q \in Pics(Gop) /\ ~ list[Gop][q].init
    BY DEF Uninitialized, GopList
  <1>4. /\ \A q \in Pics(Gop) : q \in 0 .. Frames /\ CodingNum(q) \in Nat /\ Key(Gop, q) = CodingNum(q)
        /\ \A q, r \in Pics(Gop) : CodingNum(q) = CodingNum(r) => q = r
    BY Numbering DEF Key
  <1>5. \A q \in Uninitialized : CodingNum(p) <= CodingNum(q)
    <2>1. \A q \in Uninitialized : Key(Gop, q) \in Int /\ 0 <= Key(Gop, q)
      BY <1>3, <1>4
    <2>2. \A q \in Uninitialized : Key(Gop, p) <= Key(Gop, q)
      BY <1>1, <2>1, FirstOf
    <2> QED
      BY <1>1, <1>3, <1>4, <2>2
  <1>6. gop.lastCodingNum \in Int /\ CodingNum(p) \in Nat /\ ~ (CodingNum(p) <= gop.lastCodingNum)
    BY <1>1, <1>3, <1>4 DEF Order, Numbered
  <1>7. ASSUME NEW q \in Pics(Gop), list[Gop][q].init PROVE CodingNum(q) < CodingNum(p)
    <2>1. CodingNum(q) <= gop.lastCodingNum /\ CodingNum(q) \in Nat
      BY <1>4, <1>7 DEF Order, Numbered
    <2> QED
      BY <1>6, <2>1
  <1>8. ASSUME NEW q \in Pics(Gop), ~ list[Gop][q].init, q # p PROVE CodingNum(p) < CodingNum(q)
    <2>1. CodingNum(p) <= CodingNum(q) /\ CodingNum(p) # CodingNum(q) /\ CodingNum(q) \in Nat
      BY <1>1, <1>3, <1>4, <1>5, <1>8
    <2> QED
      BY <1>6, <2>1
  <1> QED
    BY <1>1, <1>3, <1>5, <1>6, <1>7, <1>8

\* Where it is queued.
LEMMA HeadingQueues ==
  ASSUME CodingSafe, NEW p \in Int, Heading(p), ~ list[Gop][p].init
  PROVE  /\ Members(Append(gop.input, p)) = Members(gop.input) \cup {p}
         /\ Members(gop'.input) \cup Members(gop'.proc)
              = Members(gop.input) \cup Members(gop.proc) \cup {p}
         /\ \/ /\ Members(gop'.input) = Members(gop.input) \cup {p}
               /\ Members(gop'.proc) = Members(gop.proc)
            \/ Members(gop'.input) = {}
  <1>1. Apart(gop, busy) /\ AllOpen(gop, busy, list[Gop])
    BY DEF CodingSafe
  <1>2. p \notin Members(gop.input)
    BY <1>1 DEF AllOpen, Open
  <1>3. PICK t : t = Append(gop.input, p)
    OBVIOUS
  <1>4. Members(t) = Members(gop.input) \cup {p}
    BY <1>1, <1>2, <1>3, Appended DEF Apart
  <1>5. Members(<<>>) = {}
    BY EmptyQueue
  <1>6. \/ gop'.input = t /\ gop'.proc = gop.proc
        \/ gop.proc = <<>> /\ gop'.proc = t /\ gop'.input = <<>>
    BY <1>3 DEF Heading
  <1> QED
    BY <1>3, <1>4, <1>5, <1>6

\* Writing a slice header goes one further in it.
LEMMA HeadingOrder ==
  ASSUME FlowSafe, Fed, CodingSafe, Order, NEW p \in Pics(Gop), Heading(p)
  PROVE  Order'
  <1>1. /\ Coded /\ busy' = busy /\ p \in NextToInit /\ gop'.lastCodingNum = CodingNum(p)
        /\ p \in Int
    BY Numbering, StageNames DEF Heading
  <1>2. PICK m, s : /\ m = list'[Gop] /\ s \subseteq cfg.refs[p] \cap Pics(Gop)
                    /\ Initialized(list[Gop], m, p, s)
    BY DEF Heading
  <1>3. /\ p \in Pics(Gop) /\ ~ list[Gop][p].init /\ CodingNum(p) \in Nat
        /\ \A q \in Pics(Gop) : ~ list[Gop][q].init => CodingNum(p) <= CodingNum(q)
        /\ \A q \in Pics(Gop) : list[Gop][q].init => CodingNum(q) < CodingNum(p)
        /\ \A q \in Pics(Gop) : ~ list[Gop][q].init /\ q # p => CodingNum(p) < CodingNum(q)
    BY <1>1, NextIs
  <1>4. /\ \A q : (IsLeadTrail(q)' <=> IsLeadTrail(q)) /\ CodingNum(q)' = CodingNum(q)
        /\ Pics(Gop)' = Pics(Gop)
    BY <1>1, ConfigSame, StageNames DEF Coded
  <1>5. /\ m[p].init /\ m[p].refs = s
        /\ \A q \in Pics(Gop) : q # p => m[q].init = list[Gop][q].init /\ m[q].refs = list[Gop][q].refs
        /\ \A q \in Pics(Gop) : m[q].recon = list[Gop][q].recon /\ m[q].finished = list[Gop][q].finished
    BY <1>2 DEF Initialized, Pics
  <1>6. /\ Members(gop'.input) \cup Members(gop'.proc)
              = Members(gop.input) \cup Members(gop.proc) \cup {p}
        /\ \/ /\ Members(gop'.input) = Members(gop.input) \cup {p}
              /\ Members(gop'.proc) = Members(gop.proc)
           \/ Members(gop'.input) = {}
    BY <1>1, <1>3, HeadingQueues
  <1>7. Wanted'
    BY <1>4 DEF Order, Wanted
  <1>8. Placed'
    BY <1>1, <1>2, <1>4, <1>5, <1>6 DEF Order, Placed, Queued
  <1>9. Numbered'
    <2>1. ASSUME NEW q \in Pics(Gop) PROVE m[q].init <=> CodingNum(q) <= CodingNum(p)
      <3>1. CodingNum(q) \in Nat
        BY Numbering
      <3>2. CASE q = p
        BY <1>3, <1>5, <3>2
      <3>3. CASE q # p /\ list[Gop][q].init
        <4>1. CodingNum(q) < CodingNum(p)
          BY <1>3, <3>3
        <4> QED
          BY <1>3, <1>5, <3>1, <3>3, <4>1
      <3>4. CASE q # p /\ ~ list[Gop][q].init
        <4>1. CodingNum(p) < CodingNum(q)
          BY <1>3, <3>4
        <4> QED
          BY <1>3, <1>5, <3>1, <3>4, <4>1
      <3> QED
        BY <3>2, <3>3, <3>4
    <2>2. gop'.lastCodingNum \in Int /\ gop'.lastCodingNum >= -1
      BY <1>1, <1>3
    <2> QED
      BY <1>1, <1>2, <1>4, <2>1, <2>2 DEF Numbered
  <1>10. Sequenced'
    <2>1. \A q \in Members(gop.proc) : CodingNum(q) < CodingNum(p)
      <3>1. \A q \in Members(gop.proc) : q \in Pics(Gop) /\ list[Gop][q].init
        BY DEF CodingSafe, AllOpen, Open, Pics
      <3> QED
        BY <1>3, <3>1
    <2> QED
      BY <1>4, <1>6, <2>1 DEF Order, Sequenced
  <1>11. RefsBefore'
    <2>1. ASSUME NEW o \in Open(m), NEW r \in m[o].refs
          PROVE  m[r].init /\ CodingNum(r) < CodingNum(o)
      <3>1. o \in Pics(Gop) /\ m[o].init /\ ~ m[o].finished
        BY <1>2, <2>1 DEF Open, Initialized, Pics
      <3>2. CASE o = p
        <4>1. r \in cfg.refs[p] /\ r \in Pics(Gop)
          BY <1>2, <1>5, <2>1, <3>2
        <4>2. CodingNum(r) < CodingNum(p) /\ CodingNum(r) \in Nat
          BY <4>1, Numbering
        <4>3. list[Gop][r].init /\ r # p
          <5>1. ~ (CodingNum(p) <= CodingNum(r)) /\ r # p
            BY <1>3, <4>2
          <5> QED
            BY <1>3, <4>1, <5>1
        <4> QED
          BY <1>5, <3>2, <4>1, <4>2, <4>3
      <3>3. CASE o # p
        <4>1. o \in Open(list[Gop]) /\ r \in list[Gop][o].refs
          BY <1>5, <2>1, <3>1, <3>3 DEF Open, Pics
        <4>2. list[Gop][r].init /\ CodingNum(r) < CodingNum(o) /\ r \in Pics(Gop)
          BY <4>1 DEF Order, RefsBefore, CodingSafe, Referencing, AllHeld, Pics
        <4> QED
          BY <1>3, <1>5, <4>2
      <3> QED
        BY <3>2, <3>3
    <2> QED
      BY <1>2, <1>4, <2>1 DEF RefsBefore
  <1> QED
    BY <1>7, <1>8, <1>9, <1>10, <1>11 DEF Order

\* The steps of coding do not change it.
LEMMA CodingOrder ==
  ASSUME FlowSafe, CodingSafe, Order,
         \/ Queueing \/ (\E p : Encoding(p)) \/ (\E p : Completing(p)) \/ (\E p : Writing(p))
  PROVE  Order'
  <1>1. AllHeld(list[Gop]) /\ AllOpen(gop, busy, list[Gop]) /\ Apart(gop, busy) /\ Members(<<>>) = {}
    BY EmptyQueue DEF CodingSafe, Referencing
  <1>2. \A q : CodingNum(q)' = CodingNum(q) \/ cfg' # cfg
    BY ConfigSame
  <1>3. ASSUME Queueing PROVE Order'
    <2>1. Coded /\ list' = list /\ busy' = busy /\ gop'.lastCodingNum = gop.lastCodingNum
      BY <1>3 DEF Queueing
    <2>2. \/ gop.proc = <<>> /\ gop'.proc = gop.input /\ gop'.input = <<>>
          \/ gop'.proc = gop.proc /\ gop'.input = gop.input
      BY <1>3 DEF Queueing
    <2>3. \A p : Queued(p) => Queued(p)'
      BY <1>1, <2>1, <2>2 DEF Queued
    <2>4. Sequenced'
      BY <1>1, <1>2, <2>1, <2>2 DEF Sequenced, Order, Coded
    <2> QED
      BY <1>1, <2>1, <2>3, <2>4, CodedOrder
  <1>4. ASSUME NEW p, Reconstructed(list[Gop], list'[Gop], p), Coded
        PROVE  /\ \A q \in Pics(Gop) : /\ list'[Gop][q].init = list[Gop][q].init
                                       /\ list'[Gop][q].refs = list[Gop][q].refs
                                       /\ q # p => list'[Gop][q].recon = list[Gop][q].recon
               /\ list'[Gop][p].recon
               /\ Open(list'[Gop]) \subseteq Open(list[Gop])
    BY <1>4 DEF Reconstructed, Open, Pics
  <1>5. ASSUME NEW p, Encoding(p) PROVE Order'
    <2>1. /\ Coded /\ gop'.lastCodingNum = gop.lastCodingNum
          /\ Members(gop'.proc) = Members(gop.proc) \ {p} /\ gop'.input = gop.input
          /\ \/ busy' = busy \cup {p} /\ list' = list
             \/ busy' = busy /\ Reconstructed(list[Gop], list'[Gop], p)
          /\ p \in Members(gop.proc)
      BY <1>5 DEF Encoding
    <2>2. Sequenced'
      BY <1>2, <2>1 DEF Sequenced, Order, Coded
    <2>3. \A q : Queued(q) => Queued(q)' \/ list'[Gop][q].recon
      BY <1>4, <2>1 DEF Queued
    <2>4. /\ \A q \in Pics(Gop) : /\ list'[Gop][q].init = list[Gop][q].init
                                  /\ list'[Gop][q].refs = list[Gop][q].refs
                                  /\ ~ list'[Gop][q].recon => ~ list[Gop][q].recon
          /\ Open(list'[Gop]) \subseteq Open(list[Gop])
      BY <1>4, <2>1
    <2> QED
      BY <1>1, <2>1, <2>2, <2>3, <2>4, CodedOrder
  <1>6. ASSUME NEW p, Completing(p) PROVE Order'
    <2>1. /\ Coded /\ SameQueue /\ busy' = busy \ {p} /\ Reconstructed(list[Gop], list'[Gop], p)
      BY <1>6 DEF Completing
    <2>2. Sequenced'
      BY <1>2, <2>1 DEF Sequenced, Order, Coded, SameQueue
    <2>3. \A q : Queued(q) => Queued(q)' \/ list'[Gop][q].recon
      BY <1>4, <2>1 DEF Queued, SameQueue
    <2>4. /\ \A q \in Pics(Gop) : /\ list'[Gop][q].init = list[Gop][q].init
                                  /\ list'[Gop][q].refs = list[Gop][q].refs
                                  /\ ~ list'[Gop][q].recon => ~ list[Gop][q].recon
          /\ Open(list'[Gop]) \subseteq Open(list[Gop])
      BY <1>4, <2>1
    <2>5. gop'.lastCodingNum = gop.lastCodingNum
      BY <2>1 DEF SameQueue
    <2> QED
      BY <1>1, <2>1, <2>2, <2>3, <2>4, <2>5, CodedOrder
  <1>7. ASSUME NEW p, Writing(p) PROVE Order'
    <2>1. /\ Coded /\ busy' = busy /\ Written(list[Gop], list'[Gop], p)
          /\ gop'.input = gop.input /\ gop'.proc = gop.proc
          /\ gop'.lastCodingNum = gop.lastCodingNum
      BY <1>7 DEF Writing
    <2>2. Sequenced'
      BY <1>2, <2>1 DEF Sequenced, Order, Coded
    <2>3. \A q : Queued(q) => Queued(q)'
      BY <2>1 DEF Queued
    <2>4. /\ \A q \in Pics(Gop) : /\ list'[Gop][q].init = list[Gop][q].init
                                  /\ list'[Gop][q].refs = list[Gop][q].refs
                                  /\ list'[Gop][q].recon = list[Gop][q].recon
          /\ Open(list'[Gop]) \subseteq Open(list[Gop])
      BY <2>1 DEF Written, Open, Pics
    <2> QED
      BY <1>1, <2>1, <2>2, <2>3, <2>4, CodedOrder
  <1> QED
    BY <1>3, <1>5, <1>6, <1>7

\* Every step keeps Order.
LEMMA OrderNext ==
  ASSUME FlowSafe, Fed, CodingSafe, CodingSafe', Order, Gapless, [Next]_vars
  PROVE  Order'
  BY GopSteps, MovesOrder, HeadingOrder, CodingOrder

\* What of the coding order a step may change.
LEMMA NumberSteps ==
  ASSUME FlowSafe, Fed, CodingSafe, [Next]_vars
  PROVE  \/ Moves
         \/ \E p \in Pics(Gop) : Heading(p)
         \/ Coded /\ gop'.lastCodingNum = gop.lastCodingNum
  <1>1. (\E p : Completing(p)) => Coded /\ gop'.lastCodingNum = gop.lastCodingNum
    BY DEF Completing, SameQueue
  <1> QED
    BY <1>1, GopSteps DEF Queueing, Encoding, Writing

\* Every step keeps Begun.
LEMMA BegunNext ==
  ASSUME FlowSafe, Fed, CodingSafe, Order, Begun, [Next]_vars
  PROVE  Begun'
  <1>1. picsRcvd \in Int /\ gop.lastCodingNum \in Int
    BY PocTypes DEF Order, Numbered
  <1>2. picsRcvd' = picsRcvd \/ picsRcvd' = picsRcvd + 1
    <2>1. ASSUME NEW u, Taking(u) PROVE picsRcvd' = picsRcvd + 1
      BY <2>1, TakingIs
    <2>2. DOMAIN gop = {"input", "proc", "output", "lastCodingNum", "pocRecOut"}
      BY DEF CodingSafe, Apart
    <2> QED
      BY <2>1, <2>2, FrameSteps, PreProcessCases, FilterCases, ReleaseCases DEF OnlyFlows, Quiet
  <1>3. ASSUME gop'.lastCodingNum = gop.lastCodingNum PROVE Begun'
    BY <1>1, <1>2, <1>3 DEF Begun
  <1>4. ASSUME NEW p \in Pics(Gop), Heading(p) PROVE Begun'
    <2>1. p \in Int /\ p < picsRcvd /\ p \in 0 .. Frames
      BY Numbering, StageNames
    <2>2. picsRcvd' = picsRcvd
      BY <1>4 DEF Heading, Coded
    <2> QED
      BY <1>1, <2>1, <2>2 DEF Begun
  <1>5. Moves => gop'.lastCodingNum = gop.lastCodingNum
    BY DEF Moves, SameQueue
  <1> QED
    BY <1>3, <1>4, <1>5, NumberSteps

\* Every step keeps Gapless.
LEMMA GaplessNext ==
  ASSUME FlowSafe, Fed, CodingSafe, FramesFlow, Order, Begun, Gapless, [Next]_vars
  PROVE  Gapless'
  <1>1. /\ filterPoc \in Nat /\ gop.lastCodingNum \in Int /\ gop.lastCodingNum >= -1
        /\ picsRcvd \in Int /\ cfg \in Configs
    BY PocTypes DEF Order, Numbered
  <1>2. cfg' = cfg => \A q : CodingNum(q)' = CodingNum(q)
    BY ConfigSame
  <1>3. CASE Coded /\ gop'.lastCodingNum = gop.lastCodingNum
    BY <1>2, <1>3, StageNames DEF Gapless, Coded
  <1>4. ASSUME NEW p \in Pics(Gop), Heading(p) PROVE Gapless'
    <2>1. /\ Coded /\ p \in NextToInit /\ gop'.lastCodingNum = CodingNum(p) /\ main = "init"
      BY <1>4 DEF Heading
    <2>2. CodingNum(p) = gop.lastCodingNum + 1 \/ GopList[Last(Gop, Pics(Gop))].flush
      BY <2>1, NextIs
    <2>3. ASSUME Pics(Pre) = {}, Pics(Filter) = {}, call.flush PROVE Gapless'
      BY <2>1, <2>3, StageNames DEF Gapless, Coded
    <2>4. CASE GopList[Last(Gop, Pics(Gop))].flush
      <3>1. \A q \in Pics(Gop) : q \in 0 .. Frames /\ CodingNum(q) \in Nat
        BY Numbering
      <3>2. Last(Gop, Pics(Gop)) \in Pics(Gop)
        <4>1. IsFiniteSet(Pics(Gop)) /\ \A q \in Pics(Gop) : Key(Gop, q) \in Int
          BY <3>1, PocTypes, StageNames DEF Key
        <4> QED
          BY <4>1, FiniteHasLast
      <3>3. call.flush
        BY <2>4, <3>2, StageNames DEF GopList, FlowSafe, CallSafe
      <3>4. Pics(Pre) = {} /\ Pics(Filter) = {}
        BY <2>1, <3>3 DEF FramesFlow, Drained, GopPlaces
      <3> QED
        BY <2>3, <3>3, <3>4
    <2>5. CASE /\ CodingNum(p) = gop.lastCodingNum + 1
               /\ \A k \in 0 .. gop.lastCodingNum : \E q \in 0 .. filterPoc - 1 : CodingNum(q) = k
      <3>1. p \in 0 .. filterPoc - 1
        BY <1>1, PocTypes, StageNames DEF FlowSafe, Ordered
      <3>2. \A k \in 0 .. CodingNum(p) : \E q \in 0 .. filterPoc - 1 : CodingNum(q) = k
        <4> TAKE k \in 0 .. CodingNum(p)
        <4>1. CASE k = CodingNum(p)
          BY <3>1, <4>1
        <4>2. CASE k # CodingNum(p)
          <5>1. k \in 0 .. gop.lastCodingNum
            BY <1>1, <2>5, <4>2
          <5> QED
            BY <2>5, <5>1
        <4> QED
          BY <4>1, <4>2
      <3> QED
        BY <1>2, <2>1, <3>2 DEF Gapless, Coded
    <2> QED
      BY <2>2, <2>3, <2>4, <2>5 DEF Gapless
  <1>5. CASE Moves
    <2>1. cfg' = cfg /\ gop'.lastCodingNum = gop.lastCodingNum
      BY <1>5 DEF Moves, SameQueue
    <2>2. ASSUME \A k \in 0 .. gop.lastCodingNum : \E q \in 0 .. filterPoc - 1 : CodingNum(q) = k,
                 filterPoc' = filterPoc \/ filterPoc' = filterPoc + 1
          PROVE  Gapless'
      <3>1. 0 .. filterPoc - 1 \subseteq 0 .. filterPoc' - 1
        BY <1>1, <2>2
      <3> QED
        BY <1>2, <2>1, <2>2, <3>1 DEF Gapless
    <2>3. ASSUME call'.flush, Pics(Pre)' = {}, Pics(Filter)' = {} PROVE Gapless'
      BY <2>3 DEF Gapless
    <2>4. CASE \E u : Taking(u)
      <3>1. ~ call.flush /\ filterPoc' = filterPoc
        BY <2>4, TakingIs DEF Taking
      <3> QED
        BY <2>2, <3>1 DEF Gapless
    <2>5. CASE PreProcess
      <3>1. /\ (\E last \in Int : Linking(last)) \/ Emptying \/ Waits
            /\ filterPoc' = filterPoc /\ call' = call
        BY <2>5, PreProcessCases
      <3>2. ASSUME call.flush, Pics(Pre) = {}, Pics(Filter) = {}
            PROVE  Pics(Pre)' = {} /\ Pics(Filter)' = {}
        BY <3>1, <3>2, StageNames DEF Linking, Emptying, Waits, Stays
      <3> QED
        BY <2>2, <2>3, <3>1, <3>2 DEF Gapless
    <2>6. CASE FilterPictures
      <3>1. /\ (\E last : Filtering(last)) \/ Idles
            /\ call' = call
        BY <2>6, FilterCases DEF OnlyFlows
      <3>2. filterPoc' = filterPoc \/ filterPoc' = filterPoc + 1
        BY <3>1 DEF Filtering, Idles
      <3>3. ASSUME call.flush, Pics(Pre) = {}, Pics(Filter) = {}
            PROVE  Pics(Pre)' = {} /\ Pics(Filter)' = {}
        <4>1. ~ Ready(Filter)
          <5>1. MinQueueSize[Filter] \in Nat \ {0}
            BY <1>1, LeadIs
          <5>2. Cardinality({}) = 0
            BY FS_EmptySet
          <5> QED
            BY <3>3, <5>1, <5>2 DEF Ready
        <4>2. Idles
          BY <3>1, <4>1 DEF Filtering
        <4> QED
          BY <3>3, <4>2, StageNames DEF Idles, Stays
      <3> QED
        BY <2>2, <2>3, <3>1, <3>2, <3>3 DEF Gapless
    <2>7. CASE ReleasePictures
      <3>1. /\ Releasing /\ call' = call /\ filterPoc' = filterPoc
        BY <2>7, ReleaseCases DEF OnlyFlows, CodingSafe, Apart
      <3>2. Pics(Pre)' = Pics(Pre) /\ Pics(Filter)' = Pics(Filter)
        BY <3>1, ReleasingIs
      <3> QED
        BY <2>2, <2>3, <3>1, <3>2 DEF Gapless
    <2>8. CASE Quiet
      <3>1. /\ filterPoc' = filterPoc /\ picsRcvd' = picsRcvd
            /\ Pics(Pre)' = Pics(Pre) /\ Pics(Filter)' = Pics(Filter)
            /\ call.flush => call'.flush \/ picsRcvd = -cfg.lead
        BY <2>8, StageNames DEF Quiet, Stays
      <3>2. picsRcvd = -cfg.lead =>
              \A k \in 0 .. gop.lastCodingNum : \E q \in 0 .. filterPoc - 1 : CodingNum(q) = k
        <4>1. picsRcvd = -cfg.lead => ~ (gop.lastCodingNum >= 0)
          BY <1>1, ConfigType DEF Begun
        <4> QED
          BY <1>1, <4>1
      <3> QED
        BY <2>2, <2>3, <3>1, <3>2 DEF Gapless
    <2>9. DOMAIN gop = {"input", "proc", "output", "lastCodingNum", "pocRecOut"}
      BY DEF CodingSafe, Apart
    <2> QED
      BY <2>4, <2>5, <2>6, <2>7, <2>8, <2>9, FrameSteps
  <1> QED
    BY <1>3, <1>4, <1>5, NumberSteps

\* The filter passes on its next frame, which it has, to the GOP encoder.
LEMMA PassedNext ==
  ASSUME FlowSafe, Fed, CodingSafe, FramesFlow, [Next]_vars
  PROVE  \A p \in Passed' : \/ p \in Passed
                            \/ p = filterPoc /\ p \in Pics(Filter) /\ p \in Pics(Gop)'
  <1>1. /\ filterPoc \in Nat /\ lastPoc \in Int /\ picsRcvd \in Int /\ cfg \in Configs
        /\ cfg.lead \in Nat /\ cfg.lead <= 64 /\ cfg.range \in Nat
    BY PocTypes, LeadIs
  <1>2. \A p \in ToCode : p \in 0 .. Frames /\ p < picsRcvd /\ CodingNum(p) \in Nat
    BY ToCodeNumbers
  <1>3. ASSUME UNCHANGED <<cfg, picsRcvd, lastPoc, filterPoc>> PROVE Passed' = Passed
    BY <1>3, LeadsSame DEF Passed
  <1>4. CASE \E u : Taking(u)
    <2>1. /\ picsRcvd' = picsRcvd + 1 /\ UNCHANGED <<cfg, filterPoc, lastPoc>> /\ main = "input"
      BY <1>4, TakingIs DEF Taking
    <2>2. lastPoc < picsRcvd
      BY <1>1, <2>1 DEF FlowSafe, Ordered, Processed, None
    <2>3. \A p : IsLeadTrail(p)' <=> IsLeadTrail(p)
      BY <2>1, ConfigSame
    <2>4. \A p \in ToCode' : p <= lastPoc => p \in ToCode
      BY <1>1, <2>1, <2>2, <2>3 DEF ToCode, Received
    <2> QED
      BY <2>1, <2>4 DEF Passed
  <1>5. CASE PreProcess
    <2>1. /\ (\E last \in Int : Linking(last)) \/ Emptying \/ Waits
          /\ UNCHANGED <<cfg, filterPoc, picsRcvd>>
      BY <1>5, PreProcessCases
    <2>2. ToCode' = ToCode
      BY <2>1, LeadsSame
    <2>3. ASSUME NEW last \in Int, Linking(last) PROVE Passed' \subseteq Passed
      <3>1. ~ call.flush /\ main # "filter"
        BY <2>3 DEF Linking
      <3>2. \A p \in ToCode : p < filterPoc => p <= lastPoc
        BY <1>1, <1>2, <3>1 DEF FramesFlow, Paced
      <3> QED
        BY <2>1, <2>2, <3>2 DEF Passed
    <2> QED
      BY <1>3, <2>1, <2>3 DEF Emptying, Waits
  <1>6. CASE FilterPictures
    <2>1. /\ (\E last : Filtering(last)) \/ Idles
          /\ UNCHANGED <<cfg, lastPoc, picsRcvd>>
      BY <1>6, FilterCases DEF OnlyFlows
    <2>2. ToCode' = ToCode
      BY <2>1, LeadsSame
    <2>3. ASSUME NEW last, Filtering(last), filterPoc \in ToCode, filterPoc <= lastPoc
          PROVE  filterPoc \in Pics(Filter) /\ filterPoc \in Pics(Gop)'
      <3>1. /\ last = Last(Filter, Pics(Filter))
            /\ \E free : Flowed(Filter, unit, Filtered(last), free, filterPoc)
        BY <2>3 DEF Filtering
      <3>2. Accepts(Filter, filterPoc) /\ Accepts(Gop, filterPoc)
        BY <1>1, <2>3, LeadIs DEF ToCode
      <3>3. filterPoc \in Pics(Filter)
        BY <1>1, <2>3, <3>2 DEF FramesFlow, FilterHolds
      <3>4. filterPoc <= last
        BY <3>1, <3>3, LastInFilter DEF FlowSafe
      <3>5. filterPoc \in Filtered(last)
        <4>1. cfg.toEncode <= 0 \/ filterPoc < cfg.toEncode
          BY <1>1, <2>3, ConfigType DEF ToCode, IsLeadTrail
        <4> QED
          BY <3>4, <4>1 DEF Filtered
      <3>6. Gop \in Takers(Filter + 1, filterPoc)
        BY <3>2, StageNames DEF Takers
      <3> QED
        BY <3>1, <3>3, <3>5, <3>6 DEF Flowed
    <2>4. ASSUME NEW last, Filtering(last)
          PROVE  \A p \in Passed' : p \in Passed \/ (p = filterPoc /\ p \in ToCode /\ p <= lastPoc)
      <3>1. filterPoc' = filterPoc + 1
        BY <2>4 DEF Filtering
      <3>2. \A p \in ToCode : p < filterPoc' => p < filterPoc \/ p = filterPoc
        BY <1>1, <1>2, <3>1
      <3> QED
        BY <2>1, <2>2, <3>2 DEF Passed
    <2> QED
      BY <1>3, <2>1, <2>3, <2>4 DEF Idles
  <1>7. DOMAIN gop = {"input", "proc", "output", "lastCodingNum", "pocRecOut"}
    BY DEF CodingSafe, Apart
  <1> QED
    BY <1>3, <1>4, <1>5, <1>6, <1>7, FrameSteps, ReleaseCases DEF OnlyFlows, Quiet

\* Every step keeps Conserved.
LEMMA ConservedNext ==
  ASSUME FlowSafe, Fed, CodingSafe, FramesFlow, Order, Conserved, [Next]_vars
  PROVE  Conserved'
  <1>1. /\ gop.lastCodingNum \in Int
        /\ \A p \in Passed : CodingNum(p) \in Nat
    BY ToCodeNumbers DEF Order, Numbered, Passed
  <1>2. \A p \in Passed' : p \in Passed \/ p \in Pics(Gop)'
    BY PassedNext
  <1>3. ASSUME cfg' = cfg, gop'.lastCodingNum \in Int, gop'.lastCodingNum >= gop.lastCodingNum,
               \A p \in Pics(Gop) : p \in Pics(Gop)' \/ CodingNum(p) <= gop.lastCodingNum
        PROVE  Conserved'
    <2>1. \A p : CodingNum(p)' = CodingNum(p)
      BY <1>3, ConfigSame
    <2>2. \A p \in Passed : CodingNum(p) <= gop.lastCodingNum => CodingNum(p) <= gop'.lastCodingNum
      BY <1>1, <1>3
    <2> QED
      BY <1>2, <1>3, <2>1, <2>2 DEF Conserved
  <1>4. ASSUME NEW p \in Pics(Gop), Heading(p) PROVE Conserved'
    <2>1. /\ Coded /\ p \in NextToInit /\ gop'.lastCodingNum = CodingNum(p)
      BY <1>4 DEF Heading
    <2>2. gop.lastCodingNum < CodingNum(p) /\ CodingNum(p) \in Nat
      BY <2>1, NextIs
    <2> QED
      BY <1>1, <1>3, <2>1, <2>2, StageNames DEF Coded
  <1>5. CASE Coded /\ gop'.lastCodingNum = gop.lastCodingNum
    BY <1>1, <1>3, <1>5, StageNames DEF Coded
  <1>6. CASE Moves
    <2>1. cfg' = cfg /\ gop'.lastCodingNum = gop.lastCodingNum /\ ListMoves
      BY <1>6 DEF Moves, SameQueue
    <2>2. \A p \in Pics(Gop) : p \in Pics(Gop)' \/ CodingNum(p) <= gop.lastCodingNum
      <3>1. \A p \in Pics(Gop) : list[Gop][p].finished => list[Gop][p].init
        BY DEF CodingSafe, Referencing, Untouched, Pics
      <3> QED
        BY <2>1, <3>1 DEF ListMoves, Order, Numbered
    <2> QED
      BY <1>1, <1>3, <2>1, <2>2
  <1> QED
    BY <1>4, <1>5, <1>6, NumberSteps

\* Of the pictures that wait for an encoder the first in coding order can be
\* encoded when none is running.
LEMMA SomeReady ==
  ASSUME FlowSafe, Fed, CodingSafe, Order, busy = {}, gop.proc # <<>>
  PROVE  ReadyToEncode # {} /\ CanStart
  <1>1. /\ gop.proc \in Seq(Int) /\ AllOpen(gop, busy, list[Gop]) /\ AllHeld(list[Gop])
    BY DEF CodingSafe, Apart, OneEach, Referencing
  <1>2. \A p \in Members(gop.proc) : p \in Pics(Gop) /\ p \in Open(list[Gop]) /\ CodingNum(p) \in Nat
    <2>1. \A p \in Members(gop.proc) : p \in Pics(Gop) /\ p \in Open(list[Gop])
      BY <1>1 DEF AllOpen, Open, Pics
    <2> QED
      BY <2>1, Numbering
  <1>3. PICK p \in Members(gop.proc) : \A q \in Members(gop.proc) : CodingNum(p) <= CodingNum(q)
    <2>1. PICK S : S = {CodingNum(p) : p \in Members(gop.proc)}
      OBVIOUS
    <2>2. Members(gop.proc) # {}
      BY Tailed DEF CodingSafe, Apart
    <2>3. S \in SUBSET Nat /\ S # {}
      BY <1>2, <2>1, <2>2
    <2>4. PICK n \in S : \A m \in S : n <= m
      BY <2>3, LeastMember
    <2> QED
      BY <2>1, <2>4
  <1>4. ASSUME NEW r \in list[Gop][p].refs PROVE list[Gop][r].recon
    <2>1. /\ list[Gop][r].init /\ CodingNum(r) < CodingNum(p) /\ r \in Pics(Gop)
          /\ CodingNum(r) \in Nat /\ CodingNum(p) \in Nat
      <3>1. r \in Pics(Gop)
        BY <1>1, <1>2 DEF AllHeld, Pics
      <3> QED
        BY <1>2, <3>1, Numbering DEF Order, RefsBefore
    <2>2. r \notin Members(gop.input) /\ r \notin Members(gop.proc)
      <3>1. r \in Members(gop.input) => CodingNum(p) < CodingNum(r)
        BY DEF Order, Sequenced
      <3>2. r \in Members(gop.proc) => CodingNum(p) <= CodingNum(r)
        BY <1>3
      <3> QED
        BY <2>1, <3>1, <3>2
    <2> QED
      BY <2>1, <2>2 DEF Order, Placed, Queued
  <1>5. PICK n \in DOMAIN gop.proc : gop.proc[n] = p
    BY DEF Members
  <1>6. n \in ReadyToEncode
    BY <1>4, <1>5 DEF ReadyToEncode, RefPicsReconstructed, GopList
  <1>7. Cardinality(busy) < NumEncoders
    <2>1. cfg.parallel \in Nat /\ Cardinality(busy) = 0
      BY FS_EmptySet, PocTypes, ConfigType
    <2>2. NumEncoders \in Nat /\ NumEncoders >= 1
      <3>1. \E m \in {1, cfg.parallel} : \A k \in {1, cfg.parallel} : m >= k
        BY <2>1
      <3>2. PICK m \in {1, cfg.parallel} :
              m = NumEncoders /\ \A k \in {1, cfg.parallel} : m >= k
        BY <3>1 DEF NumEncoders, Max
      <3> QED
        BY <2>1, <3>2
    <2> QED
      BY <2>1, <2>2
  <1> QED
    BY <1>6, <1>7 DEF CanStart

\* Every step keeps OneByOne.
LEMMA OneByOneNext ==
  ASSUME FlowSafe, Fed, CodingSafe, Order, OneByOne, [Next]_vars
  PROVE  OneByOne'
  <1> DEFINE Nobody(g, b) == g.output = <<>> /\ g.proc = <<>> /\ b = {}
             Single(g, b) == /\ g.output # <<>> /\ Tail(g.output) = <<>>
                             /\ Members(g.proc) \cup b \subseteq {Head(g.output)}
  <1>1. SUFFICES ASSUME cfg'.parallel = 0 PROVE OneByOne'
    BY DEF OneByOne
  <1>2. cfg' = cfg /\ cfg.parallel = 0
    <2>1. cfg' = cfg
      BY GopSteps DEF Moves, Coded, Queueing, Heading, Encoding, Completing, Writing
    <2> QED
      BY <1>1, <2>1
  <1>3. /\ gop.input = <<>>
        /\ \/ Nobody(gop, busy)
           \/ /\ main \in {"encode", "output"} /\ Single(gop, busy)
              /\ main = "output" => gop.proc = <<>> /\ busy = {}
    BY <1>2 DEF OneByOne
  <1>4. /\ AllOpen(gop, busy, list[Gop]) /\ Apart(gop, busy) /\ Members(<<>>) = {}
    BY EmptyQueue DEF CodingSafe
  <1>5. ASSUME gop'.input = <<>>, Nobody(gop', busy') PROVE OneByOne'
    BY <1>5 DEF OneByOne
  <1>6. ASSUME gop'.input = <<>>, main' \in {"encode", "output"}, Single(gop', busy'),
               main' = "output" => gop'.proc = <<>> /\ busy' = {}
        PROVE  OneByOne'
    BY <1>6 DEF OneByOne
  <1>7. ASSUME Single(gop, busy)
        PROVE  /\ Head(gop.output) \in Open(list[Gop]) /\ Head(gop.output) \in Pics(Gop)
               /\ list[Gop][Head(gop.output)].init
               /\ list[Gop][Head(gop.output)].recon => gop.proc = <<>> /\ busy = {}
    <2>1. Head(gop.output) \in Members(gop.output)
      BY <1>4, <1>7, Tailed DEF Apart
    <2>2. gop.proc # <<>> => Head(gop.proc) \in Members(gop.proc)
      BY <1>4, Tailed DEF Apart
    <2>3. list[Gop][Head(gop.output)].recon => Members(gop.proc) = {} /\ busy = {}
      BY <1>4, <1>7 DEF AllOpen
    <2> QED
      BY <1>4, <2>1, <2>2, <2>3 DEF AllOpen, Open, Pics
  <1>8. CASE Moves
    <2>1. SameQueue /\ busy' = busy
      BY <1>8 DEF Moves
    <2>2. CASE Nobody(gop, busy)
      BY <1>3, <1>5, <2>1, <2>2 DEF SameQueue
    <2>3. CASE /\ main \in {"encode", "output"} /\ Single(gop, busy)
               /\ main = "output" => gop.proc = <<>> /\ busy = {}
      <3>1. CASE main' = main
        BY <1>3, <1>6, <2>1, <2>3, <3>1 DEF SameQueue
      <3>2. CASE main = "encode" /\ main' = "output" /\ EndEncode
        <4>1. ~ CanStart /\ (LeaveLoop \/ busy = {})
          BY <3>2 DEF EndEncode
        <4>2. ~ NonBlocking(Gop)
          BY <1>2 DEF NonBlocking, StageParallel
        <4>3. busy = {} => gop.proc = <<>>
          BY <4>1, SomeReady
        <4>4. OutputReady => gop.proc = <<>> /\ busy = {}
          BY <1>7, <2>3 DEF OutputReady, GopList
        <4>5. gop.proc = <<>> /\ busy = {}
          BY <4>1, <4>2, <4>3, <4>4 DEF LeaveLoop
        <4> QED
          BY <1>3, <1>6, <2>1, <2>3, <3>2, <4>5 DEF SameQueue
      <3>3. CASE main = "output" /\ main' = "release" /\ ~ OutputReady
        <4>1. ~ list[Gop][Head(gop.output)].recon
          BY <2>3, <3>3 DEF OutputReady, GopList
        <4>2. Queued(Head(gop.output))
          BY <1>7, <2>3, <4>1 DEF Order, Placed
        <4>3. FALSE
          BY <1>3, <1>4, <2>3, <3>3, <4>2 DEF Queued
        <4> QED
          BY <4>3
      <3> QED
        BY <1>8, <2>3, <3>1, <3>2, <3>3 DEF Moves
    <2> QED
      BY <1>3, <2>2, <2>3
  <1>9. CASE Queueing
    <2>1. main = "init" /\ busy' = busy /\ gop'.output = gop.output
          /\ IF gop.proc = <<>> THEN gop'.proc = gop.input /\ gop'.input = <<>>
             ELSE gop'.proc = gop.proc /\ gop'.input = gop.input
      BY <1>9 DEF Queueing
    <2>2. Nobody(gop, busy)
      BY <1>3, <2>1
    <2> QED
      BY <1>3, <1>5, <2>1, <2>2
  <1>10. ASSUME NEW p \in Pics(Gop), Heading(p) PROVE OneByOne'
    <2>1. /\ main = "init" /\ busy' = busy /\ gop'.output = Append(gop.output, p)
          /\ gop.proc = <<>> => gop'.proc = Append(gop.input, p) /\ gop'.input = <<>>
          /\ main' = IF gop'.proc = <<>> THEN "output" ELSE "encode"
      BY <1>2, <1>10 DEF Heading
    <2>2. Nobody(gop, busy)
      BY <1>3, <2>1
    <2>3. PICK t : t = Append(gop.input, p)
      OBVIOUS
    <2>4. p \in Int /\ ~ list[Gop][p].init
      BY <1>10, Numbering, StageNames DEF Heading, NextToInit, Uninitialized, GopList
    <2>5. t = <<p>> /\ Head(t) = p /\ Tail(t) = <<>> /\ t # <<>>
      BY <1>3, <2>3
    <2>6. Members(t) = Members(gop.input) \cup {p}
      BY <1>10, <2>3, <2>4, HeadingQueues
    <2>7. Members(t) = {p}
      BY <1>3, <1>4, <2>6
    <2>8. gop'.output = t /\ gop'.proc = t /\ gop'.input = <<>> /\ main' = "encode"
      BY <1>3, <2>1, <2>2, <2>3, <2>5
    <2>9. Single(gop', busy')
      BY <2>1, <2>2, <2>5, <2>7, <2>8
    <2> QED
      BY <1>6, <2>8, <2>9
  <1>11. ASSUME NEW p, Encoding(p) PROVE OneByOne'
    <2>1. /\ main = "encode" /\ main' = main /\ p \in Members(gop.proc)
          /\ Members(gop'.proc) = Members(gop.proc) \ {p} /\ gop.proc # <<>>
          /\ gop'.input = gop.input /\ gop'.output = gop.output
          /\ busy' = busy \cup {p} \/ busy' = busy
      BY <1>11 DEF Encoding
    <2>2. Single(gop, busy)
      BY <1>3, <2>1
    <2>3. Single(gop', busy')
      BY <2>1, <2>2
    <2> QED
      BY <1>3, <1>6, <2>1, <2>3
  <1>12. ASSUME NEW p, Completing(p) PROVE OneByOne'
    <2>1. /\ SameQueue /\ main' = (IF main = "wait" THEN "input" ELSE main)
          /\ p \in busy /\ busy' = busy \ {p}
      BY <1>12 DEF Completing
    <2>2. main = "encode" /\ Single(gop, busy)
      BY <1>3, <2>1
    <2>3. Single(gop', busy')
      BY <2>1, <2>2 DEF SameQueue
    <2> QED
      BY <1>3, <1>6, <2>1, <2>2, <2>3 DEF SameQueue
  <1>13. ASSUME NEW p, Writing(p) PROVE OneByOne'
    <2>1. /\ main = "output" /\ gop.output # <<>> /\ busy' = busy
          /\ gop'.output = Tail(gop.output) /\ gop'.input = gop.input /\ gop'.proc = gop.proc
      BY <1>13 DEF Writing
    <2>2. Single(gop, busy) /\ gop.proc = <<>> /\ busy = {}
      BY <1>3, <2>1
    <2> QED
      BY <1>3, <1>5, <2>1, <2>2
  <1> QED
    BY <1>8, <1>9, <1>10, <1>11, <1>12, <1>13, GopSteps

\* Every step keeps AuHeld.
LEMMA AuHeldNext ==
  ASSUME FlowSafe, Fed, CodingSafe, AuHeld, [Next]_vars
  PROVE  AuHeld'
  <1>1. CASE Moves
    <2>1. CallMoves
      BY <1>1 DEF Moves
    <2> QED
      BY <2>1 DEF CallMoves, AuHeld
  <1>2. CASE Queueing \/ (\E p : Heading(p)) \/ (\E p : Encoding(p))
    <2>1. main \in {"init", "encode"} /\ call' = call /\ main' \in {"init", "encode", "output"}
      BY <1>2 DEF Queueing, Heading, Encoding
    <2> QED
      BY <2>1 DEF AuHeld
  <1>3. ASSUME NEW p, Completing(p) PROVE AuHeld'
    <2>1. /\ call' = call /\ main' = (IF main = "wait" THEN "input" ELSE main)
          /\ Pics(Gop)' = Pics(Gop)
      BY <1>3, StageNames DEF Completing, Coded
    <2> QED
      BY <2>1 DEF AuHeld
  <1>4. ASSUME NEW p, Writing(p) PROVE AuHeld'
    <2>1. /\ main' = "release" /\ call'.au = p /\ p \in Pics(Gop)
          /\ Pics(Gop)' = Pics(Gop)
      BY <1>4, StageNames DEF Writing, Coded, Open, Pics
    <2> QED
      BY <2>1 DEF AuHeld
  <1> QED
    BY <1>1, <1>2, <1>3, <1>4, GopSteps

\* Initially nothing is coded.
LEMMA CodingFlowInit ==
  Init => CodingFlow
  <1> SUFFICES ASSUME Init PROVE CodingFlow
    OBVIOUS
  <1>1. /\ cfg \in Configs /\ Pics(Pre) = {} /\ Pics(Filter) = {} /\ Pics(Gop) = {}
        /\ lastPoc = -1000 /\ gop.lastCodingNum = -1 /\ filterPoc = 0
        /\ gop.input = <<>> /\ gop.proc = <<>> /\ gop.output = <<>> /\ busy = {}
        /\ call.au = None /\ main = "idle" /\ picsRcvd = -cfg.lead
    BY StageNames DEF Init, Pics, None
  <1>2. cfg.lead \in Nat /\ Members(<<>>) = {}
    BY <1>1, ConfigType, EmptyQueue
  <1>3. ToCode = {}
    BY <1>1, <1>2 DEF ToCode, Received, IsLeadTrail
  <1>4. Led /\ Conserved
    BY <1>3 DEF Led, Conserved, Passed
  <1>5. Open(list[Gop]) = {}
    BY <1>1 DEF Open, Pics
  <1>6. Order
    BY <1>1, <1>2, <1>5 DEF Order, Wanted, Placed, Numbered, Sequenced, RefsBefore
  <1>7. Begun /\ Gapless
    BY <1>1 DEF Begun, Gapless
  <1>8. OneByOne /\ AuHeld
    BY <1>1 DEF OneByOne, AuHeld
  <1> QED
    BY <1>4, <1>6, <1>7, <1>8 DEF CodingFlow

\* Every step keeps CodingFlow.
LEMMA CodingFlowNext ==
  FlowSafe /\ Fed /\ CodingSafe /\ CodingSafe' /\ FramesFlow /\ CodingFlow /\ [Next]_vars
    => CodingFlow'
  <1> SUFFICES ASSUME FlowSafe, Fed, CodingSafe, CodingSafe', FramesFlow, CodingFlow, [Next]_vars
               PROVE  CodingFlow'
    OBVIOUS
  <1>1. /\ Led /\ Order /\ Begun /\ Gapless /\ Conserved /\ OneByOne /\ AuHeld /\ SameUnits
        /\ DOMAIN gop = {"input", "proc", "output", "lastCodingNum", "pocRecOut"}
    BY DEF CodingFlow, FramesFlow, CodingSafe, Apart
  <1>2. Led' /\ Order'
    BY <1>1, LedNext, OrderNext
  <1>3. Begun' /\ Gapless'
    BY <1>1, BegunNext, GaplessNext
  <1>4. Conserved' /\ OneByOne' /\ AuHeld'
    BY <1>1, ConservedNext, OneByOneNext, AuHeldNext
  <1> QED
    BY <1>2, <1>3, <1>4 DEF CodingFlow

\* In every reachable state the pictures are coded in coding order, none that the
\* filter has passed on is left out, and the first one will be intra.
THEOREM CodingFlowInvariant ==
  Spec => [](FlowSafe /\ Fed /\ CodingSafe /\ FramesFlow /\ CodingFlow)
  <1>1. Init => CodingFlow
    BY CodingFlowInit
  <1>2. FlowSafe /\ Fed /\ CodingSafe /\ CodingSafe' /\ FramesFlow /\ CodingFlow /\ [Next]_vars
          => CodingFlow'
    BY CodingFlowNext
  <1> QED
    BY <1>1, <1>2, FramesInvariant, PTL DEF Spec

-----------------------------------------------------------------------------
(***************************************************************************)
(* No CHECK fails.                                                         *)
(***************************************************************************)

\* The filter finds its frame, and no flush signal comes to a picture whose
\* coding has begun.
LEMMA FilterFindsFrame ==
  ASSUME FlowSafe, Fed, FramesFlow, CodingFlow, NEW last, Filtering(last), FilterChecks(last), ok
  PROVE  ok'
  <1>1. /\ cfg \in Configs /\ filterPoc \in Nat /\ lastPoc \in Int /\ Shape
    BY PocTypes DEF FlowSafe
  <1>2. /\ last = Last(Filter, Pics(Filter)) /\ Ready(Filter)
    BY DEF Filtering
  <1>3. Pics(Filter) # {}
    <2>1. MinQueueSize[Filter] \in Nat \ {0}
      BY <1>1, LeadIs
    <2>2. Cardinality({}) = 0
      BY FS_EmptySet
    <2> QED
      BY <1>2, <2>1, <2>2 DEF Ready
  <1>4. last \in Pics(Filter) /\ last \in Int
    BY <1>1, <1>2, <1>3, LastInFilter
  <1>5. ASSUME filterPoc \in Filtered(last) PROVE filterPoc \in Pics(Filter)
    <2>1. filterPoc <= last
      BY <1>5 DEF Filtered
    <2>2. last <= lastPoc
      BY <1>4 DEF FlowSafe, Ordered
    <2>3. Accepts(Filter, filterPoc) /\ cfg.range \in Nat
      BY <1>1, LeadIs
    <2> QED
      BY <1>1, <1>4, <2>1, <2>2, <2>3 DEF FramesFlow, FilterHolds
  <1>6. ASSUME filterPoc \in Filtered(last), NEW j \in Takers(Gop, filterPoc)
        PROVE  InsertCheck(j, filterPoc)
    <2>1. j = Gop
      BY StageNames DEF Takers
    <2>2. /\ CodingNum(filterPoc) > gop.lastCodingNum /\ CodingNum(filterPoc) \in Nat
          /\ gop.lastCodingNum \in Int
      BY <1>5, <1>6, NewIsNext DEF CodingFlow, Order
    <2>3. ASSUME NEW q \in FlushedBy(Gop, filterPoc) PROVE ~ list[Gop][q].init
      <3>1. q \in Pics(Gop) /\ CodingNum(filterPoc) < CodingNum(q)
        BY DEF FlushedBy, Key
      <3>2. CodingNum(q) \in Nat
        BY <3>1, Numbering
      <3>3. ~ (CodingNum(q) <= gop.lastCodingNum)
        BY <2>2, <3>1, <3>2
      <3> QED
        BY <3>1, <3>3 DEF CodingFlow, Order, Numbered
    <2> QED
      BY <2>1, <2>3 DEF InsertCheck
  <1>7. Filtered(last) \subseteq Pics(Filter)
    BY <1>5 DEF Filtered
  <1> QED
    BY <1>6, <1>7 DEF FilterChecks

\* The first picture that is coded is intra.
LEMMA FirstIsIntra ==
  ASSUME FlowSafe, Fed, CodingSafe, FramesFlow, CodingFlow, NEW p \in NextToInit,
         main = "init", gop.lastCodingNum = -1
  PROVE  unit[GopList[p].unit].intra
  <1>1. /\ Led /\ Order /\ Conserved /\ Drained /\ FilterHolds
    BY DEF CodingFlow, FramesFlow
  <1>2. /\ p \in Pics(Gop) /\ CodingNum(p) \in Nat
        /\ \A q \in Pics(Gop) : ~ list[Gop][q].init => CodingNum(p) <= CodingNum(q)
        /\ \/ CodingNum(p) = 0
           \/ GopList[Last(Gop, Pics(Gop))].flush
    BY <1>1, NextIs
  <1>3. /\ p \in ToCode /\ p <= lastPoc
    BY <1>1, <1>2, ToCodeNumbers, StageNames DEF Order, Wanted, FlowSafe, Ordered
  <1>4. Intra(p) => unit[GopList[p].unit].intra
    BY <1>2, StageNames DEF Intra, GopList
  <1>5. CASE CodingNum(p) = 0
    BY <1>1, <1>3, <1>4, <1>5 DEF Led
  <1>6. CASE CodingNum(p) # 0 /\ GopList[Last(Gop, Pics(Gop))].flush
    <2>1. Last(Gop, Pics(Gop)) \in Pics(Gop)
      <3>1. IsFiniteSet(Pics(Gop)) /\ \A q \in Pics(Gop) : Key(Gop, q) \in Int
        BY Numbering, PocTypes, StageNames DEF Key
      <3> QED
        BY <1>2, <3>1, FiniteHasLast
    <2>2. call.flush
      BY <1>6, <2>1, StageNames DEF GopList, FlowSafe, CallSafe
    <2>3. Pics(Pre) = {} /\ Pics(Filter) = {}
      BY <1>1, <2>2 DEF Drained, GopPlaces
    <2>4. ASSUME NEW q \in ToCode PROVE CodingNum(q) # 0 /\ CodingNum(p) <= CodingNum(q)
      <3>1. /\ q \in 0 .. Frames /\ q < picsRcvd /\ CodingNum(q) \in Nat /\ filterPoc \in Nat
            /\ lastPoc \in Int /\ picsRcvd \in Int /\ cfg.range \in Nat /\ cfg \in Configs
            /\ cfg.lead \in Nat
        BY ToCodeNumbers, PocTypes, LeadIs
      <3>2. q <= lastPoc
        BY <3>1 DEF FlowSafe, Ordered, Processed
      <3>3. q < filterPoc
        <4> SUFFICES ASSUME filterPoc <= q PROVE FALSE
          BY <3>1
        <4>1. Accepts(Filter, q)
          BY <3>1, LeadIs
        <4>2. q \in Pics(Filter)
          BY <1>1, <3>1, <3>2, <4>1 DEF FilterHolds
        <4> QED
          BY <2>3, <4>2
      <3>4. ~ (CodingNum(q) <= gop.lastCodingNum)
        BY <3>1
      <3>5. q \in Pics(Gop) /\ ~ list[Gop][q].init
        BY <1>1, <3>2, <3>3, <3>4 DEF Conserved, Passed, Order, Numbered
      <3>6. CodingNum(p) <= CodingNum(q)
        BY <1>2, <3>5
      <3> QED
        BY <1>2, <1>6, <3>1, <3>6
    <2>5. Leads(p)
      BY <2>4 DEF Leads
    <2>6. Intra(p)
      BY <1>1, <1>3, <2>3, <2>5 DEF Led
    <2> QED
      BY <1>4, <2>6
  <1> QED
    BY <1>2, <1>5, <1>6

\* No step fails a check.
LEMMA ChecksNext ==
  ASSUME FlowSafe, Fed, CodingSafe, FramesFlow, CodingFlow, ok, [Next]_vars
  PROVE  ok'
  <1>1. CASE PreProcess
    BY <1>1, PreProcessCases
  <1>2. CASE FilterPictures
    BY <1>2, FilterCases, FilterFindsFrame
  <1>3. CASE StartGop
    <2>1. ok' = (ok /\ (Ready(Gop) /\ cfg.parallel = 0 => gop.input = <<>> /\ gop.output = <<>>))
          /\ main = "gop"
      BY <1>3 DEF StartGop
    <2>2. cfg.parallel = 0 => gop.input = <<>> /\ gop.output = <<>>
      BY <2>1 DEF CodingFlow, OneByOne
    <2> QED
      BY <2>1, <2>2
  <1>4. CASE InitPicture
    <2>1. ASSUME NEW p \in Pics(Gop), Heading(p), FirstIntra(p) PROVE ok'
      <3>1. p \in NextToInit /\ main = "init"
        BY <2>1 DEF Heading
      <3>2. gop.lastCodingNum = -1 => unit[GopList[p].unit].intra
        BY <3>1, FirstIsIntra
      <3> QED
        BY <2>1, <3>2 DEF FirstIntra
    <2> QED
      BY <1>4, <2>1, InitCases
  <1>5. CASE EndEncode
    <2>1. ok' = (ok /\ LeaveLoop) /\ ~ CanStart /\ (LeaveLoop \/ busy = {})
      BY <1>5 DEF EndEncode
    <2>2. busy = {} => gop.proc = <<>>
      BY <2>1, SomeReady DEF CodingFlow
    <2> QED
      BY <2>1, <2>2 DEF LeaveLoop
  <1>6. CASE ReleasePictures
    <2>1. /\ main = "release" /\ (ok' <=> ok /\ {call.au} \ {None} \subseteq Pics(Gop))
      BY <1>6, ReleaseCases DEF Releasing, CodingSafe, Apart
    <2>2. call.au = None \/ call.au \in Pics(Gop)
      BY <2>1 DEF CodingFlow, AuHeld
    <2> QED
      BY <2>1, <2>2
  <1>7. CASE AddInput \/ EncodePicture \/ WriteAccessUnit \/ (\E p \in busy : FinishPicture(p))
    BY <1>7 DEF AddInput, EncodePicture, WriteAccessUnit, FinishPicture
  <1>8. CASE EncodeFrame \/ EncodeFlush \/ EndOfStages \/ UNCHANGED vars
    BY <1>8 DEF EncodeFrame, EncodeFlush, EndOfStages, returned, vars
  <1> QED
    BY <1>1, <1>2, <1>3, <1>4, <1>5, <1>6, <1>7, <1>8 DEF Next, RunStages, Done

\* No CHECK of the stages fails, for any configuration: no unused unit is given
\* back (EncStage.h:125), the filter finds its frame (MCTF.cpp), no flush signal
\* comes to a picture whose coding has begun, the first picture is intra, a GOP
\* encoder without parallel pictures has none left over, and a picture encoder
\* runs whenever the calling thread waits for one.
THEOREM ChecksHold ==
  Spec => []NoFatalError
  <1>1. Init => ok
    BY DEF Init
  <1>2. FlowSafe /\ Fed /\ CodingSafe /\ FramesFlow /\ CodingFlow /\ ok /\ [Next]_vars => ok'
    BY ChecksNext
  <1> QED
    BY <1>1, <1>2, CodingFlowInvariant, PTL DEF Spec, NoFatalError

-----------------------------------------------------------------------------
(***************************************************************************)
(* The invariant of the access units: those the caller has, those in       *)
(* EncLib's list, the one just written, and those to be written, in coding *)
(* order.  They are the pictures that have a slice header.                 *)
(***************************************************************************)
Below(S, T) == \A p \in S, q \in T : CodingNum(p) < CodingNum(q)
Sorted(s)   == \A i, j \in DOMAIN s : i < j => CodingNum(s[i]) < CodingNum(s[j])

AllUnits(d, a, x, o) == Members(d) \cup Members(a) \cup x \cup Members(o)
Lined(d, a, x, o) ==
  /\ OneEach(d) /\ OneEach(a) /\ OneEach(o)
  /\ Sorted(a) /\ Sorted(o)
  /\ Below(Members(d), Members(a) \cup x \cup Members(o))
  /\ Below(Members(a), x \cup Members(o))
  /\ Below(x, Members(o))
  /\ \A p \in AllUnits(d, a, x, o) : p \in Int /\ CodingNum(p) \in Nat

AuUnit  == {call.au} \ {None}
AuUnits == AllUnits(delivered, auList, AuUnit, gop.output)
Complete ==
  /\ \A p \in AuUnits : p \in ToCode /\ CodingNum(p) <= gop.lastCodingNum
  /\ \A p \in Passed : CodingNum(p) <= gop.lastCodingNum => p \in AuUnits
Delivery == Lined(delivered, auList, AuUnit, gop.output) /\ Complete

-----------------------------------------------------------------------------
(***************************************************************************)
(* Its proof: access units go from one place to the next.                  *)
(***************************************************************************)
LEMMA SortedAppend ==
  ASSUME NEW s, OneEach(s), Sorted(s), NEW p \in Int, p \notin Members(s), Below(Members(s), {p})
  PROVE  Sorted(Append(s, p))
  <1>1. PICK n \in Nat : n = Len(s) /\ DOMAIN s = 1 .. n
    BY LenProperties DEF OneEach
  <1>2. PICK t : t = Append(s, p)
    OBVIOUS
  <1>3. /\ DOMAIN t = 1 .. (n + 1)
        /\ \A i \in 1 .. n : t[i] = s[i]
        /\ t[n + 1] = p
    BY <1>1, <1>2, AppendProperties, LenProperties DEF OneEach
  <1>4. \A i \in 1 .. n : CodingNum(s[i]) < CodingNum(p)
    BY <1>1 DEF Members, Below
  <1>5. ASSUME NEW i \in 1 .. (n + 1), NEW j \in 1 .. (n + 1), i < j
        PROVE  CodingNum(t[i]) < CodingNum(t[j])
    <2>1. i \in 1 .. n
      BY <1>1, <1>5
    <2>2. CASE j \in 1 .. n
      BY <1>1, <1>3, <1>5, <2>1, <2>2 DEF Sorted
    <2>3. CASE j = n + 1
      BY <1>3, <1>4, <2>1, <2>3
    <2> QED
      BY <1>1, <2>2, <2>3
  <1> QED
    BY <1>2, <1>3, <1>5 DEF Sorted

\* A sorted sequence without its head.
LEMMA SortedTail ==
  ASSUME NEW s, OneEach(s), Sorted(s), s # <<>>
  PROVE  Sorted(Tail(s)) /\ Below({Head(s)}, Members(Tail(s)))
  <1>0. s \in Seq(Int)
    BY DEF OneEach
  <1>1. PICK n \in Nat : n = Len(s) /\ DOMAIN s = 1 .. n
    BY <1>0, LenProperties
  <1>2. n >= 1
    <2>1. Len(s) \in Nat \ {0}
      BY <1>0, EmptySeq
    <2> QED
      BY <1>1, <2>1
  <1>3. PICK t : t = Tail(s)
    OBVIOUS
  <1>4. t \in Seq(Int) /\ Len(t) = n - 1 /\ \A i \in 1 .. Len(t) : t[i] = s[i + 1]
    BY <1>0, <1>1, <1>3, HeadTailProperties
  <1>5. DOMAIN t = 1 .. (n - 1) /\ \A i \in 1 .. (n - 1) : t[i] = s[i + 1]
    BY <1>4, LenProperties
  <1>6. \A i, j \in 1 .. n : i < j => CodingNum(s[i]) < CodingNum(s[j])
    BY <1>1 DEF Sorted
  <1>7. 1 \in 1 .. n /\ Head(s) = s[1]
    BY <1>2
  <1>8. ASSUME NEW i \in 1 .. (n - 1), NEW j \in 1 .. (n - 1), i < j
        PROVE  CodingNum(t[i]) < CodingNum(t[j])
    <2>1. i + 1 \in 1 .. n /\ j + 1 \in 1 .. n /\ i + 1 < j + 1
      BY <1>8
    <2> QED
      BY <1>5, <1>6, <2>1
  <1>9. ASSUME NEW i \in 1 .. (n - 1) PROVE CodingNum(s[1]) < CodingNum(t[i])
    <2>1. i + 1 \in 1 .. n /\ 1 < i + 1
      OBVIOUS
    <2> QED
      BY <1>5, <1>6, <1>7, <2>1
  <1>10. Sorted(t)
    BY <1>5, <1>8 DEF Sorted
  <1>11. Below({s[1]}, Members(t))
    BY <1>5, <1>9 DEF Below, Members
  <1> QED
    BY <1>3, <1>7, <1>10, <1>11

\* A picture gets its slice header.
LEMMA LinedHeading ==
  ASSUME NEW d, NEW a, NEW x, NEW o, Lined(d, a, x, o), NEW p \in Int, CodingNum(p) \in Nat,
         Below(AllUnits(d, a, x, o), {p})
  PROVE  /\ Lined(d, a, x, Append(o, p))
         /\ AllUnits(d, a, x, Append(o, p)) = AllUnits(d, a, x, o) \cup {p}
  <1>1. p \notin Members(o)
    BY DEF Below, AllUnits, Lined
  <1>2. PICK t : t = Append(o, p)
    OBVIOUS
  <1>3. OneEach(t) /\ Members(t) = Members(o) \cup {p}
    BY <1>1, <1>2, Appended DEF Lined
  <1>4. Sorted(t)
    <2>1. Below(Members(o), {p})
      BY DEF Below, AllUnits
    <2> QED
      BY <1>1, <1>2, <2>1, SortedAppend DEF Lined
  <1>5. AllUnits(d, a, x, t) = AllUnits(d, a, x, o) \cup {p}
    BY <1>3 DEF AllUnits
  <1>6. Lined(d, a, x, t)
    BY <1>3, <1>4, <1>5 DEF Lined, Below, AllUnits
  <1> QED
    BY <1>2, <1>5, <1>6

\* It is written.
LEMMA LinedWriting ==
  ASSUME NEW d, NEW a, NEW o, Lined(d, a, {}, o), o # <<>>
  PROVE  /\ Lined(d, a, {Head(o)}, Tail(o))
         /\ AllUnits(d, a, {Head(o)}, Tail(o)) = AllUnits(d, a, {}, o)
  <1>1. PICK p, t : p = Head(o) /\ t = Tail(o)
    OBVIOUS
  <1>2. OneEach(t) /\ Members(t) = Members(o) \ {p} /\ p \in Members(o)
    BY <1>1, Tailed DEF Lined
  <1>3. Sorted(t) /\ Below({p}, Members(t))
    BY <1>1, SortedTail DEF Lined
  <1>4. AllUnits(d, a, {p}, t) = AllUnits(d, a, {}, o)
    BY <1>2 DEF AllUnits
  <1>5. Lined(d, a, {p}, t)
    BY <1>2, <1>3, <1>4 DEF Lined, Below, AllUnits
  <1> QED
    BY <1>1, <1>4, <1>5

\* EncLib takes its access unit.
LEMMA LinedTaken ==
  ASSUME NEW d, NEW a, NEW o, NEW p, Lined(d, a, {p}, o)
  PROVE  /\ Lined(d, Append(a, p), {}, o)
         /\ AllUnits(d, Append(a, p), {}, o) = AllUnits(d, a, {p}, o)
  <1>1. p \in Int /\ CodingNum(p) \in Nat
    BY DEF Lined, AllUnits
  <1>2. p \notin Members(a) /\ Below(Members(a), {p})
    BY <1>1 DEF Below, Lined
  <1>3. PICK t : t = Append(a, p)
    OBVIOUS
  <1>4. OneEach(t) /\ Members(t) = Members(a) \cup {p}
    BY <1>1, <1>2, <1>3, Appended DEF Lined
  <1>5. Sorted(t)
    BY <1>1, <1>2, <1>3, SortedAppend DEF Lined
  <1>6. AllUnits(d, t, {}, o) = AllUnits(d, a, {p}, o)
    BY <1>4 DEF AllUnits
  <1>7. Lined(d, t, {}, o)
    BY <1>4, <1>5, <1>6 DEF Lined, Below, AllUnits
  <1> QED
    BY <1>3, <1>6, <1>7

\* The caller gets it.
LEMMA LinedDelivered ==
  ASSUME NEW d, NEW a, NEW o, Lined(d, a, {}, o), a # <<>>
  PROVE  /\ Lined(Append(d, Head(a)), Tail(a), {}, o)
         /\ AllUnits(Append(d, Head(a)), Tail(a), {}, o) = AllUnits(d, a, {}, o)
         /\ Head(a) \in Members(a) /\ Below(Members(d), {Head(a)})
  <1>1. PICK p, t : p = Head(a) /\ t = Tail(a)
    OBVIOUS
  <1>2. OneEach(t) /\ Members(t) = Members(a) \ {p} /\ p \in Members(a)
    BY <1>1, Tailed DEF Lined
  <1>3. Sorted(t) /\ Below({p}, Members(t))
    BY <1>1, SortedTail DEF Lined
  <1>4. p \in Int /\ CodingNum(p) \in Nat
    BY <1>2 DEF Lined, AllUnits
  <1>5. p \notin Members(d) /\ Below(Members(d), {p})
    BY <1>2, <1>4 DEF Below, Lined
  <1>6. PICK e : e = Append(d, p)
    OBVIOUS
  <1>7. OneEach(e) /\ Members(e) = Members(d) \cup {p}
    BY <1>4, <1>5, <1>6, Appended DEF Lined
  <1>8. AllUnits(e, t, {}, o) = AllUnits(d, a, {}, o)
    BY <1>2, <1>7 DEF AllUnits
  <1>9. Lined(e, t, {}, o)
    BY <1>2, <1>3, <1>7, <1>8 DEF Lined, Below, AllUnits
  <1> QED
    BY <1>1, <1>2, <1>5, <1>6, <1>8, <1>9

\* The end of a round of the stages: EncLib takes the access unit, and the caller
\* may get the first of its list.
LEMMA ListTaken ==
  ASSUME Lined(delivered, auList, AuUnit, gop.output)
  PROVE  /\ Lined(delivered, NewAuList, {}, gop.output)
         /\ AllUnits(delivered, NewAuList, {}, gop.output) = AuUnits
  <1>1. CASE call.au = None
    <2>1. NewAuList = auList /\ AuUnit = {}
      BY <1>1 DEF NewAuList, AuUnit
    <2> QED
      BY <2>1 DEF AuUnits
  <1>2. CASE call.au # None
    <2>1. NewAuList = Append(auList, call.au) /\ AuUnit = {call.au}
      BY <1>2 DEF NewAuList, AuUnit
    <2> QED
      BY <2>1, LinedTaken DEF AuUnits
  <1> QED
    BY <1>1, <1>2

\* The end of the stages keeps an access unit back or delivers the first one,
\* and reports the end when the stages are done.
LEMMA EndCases ==
  ASSUME EndOfStages, DOMAIN call = {"flush", "pending", "au"},
         delivered \in Seq(Int), NEW a \in Seq(Int), a = NewAuList
  PROVE  /\ UNCHANGED <<cfg, list, lastPoc, filterPoc, gop, picsRcvd>> /\ call'.au = None
         /\ main = "end" /\ main' \in {"wait", "input", "idle", "done"}
         /\ \/ auList' = a /\ delivered' = delivered
            \/ a # <<>> /\ auList' = Tail(a) /\ delivered' = Append(delivered, Head(a))
         /\ main' = "done" => StagesDone /\ auList' = <<>>
  <1>1. UNCHANGED <<cfg, list, lastPoc, filterPoc, gop, picsRcvd>> /\ main = "end"
    BY DEF EndOfStages, stages, looking
  <1>2. CASE StayInCall
    <2>1. /\ main' \in {"wait", "input"} /\ auList' = a /\ delivered' = delivered
          /\ call' = [call EXCEPT !.au = None]
      BY <1>2 DEF StayInCall
    <2> QED
      BY <1>1, <2>1
  <1>3. CASE ReturnFromCall
    <2>1. PICK n \in {0, 1} : /\ n = IF a # <<>> /\ NewStarted THEN 1 ELSE 0
                              /\ auList' = SubSeq(a, n + 1, Len(a))
                              /\ delivered' = delivered \o SubSeq(a, 1, n)
      BY <1>3 DEF ReturnFromCall
    <2>2. /\ call'.au = None /\ main' \in {"idle", "done"}
          /\ main' = "done" => StagesDone /\ auList' = <<>>
      BY <1>3 DEF ReturnFromCall, QueueEmpty
    <2>3. CASE n = 0
      <3>1. SubSeq(a, 1, Len(a)) = a /\ SubSeq(a, 1, 0) = <<>>
        BY SubSeqFull, SubSeqEmpty
      <3>2. delivered \o <<>> = delivered
        BY ConcatEmptySeq
      <3> QED
        BY <1>1, <2>1, <2>2, <2>3, <3>1, <3>2
    <2>4. CASE n = 1
      <3>1. a # <<>>
        BY <2>1, <2>4
      <3>2. PICK k \in Nat \ {0} : k = Len(a)
        BY <3>1, EmptySeq
      <3>3. Tail(a) = SubSeq(a, 2, Len(a))
        BY <3>1, TailIsSubSeq
      <3>4. a[1] \in Int /\ Head(a) = a[1]
        BY <3>2, ElementOfSeq
      <3>5. SubSeq(a, 1, 1) = <<a[1]>> \o SubSeq(a, 2, 1)
        BY <3>2, SubSeqRecursiveFirst
      <3>6. SubSeq(a, 2, 1) = <<>> /\ <<a[1]>> \o <<>> = <<a[1]>>
        <4>1. <<a[1]>> \in Seq(Int)
          BY <3>4
        <4> QED
          BY <4>1, SubSeqEmpty, ConcatEmptySeq
      <3>7. Append(delivered, a[1]) = delivered \o <<a[1]>>
        BY <3>4, AppendIsConcat
      <3>8. auList' = SubSeq(a, 2, Len(a)) /\ delivered' = delivered \o SubSeq(a, 1, 1)
        BY <2>1, <2>4
      <3> QED
        BY <1>1, <2>2, <3>1, <3>3, <3>4, <3>5, <3>6, <3>7, <3>8
    <2> QED
      BY <2>3, <2>4
  <1> QED
    BY <1>2, <1>3 DEF EndOfStages

\* No access unit goes anywhere.
Unsent ==
  /\ UNCHANGED <<cfg, auList, delivered>> /\ call'.au = call.au
  /\ gop'.output = gop.output /\ gop'.lastCodingNum = gop.lastCodingNum

\* The steps by what they do to access units.
LEMMA DeliverySteps ==
  ASSUME FlowSafe, Fed, CodingSafe, [Next]_vars
  PROVE  EndOfStages \/ Unsent \/ (\E p \in Pics(Gop) : Heading(p)) \/ (\E p : Writing(p))
  <1>1. /\ DOMAIN call = {"flush", "pending", "au"}
        /\ DOMAIN gop = {"input", "proc", "output", "lastCodingNum", "pocRecOut"}
    BY DEF FlowSafe, CallSafe, CodingSafe, Apart
  <1>2. CASE AddInput
    <2>1. ASSUME NEW u, Taking(u) PROVE Unsent
      BY <2>1, TakingIs DEF Taking, Unsent
    <2> QED
      BY <1>2, <2>1, InputSteps DEF Unsent
  <1>3. CASE PreProcess
    BY <1>3, PreProcessCases DEF Unsent
  <1>4. CASE FilterPictures
    BY <1>4, FilterCases DEF OnlyFlows, Unsent
  <1>5. CASE ReleasePictures
    <2>1. SameQueue /\ OnlyFlows
      BY <1>1, <1>5, ReleaseMoves, ReleaseCases DEF Moves
    <2> QED
      BY <2>1 DEF OnlyFlows, SameQueue, Unsent
  <1>6. CASE InitPicture
    <2>1. Queueing => Unsent
      BY DEF Queueing, Coded, Unsent
    <2> QED
      BY <1>6, <2>1, InitCases
  <1>7. CASE EncodePicture
    <2>1. \A p : Encoding(p) => Unsent
      BY DEF Encoding, Coded, Unsent
    <2> QED
      BY <1>7, <2>1, EncodeCases
  <1>8. CASE \E p \in busy : FinishPicture(p)
    <2>1. \A p : Completing(p) => Unsent
      BY DEF Completing, Coded, SameQueue, Unsent
    <2> QED
      BY <1>8, <2>1, FinishCases
  <1>9. CASE WriteAccessUnit
    <2>1. CASE OutputReady
      BY <1>1, <1>9, <2>1, WriteCases
    <2>2. CASE ~ OutputReady
      BY <1>9, <2>2 DEF WriteAccessUnit, returned, Unsent
    <2> QED
      BY <2>1, <2>2
  <1>10. CASE EncodeFrame \/ EncodeFlush
    <2>1. UNCHANGED <<cfg, gop, auList, delivered>> /\ call'.au = call.au
      BY <1>1, <1>10 DEF EncodeFrame, EncodeFlush, returned
    <2> QED
      BY <2>1 DEF Unsent
  <1>11. CASE StartGop \/ EndEncode \/ UNCHANGED vars
    BY <1>11 DEF StartGop, EndEncode, returned, vars, Unsent
  <1> QED
    BY <1>2, <1>3, <1>4, <1>5, <1>6, <1>7, <1>8, <1>9, <1>10, <1>11 DEF Next, RunStages, Done

\* Initially there are none.
LEMMA DeliveryInit ==
  Init => Delivery
  <1> SUFFICES ASSUME Init PROVE Delivery
    OBVIOUS
  <1>1. /\ delivered = <<>> /\ auList = <<>> /\ gop.output = <<>> /\ AuUnit = {}
        /\ cfg \in Configs /\ picsRcvd = -cfg.lead
    BY DEF Init, AuUnit
  <1>2. OneEach(<<>>) /\ Members(<<>>) = {} /\ Sorted(<<>>)
    BY EmptyQueue DEF Sorted
  <1>3. AuUnits = {} /\ Lined(delivered, auList, AuUnit, gop.output)
    BY <1>1, <1>2 DEF AuUnits, AllUnits, Lined, Below
  <1>4. Passed = {}
    BY <1>1, ConfigType DEF Passed, ToCode, Received, IsLeadTrail
  <1> QED
    BY <1>3, <1>4 DEF Delivery, Complete

\* What has been received stays so.
LEMMA ToCodeGrows ==
  ASSUME FlowSafe, Fed, CodingSafe, [Next]_vars
  PROVE  ToCode \subseteq ToCode'
  <1>1. picsRcvd \in Int /\ cfg \in Configs /\ cfg.lead \in Nat
    BY PocTypes, LeadIs
  <1>2. cfg' = cfg /\ (picsRcvd' = picsRcvd \/ picsRcvd' = picsRcvd + 1)
    <2>1. ASSUME NEW u, Taking(u) PROVE picsRcvd' = picsRcvd + 1 /\ cfg' = cfg
      BY <2>1, TakingIs DEF Taking
    <2>2. DOMAIN gop = {"input", "proc", "output", "lastCodingNum", "pocRecOut"}
      BY DEF CodingSafe, Apart
    <2> QED
      BY <2>1, <2>2, FrameSteps, PreProcessCases, FilterCases, ReleaseCases DEF OnlyFlows, Quiet
  <1>3. \A p : IsLeadTrail(p)' <=> IsLeadTrail(p)
    BY <1>2, ConfigSame
  <1> QED
    BY <1>1, <1>2, <1>3 DEF ToCode, Received

\* The order of new values is the order in the next state.
LEMMA LinedAgain ==
  ASSUME cfg' = cfg, NEW d, NEW a, NEW x, NEW o, Lined(d, a, x, o),
         d = delivered', a = auList', x = AuUnit', o = gop'.output
  PROVE  /\ Lined(delivered, auList, AuUnit, gop.output)'
         /\ AuUnits' = AllUnits(d, a, x, o)
  <1>1. \A q : CodingNum(q)' = CodingNum(q)
    BY ConfigSame
  <1>2. AuUnits' = AllUnits(d, a, x, o)
    BY DEF AuUnits, AllUnits, Members
  <1>3. Lined(delivered, auList, AuUnit, gop.output)'
    <2>1. (OneEach(delivered) /\ OneEach(auList) /\ OneEach(gop.output))'
      BY DEF Lined, OneEach
    <2>2. Sorted(auList)' /\ Sorted(gop.output)'
      BY <1>1 DEF Lined, Sorted
    <2>3. /\ Below(Members(delivered), Members(auList) \cup AuUnit \cup Members(gop.output))'
          /\ Below(Members(auList), AuUnit \cup Members(gop.output))'
          /\ Below(AuUnit, Members(gop.output))'
      BY <1>1 DEF Lined, Below, Members
    <2>4. (\A p \in AllUnits(delivered, auList, AuUnit, gop.output) :
             p \in Int /\ CodingNum(p) \in Nat)'
      BY <1>1 DEF Lined, AllUnits, Members
    <2> QED
      BY <2>1, <2>2, <2>3, <2>4 DEF Lined
  <1> QED
    BY <1>2, <1>3

\* No access unit is lost or forgotten when none gets a slice header.
LEMMA CompleteKept ==
  ASSUME FlowSafe, Fed, CodingSafe, FramesFlow, CodingFlow, Complete, [Next]_vars,
         cfg' = cfg, gop'.lastCodingNum = gop.lastCodingNum, AuUnits' = AuUnits
  PROVE  Complete'
  <1>1. \A q : CodingNum(q)' = CodingNum(q)
    BY ConfigSame
  <1>2. \A p \in AuUnits : p \in ToCode'
    BY ToCodeGrows DEF Complete
  <1>3. ASSUME NEW p \in Passed', CodingNum(p) <= gop.lastCodingNum PROVE p \in AuUnits
    <2>1. CASE p \in Passed
      BY <1>3, <2>1 DEF Complete
    <2>2. CASE p = filterPoc /\ p \in Pics(Filter)
      <3>1. /\ CodingNum(p) > gop.lastCodingNum /\ CodingNum(p) \in Nat
            /\ gop.lastCodingNum \in Int
        BY <2>2, NewIsNext DEF CodingFlow, Order
      <3> QED
        BY <1>3, <3>1
    <2> QED
      BY <2>1, <2>2, PassedNext
  <1> QED
    BY <1>1, <1>2, <1>3 DEF Complete

\* The picture whose slice header is written is the next in line.
LEMMA DeliveryHeading ==
  ASSUME FlowSafe, Fed, CodingSafe, CodingFlow, Delivery, NEW p \in Pics(Gop), Heading(p)
  PROVE  Delivery'
  <1>1. /\ Coded /\ call' = call /\ p \in NextToInit
        /\ gop'.output = Append(gop.output, p) /\ gop'.lastCodingNum = CodingNum(p)
    BY DEF Heading
  <1>2. /\ cfg' = cfg /\ delivered' = delivered /\ auList' = auList /\ AuUnit' = AuUnit
        /\ Passed' = Passed /\ ToCode' = ToCode
        /\ \A q : CodingNum(q)' = CodingNum(q)
    BY <1>1, LeadsSame, ConfigSame DEF Coded, AuUnit, Passed
  <1>3. /\ p \in Pics(Gop) /\ CodingNum(p) \in Nat
        /\ \A q \in Pics(Gop) : ~ list[Gop][q].init => CodingNum(p) <= CodingNum(q)
        /\ gop.lastCodingNum < CodingNum(p) /\ gop.lastCodingNum \in Int
    BY <1>1, NextIs DEF CodingFlow
  <1>4. p \in ToCode /\ p \in Int
    BY Numbering, ToCodeNumbers, StageNames DEF CodingFlow, Order, Wanted
  <1>5. /\ \A q \in ToCode : CodingNum(q) \in Nat
        /\ \A q, r \in ToCode : CodingNum(q) = CodingNum(r) => q = r
    BY ToCodeNumbers
  <1>6. \A q \in AuUnits : q \in ToCode /\ CodingNum(q) < CodingNum(p)
    <2> TAKE q \in AuUnits
    <2>1. q \in ToCode /\ CodingNum(q) <= gop.lastCodingNum
      BY DEF Delivery, Complete
    <2> QED
      BY <1>3, <1>5, <2>1
  <1>7. Below(AuUnits, {p})
    BY <1>6 DEF Below
  <1>8. /\ Lined(delivered, auList, AuUnit, Append(gop.output, p))
        /\ AllUnits(delivered, auList, AuUnit, Append(gop.output, p)) = AuUnits \cup {p}
    BY <1>3, <1>4, <1>7, LinedHeading DEF Delivery, AuUnits
  <1>9. Lined(delivered, auList, AuUnit, gop.output)' /\ AuUnits' = AuUnits \cup {p}
    BY <1>1, <1>2, <1>8, LinedAgain
  <1>10. \A q \in AuUnits' : q \in ToCode' /\ CodingNum(q) <= CodingNum(p)
    <2> TAKE q \in AuUnits'
    <2>1. CASE q \in AuUnits
      <3>1. q \in ToCode /\ CodingNum(q) < CodingNum(p) /\ CodingNum(q) \in Nat
        BY <1>5, <1>6, <2>1
      <3> QED
        BY <1>2, <1>3, <3>1
    <2>2. CASE q = p
      BY <1>2, <1>3, <1>4, <2>2
    <2> QED
      BY <1>9, <2>1, <2>2
  <1>11. ASSUME NEW q \in Passed, CodingNum(q) <= CodingNum(p) PROVE q \in AuUnits'
    <2>1. CASE CodingNum(q) <= gop.lastCodingNum
      BY <1>9, <2>1 DEF Delivery, Complete
    <2>2. CASE ~ (CodingNum(q) <= gop.lastCodingNum)
      <3>1. q \in Pics(Gop) /\ ~ list[Gop][q].init
        BY <2>2 DEF CodingFlow, Conserved, Order, Numbered
      <3>2. CodingNum(p) <= CodingNum(q) /\ q \in ToCode
        BY <1>3, <3>1 DEF Passed
      <3>3. q = p
        BY <1>3, <1>4, <1>5, <1>11, <3>2
      <3> QED
        BY <1>9, <3>3
    <2> QED
      BY <2>1, <2>2
  <1>12. Complete'
    BY <1>1, <1>2, <1>10, <1>11 DEF Complete
  <1> QED
    BY <1>9, <1>12 DEF Delivery

\* Every step keeps Delivery.
LEMMA DeliveryNext ==
  FlowSafe /\ Fed /\ CodingSafe /\ FramesFlow /\ CodingFlow /\ Delivery /\ [Next]_vars => Delivery'
  <1> SUFFICES ASSUME FlowSafe, Fed, CodingSafe, FramesFlow, CodingFlow, Delivery, [Next]_vars
               PROVE  Delivery'
    OBVIOUS
  <1>1. /\ Lined(delivered, auList, AuUnit, gop.output) /\ Complete
        /\ DOMAIN call = {"flush", "pending", "au"}
    BY DEF Delivery, FlowSafe, CallSafe
  <1>2. CASE EndOfStages
    <2>1. PICK a : a = NewAuList
      OBVIOUS
    <2>2. /\ Lined(delivered, a, {}, gop.output)
          /\ AllUnits(delivered, a, {}, gop.output) = AuUnits
      BY <1>1, <2>1, ListTaken
    <2>3. delivered \in Seq(Int) /\ a \in Seq(Int)
      BY <2>2 DEF Lined, OneEach
    <2>4. /\ UNCHANGED <<cfg, gop>> /\ call'.au = None
          /\ \/ auList' = a /\ delivered' = delivered
             \/ a # <<>> /\ auList' = Tail(a) /\ delivered' = Append(delivered, Head(a))
      BY <1>1, <1>2, <2>1, <2>3, EndCases
    <2>5. AuUnit' = {}
      BY <2>4 DEF AuUnit
    <2>6. PICK d, b : d = delivered' /\ b = auList'
      OBVIOUS
    <2>7. Lined(d, b, {}, gop.output) /\ AllUnits(d, b, {}, gop.output) = AuUnits
      BY <2>2, <2>4, <2>6, LinedDelivered
    <2>8. Lined(delivered, auList, AuUnit, gop.output)' /\ AuUnits' = AuUnits
      BY <2>4, <2>5, <2>6, <2>7, LinedAgain
    <2>9. Complete'
      BY <1>1, <2>4, <2>8, CompleteKept
    <2> QED
      BY <2>8, <2>9 DEF Delivery
  <1>3. CASE Unsent
    <2>1. /\ UNCHANGED <<cfg, auList, delivered>> /\ AuUnit' = AuUnit
          /\ gop'.output = gop.output /\ gop'.lastCodingNum = gop.lastCodingNum
      BY <1>3 DEF Unsent, AuUnit
    <2>2. Lined(delivered, auList, AuUnit, gop.output)' /\ AuUnits' = AuUnits
      BY <1>1, <2>1, LinedAgain DEF AuUnits
    <2>3. Complete'
      BY <1>1, <2>1, <2>2, CompleteKept
    <2> QED
      BY <2>2, <2>3 DEF Delivery
  <1>4. ASSUME NEW p, Writing(p) PROVE Delivery'
    <2>1. /\ Coded /\ main = "output" /\ call'.au = p /\ gop.output # <<>> /\ p = Head(gop.output)
          /\ p \in Open(list[Gop])
          /\ gop'.output = Tail(gop.output) /\ gop'.lastCodingNum = gop.lastCodingNum
      BY <1>4 DEF Writing
    <2>2. UNCHANGED <<cfg, auList, delivered>>
      BY <2>1 DEF Coded
    <2>3. AuUnit = {}
      BY <2>1 DEF AuUnit, CodingFlow, AuHeld
    <2>4. p # None
      <3>1. p \in Pics(Gop)
        BY <2>1 DEF Open, Pics
      <3>2. p \in 0 .. Frames
        BY <3>1, Numbering
      <3> QED
        BY <3>2 DEF None
    <2>5. AuUnit' = {p}
      BY <2>1, <2>4 DEF AuUnit, None
    <2>6. /\ Lined(delivered, auList, {p}, Tail(gop.output))
          /\ AllUnits(delivered, auList, {p}, Tail(gop.output)) = AuUnits
      BY <1>1, <2>1, <2>3, LinedWriting DEF AuUnits
    <2>7. Lined(delivered, auList, AuUnit, gop.output)' /\ AuUnits' = AuUnits
      BY <2>1, <2>2, <2>5, <2>6, LinedAgain
    <2>8. Complete'
      BY <1>1, <2>1, <2>2, <2>7, CompleteKept
    <2> QED
      BY <2>7, <2>8 DEF Delivery
  <1> QED
    BY <1>2, <1>3, <1>4, DeliverySteps, DeliveryHeading

\* In every reachable state the access units that the caller has, those that wait
\* and those to be written are the pictures with a slice header, in coding order.
THEOREM DeliveryInvariant ==
  Spec => [](FlowSafe /\ Fed /\ CodingSafe /\ FramesFlow /\ CodingFlow /\ Delivery)
  <1>1. Init => Delivery
    BY DeliveryInit
  <1>2. FlowSafe /\ Fed /\ CodingSafe /\ FramesFlow /\ CodingFlow /\ Delivery /\ [Next]_vars
          => Delivery'
    BY DeliveryNext
  <1> QED
    BY <1>1, <1>2, CodingFlowInvariant, PTL DEF Spec

-----------------------------------------------------------------------------
(***************************************************************************)
(* The stages implement AccessUnits.                                       *)
(***************************************************************************)
Asked  == {q \in 0 .. Frames : ~ IsLeadTrail(q)}
NumberedFrames == [p \in Asked |-> CodingNum(p)]

\* The coding numbers of the frames that have come in.
LEMMA CodingIs ==
  ASSUME FlowSafe, Fed
  PROVE  /\ Received \cap Asked = ToCode /\ DOMAIN NumberedFrames = Asked
         /\ \A p \in ToCode : NumberedFrames[p] = CodingNum(p)
  <1>1. \A p \in ToCode : p \in 0 .. Frames
    BY ToCodeNumbers
  <1>2. Received \cap Asked = ToCode
    BY <1>1 DEF Asked, ToCode
  <1> QED
    BY <1>2 DEF NumberedFrames

\* They do not change.
LEMMA CodingSame ==
  ASSUME cfg' = cfg
  PROVE  NumberedFrames' = NumberedFrames
  <1>1. \A q : (IsLeadTrail(q)' <=> IsLeadTrail(q)) /\ CodingNum(q)' = CodingNum(q)
    BY ConfigSame
  <1>2. Asked' = Asked
    BY <1>1 DEF Asked, Frames
  <1> QED
    BY <1>1, <1>2 DEF NumberedFrames

\* The caller sees nothing of most steps.
Unseen ==
  /\ UNCHANGED <<cfg, picsRcvd, delivered>>
  /\ main' = "done" <=> main = "done"

\* Only input and the end of the stages are seen from outside.
LEMMA SeenSteps ==
  ASSUME FlowSafe, Fed, CodingSafe, [Next]_vars
  PROVE  (\E u : Taking(u)) \/ EndOfStages \/ Unseen
  <1>1. /\ DOMAIN gop = {"input", "proc", "output", "lastCodingNum", "pocRecOut"}
        /\ DOMAIN call = {"flush", "pending", "au"}
    BY DEF FlowSafe, CallSafe, CodingSafe, Apart
  <1>2. CASE AddInput
    BY <1>2, InputSteps DEF Unseen
  <1>3. CASE PreProcess
    BY <1>3, PreProcessCases DEF Linking, Emptying, Waits, Unseen
  <1>4. CASE FilterPictures
    BY <1>4, FilterCases DEF Filtering, Idles, OnlyFlows, Unseen
  <1>5. CASE ReleasePictures
    BY <1>1, <1>5, ReleaseCases DEF Releasing, OnlyFlows, Unseen
  <1>6. CASE InitPicture
    <2>1. Queueing => Unseen
      BY DEF Queueing, Coded, Unseen
    <2>2. ASSUME NEW p \in Pics(Gop), Heading(p) PROVE Unseen
      <3>1. Coded /\ main = "init" /\ main' \in {"init", "output", "encode"}
        BY <2>2 DEF Heading
      <3> QED
        BY <3>1 DEF Coded, Unseen
    <2> QED
      BY <1>6, <2>1, <2>2, InitCases
  <1>7. CASE EncodePicture
    <2>1. \A p : Encoding(p) => Unseen
      BY DEF Encoding, Coded, Unseen
    <2> QED
      BY <1>7, <2>1, EncodeCases
  <1>8. CASE \E p \in busy : FinishPicture(p)
    <2>1. \A p : Completing(p) => Unseen
      BY DEF Completing, Coded, Unseen
    <2> QED
      BY <1>8, <2>1, FinishCases
  <1>9. CASE WriteAccessUnit \/ StartGop \/ EndEncode
    BY <1>9 DEF WriteAccessUnit, StartGop, EndEncode, returned, Unseen
  <1>10. CASE EncodeFrame \/ EncodeFlush \/ UNCHANGED vars
    BY <1>10 DEF EncodeFrame, EncodeFlush, returned, vars, Unseen
  <1> QED
    BY <1>2, <1>3, <1>4, <1>5, <1>6, <1>7, <1>8, <1>9, <1>10 DEF Next, RunStages, Done

\* At the end every frame that came in is out.
LEMMA EndIsComplete ==
  ASSUME FlowSafe, Fed, CodingSafe, FramesFlow, CodingFlow, Delivery, main = "end", StagesDone
  PROVE  ToCode \subseteq AuUnits /\ gop.output = <<>>
  <1>1. Pics(Filter) = {} /\ Pics(Gop) = {}
    BY StageNames DEF StagesDone
  <1>2. gop.output = <<>>
    <2>1. gop.output # <<>> => Head(gop.output) \in Pics(Gop)
      BY Tailed DEF CodingSafe, Apart, AllOpen, Open, Pics
    <2> QED
      BY <1>1, <2>1
  <1>3. ASSUME NEW p \in ToCode PROVE p \in Passed
    <2>1. /\ p \in 0 .. Frames /\ p < picsRcvd /\ filterPoc \in Nat
          /\ lastPoc \in Int /\ picsRcvd \in Int /\ cfg.range \in Nat /\ cfg \in Configs
          /\ cfg.lead \in Nat
      BY ToCodeNumbers, PocTypes, LeadIs
    <2>2. p <= lastPoc
      BY <2>1 DEF FlowSafe, Ordered, Processed
    <2>3. p < filterPoc
      <3> SUFFICES ASSUME filterPoc <= p PROVE FALSE
        BY <2>1
      <3>1. Accepts(Filter, p)
        BY <2>1, LeadIs
      <3>2. p \in Pics(Filter)
        BY <2>1, <2>2, <3>1 DEF FramesFlow, FilterHolds
      <3> QED
        BY <1>1, <3>2
    <2> QED
      BY <2>2, <2>3 DEF Passed
  <1>4. \A p \in ToCode : p \in AuUnits
    BY <1>1, <1>3 DEF CodingFlow, Conserved, Delivery, Complete
  <1> QED
    BY <1>2, <1>4

\* A round of the stages returns an access unit, or none.
LEMMA EndReturns ==
  ASSUME FlowSafe, Fed, CodingSafe, FramesFlow, CodingFlow, Delivery, EndOfStages
  PROVE  /\ main # "done" /\ UNCHANGED <<cfg, picsRcvd>> /\ delivered \in Seq(Int)
         /\ \/ delivered' = delivered
            \/ \E p \in ToCode : /\ Below(Members(delivered), {p})
                                 /\ delivered' = Append(delivered, p)
         /\ main' = "done" => ToCode \subseteq Members(delivered')
         /\ delivered' \in Seq(Int)
  <1>1. /\ Lined(delivered, auList, AuUnit, gop.output) /\ Complete
        /\ DOMAIN call = {"flush", "pending", "au"}
    BY DEF Delivery, FlowSafe, CallSafe
  <1>2. PICK a : a = NewAuList
    OBVIOUS
  <1>3. /\ Lined(delivered, a, {}, gop.output)
        /\ AllUnits(delivered, a, {}, gop.output) = AuUnits
    BY <1>1, <1>2, ListTaken
  <1>4. delivered \in Seq(Int) /\ a \in Seq(Int)
    BY <1>3 DEF Lined, OneEach
  <1>5. /\ UNCHANGED <<cfg, picsRcvd>> /\ main = "end"
        /\ \/ auList' = a /\ delivered' = delivered
           \/ a # <<>> /\ auList' = Tail(a) /\ delivered' = Append(delivered, Head(a))
        /\ main' = "done" => StagesDone /\ auList' = <<>>
    BY <1>1, <1>2, <1>4, EndCases
  <1>6. a # <<>> => Head(a) \in ToCode /\ Below(Members(delivered), {Head(a)})
    <2>1. a # <<>> => Head(a) \in Members(a) /\ Below(Members(delivered), {Head(a)})
      BY <1>3, LinedDelivered
    <2>2. Members(a) \subseteq AuUnits
      BY <1>3 DEF AllUnits
    <2> QED
      BY <1>1, <2>1, <2>2 DEF Complete
  <1>7. PICK d, b : d = delivered' /\ b = auList'
    OBVIOUS
  <1>8. Lined(d, b, {}, gop.output) /\ AllUnits(d, b, {}, gop.output) = AuUnits
    BY <1>3, <1>5, <1>7, LinedDelivered
  <1>9. ASSUME main' = "done" PROVE ToCode \subseteq Members(d)
    <2>1. ToCode \subseteq AuUnits /\ gop.output = <<>> /\ b = <<>>
      BY <1>5, <1>7, <1>9, EndIsComplete
    <2>2. AllUnits(d, b, {}, gop.output) = Members(d)
      BY <2>1, EmptyQueue DEF AllUnits
    <2> QED
      BY <1>8, <2>1, <2>2
  <1>10. d \in Seq(Int)
    BY <1>8 DEF Lined, OneEach
  <1>11. main' = "done" => ToCode \subseteq Members(delivered')
    BY <1>7, <1>9 DEF Members
  <1> QED
    BY <1>4, <1>5, <1>6, <1>7, <1>10, <1>11

\* Every step is a step of AccessUnits or changes nothing seen from outside.
LEMMA ReturnsNext ==
  ASSUME FlowSafe, Fed, CodingSafe, FramesFlow, CodingFlow, Delivery, [Next]_vars
  PROVE  Units!Next \/ UNCHANGED <<NumberedFrames, Received, delivered, main = "done">>
  <1>1. CASE \E u : Taking(u)
    <2>1. /\ picsRcvd' = picsRcvd + 1 /\ UNCHANGED <<cfg, delivered>> /\ main = "input"
          /\ main' = "pre"
      BY <1>1, TakingIs DEF Taking
    <2>2. picsRcvd \in Int /\ cfg.lead \in Nat /\ picsRcvd >= -cfg.lead
      BY PocTypes, LeadIs DEF FlowSafe, Shape
    <2>3. /\ -cfg'.lead .. picsRcvd' - 1 # -cfg.lead .. picsRcvd - 1
          /\ -cfg.lead .. picsRcvd - 1 \subseteq -cfg'.lead .. picsRcvd' - 1
      BY <2>1, <2>2
    <2>4. NumberedFrames' = NumberedFrames
      BY <2>1, CodingSame
    <2> QED
      BY <2>1, <2>3, <2>4 DEF Units!Next, Units!GiveFrame, NumberedFrames, Asked
  <1>2. CASE EndOfStages
    <2>1. /\ main # "done" /\ UNCHANGED <<cfg, picsRcvd>> /\ delivered \in Seq(Int)
          /\ \/ delivered' = delivered
             \/ \E p \in ToCode : /\ Below(Members(delivered), {p})
                                  /\ delivered' = Append(delivered, p)
          /\ main' = "done" => ToCode \subseteq Members(delivered')
          /\ delivered' \in Seq(Int)
      BY <1>2, EndReturns
    <2>2. NumberedFrames' = NumberedFrames
      BY <2>1, CodingSame
    <2>3. Units!TakeUnit
      <3>1. ASSUME NEW p \in ToCode, Below(Members(delivered), {p}), delivered' = Append(delivered, p)
            PROVE  Units!TakeUnit
        <4>1. p \in Received \cap DOMAIN NumberedFrames
          BY CodingIs
        <4>2. \A i \in 1 .. Len(delivered) : NumberedFrames[delivered[i]] < NumberedFrames[p]
          <5> TAKE i \in 1 .. Len(delivered)
          <5>1. delivered[i] \in Members(delivered)
            BY <2>1, LenProperties DEF Members
          <5>2. delivered[i] \in ToCode
            BY <5>1 DEF Delivery, Complete, AuUnits, AllUnits
          <5>3. CodingNum(delivered[i]) < CodingNum(p)
            BY <3>1, <5>1 DEF Below
          <5> QED
            BY <5>2, <5>3, CodingIs
        <4> QED
          BY <3>1, <4>1, <4>2 DEF Units!TakeUnit, NumberedFrames, Asked, Received
      <3>2. delivered' = delivered => Units!TakeUnit
        BY DEF Units!TakeUnit
      <3> QED
        BY <2>1, <3>1, <3>2
    <2>4. main' = "done" =>
            Received \cap DOMAIN NumberedFrames \subseteq {delivered'[i] : i \in 1 .. Len(delivered')}
      <3>1. Members(delivered') = {delivered'[i] : i \in 1 .. Len(delivered')}
        BY <2>1, LenProperties DEF Members
      <3> QED
        BY <2>1, <3>1, CodingIs
    <2>5. Units!Return
      BY <2>1, <2>3, <2>4 DEF Units!Return, NumberedFrames, Asked, Received
    <2> QED
      BY <2>1, <2>2, <2>5 DEF Units!Next, NumberedFrames, Asked
  <1>3. CASE Unseen
    <2>1. NumberedFrames' = NumberedFrames
      BY <1>3, CodingSame DEF Unseen
    <2> QED
      BY <1>3, <2>1 DEF Unseen, Received
  <1> QED
    BY <1>1, <1>2, <1>3, SeenSteps

\* The initial states are those of AccessUnits.
LEMMA ReturnsInit ==
  Init => Units!Init
  <1> SUFFICES ASSUME Init PROVE Units!Init
    OBVIOUS
  <1>1. /\ cfg \in Configs /\ picsRcvd = -cfg.lead /\ delivered = <<>> /\ main = "idle"
    BY DEF Init
  <1>2. /\ cfg \in Configs /\ Frames \in cfg.stops /\ cfg.lead \in Nat
    BY <1>1, FramesMax, ConfigType
  <1>3. \A p \in 0 .. Frames : CodingNum(p) \in Int
    BY <1>2, EncStagesGopAssumption DEF CodingNum
  <1>4. -cfg.lead .. picsRcvd - 1 = {}
    BY <1>1, <1>2
  <1>5. NumberedFrames \in [DOMAIN NumberedFrames -> Int]
    BY <1>3 DEF NumberedFrames, Asked
  <1> QED
    BY <1>1, <1>4, <1>5 DEF Units!Init, NumberedFrames, Asked

\* The encoder gives its caller an access unit of every frame that is to be
\* encoded, once and in coding order, and reports the end when all are out,
\* whatever the configuration, the GOP and the interleaving of the picture
\* encoders.
THEOREM StagesImplementAccessUnits ==
  Spec => ImplementsAccessUnits
  <1>1. Init => Units!Init
    BY ReturnsInit
  <1>2. FlowSafe /\ Fed /\ CodingSafe /\ FramesFlow /\ CodingFlow /\ Delivery /\ [Next]_vars
          => [Units!Next]_(Units!vars)
    BY ReturnsNext DEF Units!vars, NumberedFrames, Asked, Received
  <1> QED
    BY <1>1, <1>2, DeliveryInvariant, PTL DEF Spec, ImplementsAccessUnits, Units!Spec

=============================================================================
