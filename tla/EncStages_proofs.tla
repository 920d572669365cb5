--------------------------- MODULE EncStages_proofs ---------------------------
(***************************************************************************)
(* Proofs about EncStages, for any configurations and inputs: the shared   *)
(* units are counted, and what a picture reads is not overwritten.         *)
(***************************************************************************)
EXTENDS EncStages, SequenceTheorems, FiniteSetTheorems, WellFoundedInduction, TLAPS

-----------------------------------------------------------------------------
(***************************************************************************)
(* The invariant.  Shapes: every stage's list is a function on order       *)
(* counts of frames that came in.                                          *)
(***************************************************************************)
UnitRec == [poc : Int, prev : SUBSET Int, intra : BOOLEAN, refCount : Int]
PicRec ==
  [unit : Int, prev : SUBSET Int, flush : BOOLEAN, init : BOOLEAN, recon : BOOLEAN,
   finished : BOOLEAN, output : BOOLEAN, referenced : BOOLEAN, refs : SUBSET Int,
   refCount : Int]

Received == -cfg.lead .. picsRcvd - 1

ListShape(l) == l \in [DOMAIN l -> PicRec] /\ DOMAIN l \subseteq Received

Shape ==
  /\ cfg \in Configs
  /\ unit \in Seq(UnitRec)
  /\ DOMAIN list = Stages
  /\ \A i \in Stages : ListShape(list[i])
  /\ picsRcvd \in Int /\ picsRcvd >= -cfg.lead
  /\ lastPoc \in Int /\ filterPoc \in Nat

(***************************************************************************)
(* A call: frames that wait come before the flush, and the marks of the    *)
(* flush after it.                                                         *)
(***************************************************************************)
CallSafe ==
  /\ DOMAIN call = {"flush", "pending", "au"}
  /\ call.flush \in BOOLEAN /\ call.pending \in BOOLEAN
  /\ call.pending => ~ call.flush
  /\ main \in {"idle", "done"} => ~ call.pending
  /\ ~ call.flush => \A i \in Stages : \A p \in Pics(i) : ~ list[i][p].flush

(***************************************************************************)
(* Frames go from stage to stage in their order, and the pre-processing    *)
(* keeps those the next ones will be linked to.                            *)
(***************************************************************************)
Processed ==
  \/ lastPoc = picsRcvd - 1
  \/ lastPoc = None /\ picsRcvd = -cfg.lead
  \/ /\ main = "pre" /\ ~ call.flush /\ picsRcvd - 1 \in Pics(Pre)
     /\ \/ lastPoc = picsRcvd - 2
        \/ lastPoc = None /\ picsRcvd = 1 - cfg.lead

Ordered ==
  /\ Processed
  /\ ~ call.flush => \A q \in Received : q + NumPrevFrames > lastPoc => q \in Pics(Pre)
  /\ \A p \in Pics(Filter) : p <= lastPoc
  /\ \A p \in Pics(Gop) : 0 <= p /\ p < filterPoc /\ p <= lastPoc

(***************************************************************************)
(* Units: a picture's unit holds its frame, and its previous frames are    *)
(* those of its unit until it gives them back.                             *)
(***************************************************************************)
Want(p) == IF Before(p) = {} THEN {p} ELSE Before(p)

Links(p, pic) ==
  /\ pic.unit \in DOMAIN unit
  /\ unit[pic.unit].poc = p
  /\ pic.prev \subseteq unit[pic.unit].prev
  /\ pic.prev # {} => {unit[v].poc : v \in pic.prev} = Want(p)

Linked ==
  /\ \A u \in DOMAIN unit : unit[u].prev \subseteq DOMAIN unit
  /\ \A i \in Stages : \A p \in Pics(i) : Links(p, list[i][p])
  /\ \A p \in Pics(Pre) : list[Pre][p].prev = {}

Unfiltered ==
  \A p \in Pics(Filter) :
    filterPoc <= p => list[Filter][p].prev = unit[list[Filter][p].unit].prev

FlowSafe == Shape /\ CallSafe /\ Ordered /\ Linked /\ Unfiltered /\ UnitsCounted

-----------------------------------------------------------------------------
(***************************************************************************)
(* The configuration, records, and lists.                                  *)
(***************************************************************************)
LEMMA StageNames ==
  /\ Pre = 1 /\ Filter = 2 /\ Gop = 3 /\ Stages = {1, 2, 3}
  BY DEF Pre, Filter, Gop, Stages

LEMMA ConfigType ==
  ASSUME cfg \in Configs
  PROVE  /\ cfg.lead \in Nat /\ cfg.lead <= 64
         /\ cfg.range \in Nat /\ cfg.size \in Nat \ {0} /\ cfg.toEncode \in Nat
         /\ cfg.parallel \in Nat /\ cfg.extra \in Nat /\ cfg.reorder \in Nat
         /\ cfg.threads \in BOOLEAN /\ cfg.rec \in BOOLEAN
         /\ cfg.parallel > 0 => cfg.threads
  BY EncStagesAssumption

LEMMA UnitFields ==
  ASSUME NEW r \in UnitRec
  PROVE  r.poc \in Int /\ r.prev \in SUBSET Int /\ r.intra \in BOOLEAN /\ r.refCount \in Int
  BY DEF UnitRec

LEMMA IntraUpdate ==
  ASSUME NEW r \in UnitRec, NEW b \in BOOLEAN
  PROVE  /\ [r EXCEPT !.intra = b] \in UnitRec
         /\ [r EXCEPT !.intra = b].poc = r.poc
         /\ [r EXCEPT !.intra = b].prev = r.prev
         /\ [r EXCEPT !.intra = b].intra = b
         /\ [r EXCEPT !.intra = b].refCount = r.refCount
  BY DEF UnitRec

LEMMA CountUpdate ==
  ASSUME NEW r \in UnitRec, NEW n \in Int
  PROVE  /\ [r EXCEPT !.refCount = n] \in UnitRec
         /\ [r EXCEPT !.refCount = n].poc = r.poc
         /\ [r EXCEPT !.refCount = n].prev = r.prev
         /\ [r EXCEPT !.refCount = n].intra = r.intra
         /\ [r EXCEPT !.refCount = n].refCount = n
  BY DEF UnitRec

LEMMA PicFields ==
  ASSUME NEW r \in PicRec
  PROVE  /\ r.unit \in Int /\ r.prev \in SUBSET Int
         /\ r.flush \in BOOLEAN /\ r.init \in BOOLEAN /\ r.recon \in BOOLEAN
         /\ r.finished \in BOOLEAN /\ r.output \in BOOLEAN /\ r.referenced \in BOOLEAN
         /\ r.refs \in SUBSET Int /\ r.refCount \in Int
  BY DEF PicRec

LEMMA FlushUpdate ==
  ASSUME NEW r \in PicRec, NEW b \in BOOLEAN
  PROVE  /\ [r EXCEPT !.flush = b] \in PicRec /\ [r EXCEPT !.flush = b].flush = b
         /\ [r EXCEPT !.flush = b].unit = r.unit /\ [r EXCEPT !.flush = b].prev = r.prev
         /\ [r EXCEPT !.flush = b].init = r.init /\ [r EXCEPT !.flush = b].recon = r.recon
         /\ [r EXCEPT !.flush = b].finished = r.finished /\ [r EXCEPT !.flush = b].output = r.output
         /\ [r EXCEPT !.flush = b].referenced = r.referenced /\ [r EXCEPT !.flush = b].refs = r.refs
         /\ [r EXCEPT !.flush = b].refCount = r.refCount
  BY DEF PicRec

LEMMA PrevUpdate ==
  ASSUME NEW r \in PicRec
  PROVE  /\ [r EXCEPT !.prev = {}] \in PicRec /\ [r EXCEPT !.prev = {}].prev = {}
         /\ [r EXCEPT !.prev = {}].unit = r.unit /\ [r EXCEPT !.prev = {}].flush = r.flush
         /\ [r EXCEPT !.prev = {}].init = r.init /\ [r EXCEPT !.prev = {}].recon = r.recon
         /\ [r EXCEPT !.prev = {}].finished = r.finished /\ [r EXCEPT !.prev = {}].output = r.output
         /\ [r EXCEPT !.prev = {}].referenced = r.referenced /\ [r EXCEPT !.prev = {}].refs = r.refs
         /\ [r EXCEPT !.prev = {}].refCount = r.refCount
  BY DEF PicRec

-----------------------------------------------------------------------------
(***************************************************************************)
(* The uses of a unit in a list.                                           *)
(***************************************************************************)
LEMMA UsesType ==
  ASSUME NEW l, IsFiniteSet(DOMAIN l), NEW u
  PROVE  /\ IsFiniteSet(Owners(l, u)) /\ IsFiniteSet(Readers(l, u))
         /\ Uses(l, u) \in Nat
         /\ Uses(l, u) <= 0 => Owners(l, u) = {} /\ Readers(l, u) = {}
         /\ Owners(l, u) = {} /\ Readers(l, u) = {} => Uses(l, u) = 0
  <1>1. IsFiniteSet(Owners(l, u)) /\ IsFiniteSet(Readers(l, u))
    BY FS_Subset DEF Owners, Readers
  <1>2. /\ Cardinality(Owners(l, u)) \in Nat /\ Cardinality(Readers(l, u)) \in Nat
        /\ Cardinality(Owners(l, u)) = 0 <=> Owners(l, u) = {}
        /\ Cardinality(Readers(l, u)) = 0 <=> Readers(l, u) = {}
    BY <1>1, FS_CardinalityType, FS_EmptySet
  <1> QED
    BY <1>1, <1>2 DEF Uses

\* Lists with the same units and previous frames.
Alike(l, m) ==
  /\ DOMAIN l = DOMAIN m /\ l \in [DOMAIN l -> PicRec]
  /\ \A p \in DOMAIN m : l[p].unit = m[p].unit /\ l[p].prev = m[p].prev

LEMMA UsesSame ==
  ASSUME NEW l, NEW m, Alike(l, m), NEW u
  PROVE  Uses(l, u) = Uses(m, u)
  <1>1. Owners(l, u) = Owners(m, u) /\ Readers(l, u) = Readers(m, u)
    BY DEF Alike, Owners, Readers
  <1> QED
    BY <1>1 DEF Uses

LEMMA UsesAdded ==
  ASSUME NEW l, NEW m, IsFiniteSet(DOMAIN l), NEW p, p \notin DOMAIN l,
         DOMAIN m = DOMAIN l \cup {p},
         \A q \in DOMAIN l : l[q].unit = m[q].unit /\ l[q].prev = m[q].prev,
         NEW u
  PROVE  Uses(m, u) = Uses(l, u) + (IF m[p].unit = u THEN 1 ELSE 0)
                                 + (IF u \in m[p].prev THEN 1 ELSE 0)
  <1>1. IsFiniteSet(Owners(l, u)) /\ IsFiniteSet(Readers(l, u))
    BY UsesType
  <1>2. Cardinality(Owners(l, u)) \in Nat /\ Cardinality(Readers(l, u)) \in Nat
    BY <1>1, FS_CardinalityType
  <1>3. p \notin Owners(l, u) /\ p \notin Readers(l, u)
    BY DEF Owners, Readers
  <1>4. Cardinality(Owners(m, u)) = Cardinality(Owners(l, u)) + (IF m[p].unit = u THEN 1 ELSE 0)
    <2>1. CASE m[p].unit = u
      <3>1. Owners(m, u) = Owners(l, u) \cup {p}
        BY <2>1 DEF Owners
      <3> QED
        BY <3>1, <2>1, <1>1, <1>3, FS_AddElement
    <2>2. CASE m[p].unit # u
      <3>1. Owners(m, u) = Owners(l, u)
        BY <2>2 DEF Owners
      <3> QED
        BY <3>1, <2>2, <1>2
    <2> QED
      BY <2>1, <2>2
  <1>5. Cardinality(Readers(m, u)) = Cardinality(Readers(l, u)) + (IF u \in m[p].prev THEN 1 ELSE 0)
    <2>1. CASE u \in m[p].prev
      <3>1. Readers(m, u) = Readers(l, u) \cup {p}
        BY <2>1 DEF Readers
      <3> QED
        BY <3>1, <2>1, <1>1, <1>3, FS_AddElement
    <2>2. CASE u \notin m[p].prev
      <3>1. Readers(m, u) = Readers(l, u)
        BY <2>2 DEF Readers
      <3> QED
        BY <3>1, <2>2, <1>2
    <2> QED
      BY <2>1, <2>2
  <1> QED
    BY <1>2, <1>4, <1>5 DEF Uses

LEMMA Without ==
  ASSUME NEW S, IsFiniteSet(S), NEW T, T \subseteq S
  PROVE  IsFiniteSet(S \ T) /\ Cardinality(S \ T) = Cardinality(S) - Cardinality(T)
  <1>1. S \cap T = T
    OBVIOUS
  <1> QED
    BY <1>1, FS_Difference

\* Pictures leave the list, and others give back what they read.
ReadIn(l, S, u)  == {p \in S : u \in l[p].prev}
OwnedIn(l, S, u) == {p \in S : l[p].unit = u}

Reduced(l, m, done, free) ==
  /\ done \subseteq DOMAIN l /\ free \subseteq DOMAIN l
  /\ DOMAIN m = DOMAIN l \ free
  /\ \A q \in DOMAIN m : /\ m[q].unit = l[q].unit
                         /\ m[q].prev = IF q \in done THEN {} ELSE l[q].prev

LEMMA UsesReleased ==
  ASSUME NEW l, NEW m, IsFiniteSet(DOMAIN l), NEW done, NEW free,
         Reduced(l, m, done, free), NEW u
  PROVE  /\ Cardinality(ReadIn(l, done, u)) \in Nat
         /\ Cardinality(ReadIn(l, free \ done, u)) \in Nat
         /\ Cardinality(OwnedIn(l, free, u)) \in Nat
         /\ Uses(l, u) = Uses(m, u) + Cardinality(ReadIn(l, done, u))
              + Cardinality(ReadIn(l, free \ done, u)) + Cardinality(OwnedIn(l, free, u))
  <1>0. PICK F, G, H : /\ F = ReadIn(l, done, u) /\ G = ReadIn(l, free \ done, u)
                       /\ H = OwnedIn(l, free, u)
    OBVIOUS
  <1>1. IsFiniteSet(Owners(l, u)) /\ IsFiniteSet(Readers(l, u))
    BY UsesType
  <1>2. F \subseteq Readers(l, u) /\ G \subseteq Readers(l, u) /\ H \subseteq Owners(l, u)
    BY <1>0 DEF Reduced, Owners, Readers, ReadIn, OwnedIn
  <1>3. IsFiniteSet(F) /\ IsFiniteSet(G) /\ IsFiniteSet(H)
    BY <1>1, <1>2, FS_Subset
  <1>4. Owners(m, u) = Owners(l, u) \ H
    BY <1>0 DEF Reduced, Owners, ReadIn, OwnedIn
  <1>5. Readers(m, u) = (Readers(l, u) \ F) \ G
    BY <1>0 DEF Reduced, Readers, ReadIn, OwnedIn
  <1>6. G \subseteq Readers(l, u) \ F
    BY <1>0, <1>2 DEF ReadIn
  <1>7. /\ IsFiniteSet(Readers(l, u) \ F)
        /\ Cardinality(Readers(l, u) \ F) = Cardinality(Readers(l, u)) - Cardinality(F)
    BY <1>1, <1>2, Without
  <1>8. Cardinality(Readers(m, u)) = Cardinality(Readers(l, u) \ F) - Cardinality(G)
    BY <1>5, <1>6, <1>7, Without
  <1>9. Cardinality(Owners(m, u)) = Cardinality(Owners(l, u)) - Cardinality(H)
    BY <1>1, <1>4, <1>2, Without
  <1>10. /\ Cardinality(F) \in Nat /\ Cardinality(G) \in Nat /\ Cardinality(H) \in Nat
         /\ Cardinality(Owners(l, u)) \in Nat /\ Cardinality(Readers(l, u)) \in Nat
    BY <1>1, <1>3, FS_CardinalityType
  <1>11. Uses(l, u) = Uses(m, u) + Cardinality(F) + Cardinality(G) + Cardinality(H)
    BY <1>7, <1>8, <1>9, <1>10 DEF Uses
  <1> QED
    BY <1>0, <1>10, <1>11

-----------------------------------------------------------------------------
(***************************************************************************)
(* Steps that leave units, frames and positions alone.                     *)
(***************************************************************************)
LEMMA ListTypes ==
  ASSUME Shape
  PROVE  /\ \A i \in Stages : IsFiniteSet(Pics(i)) /\ Pics(i) \subseteq Int
         /\ \A i \in Stages : \A p \in Pics(i) : list[i][p] \in PicRec /\ p \in Received
         /\ \A i \in Stages : list[i] \in [Pics(i) -> PicRec]
         /\ \A i \in Stages : Alike(list[i], list[i])
         /\ \A u \in DOMAIN unit : unit[u] \in UnitRec
         /\ Len(unit) \in Nat /\ DOMAIN unit = 1 .. Len(unit)
         /\ cfg.lead \in Int /\ picsRcvd \in Int
  <1>1. cfg.lead \in Int /\ picsRcvd \in Int
    BY ConfigType DEF Shape
  <1>2. IsFiniteSet(Received) /\ Received \subseteq Int
    BY <1>1, FS_Interval DEF Received
  <1>3. \A i \in Stages : /\ Pics(i) \subseteq Received /\ list[i] \in [Pics(i) -> PicRec]
    BY DEF Shape, ListShape, Pics
  <1>4. \A i \in Stages : IsFiniteSet(Pics(i))
    BY <1>2, <1>3, FS_Subset
  <1>5. \A i \in Stages : Alike(list[i], list[i])
    BY <1>3 DEF Alike, Pics
  <1>6. /\ \A u \in DOMAIN unit : unit[u] \in UnitRec
        /\ Len(unit) \in Nat /\ DOMAIN unit = 1 .. Len(unit)
    BY ElementOfSeq, LenProperties DEF Shape
  <1>7. \A i \in Stages : \A p \in Pics(i) : list[i][p] \in PicRec
    BY <1>3
  <1> QED
    BY <1>1, <1>2, <1>3, <1>4, <1>5, <1>6, <1>7

LEMMA FlowQuiet ==
  ASSUME Shape, Ordered, Linked, Unfiltered, UnitsCounted,
         cfg' = cfg, unit' = unit, picsRcvd' = picsRcvd,
         lastPoc' = lastPoc, filterPoc' = filterPoc,
         DOMAIN list' = Stages, \A i \in Stages : Alike(list'[i], list[i]),
         \/ main # "pre" \/ (main' = "pre" /\ call'.flush = call.flush)
         \/ picsRcvd - 1 \notin Pics(Pre) \/ lastPoc = picsRcvd - 1,
         call.flush => call'.flush \/ picsRcvd = -cfg.lead
  PROVE  Shape' /\ Ordered' /\ Linked' /\ Unfiltered' /\ UnitsCounted'
  <1>1. \A i \in Stages : DOMAIN list'[i] = Pics(i)
    BY DEF Alike, Pics
  <1>2. Stages = {Pre, Filter, Gop}
    BY DEF Stages
  <1>3. Shape'
    <2>1. \A i \in Stages : ListShape(list[i]) /\ Alike(list'[i], list[i])
      BY DEF Shape
    <2>2. \A i \in Stages : list'[i] \in [DOMAIN list'[i] -> PicRec] /\ DOMAIN list'[i] \subseteq Received'
      BY <2>1 DEF Alike, ListShape, Received
    <2> QED
      BY <2>2 DEF Shape, ListShape
  <1>4. Ordered'
    <2>1. Processed'
      BY <1>1, <1>2 DEF Ordered, Processed, Pics
    <2>2. ~ call'.flush => \A q \in Received' : q + NumPrevFrames > lastPoc' => q \in Pics(Pre)'
      <3>1. CASE picsRcvd = -cfg.lead
        <4>1. Received' = {}
          BY <3>1, ListTypes DEF Received
        <4> QED
          BY <4>1
      <3>2. CASE call.flush => call'.flush
        BY <3>2, <1>1, <1>2 DEF Ordered, Received, Pics
      <3> QED
        BY <3>1, <3>2
    <2>3. \A p \in Pics(Filter)' : p <= lastPoc'
      BY <1>1, <1>2 DEF Ordered, Pics
    <2>4. \A p \in Pics(Gop)' : 0 <= p /\ p < filterPoc' /\ p <= lastPoc'
      BY <1>1, <1>2 DEF Ordered, Pics
    <2> QED
      BY <2>1, <2>2, <2>3, <2>4 DEF Ordered
  <1>5. Linked'
    <2>1. \A i \in Stages : \A p \in Pics(i)' :
            list'[i][p].unit = list[i][p].unit /\ list'[i][p].prev = list[i][p].prev
      BY <1>1 DEF Alike, Pics
    <2>2. \A i \in Stages : \A p \in Pics(i)' : Links(p, list[i][p])
      BY <1>1 DEF Linked, Pics
    <2>3. \A p : Want(p)' = Want(p)
      BY DEF Want, Before
    <2>4. \A i \in Stages : \A p \in Pics(i)' : Links(p, list[i][p])'
      BY <2>1, <2>2, <2>3 DEF Links
    <2>5. \A p \in Pics(Pre)' : list'[Pre][p].prev = {}
      BY <2>1, <1>1, <1>2 DEF Linked, Pics
    <2> QED
      BY <2>4, <2>5 DEF Linked
  <1>7. Unfiltered'
    <2>1. \A p \in Pics(Filter)' :
            /\ list'[Filter][p].unit = list[Filter][p].unit
            /\ list'[Filter][p].prev = list[Filter][p].prev
      BY <1>1, <1>2 DEF Alike, Pics
    <2> QED
      BY <2>1, <1>1, <1>2 DEF Unfiltered, Pics
  <1>6. UnitsCounted'
    <2>1. \A i \in Stages : \A u : Uses(list'[i], u) = Uses(list[i], u)
      <3> TAKE i \in Stages
      <3> TAKE u
      <3> QED
        BY UsesSame
    <2> QED
      BY <2>1, <1>2 DEF UnitsCounted
  <1> QED
    BY <1>3, <1>4, <1>5, <1>6, <1>7

-----------------------------------------------------------------------------
(***************************************************************************)
(* The end of a stage's loop: one picture is sent on, some are freed.      *)
(***************************************************************************)
LEMMA OneTaker ==
  ASSUME NEW i \in Stages, NEW p
  PROVE  \/ /\ Takers(i + 1, p) = {}
            /\ \A j \in Stages : j > i => ~ Accepts(j, p)
         \/ \E j \in Stages : j > i /\ Accepts(j, p) /\ Takers(i + 1, p) = {j}
  <1>1. Stages = {1, 2, 3} /\ Stages \subseteq Int
    BY StageNames
  <1>2. \A j \in Stages : j \in Takers(i + 1, p) <=>
          j >= i + 1 /\ Accepts(j, p) /\ \A k \in (i + 1) .. (j - 1) : ~ Accepts(k, p)
    BY DEF Takers
  <1>3. Takers(i + 1, p) \subseteq Stages
    BY DEF Takers
  <1>4. CASE i = 1 /\ Accepts(2, p)
    <2>1. 2 \in Takers(i + 1, p)
      BY <1>1, <1>2, <1>4
    <2>2. 1 \notin Takers(i + 1, p)
      BY <1>1, <1>2, <1>4
    <2>3. 2 \in (i + 1) .. (3 - 1)
      BY <1>4
    <2>4. 3 \notin Takers(i + 1, p)
      BY <1>1, <1>2, <1>4, <2>3
    <2> QED
      BY <1>1, <1>3, <1>4, <2>1, <2>2, <2>4
  <1>5. CASE i < 3 /\ Accepts(3, p) /\ (i = 1 => ~ Accepts(2, p))
    <2>1. \A k \in (i + 1) .. (3 - 1) : ~ Accepts(k, p)
      BY <1>1, <1>5
    <2>2. 3 \in Takers(i + 1, p)
      BY <1>1, <1>2, <1>5, <2>1
    <2>3. 1 \notin Takers(i + 1, p) /\ 2 \notin Takers(i + 1, p)
      BY <1>1, <1>2, <1>5
    <2> QED
      BY <1>1, <1>3, <1>5, <2>2, <2>3
  <1>6. CASE /\ i < 3 => ~ Accepts(3, p)
             /\ i < 2 => ~ Accepts(2, p)
    BY <1>1, <1>2, <1>3, <1>6
  <1> QED
    BY <1>1, <1>4, <1>5, <1>6

LEMMA NewPictureType ==
  ASSUME NEW u \in Int, NEW prev \in SUBSET Int, call.flush \in BOOLEAN
  PROVE  /\ NewPicture(u, prev) \in PicRec
         /\ NewPicture(u, prev).unit = u /\ NewPicture(u, prev).prev = prev
         /\ NewPicture(u, prev).flush = call.flush
  BY DEF NewPicture, PicRec

Added(l, m, p, pic) ==
  /\ DOMAIN m = DOMAIN l \cup {p} /\ m \in [DOMAIN l \cup {p} -> PicRec] /\ m[p] = pic
  /\ \A q \in DOMAIN l \ {p} :
       /\ m[q].unit = l[q].unit /\ m[q].prev = l[q].prev
       /\ m[q].flush => l[q].flush \/ call.flush

LEMMA Inserted ==
  ASSUME Shape, NEW j \in Stages, NEW p \in Int, NEW pic \in PicRec
  PROVE  Added(list[j], Insert(j, p, pic), p, pic)
  <1> DEFINE mark(q) == list[j][q].flush \/ q \in FlushedBy(j, p)
  <1>1. Insert(j, p, pic) = [q \in Pics(j) \cup {p} |->
                               IF q = p THEN pic ELSE [list[j][q] EXCEPT !.flush = mark(q)]]
    BY DEF Insert
  <1>2. \A q \in Pics(j) : /\ [list[j][q] EXCEPT !.flush = mark(q)] \in PicRec
                           /\ [list[j][q] EXCEPT !.flush = mark(q)].unit = list[j][q].unit
                           /\ [list[j][q] EXCEPT !.flush = mark(q)].prev = list[j][q].prev
                           /\ [list[j][q] EXCEPT !.flush = mark(q)].flush = mark(q)
    <2> TAKE q \in Pics(j)
    <2>1. list[j][q] \in PicRec /\ mark(q) \in BOOLEAN
      BY ListTypes
    <2> HIDE DEF mark
    <2> QED
      BY <2>1, FlushUpdate
  <1>3. \A q : mark(q) => list[j][q].flush \/ call.flush
    BY DEF FlushedBy
  <1> HIDE DEF mark
  <1> QED
    BY <1>1, <1>2, <1>3 DEF Added, Pics

\* What SendAndFree counts of unit v, when d alone is sent on.
GivenFirst(l, un, done, v) == Cardinality({p \in done : PrevUse(un, l[p], v)})
Given(l, un, done, free, v) ==
  GivenFirst(l, un, done, v)
  + Cardinality({p \in free \ done : PrevUse(un, l[p], v)})
  + Cardinality({p \in free : l[p].unit = v})
Taken(l, un, to, d, v) ==
  IF to = {} THEN 0 ELSE SharedUse(v, l[d].unit, un[l[d].unit].prev)
Sent(j, l, un, d) == Insert(j, d, NewPicture(l[d].unit, un[l[d].unit].prev))

\* What it does then.
StageStep(i, l, un, wanted, free, d, done, to) ==
  /\ done = wanted \cap DOMAIN l
  /\ to = IF done = {} THEN {} ELSE Takers(i + 1, d)
  /\ unit' = [v \in DOMAIN un |->
       [un[v] EXCEPT !.refCount = @ - Given(l, un, done, free, v) + Taken(l, un, to, d, v)]]
  /\ list' = [j \in Stages |->
       IF j = i THEN [p \in DOMAIN l \ free |->
                        IF p \in done THEN [l[p] EXCEPT !.prev = {}] ELSE l[p]]
       ELSE IF j \in to THEN Sent(j, l, un, d) ELSE list[j]]
  /\ ok' = /\ ok
           /\ wanted \subseteq DOMAIN l
           /\ \A v \in DOMAIN un :
                /\ un[v].refCount >= GivenFirst(l, un, done, v)
                /\ un[v].refCount + Taken(l, un, to, d, v) >= Given(l, un, done, free, v)
           /\ \A j \in to : \A p \in done : InsertCheck(j, p)

Sendable(i, l, un, wanted, free, d) ==
  /\ Alike(l, list[i]) /\ un \in Seq(UnitRec) /\ DOMAIN un = DOMAIN unit
  /\ \A p \in Pics(i) : l[p].unit \in DOMAIN unit
  /\ wanted \subseteq {d} /\ free \subseteq Pics(i)
  /\ SendAndFree(i, l, un, wanted, free)

LEMMA SendAndFreeUnfolded ==
  ASSUME NEW i \in Stages, NEW l, NEW un, NEW wanted, NEW free, NEW d,
         Sendable(i, l, un, wanted, free, d)
  PROVE  \E done, to : StageStep(i, l, un, wanted, free, d, done, to)
  <1>0. wanted \subseteq {d} /\ SendAndFree(i, l, un, wanted, free)
    BY DEF Sendable
  <1> DEFINE sent == wanted \cap DOMAIN l
             dto == UNION {Takers(i + 1, p) : p \in sent}
             it == CHOOSE p \in sent : TRUE
  <1>1. CASE sent = {}
    <2>1. dto = {}
      BY <1>1
    <2>2. StageStep(i, l, un, wanted, free, d, sent, dto)
      BY <1>0, <1>1, <2>1 DEF SendAndFree, StageStep, Given, GivenFirst, Taken, Sent
    <2> QED
      BY <2>2
  <1>2. CASE sent # {}
    <2>1. sent = {d}
      BY <1>0, <1>2
    <2>2. dto = Takers(i + 1, d) /\ it = d
      BY <2>1
    <2>3. StageStep(i, l, un, wanted, free, d, sent, dto)
      BY <1>0, <1>2, <2>1, <2>2 DEF SendAndFree, StageStep, Given, GivenFirst, Taken, Sent
    <2> QED
      BY <2>3
  <1> QED
    BY <1>1, <1>2

\* The step, seen from outside.
Handed(i, l, un, wanted, free, d) ==
  /\ unit' \in Seq(UnitRec) /\ DOMAIN unit' = DOMAIN unit
  /\ \A v \in DOMAIN unit :
       unit'[v].poc = un[v].poc /\ unit'[v].prev = un[v].prev /\ unit'[v].intra = un[v].intra
  /\ DOMAIN list' = Stages
  /\ list'[i] \in [Pics(i) \ free -> PicRec]
  /\ \A p \in Pics(i) \ free :
       /\ list'[i][p].unit = list[i][p].unit
       /\ list'[i][p].prev = IF p \in wanted THEN {} ELSE list[i][p].prev
       /\ list'[i][p].flush = l[p].flush
  /\ \/ /\ \A j \in Stages \ {i} : list'[j] = list[j]
        /\ d \in wanted \cap Pics(i) => \A j \in Stages : j > i => ~ Accepts(j, d)
     \/ \E j \in Stages :
          /\ j > i /\ Accepts(j, d) /\ Takers(i + 1, d) = {j} /\ d \in wanted \cap Pics(i)
          /\ list'[j] = Sent(j, l, un, d)
          /\ \A k \in Stages \ {i, j} : list'[k] = list[k]

LEMMA Sending ==
  ASSUME Shape, call.flush \in BOOLEAN,
         NEW i \in Stages, NEW l, NEW un, NEW wanted, NEW free, NEW d,
         Sendable(i, l, un, wanted, free, d)
  PROVE  Handed(i, l, un, wanted, free, d)
  <1>0. /\ Alike(l, list[i]) /\ un \in Seq(UnitRec) /\ DOMAIN un = DOMAIN unit
        /\ \A p \in Pics(i) : l[p].unit \in DOMAIN unit
        /\ wanted \subseteq {d} /\ free \subseteq Pics(i)
    BY DEF Sendable
  <1>1. PICK done, to : StageStep(i, l, un, wanted, free, d, done, to)
    BY SendAndFreeUnfolded
  <1>2. /\ unit' = [v \in DOMAIN un |->
              [un[v] EXCEPT !.refCount = @ - Given(l, un, done, free, v) + Taken(l, un, to, d, v)]]
        /\ list' = [j \in Stages |->
              IF j = i THEN [p \in DOMAIN l \ free |->
                               IF p \in done THEN [l[p] EXCEPT !.prev = {}] ELSE l[p]]
              ELSE IF j \in to THEN Sent(j, l, un, d) ELSE list[j]]
        /\ done = wanted \cap DOMAIN l
        /\ to = IF done = {} THEN {} ELSE Takers(i + 1, d)
    BY <1>1 DEF StageStep
  <1>3. /\ DOMAIN l = Pics(i) /\ l \in [Pics(i) -> PicRec] /\ IsFiniteSet(Pics(i))
        /\ done = wanted \cap Pics(i)
    BY <1>0, <1>2, ListTypes DEF Alike, Pics
  <1>4. ASSUME NEW v \in DOMAIN un
        PROVE  Given(l, un, done, free, v) \in Int /\ Taken(l, un, to, d, v) \in Int
    <2>1. /\ {p \in done : PrevUse(un, l[p], v)} \subseteq Pics(i)
          /\ {p \in free \ done : PrevUse(un, l[p], v)} \subseteq Pics(i)
          /\ {p \in free : l[p].unit = v} \subseteq Pics(i)
      BY <1>0, <1>3
    <2>2. /\ Cardinality({p \in done : PrevUse(un, l[p], v)}) \in Nat
          /\ Cardinality({p \in free \ done : PrevUse(un, l[p], v)}) \in Nat
          /\ Cardinality({p \in free : l[p].unit = v}) \in Nat
      BY <2>1, <1>3, FS_Subset, FS_CardinalityType
    <2>3. Given(l, un, done, free, v) \in Int
      BY <2>2 DEF Given, GivenFirst
    <2>4. Taken(l, un, to, d, v) \in Int
      BY DEF Taken, SharedUse
    <2> QED
      BY <2>3, <2>4
  <1>5. Len(un) \in Nat /\ DOMAIN un = 1 .. Len(un) /\ \A v \in DOMAIN un : un[v] \in UnitRec
    BY <1>0, ElementOfSeq, LenProperties
  <1>6. \A v \in DOMAIN unit : /\ unit'[v] \in UnitRec /\ unit'[v].poc = un[v].poc
                               /\ unit'[v].prev = un[v].prev /\ unit'[v].intra = un[v].intra
    <2> TAKE v \in DOMAIN unit
    <2>1. un[v] \in UnitRec /\ un[v].refCount \in Int
      BY <1>0, <1>5 DEF UnitRec
    <2>2. PICK g \in Int, t \in Int : g = Given(l, un, done, free, v) /\ t = Taken(l, un, to, d, v)
      BY <1>0, <1>4
    <2>3. PICK n \in Int : n = un[v].refCount - g + t
      BY <2>1
    <2>4. unit'[v] = [un[v] EXCEPT !.refCount = n]
      BY <1>0, <1>2, <2>2, <2>3
    <2> QED
      BY <2>1, <2>4, CountUpdate
  <1>7. unit' \in Seq(UnitRec) /\ DOMAIN unit' = DOMAIN unit
    <2>1. unit' = [v \in 1 .. Len(un) |-> unit'[v]]
      BY <1>2, <1>5
    <2> QED
      BY <2>1, <1>0, <1>5, <1>6, SeqDef
  <1>8. list'[i] = [p \in Pics(i) \ free |->
                      IF p \in done THEN [l[p] EXCEPT !.prev = {}] ELSE l[p]]
    BY <1>0, <1>2, <1>3
  <1>9. \A p \in Pics(i) \ free :
          /\ list'[i][p] \in PicRec
          /\ list'[i][p].unit = list[i][p].unit
          /\ list'[i][p].prev = IF p \in wanted THEN {} ELSE list[i][p].prev
          /\ list'[i][p].flush = l[p].flush
    <2> TAKE p \in Pics(i) \ free
    <2>1. l[p] \in PicRec /\ l[p].unit = list[i][p].unit /\ l[p].prev = list[i][p].prev
      BY <1>0, <1>3 DEF Alike, Pics
    <2>2. p \in done <=> p \in wanted
      BY <1>3
    <2>3. CASE p \in done
      BY <1>8, <2>1, <2>2, <2>3, PrevUpdate
    <2>4. CASE p \notin done
      BY <1>8, <2>1, <2>2, <2>4
    <2> QED
      BY <2>3, <2>4
  <1>10. list'[i] \in [Pics(i) \ free -> PicRec]
    BY <1>8, <1>9
  <1>11. \/ /\ \A j \in Stages \ {i} : list'[j] = list[j]
            /\ d \in wanted \cap Pics(i) => \A j \in Stages : j > i => ~ Accepts(j, d)
         \/ \E j \in Stages :
              /\ j > i /\ Accepts(j, d) /\ Takers(i + 1, d) = {j} /\ d \in wanted \cap Pics(i)
              /\ list'[j] = Sent(j, l, un, d)
              /\ \A k \in Stages \ {i, j} : list'[k] = list[k]
    <2>1. CASE to = {}
      <3>1. \A j \in Stages \ {i} : list'[j] = list[j]
        BY <2>1, <1>2
      <3>2. d \in wanted \cap Pics(i) => Takers(i + 1, d) = {}
        BY <2>1, <1>0, <1>2, <1>3
      <3> QED
        BY <3>1, <3>2, OneTaker
    <2>2. CASE to # {}
      <3>1. d \in wanted \cap Pics(i) /\ to = Takers(i + 1, d)
        BY <2>2, <1>0, <1>2, <1>3
      <3>2. PICK j \in Stages : j > i /\ Accepts(j, d) /\ to = {j}
        BY <3>1, <2>2, OneTaker
      <3>3. i # j
        BY <3>2, StageNames
      <3>4. list'[j] = Sent(j, l, un, d) /\ \A k \in Stages \ {i, j} : list'[k] = list[k]
        BY <1>2, <3>2, <3>3
      <3> QED
        BY <3>1, <3>2, <3>4
    <2> QED
      BY <2>1, <2>2
  <1> QED
    BY <1>0, <1>2, <1>6, <1>7, <1>9, <1>10, <1>11 DEF Handed

LEMMA SumOfStages ==
  ASSUME NEW i \in {1, 2, 3}, NEW j \in {1, 2, 3}, NEW u, NEW w, NEW g \in Nat, NEW t \in Nat,
         u[1] \in Nat, u[2] \in Nat, u[3] \in Nat, w[i] \in Nat, u[i] = w[i] + g,
         \A k \in {1, 2, 3} \ {i, j} : w[k] = u[k],
         (j = i /\ t = 0) \/ (j # i /\ w[j] = u[j] + t)
  PROVE  /\ u[1] + u[2] + u[3] - g + t = w[1] + w[2] + w[3]
         /\ u[1] + u[2] + u[3] >= g
  <1>1. CASE i = 1
    BY <1>1
  <1>2. CASE i = 2
    BY <1>2
  <1>3. CASE i = 3
    BY <1>3
  <1> QED
    BY <1>1, <1>2, <1>3

Countable(i, l, un, wanted, d) ==
  /\ \A v \in DOMAIN unit : un[v].refCount = unit[v].refCount
  /\ \A p \in Pics(i) : l[p].prev \subseteq un[l[p].unit].prev
  /\ d \in wanted \cap Pics(i) => \A j \in Stages : j > i => d \notin Pics(j)

LEMMA SendingCounts ==
  ASSUME Shape, UnitsCounted, call.flush \in BOOLEAN,
         NEW i \in Stages, NEW l, NEW un, NEW wanted, NEW free, NEW d,
         Sendable(i, l, un, wanted, free, d), Countable(i, l, un, wanted, d)
  PROVE  /\ UnitsCounted'
         /\ ok' <=> /\ ok /\ wanted \subseteq Pics(i)
                    /\ d \in wanted => \A j \in Takers(i + 1, d) : InsertCheck(j, d)
  <1>0. /\ Alike(l, list[i]) /\ un \in Seq(UnitRec) /\ DOMAIN un = DOMAIN unit
        /\ \A p \in Pics(i) : l[p].unit \in DOMAIN unit
        /\ wanted \subseteq {d} /\ free \subseteq Pics(i)
    BY DEF Sendable
  <1>00. /\ \A v \in DOMAIN unit : un[v].refCount = unit[v].refCount
         /\ \A p \in Pics(i) : l[p].prev \subseteq un[l[p].unit].prev
         /\ d \in wanted \cap Pics(i) => \A j \in Stages : j > i => d \notin Pics(j)
    BY DEF Countable
  <1>1. PICK done, to : StageStep(i, l, un, wanted, free, d, done, to)
    BY SendAndFreeUnfolded
  <1>2. /\ unit' = [v \in DOMAIN un |->
              [un[v] EXCEPT !.refCount = @ - Given(l, un, done, free, v) + Taken(l, un, to, d, v)]]
        /\ list' = [j \in Stages |->
              IF j = i THEN [p \in DOMAIN l \ free |->
                               IF p \in done THEN [l[p] EXCEPT !.prev = {}] ELSE l[p]]
              ELSE IF j \in to THEN Sent(j, l, un, d) ELSE list[j]]
        /\ done = wanted \cap DOMAIN l
        /\ to = IF done = {} THEN {} ELSE Takers(i + 1, d)
    BY <1>1 DEF StageStep
  <1>3. /\ DOMAIN l = Pics(i) /\ l \in [Pics(i) -> PicRec] /\ IsFiniteSet(Pics(i))
        /\ done = wanted \cap Pics(i) /\ \A p \in Pics(i) : l[p].unit = list[i][p].unit
                                        /\ l[p].prev = list[i][p].prev
    BY <1>0, <1>2, ListTypes DEF Alike, Pics
  <1>4. \A v \in DOMAIN un : un[v] \in UnitRec /\ un[v].refCount \in Int
    BY <1>0, ElementOfSeq, UnitFields
  <1>5. \A p \in Pics(i) : \A v : PrevUse(un, l[p], v) <=> v \in list[i][p].prev
    BY <1>3, <1>00 DEF PrevUse
  <1>6. \A p \in Pics(i) \ free :
          /\ list'[i][p].unit = list[i][p].unit
          /\ list'[i][p].prev = IF p \in done THEN {} ELSE list[i][p].prev
    <2>1. Handed(i, l, un, wanted, free, d)
      BY Sending
    <2> QED
      BY <2>1, <1>3 DEF Handed
  <1>7. DOMAIN list' = Stages /\ DOMAIN list'[i] = Pics(i) \ free
    BY <1>0, <1>2, <1>3
  <1>8. ASSUME NEW v \in DOMAIN unit
        PROVE  /\ GivenFirst(l, un, done, v) \in Nat /\ Given(l, un, done, free, v) \in Nat
               /\ Given(l, un, done, free, v) >= GivenFirst(l, un, done, v)
               /\ Uses(list[i], v) = Uses(list'[i], v) + Given(l, un, done, free, v)
    <2>0. PICK old, new : old = list[i] /\ new = list'[i]
      OBVIOUS
    <2>1. PICK F, G, H : /\ F = ReadIn(old, done, v) /\ G = ReadIn(old, free \ done, v)
                         /\ H = OwnedIn(old, free, v)
      OBVIOUS
    <2>2. /\ {p \in done : PrevUse(un, l[p], v)} = F
          /\ {p \in free \ done : PrevUse(un, l[p], v)} = G
          /\ {p \in free : l[p].unit = v} = H
      BY <2>0, <2>1, <1>0, <1>3, <1>5 DEF ReadIn, OwnedIn
    <2>3. /\ GivenFirst(l, un, done, v) = Cardinality(F)
          /\ Given(l, un, done, free, v) = Cardinality(F) + Cardinality(G) + Cardinality(H)
      BY <2>2 DEF GivenFirst, Given
    <2>6. /\ Cardinality(F) \in Nat /\ Cardinality(G) \in Nat /\ Cardinality(H) \in Nat
          /\ Uses(old, v) = Uses(new, v) + Cardinality(F) + Cardinality(G) + Cardinality(H)
      <3>2. IsFiniteSet(DOMAIN old) /\ Reduced(old, new, done, free)
        BY <2>0, <1>0, <1>3, <1>6, <1>7 DEF Pics, Reduced
      <3> QED
        BY <2>1, <3>2, UsesReleased
    <2>4. IsFiniteSet(Pics(i) \ free)
      BY <1>3, FS_Difference
    <2>5. Uses(list'[i], v) \in Nat
      BY <2>4, <1>7, UsesType
    <2> QED
      BY <2>0, <2>3, <2>5, <2>6
  <1>9. PICK j : \/ to = {} /\ j = i
                 \/ j \in Stages /\ j > i /\ to = {j} /\ d \in done
    <2>1. CASE done = {}
      BY <2>1, <1>2
    <2>2. CASE done # {}
      <3>1. d \in done /\ to = Takers(i + 1, d)
        BY <2>2, <1>0, <1>2
      <3> QED
        BY <3>1, OneTaker
    <2> QED
      BY <2>1, <2>2
  <1>10. ASSUME NEW v \in DOMAIN unit, to = {j}, j \in Stages, j > i, d \in done
         PROVE  Uses(list'[j], v) = Uses(list[j], v) + Taken(l, un, to, d, v)
    <2>1. d \in Pics(i) /\ d \in Int /\ d \notin Pics(j) /\ i # j
      BY <1>00, <1>3, <1>10, ListTypes, StageNames
    <2>2. l[d].unit \in Int /\ un[l[d].unit].prev \in SUBSET Int
      BY <2>1, <1>0, <1>3, <1>4, PicFields, UnitFields
    <2>3. PICK pic : pic = NewPicture(l[d].unit, un[l[d].unit].prev)
      OBVIOUS
    <2>4. pic \in PicRec /\ pic.unit = l[d].unit /\ pic.prev = un[l[d].unit].prev
      BY <2>2, <2>3, NewPictureType
    <2>5. list'[j] = Insert(j, d, pic)
      BY <2>1, <2>3, <1>2, <1>10 DEF Sent
    <2>6. /\ DOMAIN list'[j] = DOMAIN list[j] \cup {d} /\ list'[j][d] = pic
          /\ \A q \in DOMAIN list[j] : /\ list'[j][q].unit = list[j][q].unit
                                       /\ list'[j][q].prev = list[j][q].prev
      <3>1. Added(list[j], list'[j], d, pic)
        BY <2>1, <2>4, <2>5, <1>10, Inserted
      <3>2. \A q \in DOMAIN list[j] : q # d
        BY <2>1 DEF Pics
      <3> QED
        BY <3>1, <3>2 DEF Added
    <2>7. IsFiniteSet(DOMAIN list[j]) /\ d \notin DOMAIN list[j]
      BY <2>1, <1>10, ListTypes DEF Pics
    <2>8. Uses(list'[j], v) = Uses(list[j], v) + (IF pic.unit = v THEN 1 ELSE 0)
                                               + (IF v \in pic.prev THEN 1 ELSE 0)
      <3>1. PICK old, new : old = list[j] /\ new = list'[j]
        OBVIOUS
      <3>2. /\ DOMAIN new = DOMAIN old \cup {d} /\ new[d] = pic
            /\ \A q \in DOMAIN old : old[q].unit = new[q].unit /\ old[q].prev = new[q].prev
        BY <2>6, <3>1
      <3> QED
        BY <2>7, <3>1, <3>2, UsesAdded
    <2>9. Uses(list[j], v) \in Nat
      BY <2>7, UsesType
    <2> QED
      BY <2>4, <2>8, <2>9, <1>10 DEF Taken, SharedUse
  <1>11. \A k \in Stages \ {i, j} : list'[k] = list[k]
    BY <1>2, <1>9
  <1>12. ASSUME NEW v \in DOMAIN unit
         PROVE  Taken(l, un, to, d, v) \in Nat
    BY DEF Taken, SharedUse
  <1>13. \A k \in Stages : \A v : Uses(list[k], v) \in Nat
    <2> TAKE k \in Stages
    <2> TAKE v
    <2>1. IsFiniteSet(DOMAIN list[k])
      BY ListTypes DEF Pics
    <2> QED
      BY <2>1, UsesType
  <1>14. ASSUME NEW v \in DOMAIN unit
         PROVE  /\ unit[v].refCount - Given(l, un, done, free, v) + Taken(l, un, to, d, v)
                     = Uses(list'[Pre], v) + Uses(list'[Filter], v) + Uses(list'[Gop], v)
                /\ un[v].refCount >= GivenFirst(l, un, done, v)
                /\ un[v].refCount + Taken(l, un, to, d, v) >= Given(l, un, done, free, v)
    <2>0. PICK u, w : /\ u = [k \in Stages |-> Uses(list[k], v)]
                      /\ w = [k \in Stages |-> Uses(list'[k], v)]
      OBVIOUS
    <2>1. PICK g, t, f, r : /\ g = Given(l, un, done, free, v) /\ t = Taken(l, un, to, d, v)
                            /\ f = GivenFirst(l, un, done, v) /\ r = unit[v].refCount
      OBVIOUS
    <2>2. u[1] \in Nat /\ u[2] \in Nat /\ u[3] \in Nat
      BY <2>0, <1>13, StageNames
    <2>3. g \in Nat /\ t \in Nat /\ f \in Nat /\ g >= f
      BY <2>1, <1>8, <1>12
    <2>4. w[i] \in Nat
      <3>1. IsFiniteSet(Pics(i) \ free)
        BY <1>3, FS_Difference
      <3> QED
        BY <3>1, <2>0, <1>7, UsesType
    <2>5. u[i] = w[i] + g
      BY <2>0, <2>1, <1>8
    <2>6. \A k \in Stages \ {i, j} : w[k] = u[k]
      BY <2>0, <1>11
    <2>7. \/ j = i /\ t = 0
          \/ j \in Stages /\ j # i /\ w[j] = u[j] + t
      BY <2>0, <2>1, <1>9, <1>10, StageNames DEF Taken
    <2>8. i \in {1, 2, 3} /\ j \in {1, 2, 3} /\ Stages = {1, 2, 3}
      BY <2>7, StageNames
    <2>9. r = u[1] + u[2] + u[3] /\ un[v].refCount = r
      BY <2>0, <2>1, <1>00, StageNames DEF UnitsCounted
    <2>10. u[1] + u[2] + u[3] - g + t = w[1] + w[2] + w[3] /\ u[1] + u[2] + u[3] >= g
      BY <2>2, <2>3, <2>4, <2>5, <2>6, <2>7, <2>8, SumOfStages
    <2>11. r - g + t = w[1] + w[2] + w[3] /\ r >= f /\ r + t >= g
      BY <2>2, <2>3, <2>9, <2>10
    <2>12. w[1] + w[2] + w[3] = Uses(list'[Pre], v) + Uses(list'[Filter], v) + Uses(list'[Gop], v)
      BY <2>0, StageNames
    <2> QED
      BY <2>1, <2>9, <2>11, <2>12
  <1>15. UnitsCounted'
    <2>1. \A v \in DOMAIN unit : unit'[v].refCount =
            unit[v].refCount - Given(l, un, done, free, v) + Taken(l, un, to, d, v)
      <3> TAKE v \in DOMAIN unit
      <3>1. PICK g, t : g = Given(l, un, done, free, v) /\ t = Taken(l, un, to, d, v)
        OBVIOUS
      <3>2. g \in Int /\ t \in Int
        BY <3>1, <1>8, <1>12
      <3>3. PICK n \in Int : n = un[v].refCount - g + t
        BY <3>2, <1>0, <1>4
      <3>4. unit'[v] = [un[v] EXCEPT !.refCount = n]
        BY <3>1, <3>3, <1>0, <1>2
      <3> QED
        BY <3>1, <3>3, <3>4, <1>0, <1>00, <1>4, CountUpdate
    <2>2. DOMAIN unit' = DOMAIN unit
      BY <1>0, <1>2
    <2> QED
      BY <2>1, <2>2, <1>14, StageNames DEF UnitsCounted
  <1>16. ok' <=> /\ ok /\ wanted \subseteq Pics(i)
                 /\ d \in wanted => \A k \in Takers(i + 1, d) : InsertCheck(k, d)
    <2>1. ok' <=> /\ ok /\ wanted \subseteq DOMAIN l
                  /\ \A k \in to : \A p \in done : InsertCheck(k, p)
      <3>1. ok' = (/\ ok
                   /\ wanted \subseteq DOMAIN l
                   /\ \A v \in DOMAIN un :
                        /\ un[v].refCount >= GivenFirst(l, un, done, v)
                        /\ un[v].refCount + Taken(l, un, to, d, v) >= Given(l, un, done, free, v)
                   /\ \A k \in to : \A p \in done : InsertCheck(k, p))
        BY <1>1 DEF StageStep
      <3>2. \A v \in DOMAIN un :
              /\ un[v].refCount >= GivenFirst(l, un, done, v)
              /\ un[v].refCount + Taken(l, un, to, d, v) >= Given(l, un, done, free, v)
        BY <1>0, <1>14
      <3> QED
        BY <3>1, <3>2, Zenon
    <2>2. CASE wanted \subseteq Pics(i) /\ d \in wanted
      <3>1. done = {d} /\ to = Takers(i + 1, d)
        BY <2>2, <1>0, <1>2, <1>3
      <3> QED
        BY <2>1, <2>2, <3>1, <1>3
    <2>3. CASE wanted \subseteq Pics(i) /\ d \notin wanted
      <3>1. done = {} /\ to = {}
        BY <2>3, <1>0, <1>2, <1>3
      <3> QED
        BY <2>1, <2>3, <3>1, <1>3
    <2>4. CASE ~ (wanted \subseteq Pics(i))
      BY <2>1, <2>4, <1>3
    <2> QED
      BY <2>2, <2>3, <2>4
  <1> QED
    BY <1>15, <1>16

\* Where the pictures of a stage's list come from.
Comes(i, l, un, wanted, d, k, p) ==
  \/ /\ p \in Pics(k) /\ list'[k][p].unit = list[k][p].unit
     /\ list'[k][p].prev = IF k = i /\ p \in wanted THEN {} ELSE list[k][p].prev
     /\ list'[k][p].flush => list[k][p].flush \/ call.flush
  \/ /\ k > i /\ p = d /\ d \in wanted \cap Pics(i) /\ Accepts(k, d) /\ Takers(i + 1, d) = {k}
     /\ list'[k][p] = NewPicture(l[d].unit, un[l[d].unit].prev)
     /\ list'[k][p].unit = list[i][d].unit
     /\ list'[k][p].prev = un[list[i][d].unit].prev
     /\ list'[k][p].flush = call.flush

LEMMA SendingFrom ==
  ASSUME Shape, call.flush \in BOOLEAN,
         NEW i \in Stages, NEW l, NEW un, NEW wanted, NEW free, NEW d,
         Sendable(i, l, un, wanted, free, d),
         \A p \in Pics(i) : l[p].flush => list[i][p].flush \/ call.flush
  PROVE  /\ Pics(i)' = Pics(i) \ free
         /\ \A k \in Stages : k < i => list'[k] = list[k]
         /\ \A k \in Stages : /\ list'[k] \in [Pics(k)' -> PicRec]
                              /\ k # i => Pics(k) \subseteq Pics(k)'
                              /\ \A p \in Pics(k)' : Comes(i, l, un, wanted, d, k, p)
  <1>1. /\ Alike(l, list[i]) /\ un \in Seq(UnitRec) /\ DOMAIN un = DOMAIN unit
        /\ \A p \in Pics(i) : l[p].unit \in DOMAIN unit
    BY DEF Sendable
  <1>2. Handed(i, l, un, wanted, free, d)
    BY Sending
  <1>3. list'[i] \in [Pics(i) \ free -> PicRec] /\ Pics(i)' = Pics(i) \ free
    BY <1>2 DEF Handed, Pics
  <1>4. \A p \in Pics(i)' : Comes(i, l, un, wanted, d, i, p)
    BY <1>2, <1>3 DEF Handed, Comes
  <1>5. ASSUME NEW k \in Stages, k # i, list'[k] = list[k]
        PROVE  /\ list'[k] \in [Pics(k)' -> PicRec] /\ Pics(k) \subseteq Pics(k)'
               /\ \A p \in Pics(k)' : Comes(i, l, un, wanted, d, k, p)
    <2>1. Pics(k)' = Pics(k) /\ list[k] \in [Pics(k) -> PicRec]
      BY <1>5, ListTypes DEF Pics
    <2> QED
      BY <2>1, <1>5 DEF Comes
  <1>6. CASE \A j \in Stages \ {i} : list'[j] = list[j]
    <2>1. \A k \in Stages : k < i => k # i
      BY StageNames
    <2>2. \A k \in Stages : k # i => list'[k] = list[k]
      BY <1>6
    <2> QED
      BY <1>3, <1>4, <1>5, <2>1, <2>2
  <1>7. ASSUME NEW j \in Stages, j > i, Accepts(j, d), Takers(i + 1, d) = {j},
               d \in wanted \cap Pics(i),
               list'[j] = Sent(j, l, un, d),
               \A k \in Stages \ {i, j} : list'[k] = list[k]
        PROVE  /\ \A k \in Stages : k < i => list'[k] = list[k]
               /\ \A k \in Stages : /\ list'[k] \in [Pics(k)' -> PicRec]
                                    /\ k # i => Pics(k) \subseteq Pics(k)'
                                    /\ \A p \in Pics(k)' : Comes(i, l, un, wanted, d, k, p)
    <2>1. d \in Pics(i) /\ d \in Int /\ l[d] \in PicRec /\ l[d].unit = list[i][d].unit
      BY <1>1, <1>7, ListTypes DEF Alike, Pics
    <2>2. l[d].unit \in DOMAIN un /\ un[l[d].unit] \in UnitRec
      BY <1>1, <2>1, ElementOfSeq
    <2>3. PICK pic : pic = NewPicture(l[d].unit, un[l[d].unit].prev)
      OBVIOUS
    <2>4. /\ pic \in PicRec /\ pic.unit = l[d].unit /\ pic.prev = un[l[d].unit].prev
          /\ pic.flush = call.flush
      <3>1. l[d].unit \in Int /\ un[l[d].unit].prev \in SUBSET Int
        BY <2>1, <2>2, PicFields, UnitFields
      <3> QED
        BY <3>1, <2>3, NewPictureType
    <2>5. list'[j] = Insert(j, d, pic)
      BY <1>7, <2>3 DEF Sent
    <2>6. Added(list[j], list'[j], d, pic)
      BY <2>1, <2>4, <2>5, Inserted
    <2>7. list'[j] \in [Pics(j)' -> PicRec] /\ Pics(j) \subseteq Pics(j)'
      BY <2>6 DEF Added, Pics
    <2>8. \A p \in Pics(j)' : Comes(i, l, un, wanted, d, j, p)
      <3> TAKE p \in Pics(j)'
      <3>1. CASE p = d
        BY <3>1, <1>7, <2>1, <2>3, <2>4, <2>6 DEF Added, Comes
      <3>2. CASE p # d
        <4>1. p \in Pics(j) /\ j # i
          BY <3>2, <1>7, <2>6, StageNames DEF Added, Pics
        <4>2. /\ list'[j][p].unit = list[j][p].unit /\ list'[j][p].prev = list[j][p].prev
              /\ list'[j][p].flush => list[j][p].flush \/ call.flush
          BY <3>2, <4>1, <2>6 DEF Added, Pics
        <4> QED
          BY <4>1, <4>2 DEF Comes
      <3> QED
        BY <3>1, <3>2
    <2>9. \A k \in Stages : k # i /\ k # j => list'[k] = list[k]
      BY <1>7
    <2>10. \A k \in Stages : k < i => list'[k] = list[k]
      BY <1>7, <2>9, StageNames
    <2> QED
      BY <1>3, <1>4, <1>5, <2>7, <2>8, <2>9, <2>10
  <1> QED
    BY <1>2, <1>3, <1>6, <1>7 DEF Handed

Relinked(i, un, wanted, d) ==
  /\ \A v \in DOMAIN unit : un[v].poc = unit[v].poc /\ un[v].prev \subseteq DOMAIN unit
  /\ \A k \in Stages : \A p \in Pics(k) : list[k][p].prev \subseteq un[list[k][p].unit].prev
  /\ i # Gop /\ d \in wanted \cap Pics(i) /\ un[list[i][d].unit].prev # {} =>
       {unit[v].poc : v \in un[list[i][d].unit].prev} = Want(d)

LEMMA SendingLinks ==
  ASSUME Shape, Linked, call.flush \in BOOLEAN,
         NEW i \in Stages, NEW l, NEW un, NEW wanted, NEW free, NEW d,
         Sendable(i, l, un, wanted, free, d), Relinked(i, un, wanted, d),
         \A p \in Pics(i) : l[p].flush => list[i][p].flush \/ call.flush,
         cfg' = cfg, picsRcvd' = picsRcvd, lastPoc' \in Int, filterPoc' \in Nat
  PROVE  Shape' /\ Linked'
  <1>1. /\ unit' \in Seq(UnitRec) /\ DOMAIN unit' = DOMAIN unit /\ DOMAIN list' = Stages
        /\ \A v \in DOMAIN unit : unit'[v].poc = un[v].poc /\ unit'[v].prev = un[v].prev
    <2>1. Handed(i, l, un, wanted, free, d)
      BY Sending
    <2> QED
      BY <2>1 DEF Handed
  <1>2. /\ \A k \in Stages : k < i => list'[k] = list[k]
        /\ \A k \in Stages : list'[k] \in [Pics(k)' -> PicRec]
        /\ \A k \in Stages : \A p \in Pics(k)' : Comes(i, l, un, wanted, d, k, p)
        /\ Pics(i)' \subseteq Pics(i)
    BY SendingFrom
  <1>3. /\ \A v \in DOMAIN unit : unit'[v].poc = unit[v].poc /\ unit'[v].prev = un[v].prev
        /\ \A v \in DOMAIN unit : un[v].prev \subseteq DOMAIN unit
        /\ \A k \in Stages : \A p \in Pics(k) : list[k][p].prev \subseteq un[list[k][p].unit].prev
    BY <1>1 DEF Relinked
  <1>4. Shape'
    <2>1. ASSUME NEW k \in Stages, NEW p \in Pics(k)'
          PROVE  p \in Received
      <3>1. p \in Pics(k) \/ p \in Pics(i)
        BY <1>2, <2>1 DEF Comes
      <3> QED
        BY <3>1, <2>1, ListTypes
    <2>2. \A k \in Stages : list'[k] \in [DOMAIN list'[k] -> PicRec] /\ DOMAIN list'[k] \subseteq Received'
      BY <1>2, <2>1 DEF Pics, Received
    <2> QED
      BY <1>1, <2>2 DEF Shape, ListShape
  <1>5. \A p : Want(p)' = Want(p)
    BY DEF Want, Before
  <1>6. ASSUME NEW k \in Stages, NEW p \in Pics(k)'
        PROVE  Links(p, list[k][p])'
    <2>1. CASE /\ p \in Pics(k) /\ list'[k][p].unit = list[k][p].unit
               /\ list'[k][p].prev \in {{}, list[k][p].prev}
      <3>1. Links(p, list[k][p])
        BY <2>1 DEF Linked
      <3>2. /\ list[k][p].unit \in DOMAIN unit' /\ unit'[list[k][p].unit].poc = p
            /\ list'[k][p].prev \subseteq unit'[list[k][p].unit].prev
        BY <2>1, <3>1, <1>1, <1>3 DEF Links
      <3>3. ASSUME list'[k][p].prev # {}
            PROVE  {unit'[v].poc : v \in list'[k][p].prev} = Want(p)
        <4>1. list'[k][p].prev = list[k][p].prev
          BY <2>1, <3>3
        <4>2. \A v \in list[k][p].prev : unit'[v].poc = unit[v].poc
          BY <2>1, <3>1, <1>3 DEF Links, Linked
        <4> QED
          BY <3>1, <3>3, <4>1, <4>2 DEF Links
      <3> QED
        BY <2>1, <3>2, <3>3, <1>5 DEF Links
    <2>2. CASE /\ p = d /\ d \in wanted \cap Pics(i) /\ k > i
               /\ list'[k][p].unit = list[i][d].unit
               /\ list'[k][p].prev = un[list[i][d].unit].prev
      <3>1. Links(d, list[i][d])
        BY <2>2 DEF Linked
      <3>2. list[i][d].unit \in DOMAIN unit' /\ unit'[list[i][d].unit].poc = d
        BY <3>1, <1>1, <1>3 DEF Links
      <3>3. unit'[list[i][d].unit].prev = un[list[i][d].unit].prev
        BY <3>2, <1>1
      <3>4. ASSUME un[list[i][d].unit].prev # {}
            PROVE  {unit'[v].poc : v \in un[list[i][d].unit].prev} = Want(d)
        <4>1. \A v \in un[list[i][d].unit].prev : unit'[v].poc = unit[v].poc
          BY <3>2, <1>1, <1>3
        <4> QED
          BY <2>2, <3>4, <4>1, StageNames DEF Relinked
      <3> QED
        BY <2>2, <3>2, <3>3, <3>4, <1>5 DEF Links
    <2> QED
      BY <1>2, <1>6, <2>1, <2>2 DEF Comes
  <1>7. \A p \in Pics(Pre)' : list'[Pre][p].prev = {}
    <2>1. CASE i = Pre
      BY <2>1, <1>2, StageNames DEF Comes, Linked
    <2>2. CASE i # Pre
      <3>1. list'[Pre] = list[Pre]
        BY <2>2, <1>2, StageNames
      <3> QED
        BY <3>1 DEF Linked, Pics
    <2> QED
      BY <2>1, <2>2
  <1>8. \A v \in DOMAIN unit' : unit'[v].prev \subseteq DOMAIN unit'
    BY <1>1, <1>3
  <1> QED
    BY <1>4, <1>6, <1>7, <1>8 DEF Linked

-----------------------------------------------------------------------------
(***************************************************************************)
(* Smallest and largest members, and the pictures they pick.               *)
(***************************************************************************)
LEMMA LeastMember ==
  ASSUME NEW S \in SUBSET Nat, S # {}
  PROVE  \E n \in S : \A m \in S : n <= m
  <1> DEFINE below == OpToRel(<, Nat)
  <1>1. IsWellFoundedOn(below, Nat)
    BY NatLessThanWellFounded
  <1>2. \A m, n \in Nat : n < m => <<n, m>> \in below
    BY DEF OpToRel
  <1> HIDE DEF below
  <1>3. PICK m \in S : \A n \in S : ~ (<<n, m>> \in below)
    BY <1>1, WFMin
  <1>4. \A n \in S : ~ (n < m)
    BY <1>2, <1>3
  <1> QED
    BY <1>4

LEMMA UnusedMember ==
  ASSUME Shape, Unused # {}
  PROVE  Min(Unused) \in Unused
  <1>1. Unused \in SUBSET Nat
    BY ListTypes DEF Unused
  <1>2. \E n \in Unused : \A m \in Unused : n <= m
    BY <1>1, LeastMember
  <1>3. \E n \in Unused : \A m \in Unused : m >= n
    BY <1>1, <1>2
  <1> QED
    BY <1>3 DEF Min

LEMMA LastMember ==
  ASSUME Shape, Pics(Pre) # {}
  PROVE  LET last == Last(Pre, Pics(Pre))
         IN last \in Pics(Pre) /\ \A q \in Pics(Pre) : q <= last
  <1>0. PICK n \in Int : n = picsRcvd
    BY DEF Shape
  <1>1. \A q \in Pics(Pre) : q \in Int /\ q < n
    BY <1>0, ListTypes DEF Received, Stages
  <1> DEFINE S == {n - q : q \in Pics(Pre)}
  <1>2. S \in SUBSET Nat /\ S # {}
    BY <1>1
  <1>3. PICK m \in S : \A k \in S : m <= k
    BY <1>2, LeastMember
  <1>4. PICK p \in Pics(Pre) : m = n - p
    BY <1>3
  <1>5. \A q \in Pics(Pre) : q <= p
    <2> TAKE q \in Pics(Pre)
    <2>1. n - q \in S
      OBVIOUS
    <2>2. n - p <= n - q /\ p \in Int /\ q \in Int
      BY <1>1, <1>3, <1>4, <2>1
    <2> QED
      BY <2>2
  <1>6. \A p_1, q \in Pics(Pre) : Key(Pre, q) <= Key(Pre, p_1) <=> q <= p_1
    BY StageNames DEF Key
  <1> QED
    BY <1>5, <1>6 DEF Last

LEMMA MarkedSame ==
  ASSUME Shape, call.flush \in BOOLEAN, NEW i \in Stages
  PROVE  /\ Alike(Marked(i), list[i])
         /\ \A p \in Pics(i) : Marked(i)[p].flush => list[i][p].flush \/ call.flush
  <1> DEFINE mark(p) == list[i][p].flush \/ SeesFlush(i, p)
  <1>1. Marked(i) = [p \in Pics(i) |-> [list[i][p] EXCEPT !.flush = mark(p)]]
    BY DEF Marked
  <1>2. \A p \in Pics(i) : /\ [list[i][p] EXCEPT !.flush = mark(p)] \in PicRec
                           /\ [list[i][p] EXCEPT !.flush = mark(p)].unit = list[i][p].unit
                           /\ [list[i][p] EXCEPT !.flush = mark(p)].prev = list[i][p].prev
                           /\ [list[i][p] EXCEPT !.flush = mark(p)].flush = mark(p)
    <2> TAKE p \in Pics(i)
    <2>1. list[i][p] \in PicRec /\ mark(p) \in BOOLEAN
      BY ListTypes
    <2> HIDE DEF mark
    <2> QED
      BY <2>1, FlushUpdate
  <1>3. \A p : mark(p) => list[i][p].flush \/ call.flush
    BY DEF SeesFlush
  <1> HIDE DEF mark
  <1> QED
    BY <1>1, <1>2, <1>3 DEF Alike, Pics

-----------------------------------------------------------------------------
(***************************************************************************)
(* The steps keep the invariant.                                           *)
(***************************************************************************)
LEMMA FlowInit ==
  Init => FlowSafe
  <1> SUFFICES ASSUME Init PROVE FlowSafe
    OBVIOUS
  <1>1. cfg \in Configs /\ cfg.lead \in Nat /\ picsRcvd = -cfg.lead
    BY ConfigType DEF Init
  <1>2. /\ unit = <<>> /\ list = [i \in Stages |-> [p \in {} |-> {}]]
        /\ call = [flush |-> FALSE, pending |-> FALSE, au |-> None]
        /\ lastPoc = None /\ filterPoc = 0 /\ main = "idle"
    BY DEF Init
  <1>3. \A i \in Stages : Pics(i) = {}
    BY <1>2 DEF Pics
  <1>4. Received = {}
    BY <1>1 DEF Received
  <1>5. Shape
    <2>1. unit \in Seq(UnitRec) /\ lastPoc \in Int /\ DOMAIN list = Stages
      BY <1>2, EmptySeq DEF None
    <2>2. \A i \in Stages : list[i] \in [DOMAIN list[i] -> PicRec]
      BY <1>2
    <2> QED
      BY <1>1, <1>2, <1>3, <2>1, <2>2 DEF Shape, ListShape, Pics
  <1>6. CallSafe
    BY <1>2, <1>3 DEF CallSafe
  <1>7. Ordered
    BY <1>1, <1>2, <1>3, <1>4, StageNames DEF Ordered, Processed
  <1>8. Linked /\ Unfiltered /\ UnitsCounted
    <2>1. DOMAIN unit = {}
      BY <1>2
    <2> QED
      BY <2>1, <1>3, StageNames DEF Linked, Unfiltered, UnitsCounted
  <1> QED
    BY <1>5, <1>6, <1>7, <1>8 DEF FlowSafe

\* A unit that no picture uses.
Spare(u) ==
  /\ u \in Int /\ DOMAIN unit \cup {u} = 1 .. (IF u \in DOMAIN unit THEN Len(unit) ELSE Len(unit) + 1)
  /\ \A i \in Stages : \A p \in Pics(i) : list[i][p].unit # u /\ u \notin list[i][p].prev
  /\ \A i \in Stages : Uses(list[i], u) = 0

LEMMA FreeUnitSpare ==
  ASSUME FlowSafe, NEW u \in FreeUnit
  PROVE  Spare(u)
  <1>1. /\ Len(unit) \in Nat /\ DOMAIN unit = 1 .. Len(unit)
        /\ \A i \in Stages : IsFiniteSet(DOMAIN list[i])
    BY ListTypes DEF FlowSafe, Pics
  <1>2. \A i \in Stages : \A v : Uses(list[i], v) \in Nat
    <2> TAKE i \in Stages
    <2> TAKE v
    <2> QED
      BY <1>1, UsesType
  <1>3. /\ u \in Int /\ DOMAIN unit \cup {u} = 1 .. (IF u \in DOMAIN unit THEN Len(unit) ELSE Len(unit) + 1)
        /\ \A i \in Stages : Owners(list[i], u) = {} /\ Readers(list[i], u) = {}
    <2>1. CASE Unused # {}
      <3>1. u \in DOMAIN unit /\ unit[u].refCount <= 0
        BY <2>1, UnusedMember DEF FlowSafe, FreeUnit, Unused
      <3>2. Uses(list[1], u) + Uses(list[2], u) + Uses(list[3], u) <= 0
        BY <3>1, StageNames DEF FlowSafe, UnitsCounted
      <3>3. \A i \in Stages : Uses(list[i], u) <= 0
        BY <3>2, <1>2, StageNames
      <3>4. \A i \in Stages : Owners(list[i], u) = {} /\ Readers(list[i], u) = {}
        <4> TAKE i \in Stages
        <4> QED
          BY <3>3, <1>1, UsesType
      <3>5. DOMAIN unit \cup {u} = DOMAIN unit /\ u \in Int
        BY <3>1, <1>1
      <3> QED
        BY <3>1, <3>4, <3>5, <1>1
    <2>2. CASE Unused = {}
      <3>1. u = Len(unit) + 1
        BY <2>2 DEF FreeUnit
      <3>2. u \notin DOMAIN unit
        BY <3>1, <1>1
      <3>3. \A i \in Stages : Owners(list[i], u) = {} /\ Readers(list[i], u) = {}
        BY <3>2 DEF FlowSafe, Linked, Links, Owners, Readers, Pics
      <3>4. DOMAIN unit \cup {u} = 1 .. (Len(unit) + 1) /\ u \in Int
        BY <3>1, <1>1
      <3> QED
        BY <3>2, <3>3, <3>4
    <2> QED
      BY <2>1, <2>2
  <1>4. \A i \in Stages : \A p \in Pics(i) : list[i][p].unit # u /\ u \notin list[i][p].prev
    BY <1>3 DEF Owners, Readers, Pics
  <1>5. \A i \in Stages : Uses(list[i], u) = 0
    <2> TAKE i \in Stages
    <2> QED
      BY <1>1, <1>3, UsesType
  <1> QED
    BY <1>3, <1>4, <1>5 DEF Spare

LEMMA FlowStays ==
  ASSUME FlowSafe, cfg' = cfg, unit' = unit, picsRcvd' = picsRcvd, lastPoc' = lastPoc,
         filterPoc' = filterPoc, DOMAIN list' = Stages,
         \A i \in Stages : Alike(list'[i], list[i]),
         \/ main # "pre" \/ (main' = "pre" /\ call'.flush = call.flush)
         \/ picsRcvd - 1 \notin Pics(Pre) \/ lastPoc = picsRcvd - 1,
         call.flush => call'.flush \/ picsRcvd = -cfg.lead,
         CallSafe'
  PROVE  FlowSafe'
  <1>1. Shape /\ Ordered /\ Linked /\ Unfiltered /\ UnitsCounted
    BY DEF FlowSafe
  <1>2. Shape' /\ Ordered' /\ Linked' /\ Unfiltered' /\ UnitsCounted'
    BY <1>1, FlowQuiet
  <1> QED
    BY <1>2 DEF FlowSafe

\* The new frame takes unit u.
TakeUnit(u) ==
  /\ unit' = [v \in DOMAIN unit \cup {u} |->
       IF v = u THEN [Reuse(picsRcvd) EXCEPT !.refCount = 1] ELSE unit[v]]
  /\ list' = [list EXCEPT ![Pre] = Insert(Pre, picsRcvd, NewPicture(u, {}))]
  /\ picsRcvd' = picsRcvd + 1
  /\ call' = [call EXCEPT !.pending = FALSE]

LEMMA FlowTakeUnit ==
  ASSUME FlowSafe, NEW u, Spare(u), TakeUnit(u), call.pending,
         main = "input", main' = "pre", cfg' = cfg, lastPoc' = lastPoc, filterPoc' = filterPoc
  PROVE  FlowSafe'
  <1>0. /\ Shape /\ CallSafe /\ Ordered /\ Linked /\ Unfiltered /\ UnitsCounted
        /\ u \in Int /\ Stages = {Pre, Filter, Gop} /\ Pre # Filter /\ Pre # Gop
    BY StageNames DEF FlowSafe, Stages, Spare
  <1>1. ~ call.flush /\ ~ call'.flush /\ call'.flush \in BOOLEAN /\ call'.pending = FALSE
        /\ DOMAIN call' = {"flush", "pending", "au"}
    BY <1>0 DEF CallSafe, TakeUnit
  <1>2. PICK n \in Int : n = picsRcvd
    BY <1>0, ListTypes
  <1>3. cfg.lead \in Nat /\ n >= -cfg.lead
    BY <1>0, <1>2, ConfigType DEF Shape
  <1>4. \A i \in Stages : Pics(i) \subseteq Received /\ n \notin Pics(i)
    BY <1>0, <1>2, <1>3, ListTypes DEF Received
  <1>5. Received' = Received \cup {n} /\ Received \subseteq Int
    BY <1>2, <1>3 DEF Received, TakeUnit
  <1>6. PICK pic : pic = NewPicture(u, {})
    OBVIOUS
  <1>7. pic \in PicRec /\ pic.unit = u /\ pic.prev = {} /\ pic.flush = call.flush
    BY <1>0, <1>6, NewPictureType DEF CallSafe
  <1>8. /\ list'[Pre] = Insert(Pre, n, pic) /\ DOMAIN list' = Stages
        /\ list'[Filter] = list[Filter] /\ list'[Gop] = list[Gop]
    BY <1>0, <1>2, <1>6 DEF TakeUnit, Shape
  <1>9. Added(list[Pre], list'[Pre], n, pic)
    BY <1>0, <1>2, <1>7, <1>8, Inserted
  <1>10. /\ Pics(Pre)' = Pics(Pre) \cup {n} /\ list'[Pre] \in [Pics(Pre)' -> PicRec]
         /\ list'[Pre][n] = pic
         /\ \A q \in Pics(Pre) : /\ list'[Pre][q].unit = list[Pre][q].unit
                                 /\ list'[Pre][q].prev = list[Pre][q].prev
                                 /\ list'[Pre][q].flush => list[Pre][q].flush \/ call.flush
         /\ Pics(Filter)' = Pics(Filter) /\ Pics(Gop)' = Pics(Gop)
    BY <1>0, <1>4, <1>8, <1>9 DEF Added, Pics
  <1>11. /\ DOMAIN unit' = DOMAIN unit \cup {u} /\ DOMAIN unit \subseteq DOMAIN unit'
         /\ \A v \in DOMAIN unit : v # u => unit'[v] = unit[v]
         /\ unit'[u].poc = n /\ unit'[u].prev = {} /\ unit'[u].refCount = 1
         /\ unit'[u] \in UnitRec
    <2>1. PICK new : new = [Reuse(n) EXCEPT !.refCount = 1]
      OBVIOUS
    <2>2. new \in UnitRec /\ new.poc = n /\ new.prev = {} /\ new.refCount = 1
      <3>1. PICK r : r = Reuse(n)
        OBVIOUS
      <3>2. r \in UnitRec /\ r.poc = n /\ r.prev = {}
        BY <3>1 DEF Reuse, UnitRec
      <3> QED
        BY <2>1, <3>1, <3>2, CountUpdate
    <2>3. unit' = [v \in DOMAIN unit \cup {u} |-> IF v = u THEN new ELSE unit[v]]
      BY <1>2, <2>1 DEF TakeUnit
    <2> QED
      BY <2>2, <2>3
  <1>12. unit' \in Seq(UnitRec)
    <2>1. PICK m \in Nat : DOMAIN unit' = 1 .. m
      BY <1>0, <1>11, ListTypes DEF Spare
    <2>2. \A v \in DOMAIN unit' : unit'[v] \in UnitRec
      BY <1>0, <1>11, ListTypes
    <2>3. unit' = [v \in 1 .. m |-> unit'[v]]
      BY <2>1 DEF TakeUnit
    <2> QED
      BY <2>1, <2>2, <2>3, SeqDef
  <1>13. Shape'
    <2>1. \A i \in Stages : ListShape(list[i])'
      <3>1. ListShape(list[Pre])'
        BY <1>4, <1>5, <1>10, <1>0 DEF ListShape, Pics
      <3>2. ListShape(list[Filter])' /\ ListShape(list[Gop])'
        BY <1>0, <1>5, <1>8 DEF ListShape, Shape
      <3> QED
        BY <1>0, <3>1, <3>2
    <2>2. picsRcvd' \in Int /\ picsRcvd' >= -cfg'.lead /\ cfg' \in Configs
      BY <1>0, <1>2, <1>3 DEF TakeUnit, Shape
    <2> QED
      BY <1>0, <1>8, <1>12, <2>1, <2>2 DEF Shape
  <1>14. CallSafe'
    <2>1. \A i \in Stages : \A p \in Pics(i)' : ~ list'[i][p].flush
      BY <1>0, <1>1, <1>7, <1>8, <1>10 DEF CallSafe
    <2> QED
      BY <1>1, <2>1 DEF CallSafe
  <1>15. Ordered'
    <2>1. Processed'
      <3>1. lastPoc = n - 1 \/ (lastPoc = None /\ n = -cfg.lead)
        BY <1>0, <1>2 DEF Ordered, Processed
      <3>2. picsRcvd' = n + 1 /\ n \in Pics(Pre)'
        BY <1>2, <1>10 DEF TakeUnit
      <3>3. lastPoc = picsRcvd' - 2 \/ (lastPoc = None /\ picsRcvd' = 1 - cfg.lead)
        BY <1>2, <1>3, <3>1, <3>2
      <3>4. picsRcvd' - 1 \in Pics(Pre)'
        BY <1>2, <3>2
      <3> QED
        BY <1>1, <3>3, <3>4 DEF Processed
    <2>2. \A q \in Received' : q + NumPrevFrames > lastPoc' => q \in Pics(Pre)'
      BY <1>0, <1>1, <1>5, <1>10 DEF Ordered
    <2> QED
      BY <1>0, <1>10, <2>1, <2>2 DEF Ordered
  <1>16. Linked'
    <2>1. \A v \in DOMAIN unit' : unit'[v].prev \subseteq DOMAIN unit'
      BY <1>0, <1>11 DEF Linked
    <2>2. ASSUME NEW i \in Stages, NEW p \in Pics(i)
          PROVE  Links(p, list[i][p])'
      <3>1. Links(p, list[i][p]) /\ list[i][p].unit # u /\ u \notin list[i][p].prev
        BY <1>0 DEF Linked, Spare
      <3>2. list'[i][p].unit = list[i][p].unit /\ list'[i][p].prev = list[i][p].prev
        BY <1>0, <1>8, <1>10
      <3>3. list[i][p].prev \subseteq DOMAIN unit /\ unit'[list[i][p].unit] = unit[list[i][p].unit]
        BY <1>0, <1>11, <3>1 DEF Linked, Links
      <3>4. \A v \in list[i][p].prev : unit'[v] = unit[v]
        BY <1>11, <3>1, <3>3
      <3>5. {unit'[v].poc : v \in list[i][p].prev} = {unit[v].poc : v \in list[i][p].prev}
        BY <3>4
      <3>6. Want(p)' = Want(p)
        BY DEF Want, Before
      <3> QED
        BY <1>11, <3>1, <3>2, <3>3, <3>5, <3>6 DEF Links
    <2>3. Links(n, list[Pre][n])'
      BY <1>7, <1>10, <1>11 DEF Links
    <2>4. \A p \in Pics(Pre)' : list'[Pre][p].prev = {}
      BY <1>0, <1>7, <1>10 DEF Linked
    <2> QED
      BY <1>0, <1>10, <2>1, <2>2, <2>3, <2>4 DEF Linked
  <1>17. Unfiltered'
    <2>1. \A p \in Pics(Filter) : unit'[list[Filter][p].unit] = unit[list[Filter][p].unit]
      BY <1>0, <1>11 DEF Linked, Links, Spare
    <2> QED
      BY <1>0, <1>8, <1>10, <2>1 DEF Unfiltered
  <1>18. UnitsCounted'
    <2>1. IsFiniteSet(DOMAIN list[Pre]) /\ n \notin DOMAIN list[Pre]
      BY <1>0, <1>4, ListTypes DEF Pics
    <2>2. \A v : Uses(list'[Pre], v) = Uses(list[Pre], v) + (IF u = v THEN 1 ELSE 0)
      <3> TAKE v
      <3>1. PICK old, new : old = list[Pre] /\ new = list'[Pre]
        OBVIOUS
      <3>2. /\ DOMAIN new = DOMAIN old \cup {n} /\ new[n] = pic
            /\ \A q \in DOMAIN old : old[q].unit = new[q].unit /\ old[q].prev = new[q].prev
        BY <1>10, <3>1 DEF Pics
      <3>3. Uses(new, v) = Uses(old, v) + (IF pic.unit = v THEN 1 ELSE 0)
                                        + (IF v \in pic.prev THEN 1 ELSE 0)
        BY <2>1, <3>1, <3>2, UsesAdded
      <3>4. Uses(old, v) \in Nat
        BY <2>1, <3>1, UsesType
      <3> QED
        BY <1>7, <3>1, <3>3, <3>4
    <2>3. \A i \in Stages : \A v : Uses(list[i], v) \in Nat
      <3> TAKE i \in Stages
      <3> TAKE v
      <3>1. IsFiniteSet(DOMAIN list[i])
        BY <1>0, ListTypes DEF Pics
      <3> QED
        BY <3>1, UsesType
    <2>4. ASSUME NEW v \in DOMAIN unit'
          PROVE  unit'[v].refCount
                   = Uses(list'[Pre], v) + Uses(list'[Filter], v) + Uses(list'[Gop], v)
      <3>1. CASE v = u
        <4>1. Uses(list[Pre], v) = 0 /\ Uses(list[Filter], v) = 0 /\ Uses(list[Gop], v) = 0
          BY <3>1, <1>0 DEF Spare
        <4> QED
          BY <3>1, <4>1, <1>8, <1>11, <2>2
      <3>2. CASE v # u
        <4>1. unit'[v] = unit[v] /\ v \in DOMAIN unit
          BY <3>2, <1>11
        <4>2. Uses(list'[Pre], v) = Uses(list[Pre], v)
          BY <3>2, <1>0, <2>2, <2>3
        <4> QED
          BY <4>1, <4>2, <1>0, <1>8 DEF UnitsCounted
      <3> QED
        BY <3>1, <3>2
    <2> QED
      BY <2>4 DEF UnitsCounted
  <1> QED
    BY <1>13, <1>14, <1>15, <1>16, <1>17, <1>18 DEF FlowSafe

LEMMA FlowAddInput ==
  ASSUME FlowSafe, AddInput
  PROVE  FlowSafe'
  <1>1. /\ main = "input" /\ main' = "pre" /\ cfg' = cfg
        /\ lastPoc' = lastPoc /\ filterPoc' = filterPoc
    BY DEF AddInput, looking
  <1>2. CASE call.pending /\ FreeUnit # {}
    <2>1. PICK u \in FreeUnit : TakeUnit(u)
      BY <1>2 DEF AddInput, TakeUnit
    <2> QED
      BY <1>1, <1>2, <2>1, FreeUnitSpare, FlowTakeUnit
  <1>3. CASE ~ (call.pending /\ FreeUnit # {})
    <2>1. unit' = unit /\ list' = list /\ picsRcvd' = picsRcvd /\ call' = call
      BY <1>3 DEF AddInput
    <2>2. DOMAIN list' = Stages /\ \A i \in Stages : Alike(list'[i], list[i])
      BY <2>1, ListTypes DEF FlowSafe, Shape
    <2>3. CallSafe'
      BY <1>1, <2>1 DEF FlowSafe, CallSafe, Pics
    <2> QED
      BY <1>1, <2>1, <2>2, <2>3, FlowStays
  <1> QED
    BY <1>2, <1>3

LEMMA SendingCalls ==
  ASSUME Shape, CallSafe, NEW i \in Stages, NEW l, NEW un, NEW wanted, NEW d,
         DOMAIN list' = Stages,
         \A k \in Stages : \A p \in Pics(k)' : Comes(i, l, un, wanted, d, k, p),
         call' = call, main' \notin {"idle", "done"}
  PROVE  CallSafe'
  <1>1. \A k \in Stages : \A p \in Pics(k)' :
          ~ call.flush => ~ list'[k][p].flush
    BY DEF Comes, CallSafe
  <1> QED
    BY <1>1 DEF CallSafe

\* The steps by which a stage ends its loop.
Finishing(i, l, un, wanted, free, d) ==
  /\ Sendable(i, l, un, wanted, free, d)
  /\ Countable(i, l, un, wanted, d)
  /\ Relinked(i, un, wanted, d)
  /\ \A p \in Pics(i) : l[p].flush => list[i][p].flush \/ call.flush
  /\ cfg' = cfg /\ picsRcvd' = picsRcvd /\ lastPoc' \in Int /\ filterPoc' \in Nat
  /\ call' = call /\ main' \notin {"idle", "done"}

Finished(i, l, un, wanted, free, d) ==
  /\ Shape' /\ Linked' /\ CallSafe' /\ UnitsCounted'
  /\ Pics(i)' = Pics(i) \ free
  /\ \A k \in Stages : k < i => list'[k] = list[k]
  /\ \A k \in Stages : k # i => Pics(k) \subseteq Pics(k)'
  /\ \A k \in Stages : \A p \in Pics(k)' : Comes(i, l, un, wanted, d, k, p)
  /\ DOMAIN unit' = DOMAIN unit
  /\ \A v \in DOMAIN unit : unit'[v].poc = un[v].poc /\ unit'[v].prev = un[v].prev
                            /\ unit'[v].intra = un[v].intra

LEMMA FlowFinish ==
  ASSUME FlowSafe, NEW i \in Stages, NEW l, NEW un, NEW wanted, NEW free, NEW d,
         Finishing(i, l, un, wanted, free, d)
  PROVE  Finished(i, l, un, wanted, free, d)
  <1>1. /\ Shape /\ CallSafe /\ Linked /\ UnitsCounted /\ call.flush \in BOOLEAN
        /\ Sendable(i, l, un, wanted, free, d)
        /\ Countable(i, l, un, wanted, d) /\ Relinked(i, un, wanted, d)
        /\ \A p \in Pics(i) : l[p].flush => list[i][p].flush \/ call.flush
        /\ cfg' = cfg /\ picsRcvd' = picsRcvd /\ lastPoc' \in Int /\ filterPoc' \in Nat
        /\ call' = call /\ main' \notin {"idle", "done"}
    BY DEF FlowSafe, CallSafe, Finishing
  <1>2. /\ DOMAIN list' = Stages /\ DOMAIN unit' = DOMAIN unit
        /\ \A v \in DOMAIN unit : unit'[v].poc = un[v].poc /\ unit'[v].prev = un[v].prev
                                  /\ unit'[v].intra = un[v].intra
    <2>1. Handed(i, l, un, wanted, free, d)
      BY <1>1, Sending
    <2> QED
      BY <2>1 DEF Handed
  <1>3. /\ Pics(i)' = Pics(i) \ free
        /\ \A k \in Stages : k < i => list'[k] = list[k]
        /\ \A k \in Stages : k # i => Pics(k) \subseteq Pics(k)'
        /\ \A k \in Stages : \A p \in Pics(k)' : Comes(i, l, un, wanted, d, k, p)
    BY <1>1, SendingFrom
  <1>4. CallSafe'
    BY <1>1, <1>2, <1>3, SendingCalls
  <1>5. Shape' /\ Linked'
    BY <1>1, SendingLinks
  <1>6. UnitsCounted'
    BY <1>1, SendingCounts
  <1> QED
    BY <1>2, <1>3, <1>4, <1>5, <1>6 DEF Finished

\* Without previous frames linked anew a step is free to send what has them.
LEMMA NothingRelinked ==
  ASSUME Shape, Linked, NEW i \in Stages, NEW l, NEW wanted, NEW d, Alike(l, list[i]),
         d \in wanted \cap Pics(i) =>
           /\ \A j \in Stages : j > i => d \notin Pics(j)
           /\ i # Gop => list[i][d].prev = unit[list[i][d].unit].prev
  PROVE  Countable(i, l, unit, wanted, d) /\ Relinked(i, unit, wanted, d)
  <1>1. \A p \in Pics(i) : l[p].prev \subseteq unit[l[p].unit].prev
    BY DEF Linked, Links, Alike, Pics
  <1>2. Countable(i, l, unit, wanted, d)
    BY <1>1 DEF Countable
  <1>3. \A k \in Stages : \A p \in Pics(k) : list[k][p].prev \subseteq unit[list[k][p].unit].prev
    BY DEF Linked, Links
  <1>4. i # Gop /\ d \in wanted \cap Pics(i) /\ unit[list[i][d].unit].prev # {} =>
          {unit[v].poc : v \in unit[list[i][d].unit].prev} = Want(d)
    <2> SUFFICES ASSUME i # Gop, d \in wanted \cap Pics(i), unit[list[i][d].unit].prev # {}
                 PROVE  {unit[v].poc : v \in unit[list[i][d].unit].prev} = Want(d)
      OBVIOUS
    <2>1. list[i][d].prev = unit[list[i][d].unit].prev /\ Links(d, list[i][d])
      BY DEF Linked
    <2> QED
      BY <2>1 DEF Links
  <1>5. Relinked(i, unit, wanted, d)
    <2>1. \A v \in DOMAIN unit : unit[v].prev \subseteq DOMAIN unit
      BY DEF Linked
    <2> QED
      BY <1>3, <1>4, <2>1 DEF Relinked
  <1> QED
    BY <1>2, <1>5

\* A frame is filtered and sent on.
LEMMA FilterFinishing ==
  ASSUME FlowSafe, NEW last, NEW wanted, wanted = Filtered(last),
         NEW free \in SUBSET Pics(Filter),
         SendAndFree(Filter, Marked(Filter), unit, wanted, free),
         filterPoc' = filterPoc + 1, lastPoc' = lastPoc, cfg' = cfg, picsRcvd' = picsRcvd,
         call' = call, main' \in {"filter", "gop"}
  PROVE  Finishing(Filter, Marked(Filter), unit, wanted, free, filterPoc)
  <1>1. /\ Shape /\ CallSafe /\ Ordered /\ Linked /\ Unfiltered /\ Filter \in Stages
         /\ Stages = {Pre, Filter, Gop} /\ Filter # Gop /\ call.flush \in BOOLEAN
    BY StageNames DEF FlowSafe, CallSafe, Stages
  <1>2. /\ Alike(Marked(Filter), list[Filter])
         /\ \A p \in Pics(Filter) : Marked(Filter)[p].flush => list[Filter][p].flush \/ call.flush
    BY <1>1, MarkedSame
  <1>3. PICK d \in Nat : d = filterPoc
    BY <1>1 DEF Shape
  <1>4. wanted \subseteq {d}
    BY <1>3 DEF Filtered
  <1>5. lastPoc' \in Int /\ filterPoc' \in Nat
    BY <1>1 DEF Shape
  <1>6. Sendable(Filter, Marked(Filter), unit, wanted, free, d)
    <2>1. unit \in Seq(UnitRec) /\ \A p \in Pics(Filter) : Marked(Filter)[p].unit \in DOMAIN unit
      BY <1>1, <1>2 DEF Shape, Linked, Links, Alike, Pics
    <2> QED
      BY <2>1, <1>2, <1>4 DEF Sendable
  <1>7. d \in wanted \cap Pics(Filter) =>
          /\ \A j \in Stages : j > Filter => d \notin Pics(j)
          /\ Filter # Gop => list[Filter][d].prev = unit[list[Filter][d].unit].prev
    <2>1. \A j \in Stages : j > Filter => j = Gop
      BY StageNames
    <2>2. d \notin Pics(Gop)
      BY <1>1, <1>3 DEF Ordered
    <2>3. d \in Pics(Filter) => list[Filter][d].prev = unit[list[Filter][d].unit].prev
      BY <1>1, <1>3 DEF Unfiltered
    <2> QED
      BY <2>1, <2>2, <2>3
  <1>8. /\ Countable(Filter, Marked(Filter), unit, wanted, d)
        /\ Relinked(Filter, unit, wanted, d)
    BY <1>1, <1>2, <1>7, NothingRelinked
  <1>9. Finishing(Filter, Marked(Filter), unit, wanted, free, d)
    BY <1>2, <1>5, <1>6, <1>8 DEF Finishing
  <1> QED
    BY <1>3, <1>9

LEMMA FlowFilter ==
  ASSUME FlowSafe, FilterPictures
  PROVE  FlowSafe'
  <1>1. /\ Shape /\ CallSafe /\ Ordered /\ Linked /\ Unfiltered /\ Filter \in Stages
        /\ Stages = {Pre, Filter, Gop} /\ Pre < Filter /\ Filter < Gop /\ call.flush \in BOOLEAN
        /\ Pre # Filter /\ Pre # Gop /\ Filter # Gop
    BY StageNames DEF FlowSafe, CallSafe, Stages
  <1>2. /\ main = "filter" /\ main' \in {"filter", "gop"} /\ cfg' = cfg /\ call' = call
        /\ picsRcvd' = picsRcvd /\ lastPoc' = lastPoc
    BY DEF FilterPictures, returned, Repeat, Skip
  <1>3. /\ Alike(Marked(Filter), list[Filter])
        /\ \A p \in Pics(Filter) : Marked(Filter)[p].flush => list[Filter][p].flush \/ call.flush
    BY <1>1, MarkedSame
  <1>4. CASE list' = [list EXCEPT ![Filter] = Marked(Filter)] /\ unit' = unit /\ filterPoc' = filterPoc
    <2>1. /\ DOMAIN list' = Stages /\ list'[Filter] = Marked(Filter)
          /\ \A i \in Stages : i # Filter => list'[i] = list[i]
      BY <1>1, <1>4 DEF Shape
    <2>2. \A i \in Stages : Alike(list'[i], list[i])
      <3> TAKE i \in Stages
      <3> QED
        BY <1>1, <1>3, <2>1, ListTypes
    <2>3. \A i \in Stages : \A p \in Pics(i)' : ~ call.flush => ~ list'[i][p].flush
      <3>1. \A p \in Pics(Filter)' : ~ call.flush => ~ list'[Filter][p].flush
        BY <1>1, <1>3, <2>1 DEF CallSafe, Alike, Pics
      <3> QED
        BY <1>1, <2>1, <3>1 DEF CallSafe, Pics
    <2>4. CallSafe'
      BY <1>1, <1>2, <2>3 DEF CallSafe
    <2> QED
      BY <1>2, <1>4, <2>1, <2>2, <2>4, FlowStays
  <1>5. ASSUME NEW last, NEW wanted, wanted = Filtered(last), NEW free \in SUBSET Pics(Filter),
               SendAndFree(Filter, Marked(Filter), unit, wanted, free),
               filterPoc' = filterPoc + 1
        PROVE  FlowSafe'
    <2>1. PICK d \in Nat : d = filterPoc
      BY <1>1 DEF Shape
    <2>2. wanted \subseteq {d}
      BY <1>5, <2>1 DEF Filtered
    <2>7. Finishing(Filter, Marked(Filter), unit, wanted, free, d)
      BY <1>2, <1>5, <2>1, FilterFinishing
    <2>8. Finished(Filter, Marked(Filter), unit, wanted, free, d)
      BY <1>1, <2>7, FlowFinish
    <2>9. /\ Shape' /\ Linked' /\ CallSafe' /\ UnitsCounted' /\ Pics(Filter)' \subseteq Pics(Filter)
          /\ list'[Pre] = list[Pre]
          /\ \A k \in Stages : \A p \in Pics(k)' : Comes(Filter, Marked(Filter), unit, wanted, d, k, p)
          /\ \A v \in DOMAIN unit : unit'[v].prev = unit[v].prev
      BY <1>1, <2>8 DEF Finished
    <2>10. Ordered'
      <3>1. Pics(Pre)' = Pics(Pre) /\ Received' = Received
        BY <1>2, <2>9 DEF Pics, Received
      <3>2. Processed'
        BY <1>1, <1>2, <3>1 DEF Ordered, Processed
      <3>3. \A p \in Pics(Gop)' : p \in Pics(Gop) \/ (p = d /\ d \in Pics(Filter))
        BY <1>1, <2>9 DEF Comes
      <3>4. \A p \in Pics(Gop)' : 0 <= p /\ p < filterPoc' /\ p <= lastPoc'
        <4> TAKE p \in Pics(Gop)'
        <4>1. p \in Int
          BY <1>1, <3>3, <2>1, ListTypes
        <4>2. CASE p \in Pics(Gop)
          BY <4>1, <4>2, <1>1, <1>2, <1>5, <2>1 DEF Ordered
        <4>3. CASE p = d /\ d \in Pics(Filter)
          BY <4>1, <4>3, <1>1, <1>2, <1>5, <2>1 DEF Ordered
        <4> QED
          BY <3>3, <4>2, <4>3
      <3> QED
        BY <1>1, <1>2, <2>9, <3>1, <3>2, <3>4 DEF Ordered
    <2>11. Unfiltered'
      <3> SUFFICES ASSUME NEW p \in Pics(Filter)', filterPoc' <= p
                   PROVE  list'[Filter][p].prev = unit'[list'[Filter][p].unit].prev
        BY DEF Unfiltered
      <3>1. p \in Pics(Filter) /\ p \in Int
        BY <1>1, <2>9, ListTypes
      <3>2. p \notin wanted /\ filterPoc <= p
        BY <1>5, <2>1, <2>2, <3>1
      <3>3. list'[Filter][p].unit = list[Filter][p].unit /\ list'[Filter][p].prev = list[Filter][p].prev
        BY <1>1, <2>9, <3>2 DEF Comes
      <3>4. list[Filter][p].unit \in DOMAIN unit
        BY <1>1, <3>1 DEF Linked, Links
      <3> QED
        BY <1>1, <2>9, <3>1, <3>2, <3>3, <3>4 DEF Unfiltered
    <2> QED
      BY <2>9, <2>10, <2>11 DEF FlowSafe
  <1> QED
    <2>1. CASE Ready(Filter) /\ HasNewPicture(Last(Filter, Pics(Filter)))
      <3>1. PICK last : last = Last(Filter, Pics(Filter))
        OBVIOUS
      <3>2. PICK free : free = {p \in Pics(Filter) : p <= filterPoc - cfg.range}
        OBVIOUS
      <3>3. /\ SendAndFree(Filter, Marked(Filter), unit, Filtered(last), free)
            /\ filterPoc' = filterPoc + 1
        BY <2>1, <3>1, <3>2 DEF FilterPictures
      <3>4. free \in SUBSET Pics(Filter)
        BY <3>2
      <3> QED
        BY <1>5, <3>3, <3>4
    <2>2. CASE ~ (Ready(Filter) /\ HasNewPicture(Last(Filter, Pics(Filter))))
      BY <1>4, <2>2 DEF FilterPictures, Skip
    <2> QED
      BY <2>1, <2>2

LEMMA OutputUpdate ==
  ASSUME NEW r \in PicRec, NEW b \in BOOLEAN
  PROVE  /\ [r EXCEPT !.output = b] \in PicRec /\ [r EXCEPT !.output = b].output = b
         /\ [r EXCEPT !.output = b].unit = r.unit /\ [r EXCEPT !.output = b].prev = r.prev
         /\ [r EXCEPT !.output = b].init = r.init /\ [r EXCEPT !.output = b].recon = r.recon
         /\ [r EXCEPT !.output = b].finished = r.finished /\ [r EXCEPT !.output = b].flush = r.flush
         /\ [r EXCEPT !.output = b].referenced = r.referenced /\ [r EXCEPT !.output = b].refs = r.refs
         /\ [r EXCEPT !.output = b].refCount = r.refCount
  BY DEF PicRec

\* The pictures that stay for output, as xOutputRecYuv leaves them.
Outputs == [p \in Pics(Gop) |-> [GopList[p] EXCEPT !.output = @ /\ ~OutputDone(p)]]

LEMMA OutputsSame ==
  ASSUME Shape
  PROVE  /\ Alike(Outputs, list[Gop])
         /\ \A p \in Pics(Gop) : Outputs[p].flush = list[Gop][p].flush
  <1> DEFINE stays(p) == list[Gop][p].output /\ ~ OutputDone(p)
  <1>1. Outputs = [p \in Pics(Gop) |-> [list[Gop][p] EXCEPT !.output = stays(p)]]
    BY DEF Outputs, GopList
  <1>2. \A p \in Pics(Gop) : /\ [list[Gop][p] EXCEPT !.output = stays(p)] \in PicRec
                             /\ [list[Gop][p] EXCEPT !.output = stays(p)].unit = list[Gop][p].unit
                             /\ [list[Gop][p] EXCEPT !.output = stays(p)].prev = list[Gop][p].prev
                             /\ [list[Gop][p] EXCEPT !.output = stays(p)].flush = list[Gop][p].flush
    <2> TAKE p \in Pics(Gop)
    <2>1. list[Gop][p] \in PicRec /\ stays(p) \in BOOLEAN
      BY ListTypes DEF Stages
    <2> HIDE DEF stays
    <2> QED
      BY <2>1, OutputUpdate
  <1> HIDE DEF stays
  <1> QED
    BY <1>1, <1>2 DEF Alike, Pics

\* Pictures leave the last stage, and the one whose access unit is returned
\* gives back what it read.
LEMMA ReleaseFinishing ==
  ASSUME FlowSafe, ReleasePictures
  PROVE  Finishing(Gop, Outputs, unit, {call.au} \ {None},
                   {p \in Pics(Gop) : AllPicsDone \/ Unneeded(Outputs[p])}, call.au)
  <1>1. /\ Shape /\ CallSafe /\ Ordered /\ Linked /\ Unfiltered /\ Gop \in Stages
        /\ Stages = {Pre, Filter, Gop} /\ Pre < Gop /\ Filter < Gop /\ call.flush \in BOOLEAN
        /\ Pre # Gop /\ Filter # Gop /\ \A j \in Stages : ~ (j > Gop)
    BY StageNames DEF FlowSafe, CallSafe, Stages
  <1>2. /\ main = "release" /\ main' = "end" /\ cfg' = cfg /\ call' = call
        /\ picsRcvd' = picsRcvd /\ lastPoc' = lastPoc /\ filterPoc' = filterPoc
    BY DEF ReleasePictures, returned, looking
  <1>3. /\ Alike(Outputs, list[Gop])
        /\ \A p \in Pics(Gop) : Outputs[p].flush = list[Gop][p].flush
    BY <1>1, OutputsSame
  <1>4. PICK d : d = call.au
    OBVIOUS
  <1>5. PICK wanted : wanted = {d} \ {None}
    OBVIOUS
  <1>6. PICK free : free = {p \in Pics(Gop) : AllPicsDone \/ Unneeded(Outputs[p])}
    OBVIOUS
  <1>7. SendAndFree(Gop, Outputs, unit, wanted, free)
    <2>1. SendAndFree(Gop, Outputs, unit, {call.au} \ {None},
                      {p \in Pics(Gop) : AllPicsDone \/ Unneeded(Outputs[p])})
      BY DEF ReleasePictures, Outputs
    <2> QED
      BY <2>1, <1>4, <1>5, <1>6
  <1>8. unit \in Seq(UnitRec) /\ \A p \in Pics(Gop) : Outputs[p].unit \in DOMAIN unit
    BY <1>1, <1>3 DEF Shape, Linked, Links, Alike, Pics
  <1>9. Sendable(Gop, Outputs, unit, wanted, free, d)
    BY <1>3, <1>5, <1>6, <1>7, <1>8 DEF Sendable
  <1>10. /\ Countable(Gop, Outputs, unit, wanted, d)
         /\ Relinked(Gop, unit, wanted, d)
    BY <1>1, <1>3, NothingRelinked
  <1>11. lastPoc' \in Int /\ filterPoc' \in Nat
    BY <1>1, <1>2 DEF Shape
  <1>12. Finishing(Gop, Outputs, unit, wanted, free, d)
    BY <1>2, <1>3, <1>9, <1>10, <1>11 DEF Finishing
  <1> QED
    BY <1>4, <1>5, <1>6, <1>12

LEMMA FlowRelease ==
  ASSUME FlowSafe, ReleasePictures
  PROVE  FlowSafe'
  <1>1. /\ Shape /\ CallSafe /\ Ordered /\ Linked /\ Unfiltered /\ Gop \in Stages
        /\ Stages = {Pre, Filter, Gop} /\ Pre < Gop /\ Filter < Gop /\ call.flush \in BOOLEAN
        /\ Pre # Gop /\ Filter # Gop /\ \A j \in Stages : ~ (j > Gop)
    BY StageNames DEF FlowSafe, CallSafe, Stages
  <1>2. /\ main = "release" /\ main' = "end" /\ cfg' = cfg /\ call' = call
        /\ picsRcvd' = picsRcvd /\ lastPoc' = lastPoc /\ filterPoc' = filterPoc
    BY DEF ReleasePictures, returned, looking
  <1>3. /\ Alike(Outputs, list[Gop])
        /\ \A p \in Pics(Gop) : Outputs[p].flush = list[Gop][p].flush
    BY <1>1, OutputsSame
  <1>4. PICK d : d = call.au
    OBVIOUS
  <1>5. PICK wanted : wanted = {d} \ {None}
    OBVIOUS
  <1>6. PICK free : free = {p \in Pics(Gop) : AllPicsDone \/ Unneeded(Outputs[p])}
    OBVIOUS
  <1>12. Finishing(Gop, Outputs, unit, wanted, free, d)
    BY <1>4, <1>5, <1>6, ReleaseFinishing
  <1>13. Finished(Gop, Outputs, unit, wanted, free, d)
    BY <1>1, <1>12, FlowFinish
  <1>14. /\ Shape' /\ Linked' /\ CallSafe' /\ UnitsCounted' /\ Pics(Gop)' \subseteq Pics(Gop)
         /\ list'[Pre] = list[Pre] /\ list'[Filter] = list[Filter]
         /\ \A v \in DOMAIN unit : unit'[v].prev = unit[v].prev
    BY <1>1, <1>13 DEF Finished
  <1>15. Pics(Pre)' = Pics(Pre) /\ Pics(Filter)' = Pics(Filter) /\ Received' = Received
    BY <1>2, <1>14 DEF Pics, Received
  <1>16. Ordered'
    <2>1. Processed'
      BY <1>1, <1>2, <1>15 DEF Ordered, Processed
    <2> QED
      BY <1>1, <1>2, <1>14, <1>15, <2>1 DEF Ordered
  <1>17. Unfiltered'
    <2>1. \A p \in Pics(Filter) : unit'[list[Filter][p].unit].prev = unit[list[Filter][p].unit].prev
      BY <1>1, <1>14 DEF Linked, Links
    <2> QED
      BY <1>1, <1>2, <1>14, <1>15, <2>1 DEF Unfiltered
  <1> QED
    BY <1>14, <1>16, <1>17 DEF FlowSafe

LEMMA LargerOf ==
  ASSUME NEW a \in Int, NEW b \in Int
  PROVE  Max({a, b}) = IF a <= b THEN b ELSE a
  <1>1. PICK m : m = IF a <= b THEN b ELSE a
    OBVIOUS
  <1>2. m \in {a, b} /\ \A y \in {a, b} : m >= y
    BY <1>1
  <1>3. \A x \in {a, b} : (\A y \in {a, b} : x >= y) => x = m
    BY <1>1
  <1>4. Max({a, b}) = m
    BY <1>2, <1>3 DEF Max
  <1> QED
    BY <1>1, <1>4

LEMMA LinkedAnew ==
  ASSUME Shape, Linked, NEW last \in Pics(Pre)
  PROVE  /\ LinkPrevQpaBufs(last) \in Seq(UnitRec)
         /\ DOMAIN LinkPrevQpaBufs(last) = DOMAIN unit
         /\ \A v \in DOMAIN unit :
              /\ LinkPrevQpaBufs(last)[v].poc = unit[v].poc
              /\ LinkPrevQpaBufs(last)[v].refCount = unit[v].refCount
              /\ v # list[Pre][last].unit => LinkPrevQpaBufs(last)[v] = unit[v]
         /\ LinkPrevQpaBufs(last)[list[Pre][last].unit].prev
              = IF IsLeadTrail(last) THEN {} ELSE {list[Pre][q].unit : q \in PrevPics(last)}
         /\ \A q \in PrevPics(last) : q \in Pics(Pre)
  <1>1. PICK a : a = IF IsLeadTrail(last) THEN {} ELSE {list[Pre][q].unit : q \in PrevPics(last)}
    OBVIOUS
  <1>2. PICK b \in BOOLEAN : b = (last >= 0 /\ CodingNum(last) = 0)
    OBVIOUS
  <1>3. PICK u : u = list[Pre][last].unit
    OBVIOUS
  <1>4. /\ Len(unit) \in Nat /\ DOMAIN unit = 1 .. Len(unit) /\ \A v \in DOMAIN unit : unit[v] \in UnitRec
        /\ u \in DOMAIN unit
    BY <1>3, ListTypes, StageNames DEF Linked, Links
  <1>5. LinkPrevQpaBufs(last) = [unit EXCEPT ![u] = [unit[u] EXCEPT !.prev = a, !.intra = b]]
    BY <1>1, <1>2, <1>3 DEF LinkPrevQpaBufs
  <1>6. \A q \in PrevPics(last) : q \in Pics(Pre)
    <2> TAKE q \in PrevPics(last)
    <2>1. CASE q = last
      BY <2>1
    <2>2. CASE q # last
      <3>1. q \in (last - NumPrevFrames) .. (last - 1) /\ q .. (last - 1) \subseteq Pics(Pre)
        BY <2>2 DEF PrevPics
      <3>2. last \in Int /\ NumPrevFrames \in Int
        BY ListTypes, StageNames, EncStagesAssumption
      <3>3. q \in q .. (last - 1)
        BY <3>1, <3>2
      <3> QED
        BY <3>1, <3>3
    <2> QED
      BY <2>1, <2>2
  <1>7. a \in SUBSET Int
    <2>1. \A q \in PrevPics(last) : list[Pre][q].unit \in Int
      <3> TAKE q \in PrevPics(last)
      <3>1. list[Pre][q] \in PicRec
        BY <1>6, ListTypes, StageNames
      <3> QED
        BY <3>1, PicFields
    <2> QED
      BY <1>1, <2>1
  <1>8. PICK r : r = [unit[u] EXCEPT !.prev = a, !.intra = b]
    OBVIOUS
  <1>9. r \in UnitRec /\ r.poc = unit[u].poc /\ r.prev = a /\ r.refCount = unit[u].refCount
    <2>1. PICK x \in UnitRec : x = unit[u]
      BY <1>4
    <2>2. r = [x EXCEPT !.prev = a, !.intra = b]
      BY <1>8, <2>1, Zenon
    <2>3. r \in UnitRec /\ r.poc = x.poc /\ r.prev = a /\ r.refCount = x.refCount
      BY <1>7, <2>2 DEF UnitRec
    <2> QED
      BY <2>1, <2>3
  <1>10. LinkPrevQpaBufs(last) = [v \in 1 .. Len(unit) |-> IF v = u THEN r ELSE unit[v]]
    BY <1>4, <1>5, <1>8, Zenon
  <1>11. LinkPrevQpaBufs(last) \in Seq(UnitRec)
    <2>1. \A v \in 1 .. Len(unit) : (IF v = u THEN r ELSE unit[v]) \in UnitRec
      BY <1>4, <1>9
    <2> QED
      BY <1>4, <1>10, <2>1, SeqDef
  <1> QED
    BY <1>1, <1>3, <1>4, <1>6, <1>9, <1>10, <1>11

\* The pictures directly before the last one are those it wants.
LEMMA PreviousFound ==
  ASSUME Shape, Ordered, ~ call.flush, NEW last \in Pics(Pre),
         lastPoc < last
  PROVE  PrevPics(last) = Want(last)
  <1>1. PICK n \in Nat : n = NumPrevFrames
    BY EncStagesAssumption
  <1>2. last \in Int /\ last \in Received /\ lastPoc \in Int /\ cfg.lead \in Int /\ picsRcvd \in Int
    BY ListTypes, StageNames DEF Shape
  <1>3. PICK before : before = {q \in (last - n) .. (last - 1) : q .. (last - 1) \subseteq Pics(Pre)}
    OBVIOUS
  <1>4. before = Before(last)
    <2>1. ASSUME NEW q \in (last - n) .. (last - 1), q >= -cfg.lead
          PROVE  q .. (last - 1) \subseteq Pics(Pre)
      <3> SUFFICES ASSUME NEW r \in q .. (last - 1) PROVE r \in Pics(Pre)
        OBVIOUS
      <3>1. r \in Received /\ r + n > lastPoc
        BY <1>1, <1>2, <2>1 DEF Received
      <3> QED
        BY <1>1, <3>1 DEF Ordered
    <2>2. ASSUME NEW q \in (last - n) .. (last - 1), q .. (last - 1) \subseteq Pics(Pre)
          PROVE  q >= -cfg.lead
      <3>1. q \in q .. (last - 1) /\ q \in Int
        BY <1>1, <1>2, <2>2
      <3>2. q \in Received
        BY <2>2, <3>1, ListTypes, StageNames
      <3> QED
        BY <1>2, <3>1, <3>2 DEF Received
    <2> QED
      BY <1>1, <1>3, <2>1, <2>2 DEF Before
  <1> QED
    BY <1>1, <1>3, <1>4 DEF PrevPics, Want

\* The pictures the next ones are linked to are kept.
LEMMA WindowKept ==
  ASSUME Shape, NEW last \in Pics(Pre), \A q \in Pics(Pre) : q <= last,
         NEW q \in Pics(Pre), q + NumPrevFrames > last
  PROVE  q \in KeptPics
  <1>1. PICK n \in Nat : n = NumPrevFrames
    BY EncStagesAssumption
  <1>2. last \in Int /\ q \in Int /\ Pics(Pre) \subseteq Int /\ q <= last
    BY ListTypes, StageNames
  <1>3. {r \in Pics(Pre) : r > q} \subseteq (q + 1) .. last
    BY <1>2
  <1>4. IsFiniteSet((q + 1) .. last) /\ Cardinality((q + 1) .. last) = last - q
    <2>1. PICK a \in Int : a = q + 1
      BY <1>2
    <2>2. IsFiniteSet(a .. last) /\ Cardinality(a .. last) = IF a > last THEN 0 ELSE last - a + 1
      BY <1>2, FS_Interval
    <2> QED
      BY <1>2, <2>1, <2>2
  <1>5. /\ Cardinality({r \in Pics(Pre) : r > q}) \in Nat
        /\ Cardinality({r \in Pics(Pre) : r > q}) <= last - q
    BY <1>3, <1>4, FS_Subset, FS_CardinalityType
  <1>6. Cardinality({r \in Pics(Pre) : r > q}) < NumPrevFrames
    BY <1>1, <1>2, <1>5
  <1> QED
    BY <1>6 DEF KeptPics

\* The last picture is the one the pre-processing has to look at, if any.
LEMMA LastIsNew ==
  ASSUME FlowSafe, NEW last \in Pics(Pre), \A q \in Pics(Pre) : q <= last
  PROVE  IF last > lastPoc
         THEN main = "pre" /\ ~ call.flush /\ last = picsRcvd - 1
         ELSE lastPoc = picsRcvd - 1
  <1>1. /\ last \in Int /\ last \in Received /\ lastPoc \in Int /\ cfg.lead \in Nat /\ cfg.lead <= 64
        /\ picsRcvd \in Int /\ Processed
    BY ListTypes, ConfigType, StageNames DEF FlowSafe, Shape, Ordered
  <1>2. -cfg.lead <= last /\ last <= picsRcvd - 1
    BY <1>1 DEF Received
  <1>3. CASE lastPoc = picsRcvd - 1
    BY <1>1, <1>2, <1>3
  <1>4. CASE lastPoc = None /\ picsRcvd = -cfg.lead
    BY <1>1, <1>2, <1>4
  <1>5. CASE /\ main = "pre" /\ ~ call.flush /\ picsRcvd - 1 \in Pics(Pre)
             /\ \/ lastPoc = picsRcvd - 2
                \/ lastPoc = None /\ picsRcvd = 1 - cfg.lead
    <2>1. picsRcvd - 1 <= last
      BY <1>5
    <2>2. lastPoc < picsRcvd - 1
      BY <1>1, <1>5 DEF None
    <2> QED
      BY <1>1, <1>2, <1>5, <2>1, <2>2
  <1> QED
    BY <1>1, <1>3, <1>4, <1>5 DEF Processed

\* The new picture is linked to those before it and sent on.
LEMMA LinkFinishing ==
  ASSUME FlowSafe, NEW last \in Pics(Pre), \A q \in Pics(Pre) : q <= last, last > lastPoc,
         SendAndFree(Pre, Marked(Pre), LinkPrevQpaBufs(last), {last}, Pics(Pre) \ KeptPics),
         lastPoc' = last, filterPoc' = filterPoc, cfg' = cfg, picsRcvd' = picsRcvd,
         call' = call, main' \in {"pre", "filter"}
  PROVE  Finishing(Pre, Marked(Pre), LinkPrevQpaBufs(last), {last}, Pics(Pre) \ KeptPics, last)
  <1>1. /\ Shape /\ CallSafe /\ Ordered /\ Linked /\ Unfiltered /\ Pre \in Stages
        /\ Stages = {Pre, Filter, Gop} /\ Pre < Filter /\ Pre < Gop /\ call.flush \in BOOLEAN
        /\ Pre # Filter /\ Pre # Gop /\ Pre = 1 /\ Filter = 2 /\ Gop = 3
    BY StageNames DEF FlowSafe, CallSafe, Stages
  <1>2. ~ call.flush /\ last = picsRcvd - 1 /\ last \in Int /\ lastPoc \in Int /\ picsRcvd \in Int
    BY <1>1, LastIsNew, ListTypes DEF Shape
  <1>3. /\ Alike(Marked(Pre), list[Pre])
        /\ \A p \in Pics(Pre) : Marked(Pre)[p].flush => list[Pre][p].flush \/ call.flush
    BY <1>1, MarkedSame
  <1>4. PICK un : un = LinkPrevQpaBufs(last)
    OBVIOUS
  <1>5. PICK u : u = list[Pre][last].unit
    OBVIOUS
  <1>6. /\ un \in Seq(UnitRec) /\ DOMAIN un = DOMAIN unit
        /\ \A v \in DOMAIN unit : /\ un[v].poc = unit[v].poc /\ un[v].refCount = unit[v].refCount
                                  /\ v # u => un[v] = unit[v]
        /\ un[u].prev = IF IsLeadTrail(last) THEN {} ELSE {list[Pre][q].unit : q \in PrevPics(last)}
        /\ \A q \in PrevPics(last) : q \in Pics(Pre)
    BY <1>1, <1>4, <1>5, LinkedAnew
  <1>7. PICK free : free = Pics(Pre) \ KeptPics
    OBVIOUS
  <1>8. Sendable(Pre, Marked(Pre), un, {last}, free, last)
    <2>1. \A p \in Pics(Pre) : Marked(Pre)[p].unit \in DOMAIN unit
      BY <1>1, <1>3 DEF Linked, Links, Alike, Pics
    <2> QED
      BY <2>1, <1>3, <1>4, <1>6, <1>7 DEF Sendable
  <1>9. \A k \in Stages : k # Pre => last \notin Pics(k)
    BY <1>1, <1>2 DEF Ordered
  <1>10. /\ u \in DOMAIN unit /\ unit[u].poc = last
         /\ \A k \in Stages : \A p \in Pics(k) : list[k][p].unit = u => k = Pre /\ p = last
    BY <1>1, <1>5, <1>9 DEF Linked, Links
  <1>11. Countable(Pre, Marked(Pre), un, {last}, last)
    <2>1. \A p \in Pics(Pre) : Marked(Pre)[p].prev = {}
      BY <1>1, <1>3 DEF Linked, Alike, Pics
    <2>2. \A j \in Stages : j > Pre => last \notin Pics(j)
      BY <1>1, <1>9
    <2> QED
      BY <1>6, <2>1, <2>2 DEF Countable
  <1>12. Relinked(Pre, un, {last}, last)
    <2>1. \A v \in DOMAIN unit : un[v].prev \subseteq DOMAIN unit
      <3>1. \A q \in PrevPics(last) : list[Pre][q].unit \in DOMAIN unit
        BY <1>1, <1>6 DEF Linked, Links
      <3>2. un[u].prev \subseteq DOMAIN unit
        BY <1>6, <3>1
      <3> QED
        BY <1>1, <1>6, <3>2 DEF Linked
    <2>2. ASSUME NEW k \in Stages, NEW p \in Pics(k)
          PROVE  list[k][p].prev \subseteq un[list[k][p].unit].prev
      <3>1. CASE list[k][p].unit = u
        BY <3>1, <1>1, <1>10 DEF Linked
      <3>2. CASE list[k][p].unit # u
        BY <3>2, <1>1, <1>6 DEF Linked, Links
      <3> QED
        BY <3>1, <3>2
    <2>3. ASSUME un[u].prev # {}
          PROVE  {unit[v].poc : v \in un[u].prev} = Want(last)
      <3>1. un[u].prev = {list[Pre][q].unit : q \in PrevPics(last)}
        BY <2>3, <1>6
      <3>2. \A q \in PrevPics(last) : unit[list[Pre][q].unit].poc = q
        BY <1>1, <1>6 DEF Linked, Links
      <3>3. {unit[v].poc : v \in un[u].prev} = PrevPics(last)
        BY <3>1, <3>2
      <3>4. PrevPics(last) = Want(last)
        BY <1>1, <1>2, PreviousFound
      <3> QED
        BY <3>3, <3>4
    <2> QED
      BY <1>5, <1>6, <2>1, <2>2, <2>3 DEF Relinked
  <1>13. Finishing(Pre, Marked(Pre), un, {last}, free, last)
    BY <1>1, <1>2, <1>3, <1>8, <1>11, <1>12 DEF Finishing, Shape
  <1> QED
    BY <1>4, <1>7, <1>13

LEMMA FlowLink ==
  ASSUME FlowSafe, NEW last \in Pics(Pre), \A q \in Pics(Pre) : q <= last, last > lastPoc,
         SendAndFree(Pre, Marked(Pre), LinkPrevQpaBufs(last), {last}, Pics(Pre) \ KeptPics),
         lastPoc' = last, filterPoc' = filterPoc, cfg' = cfg, picsRcvd' = picsRcvd,
         call' = call, main' \in {"pre", "filter"}
  PROVE  FlowSafe'
  <1>1. /\ Shape /\ CallSafe /\ Ordered /\ Linked /\ Unfiltered /\ Pre \in Stages
        /\ Stages = {Pre, Filter, Gop} /\ Pre < Filter /\ Pre < Gop /\ call.flush \in BOOLEAN
        /\ Pre # Filter /\ Pre # Gop /\ Pre = 1 /\ Filter = 2 /\ Gop = 3
    BY StageNames DEF FlowSafe, CallSafe, Stages
  <1>2. ~ call.flush /\ last = picsRcvd - 1 /\ last \in Int /\ lastPoc \in Int /\ picsRcvd \in Int
    BY <1>1, LastIsNew, ListTypes DEF Shape
  <1>3. /\ Alike(Marked(Pre), list[Pre])
        /\ \A p \in Pics(Pre) : Marked(Pre)[p].flush => list[Pre][p].flush \/ call.flush
    BY <1>1, MarkedSame
  <1>4. PICK un : un = LinkPrevQpaBufs(last)
    OBVIOUS
  <1>5. PICK u : u = list[Pre][last].unit
    OBVIOUS
  <1>6. /\ un \in Seq(UnitRec) /\ DOMAIN un = DOMAIN unit
        /\ \A v \in DOMAIN unit : /\ un[v].poc = unit[v].poc /\ un[v].refCount = unit[v].refCount
                                  /\ v # u => un[v] = unit[v]
        /\ un[u].prev = IF IsLeadTrail(last) THEN {} ELSE {list[Pre][q].unit : q \in PrevPics(last)}
        /\ \A q \in PrevPics(last) : q \in Pics(Pre)
    BY <1>1, <1>4, <1>5, LinkedAnew
  <1>7. PICK free : free = Pics(Pre) \ KeptPics
    OBVIOUS
  <1>9. \A k \in Stages : k # Pre => last \notin Pics(k)
    BY <1>1, <1>2 DEF Ordered
  <1>10. /\ u \in DOMAIN unit /\ unit[u].poc = last
         /\ \A k \in Stages : \A p \in Pics(k) : list[k][p].unit = u => k = Pre /\ p = last
    BY <1>1, <1>5, <1>9 DEF Linked, Links
  <1>13. Finishing(Pre, Marked(Pre), un, {last}, free, last)
    BY <1>4, <1>7, LinkFinishing
  <1>14. Finished(Pre, Marked(Pre), un, {last}, free, last)
    BY <1>1, <1>13, FlowFinish
  <1>15. /\ Shape' /\ Linked' /\ CallSafe' /\ UnitsCounted' /\ Pics(Pre)' = Pics(Pre) \ free
         /\ \A k \in Stages : \A p \in Pics(k)' : Comes(Pre, Marked(Pre), un, {last}, last, k, p)
         /\ \A v \in DOMAIN unit : unit'[v].prev = un[v].prev
    BY <1>14 DEF Finished
  <1>16. Ordered'
    <2>1. Processed'
      BY <1>2 DEF Processed
    <2>2. \A q \in Received' : q + NumPrevFrames > lastPoc' => q \in Pics(Pre)'
      <3> SUFFICES ASSUME NEW q \in Received, q + NumPrevFrames > last PROVE q \in Pics(Pre)'
        BY DEF Received
      <3>1. q \in Int /\ NumPrevFrames \in Int
        BY <1>2, EncStagesAssumption DEF Received
      <3>2. q \in Pics(Pre)
        BY <1>1, <1>2, <3>1 DEF Ordered
      <3>3. q \in KeptPics
        BY <1>1, <3>2, WindowKept
      <3> QED
        BY <1>7, <1>15, <3>2, <3>3
    <2>3. \A p \in Pics(Filter)' : p <= lastPoc'
      <3> TAKE p \in Pics(Filter)'
      <3>1. p \in Pics(Filter) \/ p = last
        BY <1>1, <1>15 DEF Comes
      <3>2. p \in Int
        BY <1>1, <1>2, <3>1, ListTypes
      <3> QED
        BY <1>1, <1>2, <3>1, <3>2 DEF Ordered
    <2>4. \A p \in Pics(Gop)' : 0 <= p /\ p < filterPoc' /\ p <= lastPoc'
      <3> TAKE p \in Pics(Gop)'
      <3>1. CASE p \in Pics(Gop)
        <4>1. p \in Int
          BY <3>1, <1>1, ListTypes
        <4> QED
          BY <3>1, <4>1, <1>1, <1>2 DEF Ordered
      <3>2. CASE p \notin Pics(Gop)
        <4>1. Accepts(Gop, last) /\ Takers(Pre + 1, last) = {Gop}
          BY <3>2, <1>1, <1>15 DEF Comes
        <4>2. last >= 0
          BY <4>1, <1>1 DEF Accepts, StartPoc
        <4>3. Accepts(Filter, last)
          <5>1. cfg.range \in Nat /\ cfg.lead \in Nat
            BY <1>1, ConfigType DEF Shape
          <5>2. LeadFrames \in Nat
            <6>1. PICK a \in Nat, b \in Nat : a = cfg.range /\ b = cfg.lead
              BY <5>1
            <6>2. \E x \in {a, b} : \A y \in {a, b} : y >= x
              BY <6>1
            <6>3. Min({a, b}) \in {a, b}
              BY <6>2 DEF Min
            <6> QED
              BY <6>1, <6>3 DEF LeadFrames
          <5> QED
            BY <4>2, <5>2, <1>1, <1>2 DEF Accepts, StartPoc
        <4>4. Filter \in Takers(Pre + 1, last)
          BY <4>3, <1>1 DEF Takers
        <4> QED
          BY <4>1, <4>4, <1>1
      <3> QED
        BY <3>1, <3>2
    <2> QED
      BY <2>1, <2>2, <2>3, <2>4 DEF Ordered
  <1>17. Unfiltered'
    <2> SUFFICES ASSUME NEW p \in Pics(Filter)', filterPoc <= p
                 PROVE  list'[Filter][p].prev = unit'[list'[Filter][p].unit].prev
      BY DEF Unfiltered
    <2>1. CASE /\ p \in Pics(Filter)
               /\ list'[Filter][p].unit = list[Filter][p].unit
               /\ list'[Filter][p].prev = list[Filter][p].prev
      <3>1. list[Filter][p].unit \in DOMAIN unit /\ list[Filter][p].unit # u
        BY <2>1, <1>1, <1>10 DEF Linked, Links
      <3>2. unit'[list[Filter][p].unit].prev = unit[list[Filter][p].unit].prev
        BY <3>1, <1>6, <1>15
      <3> QED
        BY <2>1, <3>2, <1>1 DEF Unfiltered
    <2>2. CASE /\ list'[Filter][p].unit = u
               /\ list'[Filter][p].prev = un[u].prev
      BY <2>2, <1>10, <1>15
    <2> QED
      BY <1>1, <1>5, <1>15, <2>1, <2>2 DEF Comes
  <1> QED
    BY <1>15, <1>16, <1>17 DEF FlowSafe

\* Only the start of an incomplete first group is changed.
LEMMA FixedStart ==
  ASSUME Shape, NEW un, un = FixStartOfLastGop
  PROVE  /\ un \in Seq(UnitRec) /\ DOMAIN un = DOMAIN unit
         /\ \A v \in DOMAIN unit :
              /\ un[v].poc = unit[v].poc /\ un[v].refCount = unit[v].refCount
              /\ un[v].prev = unit[v].prev
              /\ un[v].intra <=> unit[v].intra \/ \E p \in StartOfLastGop :
                                                 list[Pre][p].unit = v /\ cfg.group[p] = 0
  <1> DEFINE starts(v) == unit[v].intra \/ \E p \in StartOfLastGop :
                                             list[Pre][p].unit = v /\ cfg.group[p] = 0
  <1>0. \A v : starts(v) <=> unit[v].intra \/ \E p \in StartOfLastGop :
                                             list[Pre][p].unit = v /\ cfg.group[p] = 0
    OBVIOUS
  <1>1. un = [v \in DOMAIN unit |-> [unit[v] EXCEPT !.intra = starts(v)]]
    BY DEF FixStartOfLastGop
  <1>2. Len(unit) \in Nat /\ DOMAIN unit = 1 .. Len(unit) /\ \A v \in DOMAIN unit : unit[v] \in UnitRec
    BY ListTypes
  <1>3. \A v \in DOMAIN unit : starts(v) \in BOOLEAN
    OBVIOUS
  <1> HIDE DEF starts
  <1>4. \A v \in DOMAIN unit : /\ un[v] \in UnitRec /\ un[v].poc = unit[v].poc
                               /\ un[v].refCount = unit[v].refCount /\ un[v].prev = unit[v].prev
                               /\ un[v].intra = starts(v)
    <2> TAKE v \in DOMAIN unit
    <2>1. PICK r \in UnitRec, b \in BOOLEAN : r = unit[v] /\ b = starts(v)
      BY <1>2, <1>3
    <2>2. un[v] = [r EXCEPT !.intra = b]
      BY <1>1, <2>1
    <2>3. /\ [r EXCEPT !.intra = b] \in UnitRec
          /\ [r EXCEPT !.intra = b].poc = r.poc
          /\ [r EXCEPT !.intra = b].prev = r.prev
          /\ [r EXCEPT !.intra = b].intra = b
          /\ [r EXCEPT !.intra = b].refCount = r.refCount
      BY IntraUpdate
    <2> QED
      BY <2>1, <2>2, <2>3
  <1>5. un = [v \in 1 .. Len(unit) |-> un[v]]
    BY <1>1, <1>2
  <1>6. un \in Seq(UnitRec)
    <2>1. PICK n \in Nat : n = Len(unit)
      BY <1>2
    <2>2. un = [v \in 1 .. n |-> un[v]] /\ \A v \in 1 .. n : un[v] \in UnitRec
      BY <1>2, <1>4, <1>5, <2>1
    <2> QED
      BY <2>2, SeqDef
  <1> QED
    BY <1>0, <1>1, <1>4, <1>6

LEMMA PreFlushFinishing ==
  ASSUME FlowSafe, call.flush, lastPoc = picsRcvd - 1,
         SendAndFree(Pre, Marked(Pre), FixStartOfLastGop, {}, Pics(Pre)),
         lastPoc' = lastPoc, filterPoc' = filterPoc, cfg' = cfg, picsRcvd' = picsRcvd,
         call' = call, main' \in {"pre", "filter"}
  PROVE  Finishing(Pre, Marked(Pre), FixStartOfLastGop, {}, Pics(Pre), 0)
  <1>1. /\ Shape /\ CallSafe /\ Ordered /\ Linked /\ Unfiltered /\ Pre \in Stages
        /\ Stages = {Pre, Filter, Gop} /\ call.flush \in BOOLEAN /\ Pre # Filter /\ Pre # Gop
    BY StageNames DEF FlowSafe, CallSafe, Stages
  <1>2. /\ Alike(Marked(Pre), list[Pre])
        /\ \A p \in Pics(Pre) : Marked(Pre)[p].flush => list[Pre][p].flush \/ call.flush
    BY <1>1, MarkedSame
  <1>3. PICK un : un = FixStartOfLastGop
    OBVIOUS
  <1>4. /\ un \in Seq(UnitRec) /\ DOMAIN un = DOMAIN unit
        /\ \A v \in DOMAIN unit : /\ un[v].poc = unit[v].poc /\ un[v].refCount = unit[v].refCount
                                  /\ un[v].prev = unit[v].prev
    BY <1>1, <1>3, FixedStart
  <1>5. PICK free, d : free = Pics(Pre) /\ d = 0
    OBVIOUS
  <1>6. Sendable(Pre, Marked(Pre), un, {}, free, d)
    <2>1. \A p \in Pics(Pre) : Marked(Pre)[p].unit \in DOMAIN unit
      BY <1>1, <1>2 DEF Linked, Links, Alike, Pics
    <2> QED
      BY <2>1, <1>2, <1>3, <1>4, <1>5 DEF Sendable
  <1>7. Countable(Pre, Marked(Pre), un, {}, d)
    <2>1. \A p \in Pics(Pre) : Marked(Pre)[p].prev = {}
      BY <1>1, <1>2 DEF Linked, Alike, Pics
    <2> QED
      BY <1>4, <2>1 DEF Countable
  <1>8. Relinked(Pre, un, {}, d)
    BY <1>1, <1>4 DEF Relinked, Linked, Links
  <1>9. Finishing(Pre, Marked(Pre), un, {}, free, d)
    BY <1>1, <1>2, <1>6, <1>7, <1>8 DEF Finishing, Shape
  <1> QED
    BY <1>3, <1>5, <1>9

LEMMA FlowPreFlush ==
  ASSUME FlowSafe, call.flush, lastPoc = picsRcvd - 1,
         SendAndFree(Pre, Marked(Pre), FixStartOfLastGop, {}, Pics(Pre)),
         lastPoc' = lastPoc, filterPoc' = filterPoc, cfg' = cfg, picsRcvd' = picsRcvd,
         call' = call, main' \in {"pre", "filter"}
  PROVE  FlowSafe'
  <1>1. /\ Shape /\ CallSafe /\ Ordered /\ Linked /\ Unfiltered /\ Pre \in Stages
        /\ Stages = {Pre, Filter, Gop} /\ call.flush \in BOOLEAN /\ Pre # Filter /\ Pre # Gop
    BY StageNames DEF FlowSafe, CallSafe, Stages
  <1>2. /\ Alike(Marked(Pre), list[Pre])
        /\ \A p \in Pics(Pre) : Marked(Pre)[p].flush => list[Pre][p].flush \/ call.flush
    BY <1>1, MarkedSame
  <1>3. PICK un : un = FixStartOfLastGop
    OBVIOUS
  <1>4. /\ un \in Seq(UnitRec) /\ DOMAIN un = DOMAIN unit
        /\ \A v \in DOMAIN unit : /\ un[v].poc = unit[v].poc /\ un[v].refCount = unit[v].refCount
                                  /\ un[v].prev = unit[v].prev
    BY <1>1, <1>3, FixedStart
  <1>5. PICK free, d : free = Pics(Pre) /\ d = 0
    OBVIOUS
  <1>9. Finishing(Pre, Marked(Pre), un, {}, free, d)
    BY <1>3, <1>5, PreFlushFinishing
  <1>10. Finished(Pre, Marked(Pre), un, {}, free, d)
    BY <1>1, <1>9, FlowFinish
  <1>11. /\ Shape' /\ Linked' /\ CallSafe' /\ UnitsCounted'
         /\ \A k \in Stages : \A p \in Pics(k)' : Comes(Pre, Marked(Pre), un, {}, d, k, p)
         /\ \A v \in DOMAIN unit : unit'[v].prev = un[v].prev
    BY <1>10 DEF Finished
  <1>12. \A k \in Stages : \A p \in Pics(k)' :
           /\ p \in Pics(k) /\ list'[k][p].unit = list[k][p].unit
           /\ list'[k][p].prev = list[k][p].prev
    BY <1>11 DEF Comes
  <1>13. Ordered'
    <2>1. Processed'
      BY DEF Processed
    <2> QED
      BY <1>1, <1>12, <2>1 DEF Ordered
  <1>14. Unfiltered'
    <2>1. \A p \in Pics(Filter) : unit'[list[Filter][p].unit].prev = unit[list[Filter][p].unit].prev
      BY <1>1, <1>4, <1>11 DEF Linked, Links
    <2> QED
      BY <1>1, <1>12, <2>1 DEF Unfiltered
  <1> QED
    BY <1>11, <1>13, <1>14 DEF FlowSafe

\* The pre-processing runs as soon as there is a picture.
LEMMA ReadyPre ==
  ASSUME Shape
  PROVE  Ready(Pre) <=> Pics(Pre) # {}
  <1>1. MinQueueSize[Pre] = 1
    BY StageNames DEF MinQueueSize
  <1>2. IsFiniteSet(Pics(Pre))
    BY ListTypes, StageNames
  <1>3. Cardinality(Pics(Pre)) \in Nat /\ (Cardinality(Pics(Pre)) = 0 <=> Pics(Pre) = {})
    BY <1>2, FS_CardinalityType, FS_EmptySet
  <1>4. CASE Cardinality(Pics(Pre)) >= 1
    BY <1>1, <1>3, <1>4 DEF Ready
  <1>5. CASE ~ (Cardinality(Pics(Pre)) >= 1)
    <2>1. Pics(Pre) = {}
      BY <1>3, <1>5
    <2> QED
      BY <1>1, <1>5, <2>1 DEF Ready
  <1> QED
    BY <1>4, <1>5

LEMMA FlowPreProcess ==
  ASSUME FlowSafe, PreProcess
  PROVE  FlowSafe'
  <1>1. /\ Shape /\ CallSafe /\ Pre \in Stages /\ call.flush \in BOOLEAN
        /\ Stages = {Pre, Filter, Gop} /\ Pre # Filter /\ Pre # Gop
    BY StageNames DEF FlowSafe, CallSafe, Stages
  <1>2. /\ main = "pre" /\ main' \in {"pre", "filter"} /\ cfg' = cfg /\ call' = call
        /\ picsRcvd' = picsRcvd /\ filterPoc' = filterPoc
    BY DEF PreProcess, returned, Repeat, Skip
  <1>3. /\ Alike(Marked(Pre), list[Pre])
        /\ \A p \in Pics(Pre) : Marked(Pre)[p].flush => list[Pre][p].flush \/ call.flush
    BY <1>1, MarkedSame
  <1>4. ASSUME list' = [list EXCEPT ![Pre] = Marked(Pre)], unit' = unit, lastPoc' = lastPoc,
               picsRcvd - 1 \notin Pics(Pre) \/ lastPoc = picsRcvd - 1
        PROVE  FlowSafe'
    <2>1. /\ DOMAIN list' = Stages /\ list'[Pre] = Marked(Pre)
          /\ \A i \in Stages : i # Pre => list'[i] = list[i]
      BY <1>1, <1>4 DEF Shape
    <2>2. \A i \in Stages : Alike(list'[i], list[i])
      <3> TAKE i \in Stages
      <3> QED
        BY <1>1, <1>3, <2>1, ListTypes
    <2>3. \A i \in Stages : \A p \in Pics(i)' : ~ call.flush => ~ list'[i][p].flush
      <3>1. \A p \in Pics(Pre)' : ~ call.flush => ~ list'[Pre][p].flush
        BY <1>1, <1>3, <2>1 DEF CallSafe, Alike, Pics
      <3> QED
        BY <1>1, <2>1, <3>1 DEF CallSafe, Pics
    <2>4. CallSafe'
      BY <1>1, <1>2, <2>3 DEF CallSafe
    <2> QED
      BY <1>2, <1>4, <2>1, <2>2, <2>4, FlowStays
  <1>5. CASE ~ Ready(Pre)
    <2>1. Pics(Pre) = {}
      BY <1>1, <1>5, ReadyPre
    <2> QED
      BY <1>4, <1>5, <2>1 DEF PreProcess, Skip
  <1>6. CASE Ready(Pre)
    <2>1. Pics(Pre) # {}
      BY <1>1, <1>6, ReadyPre
    <2>2. PICK last : last = Last(Pre, Pics(Pre))
      OBVIOUS
    <2>3. last \in Pics(Pre) /\ (\A q \in Pics(Pre) : q <= last) /\ last \in Int /\ lastPoc \in Int
      BY <1>1, <2>1, <2>2, LastMember, ListTypes DEF Shape
    <2>4. lastPoc' = IF lastPoc <= last THEN last ELSE lastPoc
      <3>1. lastPoc' = Max({lastPoc, last})
        BY <1>6, <2>2 DEF PreProcess
      <3> QED
        BY <2>3, <3>1, LargerOf
    <2>5. IF last > lastPoc
          THEN SendAndFree(Pre, Marked(Pre), LinkPrevQpaBufs(last), {last}, Pics(Pre) \ KeptPics)
          ELSE IF Marked(Pre)[last].flush
          THEN SendAndFree(Pre, Marked(Pre), FixStartOfLastGop, {}, Pics(Pre))
          ELSE list' = [list EXCEPT ![Pre] = Marked(Pre)] /\ UNCHANGED <<unit, ok>>
      BY <1>6, <2>2 DEF PreProcess
    <2>6. CASE last > lastPoc
      <3>1. lastPoc' = last
        BY <2>3, <2>4, <2>6
      <3> QED
        BY <1>2, <2>3, <2>5, <2>6, <3>1, FlowLink
    <2>7. CASE ~ (last > lastPoc)
      <3>1. lastPoc' = lastPoc
        BY <2>3, <2>4, <2>7
      <3>2. lastPoc = picsRcvd - 1
        BY <2>3, <2>7, LastIsNew
      <3>3. CASE Marked(Pre)[last].flush
        <4>1. call.flush
          BY <1>1, <1>3, <2>3, <3>3 DEF CallSafe
        <4> QED
          BY <1>2, <2>5, <2>7, <3>1, <3>2, <3>3, <4>1, FlowPreFlush
      <3>4. CASE ~ Marked(Pre)[last].flush
        BY <1>4, <2>5, <2>7, <3>1, <3>2, <3>4
      <3> QED
        BY <3>3, <3>4
    <2> QED
      BY <2>6, <2>7
  <1> QED
    BY <1>5, <1>6

LEMMA ReconUpdate ==
  ASSUME NEW r \in PicRec
  PROVE  /\ [r EXCEPT !.recon = TRUE] \in PicRec /\ [r EXCEPT !.recon = TRUE].recon
         /\ [r EXCEPT !.recon = TRUE].unit = r.unit /\ [r EXCEPT !.recon = TRUE].prev = r.prev
         /\ [r EXCEPT !.recon = TRUE].init = r.init /\ [r EXCEPT !.recon = TRUE].output = r.output
         /\ [r EXCEPT !.recon = TRUE].finished = r.finished /\ [r EXCEPT !.recon = TRUE].flush = r.flush
         /\ [r EXCEPT !.recon = TRUE].referenced = r.referenced /\ [r EXCEPT !.recon = TRUE].refs = r.refs
         /\ [r EXCEPT !.recon = TRUE].refCount = r.refCount
  BY DEF PicRec

\* A step of the GOP encoder: at most its own list changes, and there neither
\* frames nor flush marks.
Coding ==
  /\ DOMAIN list' = Stages
  /\ \A i \in Stages : i # Gop => list'[i] = list[i]
  /\ Alike(list'[Gop], list[Gop])
  /\ \A p \in Pics(Gop) : list'[Gop][p].flush => list[Gop][p].flush \/ call.flush

Waiting ==
  /\ cfg' = cfg /\ unit' = unit /\ picsRcvd' = picsRcvd /\ lastPoc' = lastPoc
  /\ filterPoc' = filterPoc
  /\ main # "pre" \/ main' = "pre"
  /\ main' \notin {"idle", "done"} \/ main' = main
  /\ DOMAIN call' = {"flush", "pending", "au"}
  /\ call'.flush = call.flush /\ call'.pending = call.pending

LEMMA FlowCoding ==
  ASSUME FlowSafe, Coding, Waiting
  PROVE  FlowSafe'
  <1>1. /\ Shape /\ CallSafe /\ Stages = {Pre, Filter, Gop} /\ Pre # Gop /\ Filter # Gop
    BY StageNames DEF FlowSafe, Stages
  <1>2. \A i \in Stages : Alike(list'[i], list[i])
    <2> TAKE i \in Stages
    <2>1. CASE i = Gop
      BY <2>1 DEF Coding
    <2>2. CASE i # Gop
      BY <1>1, <2>2, ListTypes DEF Coding
    <2> QED
      BY <2>1, <2>2
  <1>3. \A i \in Stages : \A p \in Pics(i)' : ~ call.flush => ~ list'[i][p].flush
    <2>1. \A p \in Pics(Gop)' : p \in Pics(Gop) /\ (~ call.flush => ~ list'[Gop][p].flush)
      BY <1>1, <1>2 DEF Coding, CallSafe, Alike, Pics
    <2> QED
      BY <1>1, <2>1 DEF Coding, CallSafe, Pics
  <1>4. CallSafe'
    BY <1>1, <1>3 DEF CallSafe, Waiting
  <1>5. \/ main # "pre" \/ (main' = "pre" /\ call'.flush = call.flush)
        \/ picsRcvd - 1 \notin Pics(Pre) \/ lastPoc = picsRcvd - 1
    BY DEF Waiting
  <1> QED
    BY <1>2, <1>4, <1>5, FlowStays DEF Waiting, Coding

LEMMA NothingCoded ==
  ASSUME Shape, list' = list
  PROVE  Coding
  BY ListTypes, StageNames DEF Coding, Shape

\* A list of the GOP encoder with pictures p |-> f(p).
LEMMA GopCoded ==
  ASSUME Shape, NEW l, list' = [list EXCEPT ![Gop] = l],
         DOMAIN l = Pics(Gop), l \in [Pics(Gop) -> PicRec],
         \A p \in Pics(Gop) : /\ l[p].unit = list[Gop][p].unit
                              /\ l[p].prev = list[Gop][p].prev
                              /\ l[p].flush => list[Gop][p].flush \/ call.flush
  PROVE  Coding
  <1>1. list'[Gop] = l /\ DOMAIN list' = Stages /\ \A i \in Stages : i # Gop => list'[i] = list[i]
    BY StageNames DEF Shape
  <1> QED
    BY <1>1 DEF Coding, Alike, Pics

LEMMA ReconCoded ==
  ASSUME Shape, NEW p, list' = [list EXCEPT ![Gop][p].recon = TRUE]
  PROVE  Coding
  <1>1. PICK l : l = [list[Gop] EXCEPT ![p] = [list[Gop][p] EXCEPT !.recon = TRUE]]
    OBVIOUS
  <1>2. list' = [list EXCEPT ![Gop] = l]
    BY <1>1
  <1>3. DOMAIN l = Pics(Gop) /\ l = [q \in Pics(Gop) |-> l[q]]
    BY <1>1, ListTypes, StageNames DEF Pics
  <1>4. \A q \in Pics(Gop) : /\ l[q] \in PicRec /\ l[q].unit = list[Gop][q].unit
                             /\ l[q].prev = list[Gop][q].prev /\ l[q].flush = list[Gop][q].flush
    <2> TAKE q \in Pics(Gop)
    <2>1. list[Gop][q] \in PicRec
      BY ListTypes, StageNames
    <2>2. CASE q = p
      <3>1. l[q] = [list[Gop][q] EXCEPT !.recon = TRUE]
        BY <1>1, <2>2, ListTypes, StageNames DEF Pics
      <3> QED
        BY <2>1, <3>1, ReconUpdate
    <2>3. CASE q # p
      <3>1. l[q] = list[Gop][q]
        BY <1>1, <2>3, ListTypes, StageNames DEF Pics
      <3> QED
        BY <2>1, <3>1
    <2> QED
      BY <2>2, <2>3
  <1>5. l \in [Pics(Gop) -> PicRec]
    BY <1>3, <1>4
  <1>6. DOMAIN l = Pics(Gop)
    BY <1>3
  <1>7. \A q \in Pics(Gop) : /\ l[q].unit = list[Gop][q].unit /\ l[q].prev = list[Gop][q].prev
                             /\ l[q].flush => list[Gop][q].flush \/ call.flush
    BY <1>4
  <1> QED
    BY <1>2, <1>5, <1>6, <1>7, GopCoded

\* What the header of a picture's first slice makes of the list.
Rpl(p) == IF unit[GopList[p].unit].intra THEN {}
          ELSE {q \in cfg.rpl[p] \cap Pics(Gop) : GopList[q].referenced}

LEMMA InitFirstSliceIs ==
  ASSUME NEW p
  PROVE  InitFirstSlice(p) =
           [q \in Pics(Gop) |->
              IF q = p THEN [list[Gop][p] EXCEPT !.init = TRUE, !.refs = Rpl(p) \cap cfg.refs[p]]
              ELSE [list[Gop][q] EXCEPT
                      !.refCount = @ + (IF q \in Rpl(p) \cap cfg.refs[p] THEN 1 ELSE 0),
                      !.referenced = @ /\ (q \in Rpl(p) \/ ~ list[Gop][q].init)]]
  BY DEF InitFirstSlice, Rpl, GopList

LEMMA InitFirstSliceList ==
  ASSUME Shape, NEW p \in Pics(Gop), NEW l, l = InitFirstSlice(p)
  PROVE  /\ DOMAIN l = Pics(Gop) /\ l \in [Pics(Gop) -> PicRec]
         /\ l[p].init /\ l[p].refs = Rpl(p) \cap cfg.refs[p]
         /\ l[p].refCount = list[Gop][p].refCount
         /\ \A q \in Pics(Gop) : q # p =>
              /\ l[q].init = list[Gop][q].init /\ l[q].refs = list[Gop][q].refs
              /\ l[q].refCount = list[Gop][q].refCount
                                 + (IF q \in Rpl(p) \cap cfg.refs[p] THEN 1 ELSE 0)
         /\ \A q \in Pics(Gop) :
              /\ l[q].unit = list[Gop][q].unit /\ l[q].prev = list[Gop][q].prev
              /\ l[q].flush = list[Gop][q].flush /\ l[q].recon = list[Gop][q].recon
              /\ l[q].finished = list[Gop][q].finished
  <1>1. PICK s : s = Rpl(p) \cap cfg.refs[p]
    OBVIOUS
  <1>2. s \in SUBSET Int
    BY <1>1, ListTypes, StageNames DEF Rpl
  <1> DEFINE stays(q) == list[Gop][q].referenced /\ (q \in Rpl(p) \/ ~ list[Gop][q].init)
             more(q) == list[Gop][q].refCount + (IF q \in s THEN 1 ELSE 0)
  <1>3. l = [q \in Pics(Gop) |->
               IF q = p THEN [list[Gop][p] EXCEPT !.init = TRUE, !.refs = s]
               ELSE [list[Gop][q] EXCEPT !.refCount = more(q), !.referenced = stays(q)]]
    BY <1>1, InitFirstSliceIs
  <1>4. \A q \in Pics(Gop) : list[Gop][q] \in PicRec /\ stays(q) \in BOOLEAN
    BY ListTypes, StageNames
  <1>5. \A q \in Pics(Gop) : more(q) \in Int
    BY <1>4, PicFields
  <1>6. \A q : more(q) = list[Gop][q].refCount + (IF q \in s THEN 1 ELSE 0)
    OBVIOUS
  <1> HIDE DEF stays, more
  <1>7. /\ DOMAIN l = Pics(Gop) /\ l[p] = [list[Gop][p] EXCEPT !.init = TRUE, !.refs = s]
        /\ \A q \in Pics(Gop) : q # p =>
             l[q] = [list[Gop][q] EXCEPT !.refCount = more(q), !.referenced = stays(q)]
    BY <1>3
  <1>8. /\ l[p] \in PicRec /\ l[p].init /\ l[p].refs = s
        /\ l[p].refCount = list[Gop][p].refCount
        /\ l[p].unit = list[Gop][p].unit /\ l[p].prev = list[Gop][p].prev
        /\ l[p].flush = list[Gop][p].flush /\ l[p].recon = list[Gop][p].recon
        /\ l[p].finished = list[Gop][p].finished
    <2>0. PICK x : x = l[p]
      OBVIOUS
    <2>1. PICK r \in PicRec : r = list[Gop][p]
      BY <1>4
    <2>2. x = [r EXCEPT !.init = TRUE, !.refs = s]
      BY <1>7, <2>0, <2>1
    <2>3. /\ x \in PicRec /\ x.init /\ x.refs = s /\ x.refCount = r.refCount
          /\ x.unit = r.unit /\ x.prev = r.prev /\ x.flush = r.flush /\ x.recon = r.recon
          /\ x.finished = r.finished
      BY <1>2, <2>2 DEF PicRec
    <2> QED
      BY <2>0, <2>1, <2>3
  <1>9. \A q \in Pics(Gop) : q # p =>
          /\ l[q] \in PicRec /\ l[q].refCount = more(q)
          /\ l[q].init = list[Gop][q].init /\ l[q].refs = list[Gop][q].refs
          /\ l[q].unit = list[Gop][q].unit /\ l[q].prev = list[Gop][q].prev
          /\ l[q].flush = list[Gop][q].flush /\ l[q].recon = list[Gop][q].recon
          /\ l[q].finished = list[Gop][q].finished
    <2> TAKE q \in Pics(Gop)
    <2>0. PICK x : x = l[q]
      OBVIOUS
    <2>1. PICK r \in PicRec, n \in Int, b \in BOOLEAN :
            r = list[Gop][q] /\ n = more(q) /\ b = stays(q)
      BY <1>4, <1>5
    <2>2. q # p => x = [r EXCEPT !.refCount = n, !.referenced = b]
      BY <1>7, <2>0, <2>1
    <2>3. q # p => /\ x \in PicRec /\ x.refCount = n /\ x.init = r.init /\ x.refs = r.refs
                   /\ x.unit = r.unit /\ x.prev = r.prev /\ x.flush = r.flush
                   /\ x.recon = r.recon /\ x.finished = r.finished
      BY <2>2 DEF PicRec
    <2> QED
      BY <2>0, <2>1, <2>3
  <1>10. l \in [Pics(Gop) -> PicRec]
    <2>1. \A q \in Pics(Gop) : l[q] \in PicRec
      BY <1>8, <1>9
    <2> QED
      BY <1>3, <2>1
  <1> QED
    BY <1>1, <1>6, <1>7, <1>8, <1>9, <1>10

LEMMA FlowInitPicture ==
  ASSUME FlowSafe, InitPicture
  PROVE  FlowSafe'
  <1>1. Shape /\ DOMAIN call = {"flush", "pending", "au"}
    BY DEF FlowSafe, CallSafe
  <1>2. Waiting
    BY <1>1 DEF InitPicture, Encode, looking, returned, Waiting
  <1>3. CASE NextToInit = {}
    BY <1>1, <1>2, <1>3, NothingCoded, FlowCoding DEF InitPicture
  <1>4. CASE NextToInit # {}
    <2>1. PICK p \in NextToInit : list' = [list EXCEPT ![Gop] = InitFirstSlice(p)]
      BY <1>4 DEF InitPicture
    <2>2. p \in Pics(Gop)
      BY DEF NextToInit, Uninitialized
    <2>3. PICK l : l = InitFirstSlice(p)
      OBVIOUS
    <2>4. /\ DOMAIN l = Pics(Gop) /\ l \in [Pics(Gop) -> PicRec]
          /\ \A q \in Pics(Gop) :
               /\ l[q].unit = list[Gop][q].unit /\ l[q].prev = list[Gop][q].prev
               /\ l[q].flush = list[Gop][q].flush
      BY <1>1, <2>2, <2>3, InitFirstSliceList
    <2>5. \A q \in Pics(Gop) : /\ l[q].unit = list[Gop][q].unit /\ l[q].prev = list[Gop][q].prev
                               /\ l[q].flush => list[Gop][q].flush \/ call.flush
      BY <2>4
    <2>6. list' = [list EXCEPT ![Gop] = l]
      BY <2>1, <2>3
    <2>7. Coding
      BY <1>1, <2>4, <2>5, <2>6, GopCoded
    <2> QED
      BY <1>2, <2>7, FlowCoding
  <1> QED
    BY <1>3, <1>4

\* The list when access unit p has been written.
WrittenList(p) ==
  [q \in Pics(Gop) |->
     [GopList[q] EXCEPT !.finished = @ \/ q = p,
                        !.refCount = @ - (IF q \in GopList[p].refs THEN 1 ELSE 0)]]

LEMMA WrittenListIs ==
  ASSUME Shape, NEW p, NEW l, l = WrittenList(p)
  PROVE  /\ DOMAIN l = Pics(Gop) /\ l \in [Pics(Gop) -> PicRec]
         /\ \A q \in Pics(Gop) :
              /\ l[q].finished <=> list[Gop][q].finished \/ q = p
              /\ l[q].refCount = list[Gop][q].refCount
                                 - (IF q \in list[Gop][p].refs THEN 1 ELSE 0)
              /\ l[q].unit = list[Gop][q].unit /\ l[q].prev = list[Gop][q].prev
              /\ l[q].flush = list[Gop][q].flush /\ l[q].recon = list[Gop][q].recon
              /\ l[q].init = list[Gop][q].init /\ l[q].refs = list[Gop][q].refs
  <1> DEFINE out(q) == list[Gop][q].finished \/ q = p
             fewer(q) == list[Gop][q].refCount - (IF q \in list[Gop][p].refs THEN 1 ELSE 0)
  <1>1. l = [q \in Pics(Gop) |->
               [list[Gop][q] EXCEPT !.finished = out(q), !.refCount = fewer(q)]]
    BY DEF WrittenList, GopList
  <1>2. \A q \in Pics(Gop) : list[Gop][q] \in PicRec /\ out(q) \in BOOLEAN
    BY ListTypes, StageNames
  <1>3. \A q \in Pics(Gop) : fewer(q) \in Int
    BY <1>2, PicFields
  <1>4. \A q : /\ out(q) <=> list[Gop][q].finished \/ q = p
               /\ fewer(q) = list[Gop][q].refCount - (IF q \in list[Gop][p].refs THEN 1 ELSE 0)
    OBVIOUS
  <1> HIDE DEF out, fewer
  <1>5. \A q \in Pics(Gop) :
          /\ l[q] \in PicRec /\ l[q].finished = out(q) /\ l[q].refCount = fewer(q)
          /\ l[q].unit = list[Gop][q].unit /\ l[q].prev = list[Gop][q].prev
          /\ l[q].flush = list[Gop][q].flush /\ l[q].recon = list[Gop][q].recon
          /\ l[q].init = list[Gop][q].init /\ l[q].refs = list[Gop][q].refs
    <2> TAKE q \in Pics(Gop)
    <2>0. PICK x : x = l[q]
      OBVIOUS
    <2>1. PICK r \in PicRec, b \in BOOLEAN, n \in Int :
            r = list[Gop][q] /\ b = out(q) /\ n = fewer(q)
      BY <1>2, <1>3
    <2>2. x = [r EXCEPT !.finished = b, !.refCount = n]
      BY <1>1, <2>0, <2>1
    <2>3. /\ x \in PicRec /\ x.finished = b /\ x.refCount = n
          /\ x.unit = r.unit /\ x.prev = r.prev /\ x.flush = r.flush
          /\ x.recon = r.recon /\ x.init = r.init /\ x.refs = r.refs
      BY <2>2 DEF PicRec
    <2> QED
      BY <2>0, <2>1, <2>3
  <1>6. l \in [Pics(Gop) -> PicRec] /\ DOMAIN l = Pics(Gop)
    BY <1>1, <1>5
  <1> QED
    BY <1>4, <1>5, <1>6

LEMMA FlowWrite ==
  ASSUME FlowSafe, WriteAccessUnit
  PROVE  FlowSafe'
  <1>1. Shape /\ DOMAIN call = {"flush", "pending", "au"}
    BY DEF FlowSafe, CallSafe
  <1>2. Waiting
    <2>1. call' = call \/ \E p : call' = [call EXCEPT !.au = p]
      BY DEF WriteAccessUnit
    <2>2. /\ DOMAIN call' = {"flush", "pending", "au"}
          /\ call'.flush = call.flush /\ call'.pending = call.pending
      BY <1>1, <2>1
    <2> QED
      BY <2>2 DEF WriteAccessUnit, looking, returned, Waiting
  <1>3. CASE ~ OutputReady
    BY <1>1, <1>2, <1>3, NothingCoded, FlowCoding DEF WriteAccessUnit
  <1>4. CASE OutputReady
    <2>1. PICK p, l : p = Head(gop.output) /\ l = WrittenList(p)
      OBVIOUS
    <2>2. list' = [list EXCEPT ![Gop] = l]
      BY <1>4, <2>1 DEF WriteAccessUnit, WrittenList
    <2>3. /\ DOMAIN l = Pics(Gop) /\ l \in [Pics(Gop) -> PicRec]
          /\ \A q \in Pics(Gop) :
               /\ l[q].unit = list[Gop][q].unit /\ l[q].prev = list[Gop][q].prev
               /\ l[q].flush = list[Gop][q].flush
      BY <1>1, <2>1, WrittenListIs
    <2>4. \A q \in Pics(Gop) : /\ l[q].unit = list[Gop][q].unit /\ l[q].prev = list[Gop][q].prev
                               /\ l[q].flush => list[Gop][q].flush \/ call.flush
      BY <2>3
    <2>5. Coding
      BY <1>1, <2>2, <2>3, <2>4, GopCoded
    <2> QED
      BY <1>2, <2>5, FlowCoding
  <1> QED
    BY <1>3, <1>4

LEMMA FlowStartGop ==
  ASSUME FlowSafe, StartGop
  PROVE  FlowSafe'
  <1>1. Shape /\ DOMAIN call = {"flush", "pending", "au"} /\ call.flush \in BOOLEAN /\ Gop \in Stages
    BY StageNames DEF FlowSafe, CallSafe
  <1>2. Waiting
    BY <1>1 DEF StartGop, looking, returned, Waiting
  <1>3. PICK l : l = Marked(Gop)
    OBVIOUS
  <1>4. /\ DOMAIN l = Pics(Gop) /\ l \in [Pics(Gop) -> PicRec]
        /\ \A q \in Pics(Gop) : /\ l[q].unit = list[Gop][q].unit /\ l[q].prev = list[Gop][q].prev
                                /\ l[q].flush => list[Gop][q].flush \/ call.flush
    <2>1. /\ Alike(l, list[Gop])
          /\ \A q \in Pics(Gop) : l[q].flush => list[Gop][q].flush \/ call.flush
      BY <1>1, <1>3, MarkedSame
    <2> QED
      BY <2>1 DEF Alike, Pics
  <1>5. list' = [list EXCEPT ![Gop] = l]
    BY <1>3 DEF StartGop
  <1>6. Coding
    BY <1>1, <1>4, <1>5, GopCoded
  <1> QED
    BY <1>2, <1>6, FlowCoding

LEMMA FlowEncodePicture ==
  ASSUME FlowSafe, EncodePicture
  PROVE  FlowSafe'
  <1>1. Shape /\ DOMAIN call = {"flush", "pending", "au"}
    BY DEF FlowSafe, CallSafe
  <1>2. Waiting
    BY <1>1 DEF EncodePicture, looking, returned, Waiting
  <1>3. list' = list \/ \E p : list' = [list EXCEPT ![Gop][p].recon = TRUE]
    BY DEF EncodePicture
  <1>4. Coding
    BY <1>1, <1>3, NothingCoded, ReconCoded
  <1> QED
    BY <1>2, <1>4, FlowCoding

LEMMA FlowFinishPicture ==
  ASSUME FlowSafe, NEW p \in busy, FinishPicture(p)
  PROVE  FlowSafe'
  <1>1. Shape /\ DOMAIN call = {"flush", "pending", "au"}
    BY DEF FlowSafe, CallSafe
  <1>2. Waiting
    BY <1>1 DEF FinishPicture, looking, returned, Waiting
  <1>3. Coding
    BY <1>1, ReconCoded DEF FinishPicture
  <1> QED
    BY <1>2, <1>3, FlowCoding

LEMMA FlowEndEncode ==
  ASSUME FlowSafe, EndEncode
  PROVE  FlowSafe'
  <1>1. Shape /\ DOMAIN call = {"flush", "pending", "au"}
    BY DEF FlowSafe, CallSafe
  <1>2. Waiting /\ list' = list
    BY <1>1 DEF EndEncode, stages, looking, returned, Waiting
  <1> QED
    BY <1>1, <1>2, NothingCoded, FlowCoding

\* The calls.
LEMMA FlowCall ==
  ASSUME FlowSafe, cfg' = cfg, UNCHANGED <<unit, list, lastPoc, filterPoc, picsRcvd>>,
         main # "pre", CallSafe', call.flush => call'.flush \/ picsRcvd = -cfg.lead
  PROVE  FlowSafe'
  <1>1. DOMAIN list' = Stages /\ \A i \in Stages : Alike(list'[i], list[i])
    BY ListTypes DEF FlowSafe, Shape
  <1> QED
    BY <1>1, FlowStays

LEMMA FlowEncodeFrame ==
  ASSUME FlowSafe, EncodeFrame
  PROVE  FlowSafe'
  <1>1. CallSafe'
    BY DEF FlowSafe, CallSafe, EncodeFrame, stages, Pics
  <1>2. /\ cfg' = cfg /\ UNCHANGED <<unit, list, lastPoc, filterPoc, picsRcvd>>
        /\ main # "pre" /\ ~ call.flush
    BY DEF EncodeFrame, stages, looking, returned
  <1> QED
    BY <1>1, <1>2, FlowCall

LEMMA FlowEncodeFlush ==
  ASSUME FlowSafe, EncodeFlush
  PROVE  FlowSafe'
  <1>1. CallSafe' /\ call'.flush
    BY DEF FlowSafe, CallSafe, EncodeFlush, stages, Pics
  <1>2. /\ cfg' = cfg /\ UNCHANGED <<unit, list, lastPoc, filterPoc, picsRcvd>> /\ main # "pre"
    BY DEF EncodeFlush, stages, looking, returned
  <1> QED
    BY <1>1, <1>2, FlowCall

LEMMA FlowEndOfStages ==
  ASSUME FlowSafe, EndOfStages
  PROVE  FlowSafe'
  <1>1. /\ cfg' = cfg /\ unit' = unit /\ list' = list /\ lastPoc' = lastPoc /\ filterPoc' = filterPoc
        /\ picsRcvd' = picsRcvd /\ main = "end"
    BY DEF EndOfStages, stages, looking
  <1>2. CallSafe
    BY DEF FlowSafe
  <1>3. CASE StayInCall
    <2>1. call'.flush = call.flush /\ CallSafe'
      BY <1>1, <1>2, <1>3 DEF StayInCall, CallSafe, Pics
    <2> QED
      BY <1>1, <2>1, FlowCall
  <1>4. CASE ReturnFromCall
    <2>1. ~ call.pending
      BY <1>4 DEF ReturnFromCall, WaitAndStay
    <2>2. CASE call' = [call EXCEPT !.au = None]
      <3>1. call'.flush = call.flush /\ CallSafe'
        BY <1>1, <1>2, <2>1, <2>2 DEF CallSafe, Pics
      <3> QED
        BY <1>1, <3>1, FlowCall
    <2>3. CASE /\ call' = [call EXCEPT !.au = None, !.flush = FALSE]
               /\ QueueEmpty /\ picsRcvd = -cfg.lead
      <3>1. \A i \in Stages : Pics(i)' = {}
        BY <1>1, <2>3 DEF QueueEmpty, StagesDone, Pics
      <3>2. CallSafe'
        BY <1>2, <2>1, <2>3, <3>1 DEF CallSafe
      <3> QED
        BY <1>1, <2>3, <3>2, FlowCall
    <2> QED
      BY <1>4, <2>2, <2>3 DEF ReturnFromCall
  <1> QED
    BY <1>3, <1>4 DEF EndOfStages

LEMMA FlowStutter ==
  ASSUME FlowSafe, UNCHANGED vars
  PROVE  FlowSafe'
  <1>1. /\ cfg' = cfg /\ unit' = unit /\ list' = list /\ lastPoc' = lastPoc /\ filterPoc' = filterPoc
        /\ picsRcvd' = picsRcvd /\ call' = call /\ main' = main
    BY DEF vars, stages, looking, returned
  <1>2. CallSafe'
    BY <1>1 DEF FlowSafe, CallSafe, Pics
  <1>3. DOMAIN list' = Stages /\ \A i \in Stages : Alike(list'[i], list[i])
    BY <1>1, ListTypes DEF FlowSafe, Shape
  <1> QED
    BY <1>1, <1>2, <1>3, FlowStays

LEMMA FlowNext ==
  FlowSafe /\ [Next]_vars => FlowSafe'
  <1> SUFFICES ASSUME FlowSafe, [Next]_vars PROVE FlowSafe'
    OBVIOUS
  <1>1. CASE RunStages
    BY <1>1, FlowAddInput, FlowPreProcess, FlowFilter, FlowStartGop, FlowInitPicture,
       FlowEncodePicture, FlowEndEncode, FlowWrite, FlowRelease, FlowEndOfStages DEF RunStages
  <1>2. CASE \E p \in busy : FinishPicture(p)
    BY <1>2, FlowFinishPicture
  <1>3. CASE UNCHANGED vars
    BY <1>3, FlowStutter
  <1> QED
    BY <1>1, <1>2, <1>3, FlowEncodeFrame, FlowEncodeFlush DEF Next, Done

-----------------------------------------------------------------------------
(***************************************************************************)
(* The results.                                                            *)
(***************************************************************************)

\* The invariant holds in every reachable state.
THEOREM FlowInvariant ==
  Spec => []FlowSafe
  <1> QED
    BY FlowInit, FlowNext, PTL DEF Spec

\* Every shared unit is counted once for every picture it belongs to and once
\* for every picture that reads it as a previous frame (EncStage.h:113), for
\* any GOP, any number of lead frames and any number of threads.
THEOREM UnitsExact ==
  Spec => []UnitsCounted
  <1>1. FlowSafe => UnitsCounted
    BY DEF FlowSafe
  <1> QED
    BY <1>1, FlowInvariant, PTL

\* The frame of a picture in a stage is the one it was added with, and its
\* previous frames those directly before it (EncStage.h:134): no unit is given
\* to a new frame while a picture reads it.
THEOREM FramesIntact ==
  Spec => []UnitsIntact
  <1>1. FlowSafe => UnitsIntact
    BY DEF FlowSafe, Linked, Links, Want, UnitsIntact
  <1> QED
    BY <1>1, FlowInvariant, PTL

=============================================================================
