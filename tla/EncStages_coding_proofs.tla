------------------------ MODULE EncStages_coding_proofs ------------------------
(***************************************************************************)
(* Proofs about the GOP encoder of EncStages, for any configurations and   *)
(* inputs: its lists and counts agree with what is being encoded, so a     *)
(* picture finds its references.                                           *)
(***************************************************************************)
EXTENDS EncStages_proofs

-----------------------------------------------------------------------------
(***************************************************************************)
(* The invariant.  The queues of the GOP encoder and the running picture   *)
(* encoders have different pictures, each once.                            *)
(***************************************************************************)
Members(s) == {s[i] : i \in DOMAIN s}
OneEach(s) == s \in Seq(Int) /\ \A i, j \in DOMAIN s : s[i] = s[j] => i = j

Apart(g, b) ==
  /\ DOMAIN g = {"input", "proc", "output", "lastCodingNum", "pocRecOut"}
  /\ OneEach(g.input) /\ OneEach(g.proc) /\ OneEach(g.output)
  /\ Members(g.input) \cap Members(g.proc) = {}
  /\ b \cap Members(g.input) = {} /\ b \cap Members(g.proc) = {}

\* Pictures that are being coded: between their slice header and their access
\* unit.
Open(l) == {p \in DOMAIN l : l[p].init /\ ~ l[p].finished}
Needing(l, q) == {p \in Open(l) : q \in l[p].refs}

\* Those that wait for an encoder or have one are not reconstructed; those that
\* are not written yet stay in the list.
AllOpen(g, b, l) ==
  /\ \A p \in Members(g.input) \cup Members(g.proc) \cup b : p \in Open(l) /\ ~ l[p].recon
  /\ Members(g.output) \subseteq Open(l)

\* The references of an open picture are in the list, and are counted once for
\* every open picture that has them.
Untouched(l)   == \A p \in DOMAIN l : ~ l[p].init => ~ l[p].recon /\ ~ l[p].finished
AllHeld(l)     == \A p \in Open(l) : l[p].refs \subseteq DOMAIN l
Counted(l)     == \A q \in DOMAIN l : l[q].refCount = Cardinality(Needing(l, q))
Referencing(l) == Untouched(l) /\ AllHeld(l) /\ Counted(l)

\* An encoder has been started with all its references reconstructed.
Started(b, l) == \A p \in b : \A r \in l[p].refs : l[r].recon

\* The caller stops in time, and the calling thread is somewhere.
Fed ==
  /\ picsRcvd + (IF call.pending THEN 1 ELSE 0) <= Frames - cfg.lead
  /\ main \in {"idle", "input", "pre", "filter", "gop", "init", "encode", "output",
               "release", "end", "wait", "done"}

\* Nothing is coded before the GOP encoder has it.
Fresh(x) == ~ x.init /\ ~ x.recon /\ ~ x.finished /\ x.refs = {} /\ x.refCount = 0
Uncoded == \A i \in Stages : i # Gop => \A p \in Pics(i) : Fresh(list[i][p])

CodingSafe ==
  /\ Apart(gop, busy) /\ AllOpen(gop, busy, list[Gop])
  /\ Referencing(list[Gop]) /\ Started(busy, list[Gop])
  /\ Uncoded

-----------------------------------------------------------------------------
(***************************************************************************)
(* Queues.                                                                 *)
(***************************************************************************)
LEMMA EmptyQueue ==
  OneEach(<<>>) /\ Members(<<>>) = {}
  BY EmptySeq DEF OneEach, Members

LEMMA Appended ==
  ASSUME NEW s, OneEach(s), NEW p \in Int, p \notin Members(s)
  PROVE  OneEach(Append(s, p)) /\ Members(Append(s, p)) = Members(s) \cup {p}
  <1>1. PICK n \in Nat : n = Len(s) /\ DOMAIN s = 1 .. n
    BY LenProperties DEF OneEach
  <1>2. PICK t : t = Append(s, p)
    OBVIOUS
  <1>3. /\ t \in Seq(Int) /\ DOMAIN t = 1 .. (n + 1)
        /\ \A i \in 1 .. n : t[i] = s[i]
        /\ t[n + 1] = p
    BY <1>1, <1>2, AppendProperties, LenProperties DEF OneEach
  <1>4. \A i \in 1 .. n : s[i] # p
    BY <1>1 DEF Members
  <1>5. \A i, j \in DOMAIN t : t[i] = t[j] => i = j
    BY <1>1, <1>3, <1>4 DEF OneEach
  <1>6. Members(t) = Members(s) \cup {p}
    <2>1. ASSUME NEW i \in DOMAIN t PROVE t[i] \in Members(s) \cup {p}
      BY <1>1, <1>3 DEF Members
    <2>2. ASSUME NEW i \in DOMAIN s PROVE s[i] \in Members(t)
      BY <1>1, <1>3 DEF Members
    <2>3. p \in Members(t)
      BY <1>1, <1>3 DEF Members
    <2> QED
      BY <2>1, <2>2, <2>3 DEF Members
  <1> QED
    BY <1>2, <1>3, <1>5, <1>6 DEF OneEach

LEMMA Tailed ==
  ASSUME NEW s, OneEach(s), s # <<>>
  PROVE  /\ OneEach(Tail(s)) /\ Members(Tail(s)) = Members(s) \ {Head(s)}
         /\ Head(s) \in Members(s)
  <1>0. s \in Seq(Int)
    BY DEF OneEach
  <1>1. PICK n \in Nat : n = Len(s) /\ DOMAIN s = 1 .. n
    BY <1>0, LenProperties
  <1>2. n >= 1
    <2>1. Len(s) \in Nat \ {0}
      BY <1>0, EmptySeq
    <2> QED
      BY <1>1, <2>1
  <1>3. PICK t : t = Tail(s)
    OBVIOUS
  <1>4. t \in Seq(Int) /\ Len(t) = n - 1 /\ \A i \in 1 .. Len(t) : t[i] = s[i + 1]
    BY <1>0, <1>1, <1>3, HeadTailProperties
  <1>5. DOMAIN t = 1 .. (n - 1) /\ \A i \in 1 .. (n - 1) : t[i] = s[i + 1]
    BY <1>4, LenProperties
  <1>6. \A i, j \in 1 .. n : s[i] = s[j] => i = j
    BY <1>1 DEF OneEach
  <1>7. \A i \in 1 .. (n - 1) : i + 1 \in 1 .. n /\ i + 1 # 1
    BY <1>2
  <1>8. 1 \in 1 .. n /\ Head(s) = s[1]
    BY <1>2
  <1>9. \A i, j \in DOMAIN t : t[i] = t[j] => i = j
    <2> SUFFICES ASSUME NEW i \in 1 .. (n - 1), NEW j \in 1 .. (n - 1), t[i] = t[j]
                 PROVE  i = j
      BY <1>5
    <2>1. i + 1 = j + 1
      BY <1>5, <1>6, <1>7
    <2> QED
      BY <2>1
  <1>10. Members(t) = Members(s) \ {s[1]}
    <2>1. ASSUME NEW i \in DOMAIN t PROVE t[i] \in Members(s) \ {s[1]}
      <3>1. i + 1 \in DOMAIN s /\ t[i] = s[i + 1] /\ s[i + 1] # s[1]
        BY <1>1, <1>5, <1>6, <1>7, <1>8
      <3> QED
        BY <3>1 DEF Members
    <2>2. ASSUME NEW i \in DOMAIN s, s[i] # s[1] PROVE s[i] \in Members(t)
      <3>1. PICK k \in Int : k = i - 1
        BY <1>1
      <3>2. k \in 1 .. (n - 1) /\ k + 1 = i
        BY <1>1, <2>2, <3>1
      <3>3. k \in DOMAIN t /\ t[k] = s[i]
        BY <1>5, <3>2
      <3> QED
        BY <3>3 DEF Members
    <2> QED
      BY <2>1, <2>2 DEF Members
  <1>11. s[1] \in Members(s)
    BY <1>1, <1>8 DEF Members
  <1> QED
    BY <1>3, <1>4, <1>8, <1>9, <1>10, <1>11 DEF OneEach

\* A picture is taken out of a queue: what the two parts become.
LEMMA Rejoined ==
  ASSUME NEW s \in Seq(Int), NEW n \in Nat, n = Len(s), NEW i \in 1 .. n, NEW t,
         t = SubSeq(s, 1, i - 1) \o SubSeq(s, i + 1, n)
  PROVE  /\ t \in Seq(Int) /\ DOMAIN t = 1 .. (n - 1)
         /\ \A k \in 1 .. (n - 1) : t[k] = IF k < i THEN s[k] ELSE s[k + 1]
  <1>1. PICK b, e \in Int : b = i - 1 /\ e = i + 1
    OBVIOUS
  <1>2. 0 <= b /\ b < n /\ e = b + 2 /\ i = b + 1
    BY <1>1
  <1>3. \A k \in 1 .. n : s[k] \in Int
    BY ElementOfSeq
  <1>4. PICK u, v : u = SubSeq(s, 1, b) /\ v = SubSeq(s, e, n)
    OBVIOUS
  <1>5. u \in Seq(Int) /\ Len(u) = b /\ \A k \in 1 .. b : u[k] = s[k]
    <2>1. \A k \in 1 .. b : s[k] \in Int
      BY <1>2, <1>3
    <2>2. /\ u \in Seq(Int)
          /\ Len(u) = IF 1 <= b THEN b - 1 + 1 ELSE 0
          /\ \A k \in 1 .. b - 1 + 1 : u[k] = s[1 + k - 1]
      BY <1>4, <2>1, SubSeqProperties
    <2>3. b - 1 + 1 = b /\ \A k \in 1 .. b : 1 + k - 1 = k
      BY <1>2
    <2> QED
      BY <1>2, <2>2, <2>3
  <1>6. v \in Seq(Int) /\ Len(v) = n - 1 - b /\ \A k \in 1 .. (n - 1 - b) : v[k] = s[k + b + 1]
    <2>1. \A k \in e .. n : s[k] \in Int
      BY <1>2, <1>3
    <2>2. /\ v \in Seq(Int)
          /\ Len(v) = IF e <= n THEN n - e + 1 ELSE 0
          /\ \A k \in 1 .. n - e + 1 : v[k] = s[e + k - 1]
      BY <1>4, <2>1, SubSeqProperties
    <2>3. n - e + 1 = n - 1 - b /\ \A k \in 1 .. n - e + 1 : e + k - 1 = k + b + 1
      BY <1>2
    <2>4. Len(v) = n - 1 - b
      BY <1>2, <2>2
    <2> QED
      BY <2>2, <2>3, <2>4
  <1>7. t = u \o v
    BY <1>1, <1>4
  <1>8. /\ u \o v \in Seq(Int) /\ Len(u \o v) = Len(u) + Len(v)
        /\ \A k \in 1 .. Len(u) + Len(v) :
             (u \o v)[k] = IF k <= Len(u) THEN u[k] ELSE v[k - Len(u)]
    <2>1. u \in Seq(Int) /\ v \in Seq(Int)
      BY <1>5, <1>6
    <2> QED
      BY <2>1, ConcatProperties
  <1>9. Len(u) = b /\ Len(u) + Len(v) = n - 1 /\ n - 1 \in Nat
    BY <1>2, <1>5, <1>6
  <1>10. t \in Seq(Int) /\ Len(t) = n - 1
         /\ \A k \in 1 .. (n - 1) : t[k] = IF k <= b THEN u[k] ELSE v[k - b]
    <2>1. PICK x : x = u \o v
      OBVIOUS
    <2>2. \A k \in 1 .. (n - 1) : x[k] = IF k <= b THEN u[k] ELSE v[k - b]
      BY <1>8, <1>9, <2>1
    <2>3. x \in Seq(Int) /\ Len(x) = n - 1
      BY <1>8, <1>9, <2>1
    <2> QED
      BY <1>7, <2>1, <2>2, <2>3
  <1>11. ASSUME NEW k \in 1 .. (n - 1) PROVE t[k] = IF k < i THEN s[k] ELSE s[k + 1]
    <2>1. CASE k <= b
      <3>1. k \in 1 .. b /\ k < i
        BY <2>1, <1>2
      <3>2. t[k] = u[k]
        BY <2>1, <1>10
      <3>3. u[k] = s[k]
        BY <3>1, <1>5
      <3> QED
        BY <3>1, <3>2, <3>3
    <2>2. CASE ~ (k <= b)
      <3>1. PICK m \in Int : m = k - b
        BY <1>2
      <3>2. m \in 1 .. (n - 1 - b) /\ m + b + 1 = k + 1 /\ ~ (k < i)
        BY <2>2, <1>2, <3>1
      <3>3. t[k] = v[m]
        BY <2>2, <1>10, <3>1
      <3>4. v[m] = s[m + b + 1]
        BY <1>6, <3>2
      <3> QED
        BY <3>2, <3>3, <3>4
    <2> QED
      BY <2>1, <2>2
  <1>12. DOMAIN t = 1 .. (n - 1)
    BY <1>10, LenProperties
  <1> QED
    BY <1>10, <1>11, <1>12

LEMMA Removed ==
  ASSUME NEW s, OneEach(s), NEW i \in DOMAIN s, NEW t,
         t = SubSeq(s, 1, i - 1) \o SubSeq(s, i + 1, Len(s))
  PROVE  OneEach(t) /\ Members(t) = Members(s) \ {s[i]}
  <1>0. s \in Seq(Int)
    BY DEF OneEach
  <1>1. PICK n \in Nat : n = Len(s) /\ DOMAIN s = 1 .. n
    BY <1>0, LenProperties
  <1>2. /\ t \in Seq(Int) /\ DOMAIN t = 1 .. (n - 1)
        /\ \A k \in 1 .. (n - 1) : t[k] = IF k < i THEN s[k] ELSE s[k + 1]
    <2>1. i \in 1 .. n /\ t = SubSeq(s, 1, i - 1) \o SubSeq(s, i + 1, n)
      BY <1>1
    <2> QED
      BY <1>0, <1>1, <2>1, Rejoined
  <1> DEFINE at(k) == IF k < i THEN k ELSE k + 1
  <1>3. \A k \in 1 .. (n - 1) : at(k) \in 1 .. n /\ at(k) # i /\ t[k] = s[at(k)]
    <2> TAKE k \in 1 .. (n - 1)
    <2>1. at(k) \in 1 .. n /\ at(k) # i
      BY <1>1
    <2>2. CASE k < i
      BY <1>2, <2>1, <2>2
    <2>3. CASE ~ (k < i)
      BY <1>2, <2>1, <2>3
    <2> QED
      BY <2>1, <2>2, <2>3
  <1>4. \A k, m \in 1 .. (n - 1) : at(k) = at(m) => k = m
    BY <1>1
  <1> HIDE DEF at
  <1>5. \A k, m \in 1 .. n : s[k] = s[m] => k = m
    BY <1>1 DEF OneEach
  <1>6. \A k, m \in DOMAIN t : t[k] = t[m] => k = m
    <2> SUFFICES ASSUME NEW k \in 1 .. (n - 1), NEW m \in 1 .. (n - 1), t[k] = t[m]
                 PROVE  k = m
      BY <1>2
    <2>1. at(k) = at(m)
      BY <1>3, <1>5
    <2> QED
      BY <1>4, <2>1
  <1>7. Members(t) = Members(s) \ {s[i]}
    <2>1. ASSUME NEW k \in DOMAIN t PROVE t[k] \in Members(s) \ {s[i]}
      <3>1. at(k) \in DOMAIN s /\ t[k] = s[at(k)] /\ s[at(k)] # s[i]
        BY <1>1, <1>2, <1>3, <1>5
      <3> QED
        BY <3>1 DEF Members
    <2>2. ASSUME NEW k \in DOMAIN s, s[k] # s[i] PROVE s[k] \in Members(t)
      <3>1. PICK m \in Int : m = IF k < i THEN k ELSE k - 1
        BY <1>1
      <3>2. m \in 1 .. (n - 1) /\ at(m) = k
        BY <1>1, <2>2, <3>1 DEF at
      <3>3. m \in DOMAIN t /\ t[m] = s[k]
        BY <1>2, <1>3, <3>2
      <3> QED
        BY <3>3 DEF Members
    <2> QED
      BY <2>1, <2>2 DEF Members
  <1> QED
    BY <1>2, <1>6, <1>7 DEF OneEach

-----------------------------------------------------------------------------
(***************************************************************************)
(* Pictures come to the list and leave it.                                 *)
(***************************************************************************)
SameCoding(x, r) ==
  /\ x.init = r.init /\ x.recon = r.recon /\ x.finished = r.finished
  /\ x.refs = r.refs /\ x.refCount = r.refCount

\* From list l to m no picture is coded, new ones are fresh, and those that
\* leave are written and not needed.
Moved(l, m) ==
  /\ \A p \in DOMAIN m : IF p \in DOMAIN l THEN SameCoding(m[p], l[p]) ELSE Fresh(m[p])
  /\ \A p \in DOMAIN l \ DOMAIN m :
       l[p].finished /\ (l[p].refCount <= 0 \/ \A q \in DOMAIN l : l[q].finished)

LEMMA MovedKeeps ==
  ASSUME NEW g, NEW b, NEW l, NEW m, IsFiniteSet(DOMAIN l), Moved(l, m),
         AllOpen(g, b, l), Referencing(l), Started(b, l)
  PROVE  AllOpen(g, b, m) /\ Referencing(m) /\ Started(b, m) /\ Open(m) = Open(l)
  <1>1. /\ \A p \in DOMAIN m : p \in DOMAIN l => SameCoding(m[p], l[p])
        /\ \A p \in DOMAIN m : p \notin DOMAIN l => Fresh(m[p])
        /\ \A p \in DOMAIN l \ DOMAIN m :
             l[p].finished /\ (l[p].refCount <= 0 \/ \A q \in DOMAIN l : l[q].finished)
    BY DEF Moved
  <1>2. Open(m) = Open(l)
    BY <1>1 DEF Open, SameCoding, Fresh
  <1>3. \A p \in Open(l) : p \in DOMAIN l /\ p \in DOMAIN m /\ SameCoding(m[p], l[p])
    BY <1>1, <1>2 DEF Open
  <1>4. \A q : Needing(m, q) = Needing(l, q)
    BY <1>2, <1>3 DEF Needing, SameCoding
  <1>5. ASSUME NEW p \in Open(l), NEW r \in l[p].refs PROVE r \in DOMAIN m
    <2>1. r \in DOMAIN l /\ p \in Needing(l, r) /\ p \in DOMAIN l /\ ~ l[p].finished
      BY <1>5 DEF Referencing, AllHeld, Needing, Open
    <2>2. IsFiniteSet(Needing(l, r))
      <3>1. Needing(l, r) \subseteq DOMAIN l
        BY DEF Needing, Open
      <3> QED
        BY <3>1, FS_Subset
    <2>3. Cardinality(Needing(l, r)) \in Nat /\ Cardinality(Needing(l, r)) # 0
      BY <2>1, <2>2, FS_CardinalityType, FS_EmptySet
    <2>4. ~ (l[r].refCount <= 0)
      BY <2>1, <2>3 DEF Referencing, Counted
    <2> QED
      BY <1>1, <2>1, <2>4
  <1>6. AllHeld(m)
    BY <1>2, <1>3, <1>5 DEF AllHeld, SameCoding
  <1>7. Untouched(m)
    BY <1>1 DEF Referencing, Untouched, SameCoding, Fresh
  <1>8. Counted(m)
    <2> SUFFICES ASSUME NEW q \in DOMAIN m
                 PROVE  m[q].refCount = Cardinality(Needing(l, q))
      BY <1>4 DEF Counted
    <2>1. CASE q \in DOMAIN l
      BY <2>1, <1>1 DEF Referencing, Counted, SameCoding
    <2>2. CASE q \notin DOMAIN l
      <3>1. Needing(l, q) = {}
        BY <2>2 DEF Needing, Referencing, AllHeld
      <3>2. Cardinality(Needing(l, q)) = 0
        BY <3>1, FS_EmptySet
      <3> QED
        BY <3>2, <2>2, <1>1 DEF Fresh
    <2> QED
      BY <2>1, <2>2
  <1>9. AllOpen(g, b, m)
    BY <1>2, <1>3 DEF AllOpen, SameCoding
  <1>10. Started(b, m)
    <2> SUFFICES ASSUME NEW p \in b, NEW r \in m[p].refs PROVE m[r].recon
      BY DEF Started
    <2>1. p \in Open(l) /\ m[p].refs = l[p].refs
      BY <1>3 DEF AllOpen, SameCoding
    <2>2. r \in DOMAIN m /\ r \in DOMAIN l /\ l[r].recon
      BY <2>1, <1>5 DEF Started, Referencing, AllHeld
    <2> QED
      BY <2>2, <1>1 DEF SameCoding
  <1> QED
    BY <1>2, <1>6, <1>7, <1>8, <1>9, <1>10 DEF Referencing

LEMMA SameCodingSelf ==
  ASSUME NEW l
  PROVE  \A p \in DOMAIN l : SameCoding(l[p], l[p])
  BY DEF SameCoding

\* Picture p comes to list l.
Joined(l, m, p, pic) ==
  /\ DOMAIN m = DOMAIN l \cup {p} /\ m[p] = pic
  /\ \A q \in DOMAIN l : q # p => SameCoding(m[q], l[q])

LEMMA InsertCoding ==
  ASSUME Shape, NEW j \in Stages, NEW p, NEW pic
  PROVE  Joined(list[j], Insert(j, p, pic), p, pic)
  <1>0. PICK m : m = Insert(j, p, pic)
    OBVIOUS
  <1> DEFINE mark(q) == list[j][q].flush \/ q \in FlushedBy(j, p)
  <1>1. m = [q \in Pics(j) \cup {p} |->
               IF q = p THEN pic ELSE [list[j][q] EXCEPT !.flush = mark(q)]]
    BY <1>0 DEF Insert
  <1>2. \A q \in Pics(j) : SameCoding([list[j][q] EXCEPT !.flush = mark(q)], list[j][q])
    <2> TAKE q \in Pics(j)
    <2>1. PICK r \in PicRec, b \in BOOLEAN : r = list[j][q] /\ b = mark(q)
      BY ListTypes
    <2>2. SameCoding([r EXCEPT !.flush = b], r)
      BY FlushUpdate DEF SameCoding
    <2> HIDE DEF mark
    <2> QED
      BY <2>1, <2>2
  <1> HIDE DEF mark
  <1> QED
    BY <1>0, <1>1, <1>2 DEF Joined, Pics

LEMMA NewPictureFresh ==
  ASSUME NEW u, NEW prev
  PROVE  Fresh(NewPicture(u, prev))
  BY DEF NewPicture, Fresh

LEMMA SendingCoding ==
  ASSUME Shape, NEW i \in Stages, NEW l, NEW un, NEW wanted, NEW free, NEW d,
         Sendable(i, l, un, wanted, free, d),
         d \in wanted \cap Pics(i) => \A j \in Stages : j > i => d \notin Pics(j),
         \A p \in Pics(i) : SameCoding(l[p], list[i][p])
  PROVE  /\ DOMAIN list'[i] = Pics(i) \ free
         /\ \A k \in Stages : k # i => Pics(k) \subseteq DOMAIN list'[k]
         /\ \A k \in Stages : \A p \in DOMAIN list'[k] :
              IF p \in Pics(k) THEN SameCoding(list'[k][p], list[k][p]) ELSE Fresh(list'[k][p])
  <1>0. /\ Alike(l, list[i]) /\ wanted \subseteq {d} /\ free \subseteq Pics(i)
    BY DEF Sendable
  <1>1. PICK done, to : StageStep(i, l, un, wanted, free, d, done, to)
    BY SendAndFreeUnfolded
  <1>2. /\ list' = [j \in Stages |->
              IF j = i THEN [p \in DOMAIN l \ free |->
                               IF p \in done THEN [l[p] EXCEPT !.prev = {}] ELSE l[p]]
              ELSE IF j \in to THEN Sent(j, l, un, d) ELSE list[j]]
        /\ done = wanted \cap DOMAIN l
        /\ to = IF done = {} THEN {} ELSE Takers(i + 1, d)
    BY <1>1 DEF StageStep
  <1>3. DOMAIN l = Pics(i) /\ \A p \in Pics(i) : l[p] \in PicRec
    BY <1>0, ListTypes DEF Alike, Pics
  <1>4. /\ DOMAIN list'[i] = Pics(i) \ free
        /\ \A p \in Pics(i) \ free : SameCoding(list'[i][p], list[i][p])
    <2>1. list'[i] = [p \in Pics(i) \ free |->
                        IF p \in done THEN [l[p] EXCEPT !.prev = {}] ELSE l[p]]
      BY <1>2, <1>3
    <2>2. ASSUME NEW p \in Pics(i) \ free PROVE SameCoding(list'[i][p], list[i][p])
      <3>1. SameCoding(l[p], list[i][p]) /\ l[p] \in PicRec
        BY <1>3
      <3>2. SameCoding([l[p] EXCEPT !.prev = {}], l[p])
        BY <3>1, PrevUpdate DEF SameCoding
      <3>3. list'[i][p] = l[p] \/ list'[i][p] = [l[p] EXCEPT !.prev = {}]
        BY <2>1
      <3>4. SameCoding(list'[i][p], l[p])
        BY <3>2, <3>3 DEF SameCoding
      <3> QED
        BY <3>1, <3>4 DEF SameCoding
    <2> QED
      BY <2>1, <2>2
  <1>5. ASSUME NEW k \in Stages, k # i
        PROVE  /\ Pics(k) \subseteq DOMAIN list'[k]
               /\ \A p \in DOMAIN list'[k] :
                    IF p \in Pics(k) THEN SameCoding(list'[k][p], list[k][p])
                    ELSE Fresh(list'[k][p])
    <2>1. CASE k \notin to
      <3>1. list'[k] = list[k]
        BY <2>1, <1>2, <1>5
      <3> QED
        BY <3>1, SameCodingSelf DEF Pics
    <2>2. CASE k \in to
      <3>1. list'[k] = Sent(k, l, un, d) /\ to = Takers(i + 1, d) /\ done # {}
        BY <2>2, <1>2, <1>5
      <3>2. d \in wanted \cap Pics(i) /\ k > i
        <4>1. \A j \in Takers(i + 1, d) : j \in Stages /\ j >= i + 1
          BY DEF Takers
        <4>2. i \in Int /\ k \in Int
          BY StageNames
        <4> QED
          BY <3>1, <2>2, <4>1, <4>2, <1>0, <1>2, <1>3
      <3>3. d \notin Pics(k)
        BY <3>2
      <3>4. PICK pic : pic = NewPicture(l[d].unit, un[l[d].unit].prev)
        OBVIOUS
      <3>5. list'[k] = Insert(k, d, pic) /\ Fresh(pic)
        BY <3>1, <3>4, NewPictureFresh DEF Sent
      <3>6. PICK m : m = list'[k]
        OBVIOUS
      <3>7. Joined(list[k], m, d, pic)
        BY <3>5, <3>6, InsertCoding
      <3>8. /\ DOMAIN m = Pics(k) \cup {d} /\ m[d] = pic
            /\ \A q \in Pics(k) : q # d => SameCoding(m[q], list[k][q])
        BY <3>7 DEF Joined, Pics
      <3>9. \A p \in DOMAIN m : IF p \in Pics(k) THEN SameCoding(m[p], list[k][p]) ELSE Fresh(m[p])
        <4> TAKE p \in DOMAIN m
        <4>1. CASE p = d
          BY <4>1, <3>3, <3>5, <3>8
        <4>2. CASE p # d
          BY <4>2, <3>8
        <4> QED
          BY <4>1, <4>2
      <3> QED
        BY <3>6, <3>8, <3>9
    <2> QED
      BY <2>1, <2>2
  <1> QED
    BY <1>4, <1>5

-----------------------------------------------------------------------------
(***************************************************************************)
(* The caller feeds no more frames than it has.                            *)
(***************************************************************************)
LEMMA FramesMax ==
  ASSUME cfg \in Configs
  PROVE  Frames \in cfg.stops /\ Frames \in Nat /\ \A s \in cfg.stops : s <= Frames
  <1>1. cfg.stops \subseteq Nat /\ \E m \in cfg.stops : \A s \in cfg.stops : s <= m
    BY EncStagesAssumption
  <1>2. PICK S \in SUBSET Nat : S = cfg.stops
    BY <1>1
  <1>3. \E m \in S : \A s \in S : m >= s
    BY <1>1, <1>2
  <1>4. Max(S) \in S /\ \A s \in S : Max(S) >= s
    BY <1>3 DEF Max
  <1>5. Frames = Max(S)
    BY <1>2 DEF Frames
  <1> QED
    BY <1>2, <1>4, <1>5

LEMMA FedInit ==
  Init => Fed
  <1> SUFFICES ASSUME Init PROVE Fed
    OBVIOUS
  <1>1. /\ cfg \in Configs /\ main = "idle" /\ picsRcvd = -cfg.lead
        /\ call = [flush |-> FALSE, pending |-> FALSE, au |-> None]
    BY DEF Init
  <1>2. Frames \in Nat /\ cfg.lead \in Nat
    BY <1>1, FramesMax, ConfigType
  <1> QED
    BY <1>1, <1>2 DEF Fed

LEMMA FedNext ==
  FlowSafe /\ Fed /\ [Next]_vars => Fed'
  <1> SUFFICES ASSUME FlowSafe, Fed, [Next]_vars PROVE Fed'
    OBVIOUS
  <1> DEFINE Places == {"idle", "input", "pre", "filter", "gop", "init", "encode", "output",
                        "release", "end", "wait", "done"}
  <1>1. /\ picsRcvd \in Int /\ Frames \in Nat /\ cfg.lead \in Nat /\ call.pending \in BOOLEAN
        /\ DOMAIN call = {"flush", "pending", "au"} /\ main \in Places
        /\ picsRcvd + (IF call.pending THEN 1 ELSE 0) <= Frames - cfg.lead
    BY FramesMax, ConfigType DEF FlowSafe, Shape, CallSafe, Fed
  <1>2. cfg' = cfg
    BY DEF Next, Done, vars, EncodeFrame, EncodeFlush, RunStages, AddInput, PreProcess,
       FilterPictures, StartGop, InitPicture, EncodePicture, EndEncode, WriteAccessUnit,
       ReleasePictures, EndOfStages, FinishPicture
  <1>3. Frames' = Frames
    BY <1>2 DEF Frames
  <1>4. ASSUME picsRcvd' = picsRcvd, call'.pending = call.pending, main' \in Places
        PROVE  Fed'
    BY <1>1, <1>2, <1>3, <1>4 DEF Fed
  <1>5. CASE EncodeFrame
    <2>1. /\ picsRcvd < Frames - cfg.lead /\ picsRcvd' = picsRcvd /\ main' = "input"
          /\ call' = [call EXCEPT !.pending = TRUE]
      BY <1>5 DEF EncodeFrame, returned
    <2>2. call'.pending
      BY <1>1, <2>1
    <2> QED
      BY <1>1, <1>2, <1>3, <2>1, <2>2 DEF Fed
  <1>6. CASE EncodeFlush
    <2>1. picsRcvd' = picsRcvd /\ main' = "input" /\ call' = [call EXCEPT !.flush = TRUE]
      BY <1>6 DEF EncodeFlush, returned
    <2>2. call'.pending = call.pending
      BY <1>1, <2>1
    <2> QED
      BY <1>4, <2>1, <2>2
  <1>7. CASE AddInput
    <2>1. main' = "pre"
      BY <1>7 DEF AddInput
    <2>2. CASE /\ call.pending /\ picsRcvd' = picsRcvd + 1
               /\ call' = [call EXCEPT !.pending = FALSE]
      <3>1. ~ call'.pending
        BY <1>1, <2>2
      <3> QED
        BY <1>1, <1>2, <1>3, <2>1, <2>2, <3>1 DEF Fed
    <2>3. CASE picsRcvd' = picsRcvd /\ call' = call
      BY <1>4, <2>1, <2>3
    <2> QED
      BY <1>7, <2>2, <2>3 DEF AddInput
  <1>8. CASE PreProcess \/ FilterPictures
    <2>1. picsRcvd' = picsRcvd /\ call' = call /\ main' \in Places
      BY <1>8 DEF PreProcess, FilterPictures, returned, Repeat, Skip
    <2> QED
      BY <1>4, <2>1
  <1>9. CASE StartGop \/ InitPicture \/ EncodePicture \/ EndEncode \/ ReleasePictures
    <2>1. picsRcvd' = picsRcvd /\ call' = call /\ main' \in Places
      BY <1>1, <1>9 DEF StartGop, InitPicture, Encode, EncodePicture, EndEncode, ReleasePictures,
         returned
    <2> QED
      BY <1>4, <2>1
  <1>10. CASE WriteAccessUnit
    <2>1. picsRcvd' = picsRcvd /\ main' = "release"
          /\ (call' = call \/ \E p : call' = [call EXCEPT !.au = p])
      BY <1>10 DEF WriteAccessUnit, returned
    <2>2. call'.pending = call.pending
      BY <1>1, <2>1
    <2> QED
      BY <1>4, <2>1, <2>2
  <1>11. CASE EndOfStages
    <2>1. picsRcvd' = picsRcvd /\ main' \in Places
      BY <1>11 DEF EndOfStages, StayInCall, ReturnFromCall
    <2>2. \/ call' = [call EXCEPT !.au = None]
          \/ call' = [call EXCEPT !.au = None, !.flush = FALSE]
      BY <1>11 DEF EndOfStages, StayInCall, ReturnFromCall
    <2>3. call'.pending = call.pending
      BY <1>1, <2>2
    <2> QED
      BY <1>4, <2>1, <2>3
  <1>12. CASE \E p \in busy : FinishPicture(p)
    <2>1. picsRcvd' = picsRcvd /\ call' = call /\ main' \in Places
      BY <1>1, <1>12 DEF FinishPicture, returned
    <2> QED
      BY <1>4, <2>1
  <1>13. CASE UNCHANGED vars
    BY <1>1, <1>4, <1>13 DEF vars, returned
  <1> QED
    BY <1>5, <1>6, <1>7, <1>8, <1>9, <1>10, <1>11, <1>12, <1>13 DEF Next, RunStages, Done

\* The pictures of the GOP encoder's list have coding numbers of their own.
LEMMA CodingNumbers ==
  ASSUME FlowSafe, Fed
  PROVE  \A p \in Pics(Gop) :
           /\ p \in 0 .. Frames /\ CodingNum(p) = cfg.codingNum[p] /\ CodingNum(p) \in Nat
           /\ \A q \in 0 .. Frames : /\ CodingNum(p) = CodingNum(q) => p = q
                                     /\ q \in cfg.refs[p] => CodingNum(q) < CodingNum(p)
  <1>1. /\ cfg \in Configs /\ Frames \in cfg.stops /\ Frames \in Nat /\ cfg.lead \in Nat
        /\ picsRcvd \in Int
    BY FramesMax, ConfigType DEF FlowSafe, Shape
  <1>2. \A p \in Pics(Gop) : p \in Int /\ 0 <= p /\ p <= picsRcvd - 1
    BY <1>1, ListTypes, StageNames DEF FlowSafe, Ordered, Received
  <1>3. picsRcvd <= Frames - cfg.lead
    <2>1. picsRcvd + (IF call.pending THEN 1 ELSE 0) <= Frames - cfg.lead
      BY DEF Fed
    <2> QED
      BY <1>1, <2>1
  <1>4. \A p \in Pics(Gop) : p \in 0 .. Frames
    BY <1>1, <1>2, <1>3
  <1>5. \A p \in 0 .. Frames : CodingNum(p) = cfg.codingNum[p]
    BY <1>1 DEF CodingNum
  <1>6. \A p, q \in 0 .. Frames :
          /\ cfg.codingNum[p] \in Nat
          /\ cfg.codingNum[p] = cfg.codingNum[q] => p = q
          /\ q \in cfg.refs[p] => cfg.codingNum[q] < cfg.codingNum[p]
    BY <1>1, EncStagesGopAssumption
  <1> QED
    BY <1>4, <1>5, <1>6

-----------------------------------------------------------------------------
(***************************************************************************)
(* Coding steps, on the list alone.                                        *)
(***************************************************************************)

\* Picture p gets its slice header, with references s.
Initialized(l, m, p, s) ==
  /\ DOMAIN m = DOMAIN l /\ p \in DOMAIN l /\ ~ l[p].init /\ m[p].init /\ m[p].refs = s
  /\ \A q \in DOMAIN l : q # p => m[q].init = l[q].init /\ m[q].refs = l[q].refs
  /\ \A q \in DOMAIN l : /\ m[q].recon = l[q].recon /\ m[q].finished = l[q].finished
                         /\ m[q].refCount = l[q].refCount + (IF q \in s THEN 1 ELSE 0)

LEMMA InitializedKeeps ==
  ASSUME NEW g, NEW b, NEW l, NEW m, NEW p, NEW s, IsFiniteSet(DOMAIN l),
         Initialized(l, m, p, s), s \subseteq DOMAIN l,
         AllOpen(g, b, l), Referencing(l), Started(b, l)
  PROVE  /\ AllOpen(g, b, m) /\ Referencing(m) /\ Started(b, m)
         /\ Open(m) = Open(l) \cup {p} /\ p \notin Open(l) /\ ~ m[p].recon
  <1>1. p \notin Open(l) /\ Open(m) = Open(l) \cup {p} /\ ~ m[p].recon
    BY DEF Initialized, Open, Referencing, Untouched
  <1>2. \A q \in Open(l) : /\ q \in DOMAIN l /\ q # p /\ m[q].refs = l[q].refs
                           /\ m[q].recon = l[q].recon
    BY <1>1 DEF Initialized, Open
  <1>3. Untouched(m)
    BY DEF Initialized, Referencing, Untouched
  <1>4. AllHeld(m)
    BY <1>1, <1>2 DEF Initialized, Referencing, AllHeld
  <1>5. Counted(m)
    <2> SUFFICES ASSUME NEW q \in DOMAIN l
                 PROVE  m[q].refCount = Cardinality(Needing(m, q))
      BY DEF Counted, Initialized
    <2>1. /\ l[q].refCount = Cardinality(Needing(l, q))
          /\ m[q].refCount = l[q].refCount + (IF q \in s THEN 1 ELSE 0)
      BY DEF Referencing, Counted, Initialized
    <2>2. IsFiniteSet(Needing(l, q)) /\ p \notin Needing(l, q)
      <3>1. Needing(l, q) \subseteq DOMAIN l
        BY DEF Needing, Open
      <3> QED
        BY <1>1, <3>1, FS_Subset DEF Needing
    <2>3. Cardinality(Needing(l, q)) \in Nat
      BY <2>2, FS_CardinalityType
    <2>4. m[p].refs = s
      BY DEF Initialized
    <2>5. CASE q \in s
      <3>1. Needing(m, q) = Needing(l, q) \cup {p}
        BY <2>4, <2>5, <1>1, <1>2 DEF Needing
      <3>2. Cardinality(Needing(m, q)) = Cardinality(Needing(l, q)) + 1
        BY <3>1, <2>2, FS_AddElement
      <3> QED
        BY <3>2, <2>1, <2>5
    <2>6. CASE q \notin s
      <3>1. Needing(m, q) = Needing(l, q)
        BY <2>4, <2>6, <1>1, <1>2 DEF Needing
      <3> QED
        BY <3>1, <2>1, <2>3, <2>6
    <2> QED
      BY <2>5, <2>6
  <1>6. AllOpen(g, b, m)
    BY <1>1, <1>2 DEF AllOpen
  <1>7. Started(b, m)
    <2> SUFFICES ASSUME NEW o \in b, NEW r \in m[o].refs PROVE m[r].recon
      BY DEF Started
    <2>1. o \in Open(l)
      BY DEF AllOpen
    <2>2. r \in l[o].refs /\ r \in DOMAIN l /\ l[r].recon
      BY <2>1, <1>2 DEF Referencing, AllHeld, Started
    <2> QED
      BY <2>2 DEF Initialized
  <1> QED
    BY <1>1, <1>3, <1>4, <1>5, <1>6, <1>7 DEF Referencing

\* Picture p has been encoded.
Reconstructed(l, m, p) ==
  /\ DOMAIN m = DOMAIN l
  /\ \A q \in DOMAIN l : /\ m[q].init = l[q].init /\ m[q].finished = l[q].finished
                         /\ m[q].refs = l[q].refs /\ m[q].refCount = l[q].refCount
                         /\ q # p => m[q].recon = l[q].recon
  /\ m[p].recon

LEMMA ReconstructedKeeps ==
  ASSUME NEW g, NEW b, NEW l, NEW m, NEW p, Reconstructed(l, m, p), p \in Open(l),
         p \notin b, p \notin Members(g.input), p \notin Members(g.proc),
         AllOpen(g, b, l), Referencing(l), Started(b, l)
  PROVE  AllOpen(g, b, m) /\ Referencing(m) /\ Started(b, m) /\ Open(m) = Open(l)
  <1>1. Open(m) = Open(l)
    BY DEF Reconstructed, Open
  <1>2. \A q : Needing(m, q) = Needing(l, q)
    BY <1>1 DEF Needing, Open, Reconstructed
  <1>3. Untouched(m) /\ AllHeld(m) /\ Counted(m)
    <2>1. Untouched(m)
      BY DEF Reconstructed, Referencing, Untouched, Open
    <2>2. AllHeld(m)
      BY <1>1 DEF Reconstructed, Referencing, AllHeld, Open
    <2>3. Counted(m)
      BY <1>2 DEF Reconstructed, Referencing, Counted
    <2> QED
      BY <2>1, <2>2, <2>3
  <1>4. AllOpen(g, b, m)
    BY <1>1 DEF AllOpen, Reconstructed, Open
  <1>5. Started(b, m)
    <2> SUFFICES ASSUME NEW o \in b, NEW r \in m[o].refs PROVE m[r].recon
      BY DEF Started
    <2>1. o \in Open(l) /\ o \in DOMAIN l
      BY DEF AllOpen, Open
    <2>2. r \in l[o].refs /\ r \in DOMAIN l /\ l[r].recon
      BY <2>1 DEF Referencing, AllHeld, Started, Reconstructed
    <2> QED
      BY <2>2 DEF Reconstructed
  <1> QED
    BY <1>1, <1>3, <1>4, <1>5 DEF Referencing

\* The access unit of picture p has been written.
Written(l, m, p) ==
  /\ DOMAIN m = DOMAIN l /\ p \in Open(l)
  /\ \A q \in DOMAIN l : /\ m[q].init = l[q].init /\ m[q].recon = l[q].recon
                         /\ m[q].refs = l[q].refs
                         /\ m[q].finished <=> l[q].finished \/ q = p
                         /\ m[q].refCount = l[q].refCount - (IF q \in l[p].refs THEN 1 ELSE 0)

LEMMA WrittenKeeps ==
  ASSUME NEW g, NEW b, NEW l, NEW m, NEW p, IsFiniteSet(DOMAIN l), Written(l, m, p),
         l[p].recon, p \notin Members(g.output),
         AllOpen(g, b, l), Referencing(l), Started(b, l)
  PROVE  AllOpen(g, b, m) /\ Referencing(m) /\ Started(b, m) /\ Open(m) = Open(l) \ {p}
  <1>1. Open(m) = Open(l) \ {p} /\ p \in Open(l)
    BY DEF Written, Open
  <1>2. \A q \in Open(l) : q \in DOMAIN l /\ m[q].refs = l[q].refs /\ m[q].recon = l[q].recon
    BY DEF Written, Open
  <1>3. Untouched(m)
    BY <1>1 DEF Written, Referencing, Untouched, Open
  <1>4. AllHeld(m)
    BY <1>1, <1>2 DEF Written, Referencing, AllHeld
  <1>5. Counted(m)
    <2> SUFFICES ASSUME NEW q \in DOMAIN l
                 PROVE  m[q].refCount = Cardinality(Needing(m, q))
      BY DEF Counted, Written
    <2>1. /\ l[q].refCount = Cardinality(Needing(l, q))
          /\ m[q].refCount = l[q].refCount - (IF q \in l[p].refs THEN 1 ELSE 0)
      BY DEF Referencing, Counted, Written
    <2>2. IsFiniteSet(Needing(l, q))
      <3>1. Needing(l, q) \subseteq DOMAIN l
        BY DEF Needing, Open
      <3> QED
        BY <3>1, FS_Subset
    <2>3. Cardinality(Needing(l, q)) \in Nat
      BY <2>2, FS_CardinalityType
    <2>4. Needing(m, q) = Needing(l, q) \ {p}
      BY <1>1, <1>2 DEF Needing
    <2>5. CASE q \in l[p].refs
      <3>1. p \in Needing(l, q)
        BY <2>5, <1>1 DEF Needing
      <3>2. Cardinality(Needing(m, q)) = Cardinality(Needing(l, q)) - 1
        BY <3>1, <2>2, <2>4, FS_RemoveElement
      <3> QED
        BY <3>2, <2>1, <2>5
    <2>6. CASE q \notin l[p].refs
      <3>1. Needing(m, q) = Needing(l, q)
        BY <2>4, <2>6 DEF Needing
      <3> QED
        BY <3>1, <2>1, <2>3, <2>6
    <2> QED
      BY <2>5, <2>6
  <1>6. AllOpen(g, b, m)
    BY <1>1, <1>2 DEF AllOpen
  <1>7. Started(b, m)
    <2> SUFFICES ASSUME NEW o \in b, NEW r \in m[o].refs PROVE m[r].recon
      BY DEF Started
    <2>1. o \in Open(l)
      BY DEF AllOpen
    <2>2. r \in l[o].refs /\ r \in DOMAIN l /\ l[r].recon
      BY <2>1, <1>2 DEF Referencing, AllHeld, Started
    <2> QED
      BY <2>2 DEF Written
  <1> QED
    BY <1>1, <1>3, <1>4, <1>5, <1>6, <1>7 DEF Referencing

-----------------------------------------------------------------------------
(***************************************************************************)
(* The steps keep the coding invariant.                                    *)
(***************************************************************************)
SameQueues ==
  /\ DOMAIN gop' = DOMAIN gop /\ gop'.input = gop.input /\ gop'.proc = gop.proc
  /\ gop'.output = gop.output

LEMMA CodingInit ==
  Init => CodingSafe
  <1> SUFFICES ASSUME Init PROVE CodingSafe
    OBVIOUS
  <1>1. /\ gop = [input |-> <<>>, proc |-> <<>>, output |-> <<>>,
                  lastCodingNum |-> -1, pocRecOut |-> 0]
        /\ busy = {} /\ \A i \in Stages : DOMAIN list[i] = {}
    BY DEF Init
  <1>2. DOMAIN list[Gop] = {} /\ Open(list[Gop]) = {}
    BY <1>1, StageNames DEF Open
  <1>3. Apart(gop, busy) /\ AllOpen(gop, busy, list[Gop]) /\ Started(busy, list[Gop])
    BY <1>1, EmptyQueue DEF Apart, AllOpen, Started
  <1>4. Referencing(list[Gop])
    BY <1>2 DEF Referencing, Untouched, AllHeld, Counted
  <1>5. Uncoded
    BY <1>1 DEF Uncoded, Pics
  <1> QED
    BY <1>3, <1>4, <1>5 DEF CodingSafe

\* Pictures move, and nothing is coded.
LEMMA CodingMoved ==
  ASSUME Shape, CodingSafe, busy' = busy, SameQueues,
         Moved(list[Gop], list'[Gop]), Uncoded'
  PROVE  CodingSafe'
  <1>1. PICK l, m : l = list[Gop] /\ m = list'[Gop]
    OBVIOUS
  <1>2. IsFiniteSet(DOMAIN l) /\ Moved(l, m)
    BY <1>1, ListTypes, StageNames DEF Pics
  <1>3. /\ Apart(gop, busy) /\ AllOpen(gop, busy, l) /\ Referencing(l) /\ Started(busy, l)
    BY <1>1 DEF CodingSafe
  <1>4. AllOpen(gop, busy, m) /\ Referencing(m) /\ Started(busy, m)
    BY <1>2, <1>3, MovedKeeps
  <1>5. Apart(gop', busy')
    BY <1>3 DEF SameQueues, Apart
  <1>6. AllOpen(gop', busy', m)
    BY <1>4 DEF SameQueues, AllOpen
  <1> QED
    BY <1>1, <1>4, <1>5, <1>6 DEF CodingSafe

LEMMA CodingElsewhere ==
  ASSUME Shape, CodingSafe, busy' = busy, gop' = gop, list'[Gop] = list[Gop], Uncoded'
  PROVE  CodingSafe'
  <1>1. Moved(list[Gop], list'[Gop])
    BY SameCodingSelf DEF Moved
  <1> QED
    BY <1>1, CodingMoved DEF SameQueues

LEMMA CodingSent ==
  ASSUME FlowSafe, CodingSafe, busy' = busy, SameQueues,
         NEW i \in Stages, NEW l, NEW un, NEW wanted, NEW free, NEW d,
         Finishing(i, l, un, wanted, free, d),
         \A p \in Pics(i) : SameCoding(l[p], list[i][p]),
         i = Gop => \A p \in free :
           list[Gop][p].finished
           /\ (list[Gop][p].refCount <= 0 \/ \A q \in Pics(Gop) : list[Gop][q].finished)
  PROVE  CodingSafe'
  <1>1. /\ Shape /\ Sendable(i, l, un, wanted, free, d)
        /\ d \in wanted \cap Pics(i) => \A j \in Stages : j > i => d \notin Pics(j)
    BY DEF FlowSafe, Finishing, Countable
  <1>2. /\ DOMAIN list'[i] = Pics(i) \ free
        /\ \A k \in Stages : k # i => Pics(k) \subseteq DOMAIN list'[k]
        /\ \A k \in Stages : \A p \in DOMAIN list'[k] :
             IF p \in Pics(k) THEN SameCoding(list'[k][p], list[k][p]) ELSE Fresh(list'[k][p])
    BY <1>1, SendingCoding
  <1>3. Gop \in Stages
    BY StageNames
  <1>4. Moved(list[Gop], list'[Gop])
    BY <1>2, <1>3 DEF Moved, Pics
  <1>5. Uncoded'
    <2> SUFFICES ASSUME NEW k \in Stages, k # Gop, NEW p \in DOMAIN list'[k]
                 PROVE  Fresh(list'[k][p])
      BY DEF Uncoded, Pics
    <2>1. CASE p \in Pics(k)
      <3>1. Fresh(list[k][p]) /\ SameCoding(list'[k][p], list[k][p])
        BY <2>1, <1>2 DEF CodingSafe, Uncoded
      <3> QED
        BY <3>1 DEF Fresh, SameCoding
    <2>2. CASE p \notin Pics(k)
      BY <2>2, <1>2
    <2> QED
      BY <2>1, <2>2
  <1> QED
    BY <1>1, <1>4, <1>5, CodingMoved

LEMMA MarkedCoding ==
  ASSUME Shape, NEW i \in Stages
  PROVE  DOMAIN Marked(i) = Pics(i) /\ \A p \in Pics(i) : SameCoding(Marked(i)[p], list[i][p])
  <1> DEFINE mark(p) == list[i][p].flush \/ SeesFlush(i, p)
  <1>1. Marked(i) = [p \in Pics(i) |-> [list[i][p] EXCEPT !.flush = mark(p)]]
    BY DEF Marked
  <1>2. \A p \in Pics(i) : SameCoding([list[i][p] EXCEPT !.flush = mark(p)], list[i][p])
    <2> TAKE p \in Pics(i)
    <2>1. PICK r \in PicRec, b \in BOOLEAN : r = list[i][p] /\ b = mark(p)
      BY ListTypes
    <2>2. SameCoding([r EXCEPT !.flush = b], r)
      BY FlushUpdate DEF SameCoding
    <2> HIDE DEF mark
    <2> QED
      BY <2>1, <2>2
  <1> HIDE DEF mark
  <1> QED
    BY <1>1, <1>2

LEMMA OutputsCoding ==
  ASSUME Shape
  PROVE  \A p \in Pics(Gop) : /\ SameCoding(Outputs[p], list[Gop][p])
                              /\ Unneeded(Outputs[p]) => /\ list[Gop][p].finished
                                                         /\ list[Gop][p].refCount <= 0
  <1> DEFINE stays(p) == list[Gop][p].output /\ ~ OutputDone(p)
  <1>1. Outputs = [p \in Pics(Gop) |-> [list[Gop][p] EXCEPT !.output = stays(p)]]
    BY DEF Outputs, GopList
  <1>2. \A p \in Pics(Gop) : SameCoding([list[Gop][p] EXCEPT !.output = stays(p)], list[Gop][p])
    <2> TAKE p \in Pics(Gop)
    <2>1. PICK r \in PicRec, b \in BOOLEAN : r = list[Gop][p] /\ b = stays(p)
      BY ListTypes, StageNames
    <2>2. SameCoding([r EXCEPT !.output = b], r)
      BY OutputUpdate DEF SameCoding
    <2> HIDE DEF stays
    <2> QED
      BY <2>1, <2>2
  <1> HIDE DEF stays
  <1>3. \A p \in Pics(Gop) : SameCoding(Outputs[p], list[Gop][p])
    BY <1>1, <1>2
  <1> QED
    BY <1>3 DEF SameCoding, Unneeded

\* A step that only marks pictures.
LEMMA CodingMarked ==
  ASSUME FlowSafe, CodingSafe, busy' = busy, gop' = gop, NEW i \in Stages,
         list' = [list EXCEPT ![i] = Marked(i)]
  PROVE  CodingSafe'
  <1>1. Shape /\ DOMAIN list = Stages /\ Gop \in Stages
    BY StageNames DEF FlowSafe, Shape
  <1>2. list'[i] = Marked(i) /\ \A k \in Stages : k # i => list'[k] = list[k]
    BY <1>1
  <1>3. \A k \in Stages : /\ DOMAIN list'[k] = Pics(k)
                          /\ \A p \in Pics(k) : SameCoding(list'[k][p], list[k][p])
    <2> TAKE k \in Stages
    <2>1. CASE k = i
      BY <2>1, <1>1, <1>2, MarkedCoding
    <2>2. CASE k # i
      BY <2>2, <1>2, SameCodingSelf DEF Pics
    <2> QED
      BY <2>1, <2>2
  <1>4. Moved(list[Gop], list'[Gop])
    BY <1>1, <1>3 DEF Moved, Pics
  <1>5. Uncoded'
    <2> SUFFICES ASSUME NEW k \in Stages, k # Gop, NEW p \in DOMAIN list'[k]
                 PROVE  Fresh(list'[k][p])
      BY DEF Uncoded, Pics
    <2>1. Fresh(list[k][p]) /\ SameCoding(list'[k][p], list[k][p])
      BY <1>3 DEF CodingSafe, Uncoded
    <2> QED
      BY <2>1 DEF Fresh, SameCoding
  <1> QED
    BY <1>1, <1>4, <1>5, CodingMoved DEF SameQueues

LEMMA CodingAddInput ==
  ASSUME FlowSafe, CodingSafe, AddInput
  PROVE  CodingSafe'
  <1>1. /\ Shape /\ DOMAIN list = Stages /\ Stages = {Pre, Filter, Gop} /\ Pre # Gop /\ Pre # Filter
        /\ gop' = gop /\ busy' = busy
    BY StageNames DEF FlowSafe, Shape, Stages, AddInput
  <1>2. CASE list' = list
    <2>1. Uncoded'
      BY <1>2 DEF CodingSafe, Uncoded, Pics
    <2> QED
      BY <1>1, <1>2, <2>1, CodingElsewhere
  <1>3. ASSUME NEW u, list' = [list EXCEPT ![Pre] = Insert(Pre, picsRcvd, NewPicture(u, {}))]
        PROVE  CodingSafe'
    <2>1. /\ list'[Pre] = Insert(Pre, picsRcvd, NewPicture(u, {}))
          /\ list'[Filter] = list[Filter] /\ list'[Gop] = list[Gop]
      BY <1>1, <1>3
    <2>2. PICK m, pic : m = list'[Pre] /\ pic = NewPicture(u, {})
      OBVIOUS
    <2>3. Joined(list[Pre], m, picsRcvd, pic) /\ Fresh(pic)
      BY <1>1, <2>1, <2>2, InsertCoding, NewPictureFresh
    <2>4. \A p \in DOMAIN m : Fresh(m[p])
      <3> TAKE p \in DOMAIN m
      <3>1. CASE p = picsRcvd
        BY <3>1, <2>3 DEF Joined
      <3>2. CASE p # picsRcvd
        <4>1. p \in Pics(Pre) /\ SameCoding(m[p], list[Pre][p])
          BY <3>2, <2>3 DEF Joined, Pics
        <4>2. Fresh(list[Pre][p])
          BY <4>1, <1>1 DEF CodingSafe, Uncoded
        <4> QED
          BY <4>1, <4>2 DEF Fresh, SameCoding
      <3> QED
        BY <3>1, <3>2
    <2>5. Uncoded'
      <3> SUFFICES ASSUME NEW k \in Stages, k # Gop, NEW p \in DOMAIN list'[k]
                   PROVE  Fresh(list'[k][p])
        BY DEF Uncoded, Pics
      <3>1. CASE k = Pre
        BY <3>1, <2>2, <2>4
      <3>2. CASE k = Filter
        BY <3>2, <1>1, <2>1 DEF CodingSafe, Uncoded, Pics
      <3> QED
        BY <3>1, <3>2, <1>1
    <2> QED
      BY <1>1, <2>1, <2>5, CodingElsewhere
  <1> QED
    BY <1>2, <1>3 DEF AddInput

LEMMA CodingPreProcess ==
  ASSUME FlowSafe, CodingSafe, PreProcess
  PROVE  CodingSafe'
  <1>1. /\ Shape /\ CallSafe /\ Pre \in Stages /\ call.flush \in BOOLEAN /\ Pre # Gop
    BY StageNames DEF FlowSafe, CallSafe
  <1>2. /\ gop' = gop /\ busy' = busy /\ cfg' = cfg /\ call' = call /\ picsRcvd' = picsRcvd
        /\ filterPoc' = filterPoc /\ main' \in {"pre", "filter"}
    BY DEF PreProcess, returned, Repeat, Skip
  <1>3. SameQueues
    BY <1>2 DEF SameQueues
  <1>4. \A p \in Pics(Pre) : SameCoding(Marked(Pre)[p], list[Pre][p])
    BY <1>1, MarkedCoding
  <1>5. CASE list' = [list EXCEPT ![Pre] = Marked(Pre)]
    BY <1>1, <1>2, <1>5, CodingMarked
  <1>6. CASE list' # [list EXCEPT ![Pre] = Marked(Pre)]
    <2>1. Ready(Pre)
      BY <1>6 DEF PreProcess, Skip
    <2>2. PICK last : last = Last(Pre, Pics(Pre))
      OBVIOUS
    <2>3. last \in Pics(Pre) /\ (\A q \in Pics(Pre) : q <= last) /\ last \in Int /\ lastPoc \in Int
      <3>1. Pics(Pre) # {}
        BY <1>1, <2>1, ReadyPre
      <3> QED
        BY <1>1, <2>2, <3>1, LastMember, ListTypes DEF Shape
    <2>4. lastPoc' = IF lastPoc <= last THEN last ELSE lastPoc
      <3>1. lastPoc' = Max({lastPoc, last})
        BY <2>1, <2>2 DEF PreProcess
      <3> QED
        BY <2>3, <3>1, LargerOf
    <2>5. CASE last > lastPoc
      <3>1. lastPoc' = last
        BY <2>3, <2>4, <2>5
      <3>2. SendAndFree(Pre, Marked(Pre), LinkPrevQpaBufs(last), {last}, Pics(Pre) \ KeptPics)
        BY <2>1, <2>2, <2>5 DEF PreProcess
      <3>3. Finishing(Pre, Marked(Pre), LinkPrevQpaBufs(last), {last}, Pics(Pre) \ KeptPics, last)
        BY <1>2, <2>3, <2>5, <3>1, <3>2, LinkFinishing
      <3> QED
        BY <1>1, <1>2, <1>3, <1>4, <3>3, CodingSent
    <2>6. CASE ~ (last > lastPoc)
      <3>1. lastPoc' = lastPoc
        BY <2>3, <2>4, <2>6
      <3>2. lastPoc = picsRcvd - 1
        BY <2>3, <2>6, LastIsNew
      <3>3. Marked(Pre)[last].flush
            /\ SendAndFree(Pre, Marked(Pre), FixStartOfLastGop, {}, Pics(Pre))
        BY <1>6, <2>1, <2>2, <2>6 DEF PreProcess
      <3>4. call.flush
        BY <1>1, <2>3, <3>3, MarkedSame DEF CallSafe
      <3>5. Finishing(Pre, Marked(Pre), FixStartOfLastGop, {}, Pics(Pre), 0)
        BY <1>2, <3>1, <3>2, <3>3, <3>4, PreFlushFinishing
      <3> QED
        BY <1>1, <1>2, <1>3, <1>4, <3>5, CodingSent
    <2> QED
      BY <2>5, <2>6
  <1> QED
    BY <1>5, <1>6

LEMMA CodingFilter ==
  ASSUME FlowSafe, CodingSafe, FilterPictures
  PROVE  CodingSafe'
  <1>1. Shape /\ Filter \in Stages /\ Filter # Gop
    BY StageNames DEF FlowSafe
  <1>2. /\ gop' = gop /\ busy' = busy /\ cfg' = cfg /\ call' = call /\ picsRcvd' = picsRcvd
        /\ lastPoc' = lastPoc /\ main' \in {"filter", "gop"}
    BY DEF FilterPictures, returned, Repeat, Skip
  <1>3. SameQueues
    BY <1>2 DEF SameQueues
  <1>4. \A p \in Pics(Filter) : SameCoding(Marked(Filter)[p], list[Filter][p])
    BY <1>1, MarkedCoding
  <1>5. CASE Ready(Filter) /\ HasNewPicture(Last(Filter, Pics(Filter)))
    <2>1. PICK last : last = Last(Filter, Pics(Filter))
      OBVIOUS
    <2>2. PICK free, wanted : /\ free = {p \in Pics(Filter) : p <= filterPoc - cfg.range}
                              /\ wanted = Filtered(last)
      OBVIOUS
    <2>3. SendAndFree(Filter, Marked(Filter), unit, wanted, free) /\ filterPoc' = filterPoc + 1
      BY <1>5, <2>1, <2>2 DEF FilterPictures
    <2>4. free \in SUBSET Pics(Filter)
      BY <2>2
    <2>5. Finishing(Filter, Marked(Filter), unit, wanted, free, filterPoc)
      BY <1>2, <2>2, <2>3, <2>4, FilterFinishing
    <2> QED
      BY <1>1, <1>2, <1>3, <1>4, <2>5, CodingSent
  <1>6. CASE ~ (Ready(Filter) /\ HasNewPicture(Last(Filter, Pics(Filter))))
    <2>1. list' = [list EXCEPT ![Filter] = Marked(Filter)]
      BY <1>6 DEF FilterPictures, Skip
    <2> QED
      BY <1>1, <1>2, <2>1, CodingMarked
  <1> QED
    BY <1>5, <1>6

LEMMA CodingRelease ==
  ASSUME FlowSafe, CodingSafe, ReleasePictures
  PROVE  CodingSafe'
  <1>1. Shape /\ Gop \in Stages /\ DOMAIN gop = {"input", "proc", "output", "lastCodingNum", "pocRecOut"}
    BY StageNames DEF FlowSafe, CodingSafe, Apart
  <1>2. busy' = busy /\ gop' = [gop EXCEPT !.pocRecOut = NextRecOut]
    BY DEF ReleasePictures
  <1>3. SameQueues
    BY <1>1, <1>2 DEF SameQueues
  <1>4. PICK wanted, free, d :
          /\ free = {p \in Pics(Gop) : AllPicsDone \/ Unneeded(Outputs[p])}
          /\ wanted = {call.au} \ {None} /\ d = call.au
    OBVIOUS
  <1>5. Finishing(Gop, Outputs, unit, wanted, free, d)
    BY <1>4, ReleaseFinishing
  <1>6. \A p \in Pics(Gop) : SameCoding(Outputs[p], list[Gop][p])
    BY <1>1, OutputsCoding
  <1>7. \A p \in free :
          list[Gop][p].finished
          /\ (list[Gop][p].refCount <= 0 \/ \A q \in Pics(Gop) : list[Gop][q].finished)
    <2> SUFFICES ASSUME NEW p \in Pics(Gop), AllPicsDone \/ Unneeded(Outputs[p])
                 PROVE  list[Gop][p].finished
                        /\ (list[Gop][p].refCount <= 0 \/ \A q \in Pics(Gop) : list[Gop][q].finished)
      BY <1>4
    <2>1. CASE AllPicsDone
      BY <2>1 DEF AllPicsDone, GopList
    <2>2. CASE Unneeded(Outputs[p])
      BY <1>1, <2>2, OutputsCoding
    <2> QED
      BY <2>1, <2>2
  <1> QED
    BY <1>1, <1>2, <1>3, <1>5, <1>6, <1>7, CodingSent

\* The steps that change the GOP encoder's own state.
LEMMA CodingDone ==
  ASSUME CodingSafe, NEW m, NEW g, NEW b, m = list'[Gop], g = gop', b = busy',
         \A i \in Stages : i # Gop => list'[i] = list[i],
         Apart(g, b), AllOpen(g, b, m), Referencing(m), Started(b, m)
  PROVE  CodingSafe'
  <1>1. Uncoded'
    BY DEF CodingSafe, Uncoded, Pics
  <1> QED
    BY <1>1 DEF CodingSafe

LEMMA TakeInputKeeps ==
  ASSUME NEW g, NEW b, NEW l, Apart(g, b), AllOpen(g, b, l)
  PROVE  Apart(TakeInput(g), b) /\ AllOpen(TakeInput(g), b, l)
  <1>1. CASE g.proc = <<>>
    <2>1. PICK t : t = TakeInput(g)
      OBVIOUS
    <2>2. /\ DOMAIN t = DOMAIN g /\ t.proc = g.input /\ t.input = <<>> /\ t.output = g.output
      BY <1>1, <2>1 DEF TakeInput, Apart
    <2>3. Apart(t, b) /\ AllOpen(t, b, l)
      BY <2>2, EmptyQueue DEF Apart, AllOpen
    <2> QED
      BY <2>1, <2>3
  <1>2. CASE g.proc # <<>>
    BY <1>2 DEF TakeInput
  <1> QED
    BY <1>1, <1>2

LEMMA CodingInitPicture ==
  ASSUME FlowSafe, Fed, CodingSafe, InitPicture
  PROVE  CodingSafe'
  <1>1. /\ Shape /\ DOMAIN list = Stages /\ Gop \in Stages
        /\ DOMAIN gop = {"input", "proc", "output", "lastCodingNum", "pocRecOut"}
    BY StageNames DEF FlowSafe, Shape, CodingSafe, Apart
  <1>2. PICK g, b, l : g = gop /\ b = busy /\ l = list[Gop]
    OBVIOUS
  <1>3. /\ Apart(g, b) /\ AllOpen(g, b, l) /\ Referencing(l) /\ Started(b, l) /\ busy' = b
        /\ IsFiniteSet(DOMAIN l) /\ DOMAIN l \subseteq Int
    BY <1>1, <1>2, ListTypes DEF CodingSafe, InitPicture, Pics
  <1>4. CASE NextToInit = {}
    <2>1. gop' = TakeInput(g) /\ list' = list
      BY <1>2, <1>4 DEF InitPicture, Encode
    <2>2. Apart(gop', b) /\ AllOpen(gop', b, l)
      BY <1>3, <2>1, TakeInputKeeps
    <2> QED
      BY <1>2, <1>3, <2>1, <2>2, CodingDone
  <1>5. CASE NextToInit # {}
    <2>1. PICK p \in NextToInit :
            /\ list' = [list EXCEPT ![Gop] = InitFirstSlice(p)]
            /\ \/ gop' = TakeInput([gop EXCEPT !.input = Append(@, p), !.output = Append(@, p),
                                               !.lastCodingNum = CodingNum(p)])
               \/ gop' = [gop EXCEPT !.input = Append(@, p), !.output = Append(@, p),
                                     !.lastCodingNum = CodingNum(p)]
      BY <1>5 DEF InitPicture, Encode
    <2>2. PICK h, m, s :
            /\ h = [gop EXCEPT !.input = Append(@, p), !.output = Append(@, p),
                               !.lastCodingNum = CodingNum(p)]
            /\ m = InitFirstSlice(p) /\ s = Rpl(p) \cap cfg.refs[p]
      OBVIOUS
    <2>3. p \in Pics(Gop) /\ ~ l[p].init /\ p \in DOMAIN l /\ p \in Int
      BY <1>2, <1>3 DEF NextToInit, Uninitialized, GopList, Pics
    <2>4. list'[Gop] = m /\ \A i \in Stages : i # Gop => list'[i] = list[i]
      BY <1>1, <2>1, <2>2
    <2>5. Initialized(l, m, p, s) /\ s \subseteq DOMAIN l
      <3>1. p \notin cfg.refs[p]
        <4>1. p \in 0 .. Frames /\ CodingNum(p) \in Nat
              /\ (p \in cfg.refs[p] => CodingNum(p) < CodingNum(p))
          BY <2>3, CodingNumbers
        <4> QED
          BY <4>1
      <3>2. s \subseteq DOMAIN l /\ p \notin s
        BY <1>2, <2>2, <3>1 DEF Rpl, Pics
      <3>3. /\ DOMAIN m = Pics(Gop) /\ m[p].init /\ m[p].refs = s
            /\ m[p].refCount = list[Gop][p].refCount
            /\ \A q \in Pics(Gop) : q # p =>
                 /\ m[q].init = list[Gop][q].init /\ m[q].refs = list[Gop][q].refs
                 /\ m[q].refCount = list[Gop][q].refCount + (IF q \in s THEN 1 ELSE 0)
            /\ \A q \in Pics(Gop) :
                 m[q].recon = list[Gop][q].recon /\ m[q].finished = list[Gop][q].finished
        BY <1>1, <2>2, <2>3, InitFirstSliceList
      <3>4. list[Gop][p].refCount \in Int
        BY <1>1, <2>3, ListTypes, PicFields
      <3>5. \A q \in DOMAIN l : m[q].refCount = l[q].refCount + (IF q \in s THEN 1 ELSE 0)
        <4> TAKE q \in DOMAIN l
        <4>1. CASE q = p
          BY <4>1, <1>2, <2>3, <3>2, <3>3, <3>4
        <4>2. CASE q # p
          BY <4>2, <1>2, <3>3 DEF Pics
        <4> QED
          BY <4>1, <4>2
      <3> QED
        BY <1>2, <2>3, <3>2, <3>3, <3>5 DEF Initialized, Pics
    <2>6. /\ AllOpen(g, b, m) /\ Referencing(m) /\ Started(b, m)
          /\ Open(m) = Open(l) \cup {p} /\ p \notin Open(l) /\ ~ m[p].recon
      BY <1>3, <2>5, InitializedKeeps
    <2>7. /\ p \notin Members(g.input) /\ p \notin Members(g.proc) /\ p \notin Members(g.output)
          /\ p \notin b
      BY <1>3, <2>6 DEF AllOpen
    <2>8. /\ DOMAIN h = DOMAIN g /\ h.input = Append(g.input, p) /\ h.proc = g.proc
          /\ h.output = Append(g.output, p)
      BY <1>1, <1>2, <2>2
    <2>9. /\ OneEach(h.input) /\ Members(h.input) = Members(g.input) \cup {p}
          /\ OneEach(h.output) /\ Members(h.output) = Members(g.output) \cup {p}
      BY <1>3, <2>3, <2>7, <2>8, Appended DEF Apart
    <2>10. Apart(h, b)
      BY <1>3, <2>7, <2>8, <2>9 DEF Apart
    <2>11. AllOpen(h, b, m)
      BY <2>6, <2>8, <2>9 DEF AllOpen
    <2>12. Apart(gop', b) /\ AllOpen(gop', b, m)
      BY <2>1, <2>2, <2>10, <2>11, TakeInputKeeps
    <2> QED
      BY <1>3, <2>4, <2>6, <2>12, CodingDone
  <1> QED
    BY <1>4, <1>5

\* A picture's encoder is done.
LEMMA ReconstructedList ==
  ASSUME Shape, NEW p \in Pics(Gop), NEW m, list' = [list EXCEPT ![Gop][p].recon = TRUE],
         m = list'[Gop]
  PROVE  /\ Reconstructed(list[Gop], m, p)
         /\ \A i \in Stages : i # Gop => list'[i] = list[i]
  <1>1. /\ DOMAIN list = Stages /\ Gop \in Stages
        /\ list[Gop] \in [Pics(Gop) -> PicRec]
    BY ListTypes, StageNames DEF Shape
  <1>2. PICK l, r : l = list[Gop] /\ r = list[Gop][p]
    OBVIOUS
  <1>3. m = [l EXCEPT ![p] = [r EXCEPT !.recon = TRUE]]
    BY <1>1, <1>2
  <1>4. r \in PicRec /\ DOMAIN l = Pics(Gop)
    BY <1>1, <1>2
  <1>5. PICK x : x = [r EXCEPT !.recon = TRUE]
    OBVIOUS
  <1>6. /\ x.recon /\ x.init = r.init /\ x.finished = r.finished /\ x.refs = r.refs
        /\ x.refCount = r.refCount
    BY <1>4, <1>5, ReconUpdate
  <1>7. DOMAIN m = DOMAIN l /\ m[p] = x /\ \A q \in DOMAIN l : q # p => m[q] = l[q]
    BY <1>3, <1>4, <1>5
  <1>8. Reconstructed(l, m, p)
    BY <1>2, <1>6, <1>7 DEF Reconstructed
  <1> QED
    BY <1>1, <1>2, <1>8

LEMMA CodingEncodePicture ==
  ASSUME FlowSafe, CodingSafe, EncodePicture
  PROVE  CodingSafe'
  <1>1. /\ Shape /\ DOMAIN list = Stages /\ Gop \in Stages
        /\ DOMAIN gop = {"input", "proc", "output", "lastCodingNum", "pocRecOut"}
    BY StageNames DEF FlowSafe, Shape, CodingSafe, Apart
  <1>2. PICK g, b, l : g = gop /\ b = busy /\ l = list[Gop]
    OBVIOUS
  <1>3. Apart(g, b) /\ AllOpen(g, b, l) /\ Referencing(l) /\ Started(b, l)
    BY <1>2 DEF CodingSafe
  <1>4. PICK n \in ReadyToEncode : n = Min(ReadyToEncode)
    <2>1. ReadyToEncode \in SUBSET Nat /\ ReadyToEncode # {}
      <3>1. gop.proc \in Seq(Int)
        BY <1>2, <1>3 DEF Apart, OneEach
      <3>2. DOMAIN gop.proc \subseteq Nat
        BY <3>1, LenProperties
      <3> QED
        BY <3>2 DEF ReadyToEncode, EncodePicture, CanStart
    <2>2. \E k \in ReadyToEncode : \A j \in ReadyToEncode : j >= k
      <3>1. PICK k \in ReadyToEncode : \A j \in ReadyToEncode : k <= j
        BY <2>1, LeastMember
      <3> QED
        BY <2>1, <3>1
    <2>3. Min(ReadyToEncode) \in ReadyToEncode
      BY <2>2 DEF Min
    <2> QED
      BY <2>3
  <1>5. PICK p : p = g.proc[n]
    OBVIOUS
  <1>6. n \in DOMAIN g.proc /\ p \in Members(g.proc) /\ \A r \in l[p].refs : l[r].recon
    BY <1>2, <1>4, <1>5 DEF ReadyToEncode, RefPicsReconstructed, GopList, Members
  <1>7. PICK t : t = SubSeq(g.proc, 1, n - 1) \o SubSeq(g.proc, n + 1, Len(g.proc))
    OBVIOUS
  <1>8. OneEach(t) /\ Members(t) = Members(g.proc) \ {p}
    BY <1>3, <1>5, <1>6, <1>7, Removed DEF Apart
  <1>9. /\ gop' = [gop EXCEPT !.proc = t]
        /\ IF cfg.threads THEN busy' = busy \cup {p} /\ UNCHANGED list
           ELSE list' = [list EXCEPT ![Gop][p].recon = TRUE] /\ UNCHANGED busy
    <2>1. /\ gop' = [gop EXCEPT !.proc = SubSeq(@, 1, n - 1) \o SubSeq(@, n + 1, Len(@))]
          /\ IF cfg.threads THEN busy' = busy \cup {gop.proc[n]} /\ UNCHANGED list
             ELSE list' = [list EXCEPT ![Gop][gop.proc[n]].recon = TRUE] /\ UNCHANGED busy
      BY <1>4 DEF EncodePicture
    <2> QED
      BY <2>1, <1>2, <1>5, <1>7
  <1>10. PICK h : h = gop'
    OBVIOUS
  <1>11. /\ DOMAIN h = DOMAIN g /\ h.input = g.input /\ h.proc = t /\ h.output = g.output
    BY <1>1, <1>2, <1>9, <1>10
  <1>12. p \in Open(l) /\ p \notin b /\ p \notin Members(g.input) /\ p \in Pics(Gop)
    BY <1>2, <1>3, <1>6 DEF AllOpen, Apart, Open, Pics
  <1>13. CASE cfg.threads
    <2>1. busy' = b \cup {p} /\ list' = list
      BY <1>2, <1>9, <1>13
    <2>2. Apart(h, b \cup {p})
      BY <1>3, <1>8, <1>11, <1>12 DEF Apart
    <2>3. AllOpen(h, b \cup {p}, l)
      BY <1>3, <1>6, <1>8, <1>11 DEF AllOpen
    <2>4. Started(b \cup {p}, l)
      BY <1>3, <1>6 DEF Started
    <2> QED
      BY <1>2, <1>3, <1>10, <2>1, <2>2, <2>3, <2>4, CodingDone
  <1>14. CASE ~ cfg.threads
    <2>1. list' = [list EXCEPT ![Gop][p].recon = TRUE] /\ busy' = b
      BY <1>2, <1>9, <1>14
    <2>2. PICK m : m = list'[Gop]
      OBVIOUS
    <2>3. Reconstructed(l, m, p) /\ \A i \in Stages : i # Gop => list'[i] = list[i]
      BY <1>1, <1>2, <1>12, <2>1, <2>2, ReconstructedList
    <2>4. Apart(h, b)
      BY <1>3, <1>8, <1>11 DEF Apart
    <2>5. AllOpen(h, b, l) /\ p \notin Members(h.input) /\ p \notin Members(h.proc)
      BY <1>3, <1>8, <1>11, <1>12 DEF AllOpen
    <2>6. AllOpen(h, b, m) /\ Referencing(m) /\ Started(b, m)
      BY <1>3, <1>12, <2>3, <2>5, ReconstructedKeeps
    <2> QED
      BY <1>10, <2>1, <2>2, <2>3, <2>4, <2>6, CodingDone
  <1> QED
    BY <1>13, <1>14

LEMMA CodingFinishPicture ==
  ASSUME FlowSafe, CodingSafe, NEW p \in busy, FinishPicture(p)
  PROVE  CodingSafe'
  <1>1. Shape
    BY DEF FlowSafe
  <1>2. PICK g, b, l, m : g = gop /\ b = busy \ {p} /\ l = list[Gop] /\ m = list'[Gop]
    OBVIOUS
  <1>3. /\ Apart(g, busy) /\ AllOpen(g, busy, l) /\ Referencing(l) /\ Started(busy, l)
        /\ list' = [list EXCEPT ![Gop][p].recon = TRUE] /\ gop' = g /\ busy' = b
    BY <1>2 DEF CodingSafe, FinishPicture
  <1>4. /\ p \in Open(l) /\ p \notin Members(g.input) /\ p \notin Members(g.proc)
        /\ p \in Pics(Gop) /\ p \notin b
    BY <1>2, <1>3 DEF AllOpen, Apart, Open, Pics
  <1>5. Reconstructed(l, m, p) /\ \A i \in Stages : i # Gop => list'[i] = list[i]
    BY <1>1, <1>2, <1>3, <1>4, ReconstructedList
  <1>6. Apart(g, b) /\ AllOpen(g, b, l) /\ Started(b, l)
    BY <1>2, <1>3 DEF Apart, AllOpen, Started
  <1>7. AllOpen(g, b, m) /\ Referencing(m) /\ Started(b, m)
    BY <1>3, <1>4, <1>5, <1>6, ReconstructedKeeps
  <1> QED
    BY <1>2, <1>3, <1>5, <1>6, <1>7, CodingDone

LEMMA CodingWrite ==
  ASSUME FlowSafe, CodingSafe, WriteAccessUnit
  PROVE  CodingSafe'
  <1>1. /\ Shape /\ DOMAIN list = Stages /\ Gop \in Stages
        /\ DOMAIN gop = {"input", "proc", "output", "lastCodingNum", "pocRecOut"}
    BY StageNames DEF FlowSafe, Shape, CodingSafe, Apart
  <1>2. PICK g, b, l : g = gop /\ b = busy /\ l = list[Gop]
    OBVIOUS
  <1>3. /\ Apart(g, b) /\ AllOpen(g, b, l) /\ Referencing(l) /\ Started(b, l) /\ busy' = b
        /\ IsFiniteSet(DOMAIN l)
    BY <1>1, <1>2, ListTypes DEF CodingSafe, WriteAccessUnit, Pics
  <1>4. CASE ~ OutputReady
    <2>1. list' = list /\ gop' = g
      BY <1>2, <1>4 DEF WriteAccessUnit
    <2> QED
      BY <1>2, <1>3, <2>1, CodingDone
  <1>5. CASE OutputReady
    <2>1. PICK p, m : p = Head(gop.output) /\ m = WrittenList(p)
      OBVIOUS
    <2>2. list' = [list EXCEPT ![Gop] = m] /\ gop' = [gop EXCEPT !.output = Tail(@)]
      BY <1>5, <2>1 DEF WriteAccessUnit, WrittenList
    <2>3. list'[Gop] = m /\ \A i \in Stages : i # Gop => list'[i] = list[i]
      BY <1>1, <2>2
    <2>4. g.output # <<>> /\ l[p].recon /\ OneEach(g.output)
      BY <1>2, <1>3, <1>5, <2>1 DEF OutputReady, GopList, Apart
    <2>5. PICK h : h = gop'
      OBVIOUS
    <2>6. /\ DOMAIN h = DOMAIN g /\ h.input = g.input /\ h.proc = g.proc
          /\ h.output = Tail(g.output)
      BY <1>1, <1>2, <2>2, <2>5
    <2>7. /\ OneEach(h.output) /\ Members(h.output) = Members(g.output) \ {p}
          /\ p \in Members(g.output)
      BY <1>2, <2>1, <2>4, <2>6, Tailed
    <2>8. Apart(h, b)
      BY <1>3, <2>6, <2>7 DEF Apart
    <2>9. AllOpen(h, b, l) /\ p \in Open(l)
      BY <1>3, <2>6, <2>7 DEF AllOpen
    <2>10. Written(l, m, p)
      BY <1>1, <1>2, <2>1, <2>9, WrittenListIs DEF Written, Pics
    <2>11. AllOpen(h, b, m) /\ Referencing(m) /\ Started(b, m)
      BY <1>3, <2>4, <2>7, <2>9, <2>10, WrittenKeeps
    <2> QED
      BY <1>3, <2>3, <2>5, <2>8, <2>11, CodingDone
  <1> QED
    BY <1>4, <1>5

LEMMA CodingStartGop ==
  ASSUME FlowSafe, CodingSafe, StartGop
  PROVE  CodingSafe'
  <1>1. /\ gop' = gop /\ busy' = busy /\ Gop \in Stages
        /\ list' = [list EXCEPT ![Gop] = Marked(Gop)]
    BY StageNames DEF StartGop
  <1> QED
    BY <1>1, CodingMarked

LEMMA CodingQuiet ==
  ASSUME FlowSafe, CodingSafe, gop' = gop, busy' = busy, list' = list
  PROVE  CodingSafe'
  <1>1. Uncoded'
    BY DEF CodingSafe, Uncoded, Pics
  <1> QED
    BY <1>1, CodingElsewhere DEF FlowSafe

LEMMA CodingNext ==
  FlowSafe /\ Fed /\ CodingSafe /\ [Next]_vars => CodingSafe'
  <1> SUFFICES ASSUME FlowSafe, Fed, CodingSafe, [Next]_vars PROVE CodingSafe'
    OBVIOUS
  <1>1. CASE EncodeFrame \/ EncodeFlush \/ EndEncode \/ EndOfStages \/ UNCHANGED vars
    <2>1. gop' = gop /\ busy' = busy /\ list' = list
      BY <1>1 DEF EncodeFrame, EncodeFlush, EndEncode, EndOfStages, vars, stages
    <2> QED
      BY <2>1, CodingQuiet
  <1>2. CASE \E p \in busy : FinishPicture(p)
    BY <1>2, CodingFinishPicture
  <1>3. CASE RunStages
    BY <1>1, <1>3, CodingAddInput, CodingPreProcess, CodingFilter, CodingStartGop,
       CodingInitPicture, CodingEncodePicture, CodingWrite, CodingRelease DEF RunStages
  <1> QED
    BY <1>1, <1>2, <1>3 DEF Next, Done

-----------------------------------------------------------------------------
(***************************************************************************)
(* The results.                                                            *)
(***************************************************************************)

\* The queues, the reference counts and the running picture encoders of the GOP
\* encoder agree in every reachable state.
THEOREM CodingInvariant ==
  Spec => [](FlowSafe /\ Fed /\ CodingSafe)
  <1>1. Init => FlowSafe /\ Fed /\ CodingSafe
    BY FlowInit, FedInit, CodingInit
  <1>2. FlowSafe /\ Fed /\ CodingSafe /\ [Next]_vars => (FlowSafe /\ Fed /\ CodingSafe)'
    BY FlowNext, FedNext, CodingNext
  <1> QED
    BY <1>1, <1>2, PTL DEF Spec

\* A picture whose slice header is written and whose access unit is not finds its
\* references in the GOP encoder's list, and a running picture encoder finds them
\* reconstructed (EncGOP.cpp:718), for any GOP whose references are coded before
\* they are used and any number of picture encoders.
THEOREM ReferencesKept ==
  Spec => []ReferencesHeld
  <1>1. FlowSafe /\ Fed /\ CodingSafe => ReferencesHeld
    BY DEF CodingSafe, Referencing, AllHeld, Open, Started, ReferencesHeld, GopList, Pics
  <1> QED
    BY <1>1, CodingInvariant, PTL

LEMMA CodingTypes ==
  ASSUME FlowSafe, Fed, CodingSafe
  PROVE  TypeOK
  <1>1. Shape /\ Linked /\ UnitsCounted /\ Stages = {Pre, Filter, Gop}
    BY DEF FlowSafe, Stages
  <1>2. \A i \in Stages : IsFiniteSet(Pics(i))
    BY <1>1, ListTypes
  <1>3. ASSUME NEW u \in DOMAIN unit
        PROVE  unit[u].refCount \in Nat /\ unit[u].prev \subseteq DOMAIN unit
    <2>1. \A i \in Stages : Uses(list[i], u) \in Nat
      BY <1>2, UsesType DEF Pics
    <2> QED
      BY <1>1, <2>1 DEF Linked, UnitsCounted
  <1>4. ASSUME NEW i \in Stages, NEW p \in Pics(i)
        PROVE  list[i][p].unit \in DOMAIN unit /\ list[i][p].refCount \in Nat
    <2>1. list[i][p].unit \in DOMAIN unit
      BY <1>1 DEF Linked, Links
    <2>2. CASE i = Gop
      <3>1. Needing(list[Gop], p) \subseteq Pics(Gop)
        BY DEF Needing, Open, Pics
      <3>2. Cardinality(Needing(list[Gop], p)) \in Nat
        BY <1>1, <1>2, <3>1, FS_Subset, FS_CardinalityType
      <3>3. list[Gop][p].refCount = Cardinality(Needing(list[Gop], p))
        BY <2>2 DEF CodingSafe, Referencing, Counted, Pics
      <3> QED
        BY <2>1, <2>2, <3>2, <3>3
    <2>3. CASE i # Gop
      BY <2>1, <2>3 DEF CodingSafe, Uncoded, Fresh
    <2> QED
      BY <2>2, <2>3
  <1>5. \A p \in busy : p \in Pics(Gop)
    BY DEF CodingSafe, AllOpen, Open, Pics
  <1> QED
    BY <1>3, <1>4, <1>5 DEF TypeOK, Fed

\* The shapes of the state hold, and no reference count, of a shared unit or of
\* a picture, ever is negative.
THEOREM TypeCorrect ==
  Spec => []TypeOK
  <1> QED
    BY CodingInvariant, CodingTypes, PTL

=============================================================================
