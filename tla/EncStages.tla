------------------------------ MODULE EncStages ------------------------------
(***************************************************************************)
(* The encoder's pipeline of stages: EncLib::encodePicture drives the      *)
(* pre-processing, the temporal filter and the GOP encoder over one list   *)
(* of shared picture units, whose reference counts say when an input       *)
(* frame's memory may take the next frame.  The GOP encoder starts picture *)
(* encoders on the thread pool; in stage-parallel mode it does not wait    *)
(* for them, and encodePicture waits instead when it has no unit for its   *)
(* input or no access unit to return.                                      *)
(***************************************************************************)
EXTENDS Integers, Sequences, FiniteSetsExt, TLC

CONSTANTS
  NumPrevFrames,  \* NUM_QPA_PREV_FRAMES
  Configs         \* the encoder configurations and inputs

\* A configuration: the GOP structure (size, reorder, and per frame the coding
\* number, group, active references and reference picture list), whether there
\* are threads, m_maxParallelFrames, lead frames and frames to be encoded (0: no
\* limit), whether the caller takes reconstructed pictures, and after how many
\* frames it may begin to flush.  VVENC_MCTF_RANGE (6), the units added to
\* m_maxNumPicShared after all others (3) and the access units kept back in
\* stage-parallel mode (4) are scaled with it: range, extra and delay.
ASSUME EncStagesAssumption ==
  /\ NumPrevFrames \in Nat
  /\ \A c \in Configs :
       /\ c.size \in Nat \ {0}
       /\ {c.reorder, c.parallel, c.lead, c.toEncode, c.range, c.extra, c.delay} \subseteq Nat
       /\ c.lead <= 64                   \* VVENC_MAX_GOP, vvencCfg.cpp
       /\ {c.threads, c.rec} \subseteq BOOLEAN
       /\ c.parallel > 0 => c.threads
       /\ c.stops \subseteq Nat
       /\ \E m \in c.stops : \A s \in c.stops : s <= m

\* GOPCfg gives every frame a coding number of its own, and references that
\* are coded before it.  The frame that is coded first is in the first group,
\* and so are those before it.
ASSUME EncStagesGopAssumption ==
  \A c \in Configs : \A s \in c.stops : \A p, q \in 0..s :
    /\ c.codingNum[p] \in Nat
    /\ c.codingNum[p] = c.codingNum[q] => p = q
    /\ q \in c.refs[p] => c.codingNum[q] < c.codingNum[p]
    /\ (\A r \in 0..p : c.codingNum[r] # 0) => c.group[p] = 0

VARIABLES
  cfg,          \* the configuration
  unit,         \* m_picSharedList: [poc, prev, intra, refCount] of each PicShared
  list,         \* m_procList of each stage: its pictures by picture order count
  flushSeen,    \* m_flush of each stage
  lastPoc,      \* PreProcess::m_lastPoc
  filterPoc,    \* MCTF::m_filterPoc
  lastPicIn,    \* MCTF::m_lastPicIn, as its picture order count
  gop,          \* EncGOP: lists and counters of the GOP encoder
  busy,         \* the pictures whose picture encoder is running
  main,         \* where the caller's thread is
  call,         \* encodePicture: flush, inputPending, au
  picsRcvd,     \* EncLib::m_picsRcvd
  auList,       \* EncLib::m_AuList
  started,      \* EncLib::m_accessUnitOutputStarted
  delivered,    \* the access units the caller has got
  ok            \* no CHECK has failed

stages    == <<unit, list, flushSeen>>
looking   == <<lastPoc, filterPoc, lastPicIn>>
returned  == <<picsRcvd, auList, started, delivered>>
vars == <<cfg, stages, looking, gop, busy, main, call, returned, ok>>

Pre    == 1
Filter == 2
Gop    == 3
Stages == {Pre, Filter, Gop}
None   == -1000    \* no picture

-----------------------------------------------------------------------------
(* The configuration.                                                      *)

StageParallel == cfg.threads /\ cfg.parallel > 0
NumEncoders ==  Max({1, cfg.parallel})
LeadFrames    == Min({cfg.range, cfg.lead})
MinQueueSize  == <<1, LeadFrames + 1 + cfg.range, cfg.size + 1>>
StartPoc      == <<-cfg.lead, -LeadFrames, 0>>
NonBlocking(i) == i = Gop /\ StageParallel
Frames == Max(cfg.stops)
MaxNumPicShared ==
  1 + (MinQueueSize[Filter] - LeadFrames) + MinQueueSize[Gop] + cfg.reorder + cfg.extra

IsLeadTrail(p) == p < 0 \/ (cfg.toEncode > 0 /\ p >= cfg.toEncode)
CodingNum(p)   == IF p < 0 THEN p ELSE cfg.codingNum[p]
Accepts(i, p)  == p >= StartPoc[i] /\ (i = Gop => ~IsLeadTrail(p))

\* A stage's list is sorted by order count, the GOP encoder's by coding number.
Key(i, p) == IF i = Gop THEN CodingNum(p) ELSE p
First(i, pics) == CHOOSE p \in pics : \A q \in pics : Key(i, p) <= Key(i, q)
Last(i, pics)  == CHOOSE p \in pics : \A q \in pics : Key(i, q) <= Key(i, p)
Pics(i) == DOMAIN list[i]

-----------------------------------------------------------------------------
(* Shared units and the pictures that hold them.  The lists l and units un *)
(* are those of the state, or as a stage has just changed them.            *)

\* addPicSorted: a stage that does not want the picture hands it on.
Takers(i, p) ==
  {j \in Stages : j >= i /\ Accepts(j, p) /\ \A k \in i..(j - 1) : ~Accepts(k, p)}

NewPicture(u, prev) ==
  [unit |-> u, prev |-> prev, flush |-> call.flush, init |-> FALSE, recon |-> FALSE,
   finished |-> FALSE, output |-> TRUE, referenced |-> TRUE, refs |-> {}, refCount |-> 0]

\* In a non-blocking stage the flush signal spreads to the pictures after the
\* new one; their coding must not have begun.
FlushedBy(j, p) == {q \in Pics(j) : NonBlocking(j) /\ call.flush /\ Key(j, p) < Key(j, q)}
Insert(j, p, pic) ==
  [q \in Pics(j) \cup {p} |->
     IF q = p THEN pic
     ELSE [list[j][q] EXCEPT !.flush = @ \/ q \in FlushedBy(j, p)]]
InsertCheck(j, p) == \A q \in FlushedBy(j, p) : ~list[j][q].init

\* shareData: the new picture's uses of unit v.  A plausible fault: the units of
\* the previous frames are not counted.
OwnUse(v, u, prev)   == IF v = u THEN 1 ELSE 0
SharedUse(v, u, prev) == (IF v = u THEN 1 ELSE 0) + (IF v \in prev THEN 1 ELSE 0)

\* releasePrevBuffers: a picture's use of unit v as a previous frame.  A
\* plausible fault: the picture forgets it without giving it back.
NoUse(un, pic, v)   == FALSE
PrevUse(un, pic, v) == v \in un[pic.unit].prev \cap pic.prev

\* The end of runStage's loop: done pictures, one at most, release their
\* previous frames and go to the next stage; free ones release their units and
\* leave the list.
SendAndFree(i, l, un, wanted, free) ==
  LET done == wanted \cap DOMAIN l
      to == UNION {Takers(i + 1, p) : p \in done}
      releasedFirst(v) == Cardinality({p \in done : PrevUse(un, l[p], v)})
      released(v) ==
        releasedFirst(v)
        + Cardinality({p \in free \ done : PrevUse(un, l[p], v)})
        + Cardinality({p \in free : l[p].unit = v})
      shared(v) == IF to = {} THEN 0
                   ELSE LET u == l[CHOOSE p \in done : TRUE].unit IN SharedUse(v, u, un[u].prev)
      sent(j, p) == Insert(j, p, NewPicture(l[p].unit, un[l[p].unit].prev))
  IN /\ unit' = [v \in DOMAIN un |-> [un[v] EXCEPT !.refCount = @ - released(v) + shared(v)]]
     /\ list' = [j \in Stages |->
          IF j = i THEN [p \in DOMAIN l \ free |->
                           IF p \in done THEN [l[p] EXCEPT !.prev = {}] ELSE l[p]]
          ELSE IF j \in to THEN sent(j, CHOOSE p \in done : TRUE)
          ELSE list[j]]
     /\ ok' = /\ ok
              /\ wanted \subseteq DOMAIN l
              /\ \A v \in DOMAIN un : /\ un[v].refCount >= releasedFirst(v)
                                      /\ un[v].refCount + shared(v) >= released(v)
              /\ \A j \in to : \A p \in done : InsertCheck(j, p)

-----------------------------------------------------------------------------
(* runStage.                                                               *)

\* The first flush marks all pictures of a blocking stage, and the last one
\* in coding order of a non-blocking one.  A plausible fault: the stages share
\* the memory of the flush.
SeesSharedFlush(i, p) == call.flush /\ \A j \in Stages : ~flushSeen[j]
SeesFlush(i, p) ==
  /\ call.flush /\ ~flushSeen[i]
  /\ NonBlocking(i) => p = Last(i, Pics(i))
Marked(i) == [p \in Pics(i) |-> [list[i][p] EXCEPT !.flush = @ \/ SeesFlush(i, p)]]
FirstFlush(i) == flushSeen' = [flushSeen EXCEPT ![i] = @ \/ call.flush]

Ready(i) ==
  \/ Cardinality(Pics(i)) >= MinQueueSize[i]
  \/ Pics(i) # {} /\ call.flush

\* All but the last stage are run until they are empty when flushing.
Repeat(i, here, next) ==
  main' = IF call.flush /\ DOMAIN list'[i] # {} THEN here ELSE next
Skip(i, next) ==
  /\ list' = [list EXCEPT ![i] = Marked(i)]
  /\ main' = next
  /\ UNCHANGED <<unit, ok>>

-----------------------------------------------------------------------------
(* PreProcess::processPictures.                                            *)

\* The frames directly before p, or p itself when there is none.
PrevPics(p) ==
  LET before == {q \in (p - NumPrevFrames)..(p - 1) : q..(p - 1) \subseteq Pics(Pre)}
  IN IF before = {} THEN {p} ELSE before

StartOfLastGop ==
  LET coded == {p \in Pics(Pre) : ~IsLeadTrail(p)}
      group == cfg.group[Last(Gop, coded)]
  IN IF coded = {} THEN {} ELSE {First(Gop, {p \in coded : cfg.group[p] = group})}

\* A plausible fault: only the start of the group is kept.
KeepStartOnly == {Last(Pre, Pics(Pre))} \cup StartOfLastGop
KeptPics ==
  {q \in Pics(Pre) : Cardinality({r \in Pics(Pre) : r > q}) < NumPrevFrames} \cup StartOfLastGop

LinkPrevQpaBufs(p) ==
  [unit EXCEPT ![list[Pre][p].unit] =
     [@ EXCEPT !.prev = IF IsLeadTrail(p) THEN {} ELSE {list[Pre][q].unit : q \in PrevPics(p)},
               !.intra = p >= 0 /\ CodingNum(p) = 0]]

\* The start of an incomplete first group becomes the intra picture.  A
\* plausible fault: it does not.
LeaveStartOfLastGop == unit
FixStartOfLastGop ==
  [v \in DOMAIN unit |->
     [unit[v] EXCEPT !.intra = @ \/ \E p \in StartOfLastGop :
                                      list[Pre][p].unit = v /\ cfg.group[p] = 0]]

PreProcess ==
  /\ main = "pre"
  /\ FirstFlush(Pre)
  /\ IF ~Ready(Pre) THEN Skip(Pre, "filter") /\ UNCHANGED lastPoc
     ELSE LET last == Last(Pre, Pics(Pre))
          IN /\ lastPoc' = Max({lastPoc, last})
             /\ IF last > lastPoc
                THEN SendAndFree(Pre, Marked(Pre), LinkPrevQpaBufs(last), {last},
                                 Pics(Pre) \ KeptPics)
                ELSE IF Marked(Pre)[last].flush
                THEN SendAndFree(Pre, Marked(Pre), FixStartOfLastGop, {}, Pics(Pre))
                ELSE list' = [list EXCEPT ![Pre] = Marked(Pre)] /\ UNCHANGED <<unit, ok>>
             /\ Repeat(Pre, "pre", "filter")
  /\ UNCHANGED <<cfg, filterPoc, lastPicIn, gop, busy, call, returned>>

-----------------------------------------------------------------------------
(* MCTF::processPictures.                                                  *)

\* One frame is filtered when a new one has come in, with the frames up to
\* cfg.range before and after it.
Filtered(last) ==
  IF filterPoc <= last /\ (cfg.toEncode <= 0 \/ filterPoc < cfg.toEncode)
  THEN {filterPoc} ELSE {}

\* A plausible fault: the frame is filtered again though nothing is new.
RunAgain(last)      == TRUE
HasNewPicture(last) == lastPicIn # last \/ Marked(Filter)[last].flush

FilterPictures ==
  /\ main = "filter"
  /\ FirstFlush(Filter)
  /\ LET last == Last(Filter, Pics(Filter))
     IN IF Ready(Filter) /\ HasNewPicture(last)
        THEN /\ SendAndFree(Filter, Marked(Filter), unit, Filtered(last),
                            {p \in Pics(Filter) : p <= filterPoc - cfg.range})
             /\ filterPoc' = filterPoc + 1
             /\ lastPicIn' = last
             /\ Repeat(Filter, "filter", "gop")
        ELSE /\ IF Ready(Filter)
                THEN /\ list' = [list EXCEPT ![Filter] = Marked(Filter)]
                     /\ Repeat(Filter, "filter", "gop")
                     /\ UNCHANGED <<unit, ok>>
                ELSE Skip(Filter, "gop")
             /\ UNCHANGED <<filterPoc, lastPicIn>>
  /\ UNCHANGED <<cfg, lastPoc, gop, busy, call, returned>>

-----------------------------------------------------------------------------
(* EncGOP::processPictures.                                                *)

GopList == list[Gop]

StartGop ==
  /\ main = "gop"
  /\ FirstFlush(Gop)
  /\ list' = [list EXCEPT ![Gop] = Marked(Gop)]
  /\ ok' = (ok /\ (Ready(Gop) /\ cfg.parallel = 0 => gop.input = <<>> /\ gop.output = <<>>))
  /\ main' = IF Ready(Gop) THEN "init" ELSE "end"
  /\ UNCHANGED <<cfg, unit, looking, gop, busy, call, returned>>

\* xInitPicsInCodingOrder: gaps in the coding numbers are jumped over only
\* when the last picture has seen the flush signal.
Uninitialized == {p \in Pics(Gop) : ~GopList[p].init}
\* A plausible fault: gaps are always jumped over.
FirstToInit == {p \in Uninitialized : p = First(Gop, Uninitialized)}
NextToInit ==
  {p \in Uninitialized :
     /\ p = First(Gop, Uninitialized)
     /\ \/ CodingNum(p) = gop.lastCodingNum + 1
        \/ GopList[Last(Gop, Pics(Gop))].flush}

\* xInitFirstSlice: the active references are counted; the pictures that are
\* not in the reference picture lists are no longer used for reference.
InitFirstSlice(p) ==
  LET intra == unit[GopList[p].unit].intra
      rpl  == IF intra THEN {} ELSE {q \in cfg.rpl[p] \cap Pics(Gop) : GopList[q].referenced}
      refs == rpl \cap cfg.refs[p]
  IN [q \in Pics(Gop) |->
        IF q = p THEN [GopList[p] EXCEPT !.init = TRUE, !.refs = refs]
        ELSE [GopList[q] EXCEPT
                !.refCount = @ + (IF q \in refs THEN 1 ELSE 0),
                !.referenced = @ /\ (q \in rpl \/ ~GopList[q].init)]]

\* xGetProcessingLists without rate control: all of the input list.
TakeInput(g) ==
  IF g.proc = <<>> THEN [g EXCEPT !.proc = g.input, !.input = <<>>] ELSE g
Encode(g) ==
  /\ gop' = TakeInput(g)
  /\ main' = IF gop'.proc = <<>> THEN "output" ELSE "encode"

InitPicture ==
  /\ main = "init"
  /\ IF NextToInit = {} THEN Encode(gop) /\ UNCHANGED <<list, ok>>
     ELSE \E p \in NextToInit :
       LET g == [gop EXCEPT !.input = Append(@, p), !.output = Append(@, p),
                            !.lastCodingNum = CodingNum(p)]
       IN /\ list' = [list EXCEPT ![Gop] = InitFirstSlice(p)]
          /\ ok' = (ok /\ (gop.lastCodingNum = -1 => unit[GopList[p].unit].intra))
          /\ IF cfg.parallel = 0 THEN Encode(g) ELSE gop' = g /\ main' = "init"
  /\ UNCHANGED <<cfg, unit, flushSeen, looking, busy, call, returned>>

RefPicsReconstructed(p) == \A r \in GopList[p].refs : GopList[r].recon
ReadyToEncode == {i \in DOMAIN gop.proc : RefPicsReconstructed(gop.proc[i])}

CanStart   == Cardinality(busy) < NumEncoders /\ ReadyToEncode # {}
OutputReady == gop.output # <<>> /\ GopList[Head(gop.output)].recon

\* xEncodePicture; without threads the picture is finished at once.
EncodePicture ==
  /\ main = "encode" /\ CanStart
  /\ LET i == Min(ReadyToEncode)
         p == gop.proc[i]
     IN /\ gop' = [gop EXCEPT !.proc = SubSeq(@, 1, i - 1) \o SubSeq(@, i + 1, Len(@))]
        /\ IF cfg.threads THEN busy' = busy \cup {p} /\ UNCHANGED list
           ELSE list' = [list EXCEPT ![Gop][p].recon = TRUE] /\ UNCHANGED busy
  /\ UNCHANGED <<cfg, unit, flushSeen, looking, main, call, returned, ok>>

\* The loop ends when there is nothing left to do, or, with pictures waiting,
\* when this stage does not block or the next access unit can be written;
\* otherwise it waits for a picture encoder.
LeaveLoop ==
  \/ gop.proc = <<>> /\ (NonBlocking(Gop) \/ busy = {})
  \/ ~CanStart /\ (NonBlocking(Gop) \/ OutputReady)

EndEncode ==
  /\ main = "encode" /\ ~CanStart
  /\ LeaveLoop \/ busy = {}
  /\ ok' = (ok /\ LeaveLoop)
  /\ main' = "output"
  /\ UNCHANGED <<cfg, stages, looking, gop, busy, call, returned>>

\* finishTask, on a thread of the pool; wakes up waitForFreeEncoders.
FinishPicture(p) ==
  /\ p \in busy
  /\ busy' = busy \ {p}
  /\ list' = [list EXCEPT ![Gop][p].recon = TRUE]
  /\ main' = IF main = "wait" THEN "input" ELSE main
  /\ UNCHANGED <<cfg, unit, flushSeen, looking, gop, call, returned, ok>>

WriteAccessUnit ==
  /\ main = "output"
  /\ main' = "release"
  /\ IF ~OutputReady THEN UNCHANGED <<list, gop, call>>
     ELSE LET p == Head(gop.output)
          IN /\ gop' = [gop EXCEPT !.output = Tail(@)]
             /\ call' = [call EXCEPT !.au = p]
             /\ list' = [list EXCEPT ![Gop] = [q \in Pics(Gop) |->
                  [GopList[q] EXCEPT !.finished = @ \/ q = p,
                                     !.refCount = @ - (IF q \in GopList[p].refs THEN 1 ELSE 0)]]]
  /\ UNCHANGED <<cfg, unit, flushSeen, looking, busy, returned, ok>>

\* xOutputRecYuv: reconstructed pictures are output in order if they are
\* wanted.
NextRecOut ==
  IF ~cfg.rec THEN gop.pocRecOut
  ELSE Min({p \in gop.pocRecOut..(Frames + 1) : p \notin Pics(Gop) \/ ~GopList[p].recon})
OutputDone(p) == IF cfg.rec THEN p < NextRecOut ELSE GopList[p].recon

\* xReleasePictures.  A plausible fault: pictures that were coded and are not
\* for reference by later ones are released though encoders still use them.
ReleaseUncounted(pic) == pic.finished /\ ~pic.output /\ ~pic.referenced
Unneeded(pic) ==
  pic.finished /\ ~pic.output /\ ~pic.referenced /\ pic.refCount <= 0
\* Every picture that came in is coded, and the last one has seen the flush.
AllPicsDone ==
  /\ \A p \in Pics(Gop) : GopList[p].finished
  /\ Pics(Gop) # {} => GopList[Last(Gop, Pics(Gop))].flush

ReleasePictures ==
  /\ main = "release"
  /\ LET pics == [p \in Pics(Gop) |-> [GopList[p] EXCEPT !.output = @ /\ ~OutputDone(p)]]
         free == {p \in Pics(Gop) : AllPicsDone \/ Unneeded(pics[p])}
         done == {call.au} \ {None}
     IN SendAndFree(Gop, pics, unit, done, free)
  /\ gop' = [gop EXCEPT !.pocRecOut = NextRecOut]
  /\ main' = "end"
  /\ UNCHANGED <<cfg, flushSeen, looking, busy, call, returned>>

-----------------------------------------------------------------------------
(* EncLib::encodePicture and its caller.                                   *)

Init ==
  /\ cfg \in Configs
  /\ unit = <<>>
  /\ list = [i \in Stages |-> [p \in {} |-> {}]]
  /\ flushSeen = [i \in Stages |-> FALSE]
  /\ lastPoc = None /\ filterPoc = 0 /\ lastPicIn = None
  /\ gop = [input |-> <<>>, proc |-> <<>>, output |-> <<>>,
            lastCodingNum |-> -1, pocRecOut |-> 0]
  /\ busy = {}
  /\ main = "idle"
  /\ call = [flush |-> FALSE, pending |-> FALSE, au |-> None]
  /\ picsRcvd = -cfg.lead
  /\ auList = <<>> /\ started = FALSE /\ delivered = <<>>
  /\ ok = TRUE

\* The caller has frames, and stops after some of them to flush the encoder.
EncodeFrame ==
  /\ main = "idle" /\ ~call.flush
  /\ picsRcvd < Frames - cfg.lead
  /\ call' = [call EXCEPT !.pending = TRUE]
  /\ main' = "input"
  /\ UNCHANGED <<cfg, stages, looking, gop, busy, returned, ok>>

EncodeFlush ==
  /\ main = "idle"
  /\ call.flush \/ picsRcvd + cfg.lead \in cfg.stops
  /\ call' = [call EXCEPT !.flush = TRUE]
  /\ main' = "input"
  /\ UNCHANGED <<cfg, stages, looking, gop, busy, returned, ok>>

\* xGetFreePicShared: in stage-parallel mode the units are limited.
Unused  == {u \in DOMAIN unit : unit[u].refCount <= 0}
FreeUnit ==
  CASE Unused # {} -> {Min(Unused)}
    [] Unused = {} /\ StageParallel /\ Len(unit) >= MaxNumPicShared -> {}
    [] OTHER -> {Len(unit) + 1}

Reuse(poc) == [poc |-> poc, prev |-> {}, intra |-> FALSE, refCount |-> 0]

AddInput ==
  /\ main = "input"
  /\ main' = "pre"
  /\ IF call.pending /\ FreeUnit # {}
     THEN \E u \in FreeUnit :
       /\ unit' = [v \in DOMAIN unit \cup {u} |->
            IF v = u THEN [Reuse(picsRcvd) EXCEPT !.refCount = 1] ELSE unit[v]]
       /\ list' = [list EXCEPT ![Pre] = Insert(Pre, picsRcvd, NewPicture(u, {}))]
       /\ picsRcvd' = picsRcvd + 1
       /\ call' = [call EXCEPT !.pending = FALSE]
     ELSE UNCHANGED <<unit, list, picsRcvd, call>>
  /\ UNCHANGED <<cfg, flushSeen, looking, gop, busy, auList, started, delivered, ok>>

StagesDone == \A i \in Stages : Pics(i) = {}
QueueEmpty == (picsRcvd > 0 \/ call.flush) /\ StagesDone

NewAuList == IF call.au = None THEN auList ELSE Append(auList, call.au)
NewStarted ==
  started \/ (call.au # None /\ (~StageParallel \/ Len(NewAuList) > cfg.delay \/ call.flush))

\* Wait if the input has no unit yet, or if encoding is running and there is no
\* access unit to return.
WaitAndStay ==
  \/ call.pending
  \/ NewAuList = <<>> /\ ~QueueEmpty /\ (NewStarted \/ call.flush)

\* waitForFreeEncoders waits once, for some encoder, while one is running.
StayInCall ==
  /\ WaitAndStay
  /\ main' = IF StageParallel /\ busy # {} THEN "wait" ELSE "input"
  /\ auList' = NewAuList
  /\ call' = [call EXCEPT !.au = None]
  /\ UNCHANGED delivered

\* VVEncImpl::encode: a flush before the first frame does not end the encoder.
ReturnFromCall ==
  /\ ~WaitAndStay
  /\ LET output == IF NewAuList # <<>> /\ NewStarted THEN 1 ELSE 0
     IN /\ auList' = SubSeq(NewAuList, output + 1, Len(NewAuList))
        /\ delivered' = delivered \o SubSeq(NewAuList, 1, output)
  /\ IF QueueEmpty /\ auList' = <<>> /\ call.flush
     THEN IF picsRcvd = -cfg.lead
          THEN main' = "idle" /\ call' = [call EXCEPT !.au = None, !.flush = FALSE]
          ELSE main' = "done" /\ call' = [call EXCEPT !.au = None]
     ELSE main' = "idle" /\ call' = [call EXCEPT !.au = None]

EndOfStages ==
  /\ main = "end"
  /\ started' = NewStarted
  /\ StayInCall \/ ReturnFromCall
  /\ UNCHANGED <<cfg, stages, looking, gop, busy, picsRcvd, ok>>

RunStages ==
  \/ AddInput \/ PreProcess \/ FilterPictures
  \/ StartGop \/ InitPicture \/ EncodePicture \/ EndEncode
  \/ WriteAccessUnit \/ ReleasePictures \/ EndOfStages

Done == main = "done" /\ UNCHANGED vars

Next ==
  \/ EncodeFrame \/ EncodeFlush \/ RunStages
  \/ \E p \in busy : FinishPicture(p)
  \/ Done

\* The caller's thread runs, the pool finishes the pictures, and a caller that
\* flushes goes on until the encoder is done.
Fairness ==
  /\ WF_vars(RunStages)
  /\ WF_vars(\E p \in busy : FinishPicture(p))
  /\ WF_vars(EncodeFlush)

Spec == Init /\ [][Next]_vars /\ Fairness

-----------------------------------------------------------------------------
(* Properties.                                                             *)

\* The shapes of the state; no reference count is negative.
TypeOK ==
  /\ main \in {"idle", "input", "pre", "filter", "gop", "init", "encode", "output",
               "release", "end", "wait", "done"}
  /\ \A u \in DOMAIN unit : unit[u].refCount \in Nat /\ unit[u].prev \subseteq DOMAIN unit
  /\ \A i \in Stages : \A p \in Pics(i) :
       list[i][p].unit \in DOMAIN unit /\ list[i][p].refCount \in Nat
  /\ \A p \in busy : p \in Pics(Gop)

\* The pictures of a list that belong to unit u, and those that read it.
Owners(l, u)  == {p \in DOMAIN l : l[p].unit = u}
Readers(l, u) == {p \in DOMAIN l : u \in l[p].prev}
Uses(l, u) == Cardinality(Owners(l, u)) + Cardinality(Readers(l, u))

\* A unit is counted once for every picture it belongs to and once for every
\* picture that still reads it as a previous frame (EncStage.h:113): one count
\* too few and a frame is overwritten, one too many and its unit is lost.
UnitsCounted ==
  \A u \in DOMAIN unit :
    unit[u].refCount = Uses(list[Pre], u) + Uses(list[Filter], u) + Uses(list[Gop], u)

\* A picture in a stage reads the frame it was added with, and as its previous
\* frames exactly the two before it, as far as there are any: they were still
\* there to be linked, and reuse has not taken their units for a later frame
\* (EncStage.h:134).
Before(p) == {q \in (p - NumPrevFrames)..(p - 1) : q >= -cfg.lead}
UnitsIntact ==
  \A i \in Stages : \A p \in Pics(i) :
    /\ unit[list[i][p].unit].poc = p
    /\ list[i][p].prev # {} =>
         {unit[v].poc : v \in list[i][p].prev} = (IF Before(p) = {} THEN {p} ELSE Before(p))

\* A frame is filtered when the filter holds all the frames up to cfg.range
\* before and after it, or is being flushed, however often the loop of
\* encodePicture runs the stage with no new frame (EncLib.cpp:475).
FilterSeesWindow ==
  [][filterPoc' # filterPoc =>
       \/ call.flush
       \/ {q \in (filterPoc - cfg.range)..(filterPoc + cfg.range) : Accepts(Filter, q)}
            \subseteq Pics(Filter)]_vars

\* A picture that is not coded yet finds its references in the GOP encoder's
\* list, whatever later pictures' headers said of them, and an encoder runs
\* only when they are reconstructed (EncGOP.cpp:718).
ReferencesHeld ==
  \A p \in Pics(Gop) : GopList[p].init /\ ~GopList[p].finished =>
    \A r \in GopList[p].refs :
      r \in Pics(Gop) /\ (p \in busy => GopList[r].recon)

\* No CHECK of the stages fails: no unused unit is given back, the filter
\* finds its frame, no flush signal comes to a picture whose coding has begun,
\* the first picture is intra, the encoder never waits for nobody.
NoFatalError == ok

\* The access units come out in coding order, each once, and the end is
\* reported when all frames to be encoded are out.
Units == INSTANCE AccessUnits WITH
  coding <- [p \in {q \in 0..Frames : ~IsLeadTrail(q)} |-> CodingNum(p)],
  in     <- (-cfg.lead)..(picsRcvd - 1),
  out    <- delivered,
  done   <- main = "done"
ImplementsAccessUnits == Units!Spec

\* Every call returns: with all units taken and every encoder idle, or with no
\* access unit to return, there is still a picture to encode.
CallsReturn == main = "input" ~> main \in {"idle", "done"}

\* A caller that goes on flushing is told of the end.
FlushEnds == call.flush ~> main = "done" \/ ~call.flush
=============================================================================
