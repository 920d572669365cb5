------------------------------- MODULE DecLib -------------------------------
(***************************************************************************)
(* The control of the decoder: DecLib, DecLibParser and DecLibRecon as the *)
(* thread that calls vvdec_decode and vvdec_flush runs them, against the   *)
(* tasks of the pictures, which run in the thread pool.                    *)
(*                                                                         *)
(* The application passes the slices of a stream.  The parser takes a      *)
(* buffer for each picture, constructs its reference lists, and adds the   *)
(* task that parses the slice.  As soon as more than ParseFrameDelay       *)
(* pictures are in the parser's list, each complete picture makes the main *)
(* thread choose one to reconstruct: it waits for the picture that the     *)
(* reconstruction instance worked on before, adds the tasks of the chosen  *)
(* one, which begin while it is still being parsed, and finishes the       *)
(* earlier one.  Then a picture may be ready for output.                   *)
(*                                                                         *)
(* The main thread is one action from each wait to the next; what it does  *)
(* there reads state that the tasks only ever move forward.  The tasks of  *)
(* a picture are those of one slice's parsing at a time, its CTU tasks     *)
(* (CtuWavefront.tla) and the task that finishes it.                       *)
(***************************************************************************)
EXTENDS PicListManager

CONSTANTS NumRecon,   \* the size of m_decLibRecon
          Streams,    \* the streams, one of which is decoded
          MaxHeld     \* bound: the frames the application holds at most

\* A coded picture: refs are the POCs of the active entries of its reference
\* lists and kept those of the inactive ones; out is its output flag; slices
\* are in NAL units of their own.  fault: parsing it throws, reconstructing
\* it throws, the header of its last slice does not parse, or that slice
\* never arrives.
CodedPicture ==
  [poc : Int, idr : BOOLEAN, refs : SUBSET Int, kept : SUBSET Int, nonRef : BOOLEAN,
   out : BOOLEAN, slices : Nat \ {0}, fault : {"none", "parse", "recon", "head", "lost"}]

ASSUME DecLibAssumption ==
  /\ NumRecon \in Nat \ {0}
  /\ MaxHeld \in Nat \ {0}
  /\ \A s \in Streams :
       /\ Len(s) \in Nat /\ DOMAIN s = 1 .. Len(s)
       /\ \A i \in DOMAIN s :
            /\ s[i] \in CodedPicture
            /\ s[i].fault \in {"head", "lost"} => s[i].slices > 1

\* A picture that is no reference is output.  The code does not check it, and
\* gives a buffer that is neither to another picture while it is worked on.
ASSUME ShownOrReferenced ==
  \A s \in Streams : \A i \in DOMAIN s : s[i].nonRef => s[i].out

VARIABLES
  stream,          \* the stream that is decoded
  nal,             \* the slice that comes next: <<picture, slice>>
  list,            \* m_cPicList
  pic,             \* the picture buffers
  dpb,             \* m_dpbReferencePics
  parseFrameList,  \* m_parseFrameList
  parsePic,        \* m_pcParsePic, or 0
  started,         \* whether m_pocRandomAccess has been set
  recon,           \* m_currDecompPic of each instance, in the order of use
  tuneInDelay,     \* m_tuneInDelay
  firstOutputPic,  \* m_firstOutputPic
  main,            \* the main thread: where it is and its local variables
  held,            \* m_rcFrameList: the frames the application holds
  shown,           \* history: the pictures the application was given
  reported,        \* history: the pictures whose task exceptions were thrown
  dropped          \* history: output pictures that flushPic took back

vars == <<stream, nal, list, pic, dpb, parseFrameList, parsePic, started,
          recon, tuneInDelay, firstOutputPic, main, held, shown, reported, dropped>>

parserVars == <<nal, dpb, parsePic, started>>
appVars    == <<held, shown, reported, dropped>>
outputVars == <<tuneInDelay, firstOutputPic>>

CVS(i) == Cardinality({j \in 1 .. i : stream[j].idr})
LastSlice(i) == stream[i].slices

\* The slices arrive in order, but for a lost one.
Arriving(i) == stream[i].slices - (IF stream[i].fault = "lost" THEN 1 ELSE 0)
NextNal == IF nal[2] < Arriving(nal[1]) THEN <<nal[1], nal[2] + 1>> ELSE <<nal[1] + 1, 1>>
EndOfStream == nal[1] > Len(stream)

Idle == [pc |-> "idle", call |-> "decode", cur |-> 0, done |-> 0, out |-> 0,
         hasException |-> FALSE]

Init ==
  /\ stream \in Streams
  /\ nal = <<1, 1>>
  /\ list = <<>> /\ pic = <<>> /\ dpb = {}
  /\ parseFrameList = <<>> /\ parsePic = 0 /\ started = FALSE
  /\ recon = [i \in 1 .. NumRecon |-> 0]
  /\ tuneInDelay = 0 /\ firstOutputPic = TRUE
  /\ main = Idle
  /\ held = {}
  /\ shown = <<>> /\ reported = <<>> /\ dropped = {}

-----------------------------------------------------------------------------
(***************************************************************************)
(* The tasks.                                                              *)
(***************************************************************************)
\* Not waitForAllTasks: a task of p is in the pool.
Busy(p) ==
  \/ p.parse = "ok" /\ p.parsedSlices < p.slices
  \/ p.parse = "throwing"
  \/ p.recon # "none"

Fault(b) == IF pic[b].content = 0 THEN "none" ELSE stream[pic[b].content].fault
AllParsed(b) ==
  pic[b].content # 0 /\ pic[b].parsedSlices = stream[pic[b].content].slices

\* A task moves picture b on; nothing else changes.
Task(b, p) ==
  /\ pic' = [pic EXCEPT ![b] = p]
  /\ UNCHANGED <<stream, list, parserVars, parseFrameList, recon, tuneInDelay,
                 firstOutputPic, main, appVars>>

\* parseTask: a slice is parsed, after the slices before it.  Reconstruction
\* may have begun; then the state of the picture is left alone.
ParseSlice(b) ==
  LET p    == pic[b]
      last == p.parsedSlices + 1 = LastSlice(p.content)
  IN  /\ p.parse = "ok" /\ p.parsedSlices < p.slices
      /\ Fault(b) # "parse"
      /\ Task(b, [p EXCEPT
           !.parsedSlices = @ + 1,
           !.progress  = IF last /\ @ = parsing THEN parsed ELSE @,
           !.parseDone = IF last THEN Unlocked ELSE @])

\* parseTask: parseSlice throws, and the picture is marked ...
ParseThrow(b) ==
  /\ Fault(b) = "parse" /\ pic[b].parse = "ok" /\ pic[b].slices > 0
  /\ Task(b, [pic[b] EXCEPT !.error = TRUE, !.parse = "throwing"])

\* ... then the exception is set on its barriers and, by the pool, on the
\* counter; the parse tasks behind it are dropped.
ParseThrown(b) ==
  /\ pic[b].parse = "throwing"
  /\ Task(b, [pic[b] EXCEPT !.parseDone = Raise(@), !.divException = TRUE,
                            !.parse = "failed"])

\* The CTU tasks are done and finishReconTask runs ...
Reconstruct(b) ==
  /\ pic[b].recon = "tasks" /\ AllParsed(b) /\ Fault(b) # "recon"
  /\ Task(b, [pic[b] EXCEPT !.progress = reconstructed, !.recon = "finish"])

\* ... and the pool unlocks its barrier and decrements the counter.
ReconDone(b) ==
  /\ pic[b].recon = "finish"
  /\ Task(b, [pic[b] EXCEPT !.reconDone.locked = FALSE, !.recon = "none"])

\* A CTU task throws, by itself or because its CTUs could not be parsed:
\* finishReconTask, if it was added, is dropped.
ReconThrow(b) ==
  /\ pic[b].recon \in {"tasks", "ctus"}
  /\ pic[b].parse = "failed" \/ (Fault(b) = "recon" /\ AllParsed(b))
  /\ Task(b, IF pic[b].recon = "tasks"
             THEN [pic[b] EXCEPT !.recon = "none", !.reconDone = Raise(@),
                                 !.divException = TRUE]
             ELSE [pic[b] EXCEPT !.recon = "none"])

Worker(b) ==
  \/ ParseSlice(b) \/ ParseThrow(b) \/ ParseThrown(b)
  \/ Reconstruct(b) \/ ReconDone(b) \/ ReconThrow(b)

-----------------------------------------------------------------------------
(***************************************************************************)
(* DecLibParser::parse of a slice.  For the first slice of a picture it    *)
(* makes a picture for each reference that was lost ("head"), then takes   *)
(* a buffer for the picture, and constructs its lists ("lists").           *)
(***************************************************************************)
Goto(pc) == main' = [main EXCEPT !.pc = pc]

Marked(poc) == {b \in dpb : pic[b].dpbReferenceMark /\ pic[b].poc = poc}

\* The active references that are not in the DPB; an IDR picture needs none.
LostRefs(c) == IF c.idr THEN {} ELSE {p \in c.refs : Marked(p) = {}}

\* A grey picture for a reference that was lost.  It is given the header of
\* the picture that is being parsed.
PrepareUnavailablePicture ==
  /\ main.pc = "head"
  /\ \E poc \in LostRefs(stream[nal[1]]) :
       LET n == GetNewPicBuffer(list, pic)
       IN  /\ list' = n.list /\ dpb' = dpb \cup {n.buf}
           /\ pic' = [n.pic EXCEPT ![n.buf] =
                [@ EXCEPT !.poc = poc, !.nonRef = stream[nal[1]].nonRef, !.wasLost = TRUE,
                          !.dpbReferenceMark = TRUE, !.stillReferenced = TRUE,
                          !.parseDone = Unlocked, !.reconDone = Unlocked,
                          !.progress = reconstructed]]
  /\ UNCHANGED <<stream, nal, parsePic, started, parseFrameList, recon, outputVars, main,
                 appVars>>

\* applyReferencePictureListBasedMarking: only the pictures the reference
\* lists name stay in the DPB, with or without being active.
Kept(c) == IF c.idr THEN {}
           ELSE UNION {Marked(p) : p \in c.refs \cup c.kept \cup {c.poc}}
ApplyMarking(c) ==
  [b \in DOMAIN pic |-> IF b \in dpb \ Kept(c)
                        THEN [pic[b] EXCEPT !.dpbReferenceMark = FALSE] ELSE pic[b]]

\* xActivateParameterSets and the begin of xDecodeSliceMain.
ActivatePicture ==
  LET i == nal[1]
      c == stream[i]
      n == GetNewPicBuffer(list, ApplyMarking(c))
  IN  /\ main.pc = "head" /\ LostRefs(c) = {}
      /\ list' = n.list /\ dpb' = Kept(c) \cup {n.buf} /\ parsePic' = n.buf
      /\ pic' = [n.pic EXCEPT ![n.buf] =
                  [@ EXCEPT !.content = i, !.poc = c.poc, !.idr = c.idr,
                            !.nonRef = c.nonRef,
                            !.dpbReferenceMark = ~c.nonRef,
                            !.stillReferenced = ~c.nonRef,
                            !.neededForOutput = c.out]]
      /\ Goto("lists")
      /\ UNCHANGED <<stream, nal, started, parseFrameList, recon, outputVars, appVars>>

\* constructRefPicLists: every entry, active or not, must be in the DPB, and
\* the active ones must be neither the picture itself nor non-reference
\* pictures.
ListEntries(c) == IF c.refs = {} THEN {} ELSE c.refs \cup c.kept
Found(pocs)    == UNION {Marked(p) : p \in pocs}
ActiveRefs(c)  == {[buf |-> b, content |-> pic[b].content, poc |-> pic[b].poc] :
                     b \in Found(c.refs) \ {parsePic}}
ListsThrow(c) ==
  \/ \E p \in ListEntries(c) : Marked(p) = {}
  \/ \E p \in c.refs : Marked(p) = {parsePic}
  \/ \E r \in ActiveRefs(c) : pic[r.buf].nonRef
ConstructRefPicLists(c) ==
  [b \in DOMAIN pic |->
     [pic[b] EXCEPT !.stillReferenced = @ \/ b \in Found(ListEntries(c)),
                    !.refs = IF b = parsePic THEN ActiveRefs(c) ELSE @]]

\* Faulty variant: the exception stays on the barrier.
MarkThrownOnly(p) == [p EXCEPT !.error = TRUE, !.exceptionThrownOut = TRUE]

\* The exception handler of parse().
MarkThrown(p) ==
  [p EXCEPT !.error = TRUE, !.exceptionThrownOut = TRUE,
            !.parseDone.exception = FALSE]

\* The first slice: the lists are constructed, and its task is added.
DecodeFirstSlice ==
  LET c    == stream[nal[1]]
      pics == ConstructRefPicLists(c)
  IN  /\ main.pc = "lists"
      /\ IF ListsThrow(c)
         THEN /\ pic' = [pics EXCEPT ![parsePic] = MarkThrown(@)]
              /\ main' = Idle
              /\ UNCHANGED parseFrameList
         ELSE /\ pic' = [pics EXCEPT ![parsePic].progress = parsing,
                                     ![parsePic].slices = 1]
              /\ parseFrameList' = Append(parseFrameList, parsePic)
              /\ main' = IF c.slices = 1 /\ Len(parseFrameList) + 1 > ParseFrameDelay
                         THEN [Idle EXCEPT !.pc = "take"] ELSE Idle
      /\ nal' = NextNal
      /\ UNCHANGED <<stream, list, dpb, parsePic, started, recon, outputVars, appVars>>

\* Slice k > 1 of picture i.  Its lists throw if those of the first slice
\* did, and adding its task throws if a task of the picture has thrown.
DecodeNextSlice(i, k) ==
  LET p == pic[parsePic]
      last == k = LastSlice(i)
  IN  /\ IF \/ last /\ stream[i].fault = "head"
            \/ p.progress = init
            \/ p.divException
         THEN /\ pic' = [pic EXCEPT ![parsePic] = MarkThrown(@)]
              /\ main' = Idle
              /\ reported' = IF p.divException THEN Append(reported, i) ELSE reported
         ELSE /\ pic' = [pic EXCEPT ![parsePic].slices = k,
                                    ![parsePic].neededForOutput = stream[i].out]
              /\ main' = IF last /\ Len(parseFrameList) > ParseFrameDelay
                         THEN [Idle EXCEPT !.pc = "take"] ELSE Idle
              /\ UNCHANGED reported
      /\ nal' = NextNal

\* Pictures before the first IDR picture are skipped.
SkipSlice == main' = Idle /\ nal' = NextNal /\ UNCHANGED <<pic, reported>>

\* DecLib::decode of the next slice, as far as parse().
Decode ==
  /\ main.pc = "idle" /\ ~EndOfStream /\ Cardinality(held) < MaxHeld
  /\ LET i == nal[1]
         k == nal[2]
     IN  /\ started' = (started \/ stream[i].idr)
         /\ IF ~started' THEN SkipSlice
            ELSE IF k = 1
            THEN main' = [Idle EXCEPT !.pc = "head"] /\ UNCHANGED <<nal, pic, reported>>
            ELSE DecodeNextSlice(i, k)
  /\ UNCHANGED <<stream, list, dpb, parsePic, parseFrameList, recon, outputVars, held,
                 shown, dropped>>

-----------------------------------------------------------------------------
(***************************************************************************)
(* The choice of the picture to reconstruct: getNextDecodablePicture.      *)
(***************************************************************************)
RefsReconstructed(p) == \A r \in p.refs : pic[r.buf].progress >= reconstructed

\* Parsed, with all references reconstructed.
Decodable(p) ==
  /\ p.parseDone = Unlocked
  /\ ~p.wasLost /\ ~p.error
  /\ RefsReconstructed(p)

\* The place in the list of the picture to decode next: out of order, unless
\* the first one has been passed over too often or has failed.
NextDecodable ==
  LET front == pic[Head(parseFrameList)]
      j     == SelectInSeq(parseFrameList, LAMBDA b : Decodable(pic[b]))
  IN  IF \/ ParseFrameDelay = 0
         \/ front.skippedDecCount >= MaxOutOfOrderPics
         \/ front.error
         \/ j = 0
      THEN 1 ELSE j

\* The picture is taken out of the list.  decode looks at its errors, and
\* expects to find another picture after one that had errors; flushPic
\* takes every picture.
TakePicture ==
  /\ main.pc \in {"take", "retake"} /\ parseFrameList # <<>>
  /\ LET j == NextDecodable
         b == parseFrameList[j]
         p == pic[b]
         skipped == {parseFrameList[k] : k \in 1 .. j - 1}
     IN  /\ parseFrameList' = RemoveAt(parseFrameList, j)
         /\ pic' = [c \in DOMAIN pic |->
                      IF c \in skipped THEN [pic[c] EXCEPT !.skippedDecCount = @ + 1]
                      ELSE pic[c]]
         /\ main' = [main EXCEPT
              !.cur = b, !.hasException = p.parseDone.exception,
              !.pc = IF /\ main.call = "decode"
                        /\ p.error \/ p.wasLost \/ p.parseDone.exception
                     THEN "error" ELSE "recon"]
  /\ UNCHANGED <<stream, parserVars, list, recon, outputVars, appVars>>

TakeNothing ==
  /\ main.pc \in {"take", "retake"} /\ parseFrameList = <<>>
  /\ Goto(IF main.call = "flush" THEN "drain"
          ELSE IF main.pc = "take" THEN "output" ELSE "fatal")
  /\ UNCHANGED <<stream, parserVars, list, pic, parseFrameList, recon, outputVars,
                 appVars>>

-----------------------------------------------------------------------------
(***************************************************************************)
(* finishPicture.  A picture with an error keeps its exception inside: it  *)
(* is thrown once and taken off the barrier, so that the picture can be    *)
(* used as a reference.                                                    *)
(***************************************************************************)
HasError(p) == p.wasLost \/ p.error \/ p.reconDone.exception

\* Faulty variant: what was thrown out before is not looked at.
ThrowsAlways(p) == HasError(p) /\ (p.parseDone.exception \/ p.reconDone.exception)

Throws(p) ==   /\ HasError(p)
               /\ p.parseDone.exception \/ p.reconDone.exception
               /\ ~p.exceptionThrownOut

\* Faulty variant: a picture with an error stays as it is until the next IDR.
FinishOnlyIntact(b, pics) ==
  IF HasError(pics[b])
  THEN [pics EXCEPT ![b].reconDone = Unlocked, ![b].error = TRUE,
                    ![b].exceptionThrownOut = TRUE]
  ELSE [MarkUnusedPicturesReusable(list, pics) EXCEPT ![b].progress = finished]

FinishPicture(b, pics) ==
  LET p == pics[b] IN
  IF HasError(p)
  THEN [pics EXCEPT ![b] =
          IF p.parseDone.exception \/ p.reconDone.exception
          THEN [p EXCEPT !.progress = finished, !.reconDone = Unlocked,
                         !.error = TRUE, !.exceptionThrownOut = TRUE]
          ELSE [p EXCEPT !.progress = finished]]
  ELSE [MarkUnusedPicturesReusable(list, pics) EXCEPT ![b].progress = finished]

\* The exception of picture b leaves the library: the call ends, and flushPic
\* gives the picture it holds for output back.
ThrowOut(b, pics) ==
  /\ main' = Idle
  /\ reported' = Append(reported, pic[b].content)
  /\ IF main.out = 0 THEN pic' = pics /\ UNCHANGED dropped
     ELSE /\ pic' = [pics EXCEPT ![main.out] = Release(@)]
          /\ dropped' = dropped \cup {pic[main.out].content}
  /\ UNCHANGED <<held, shown>>

\* decode: a picture with an error is not reconstructed.  It is filled in
\* grey to be used as a reference, and the next one is taken.
HandleErrorPicture ==
  /\ main.pc = "error" /\ ~Busy(pic[main.cur])
  /\ LET b == main.cur
         p == pic[b]
         ready  == IF p.progress < parsing
                   THEN [p EXCEPT !.neededForOutput = FALSE, !.dpbReferenceMark = TRUE,
                                  !.stillReferenced = TRUE]
                   ELSE p
         grey   == [ready EXCEPT
                      !.error = @ \/ main.hasException,
                      !.parseDone.exception = @ /\ ~main.hasException,
                      !.progress = reconstructed, !.reconDone = Unlocked]
         pics   == FinishPicture(b, [pic EXCEPT ![b] = grey])
     IN  IF p.progress >= reconstructing \/ (main.hasException /\ p.exceptionThrownOut)
         THEN Goto("fatal") /\ UNCHANGED <<pic, appVars>>
         ELSE IF main.hasException \/ Throws(grey)
         THEN ThrowOut(b, [pics EXCEPT ![b].exceptionThrownOut = TRUE])
         ELSE pic' = pics /\ Goto("retake") /\ UNCHANGED appVars
  /\ UNCHANGED <<stream, parserVars, list, parseFrameList, recon, outputVars>>

-----------------------------------------------------------------------------
(***************************************************************************)
(* reconPicture: the first reconstruction instance becomes the last.       *)
(***************************************************************************)
RotateRecon ==
  /\ main.pc = "recon"
  /\ IF \E i \in DOMAIN recon : recon[i] = main.cur
     THEN Goto("fatal") /\ UNCHANGED recon
     ELSE Goto("wait") /\ recon' = Append(Tail(recon), Head(recon))
  /\ UNCHANGED <<stream, parserVars, list, pic, parseFrameList, outputVars, appVars>>

\* What remains of the instances when instance i has given its picture away
\* (std::exchange); in the faulty variant it keeps it.
KeepRecon(i)  == recon
ClearRecon(i) == [recon EXCEPT ![i] = 0]

\* waitForPrevDecompressedPic does not block any more: the picture is done or
\* has an exception, and in that case its other tasks are gone too.
CanReturn(p) ==
  /\ p.reconDone.exception \/ ~p.reconDone.locked
  /\ p.error \/ p.reconDone.exception => ~Busy(p)
AfterWait(p) == [p EXCEPT !.error = @ \/ p.reconDone.exception]

WaitForPrevDecompressedPic ==
  /\ main.pc = "wait"
  /\ LET b == recon[NumRecon]
     IN  /\ b # 0 => CanReturn(pic[b])
         /\ pic' = IF b = 0 THEN pic ELSE [pic EXCEPT ![b] = AfterWait(@)]
         /\ main' = [main EXCEPT !.pc = "decompress", !.done = b]
  /\ recon' = ClearRecon(NumRecon)
  /\ UNCHANGED <<stream, parserVars, list, parseFrameList, outputVars, appVars>>

\* decompressPicture, up to its first wait.
DecompressPicture ==
  /\ main.pc = "decompress"
  /\ recon' = [recon EXCEPT ![NumRecon] = main.cur]
  /\ pic' = [pic EXCEPT ![main.cur].progress = reconstructing]
  /\ Goto("refs")
  /\ UNCHANGED <<stream, parserVars, list, parseFrameList, outputVars, appVars>>

\* Faulty variant: the failed reference is left as it is.
ExtendBorderOnly(p) == [p EXCEPT !.borderExtStarted = TRUE]

\* borderExtPic: a reference that failed is filled in here; its exception is
\* kept on parseDone until the picture is finished.
ExtendBorder(p) ==
  IF p.progress < reconstructed /\ (p.reconDone.exception \/ p.parseDone.exception)
  THEN [p EXCEPT !.error = TRUE, !.parseDone = Raise(@), !.reconDone = Unlocked,
                 !.progress = reconstructed, !.borderExtStarted = TRUE]
  ELSE [p EXCEPT !.borderExtStarted = TRUE]

\* decompressPicture, once the tasks of the references are done: its own
\* tasks are added.  It fails if a reference was never parsed (the picture
\* has no tasks) or if its parsing has failed by now (it has CTU tasks only).
StartTasks ==
  LET b == main.cur
      toExtend == {r.buf : r \in pic[b].refs} \cap
                  {c \in DOMAIN pic : ~pic[c].borderExtStarted}
      unparsed == \E c \in toExtend : pic[c].progress < parsing
      started1 == IF unparsed THEN [pic[b] EXCEPT !.reconDone = Raise(@), !.error = TRUE]
                  ELSE IF pic[b].divException
                  THEN [pic[b] EXCEPT !.reconDone = Raise(Locked), !.error = TRUE,
                                      !.recon = "ctus"]
                  ELSE [pic[b] EXCEPT !.reconDone = Locked, !.recon = "tasks"]
  IN  /\ main.pc = "refs" /\ \A c \in toExtend : ~Busy(pic[c])
      /\ pic' = [c \in DOMAIN pic |->
                   IF c = b THEN started1
                   ELSE IF c \in toExtend /\ pic[c].progress >= parsing
                   THEN ExtendBorder(pic[c]) ELSE pic[c]]
      /\ Goto("finish")
      /\ UNCHANGED <<stream, parserVars, list, parseFrameList, recon, outputVars,
                     appVars>>

\* reconPicture finishes the picture it had to wait for.
FinishPrev ==
  /\ main.pc = "finish"
  /\ LET b == main.done IN
     IF b # 0 /\ Throws(pic[b])
     THEN ThrowOut(b, FinishPicture(b, pic))
     ELSE /\ pic' = IF b = 0 THEN pic ELSE FinishPicture(b, pic)
          /\ Goto(IF main.call = "decode" THEN "output" ELSE "flushed")
          /\ UNCHANGED appVars
  /\ UNCHANGED <<stream, parserVars, list, parseFrameList, recon, outputVars>>

-----------------------------------------------------------------------------
(***************************************************************************)
(* Output, and flushPic.                                                   *)
(***************************************************************************)
NextOutput(flush) == GetNextOutputPic(list, pic, tuneInDelay, firstOutputPic, flush)

Choose(o) == /\ tuneInDelay' = o.tuneIn
             /\ firstOutputPic' = o.first

\* The call returns picture b, or nothing, to the application.
Return(b) ==
  /\ main' = Idle
  /\ IF b = 0 THEN UNCHANGED <<held, shown>>
     ELSE /\ shown' = Append(shown, pic[b].content)
          /\ held' = held \cup {[buf |-> b, content |-> pic[b].content]}
  /\ UNCHANGED <<reported, dropped>>

LockPic(b) == IF b = 0 THEN pic ELSE [pic EXCEPT ![b] = Lock(@)]

DecodeOutput ==
  /\ main.pc = "output"
  /\ LET o == NextOutput(FALSE)
     IN  Choose(o) /\ pic' = LockPic(o.buf) /\ Return(o.buf)
  /\ UNCHANGED <<stream, parserVars, list, parseFrameList, recon>>

\* The application flushes at the end of the stream.
FlushPic ==
  /\ main.pc = "idle" /\ EndOfStream /\ Cardinality(held) < MaxHeld
  /\ LET o == NextOutput(FALSE)
     IN  /\ Choose(o) /\ pic' = LockPic(o.buf)
         /\ main' = [Idle EXCEPT !.pc = "take", !.call = "flush", !.out = o.buf]
  /\ UNCHANGED <<stream, parserVars, list, parseFrameList, recon, appVars>>

\* A picture was reconstructed: return one, or take the next.
Flushed ==
  /\ main.pc = "flushed"
  /\ IF main.out # 0
     THEN Return(main.out) /\ UNCHANGED <<pic, outputVars>>
     ELSE LET o == NextOutput(FALSE)
          IN  /\ Choose(o) /\ pic' = LockPic(o.buf)
              /\ IF o.buf # 0 THEN Return(o.buf) ELSE Goto("take") /\ UNCHANGED appVars
  /\ UNCHANGED <<stream, parserVars, list, parseFrameList, recon>>

\* blockAndFinishPictures(nullptr), one instance after the other; with a
\* picture to return it is not reached.
Drain ==
  /\ main.pc = "drain"
  /\ LET i == SelectInSeq(recon, LAMBDA b : b # 0) IN
     IF main.out # 0
     THEN Return(main.out) /\ UNCHANGED <<pic, recon>>
     ELSE IF i = 0
     THEN Goto("last") /\ UNCHANGED <<pic, recon, appVars>>
     ELSE LET b    == recon[i]
              pics == [pic EXCEPT ![b] = AfterWait(@)]
          IN  /\ CanReturn(pic[b])
              /\ recon' = ClearRecon(i)
              /\ IF Throws(pics[b])
                 THEN ThrowOut(b, FinishPicture(b, pics))
                 ELSE pic' = FinishPicture(b, pics) /\ UNCHANGED <<main, appVars>>
  /\ UNCHANGED <<stream, parserVars, list, parseFrameList, outputVars>>

\* Everything is finished.  When no picture is left to return, the parser is
\* reset as by an end of sequence, and the application is told so.
FlushLast ==
  /\ main.pc = "last"
  /\ LET o1 == NextOutput(FALSE)
         o  == IF o1.buf # 0 THEN o1
               ELSE GetNextOutputPic(list, pic, o1.tuneIn, o1.first, TRUE)
     IN  IF o.buf # 0
         THEN /\ Choose(o) /\ pic' = LockPic(o.buf) /\ Return(o.buf)
              /\ UNCHANGED started
         ELSE /\ Goto("ended")
              /\ started' = FALSE /\ tuneInDelay' = 0 /\ firstOutputPic' = TRUE
              /\ UNCHANGED <<pic, appVars>>
  /\ UNCHANGED <<stream, nal, dpb, parsePic, list, parseFrameList, recon>>

\* vvdec_frame_unref, between two calls.
Unref(h) ==
  /\ main.pc \in {"idle", "ended"} /\ h \in held
  /\ held' = held \ {h}
  /\ pic' = [pic EXCEPT ![h.buf] = Release(@)]
  /\ UNCHANGED <<stream, parserVars, list, parseFrameList, recon, outputVars, main,
                 shown, reported, dropped>>

-----------------------------------------------------------------------------
\* What the main thread does inside a call.
MainStep ==
  \/ PrepareUnavailablePicture \/ ActivatePicture \/ DecodeFirstSlice
  \/ TakePicture \/ TakeNothing \/ HandleErrorPicture
  \/ RotateRecon \/ WaitForPrevDecompressedPic \/ DecompressPicture
  \/ StartTasks \/ FinishPrev \/ DecodeOutput
  \/ Flushed \/ Drain \/ FlushLast

\* The application has been told that the stream has ended.
Ended == main.pc = "ended" /\ held = {} /\ UNCHANGED vars

SomeTask == \E b \in DOMAIN pic : Worker(b)

Next ==
  \/ Decode \/ FlushPic \/ MainStep \/ SomeTask
  \/ \E h \in held : Unref(h)
  \/ Ended

\* The main thread runs on, and the pool runs some task while one is ready
\* (ThreadPool.tla).  The application need not call again.
Fairness == WF_vars(MainStep) /\ WF_vars(SomeTask)

Spec == Init /\ [][Next]_vars /\ Fairness

-----------------------------------------------------------------------------
(***************************************************************************)
(* What is to be true.                                                     *)
(***************************************************************************)
Buffers == DOMAIN pic

\* Types, and the bookkeeping of the lists: a buffer is once in m_cPicList,
\* and the other lists hold buffers.
TypeOK ==
  /\ IsInjective(list) /\ ToSet(list) = Buffers
  /\ dpb \subseteq Buffers
  /\ IsInjective(parseFrameList) /\ ToSet(parseFrameList) \subseteq Buffers
  /\ parsePic \in Buffers \cup {0}
  /\ recon \in [1 .. NumRecon -> Buffers \cup {0}]
  /\ tuneInDelay \in 0 .. NumReorderPics + ParallelDecInst + 2
  /\ {main.cur, main.done, main.out} \subseteq Buffers \cup {0}
  /\ \A b \in Buffers :
       /\ pic[b].progress \in init .. finished
       /\ pic[b].content \in {0} \cup DOMAIN stream
       /\ pic[b].recon \in {"none", "tasks", "ctus", "finish"}
       /\ pic[b].parse \in {"ok", "throwing", "failed"}

\* A picture that is still to be reconstructed, or is being reconstructed,
\* finds in the buffers its reference lists point to the pictures they were
\* constructed for (markUnusedPicturesReusable, stillReferenced): no buffer
\* is given to a new picture before the last of its users is through,
\* although the DPB forgets it much earlier.
RefsIntact ==
  \A b \in Buffers : pic[b].progress \in parsing .. reconstructing =>
    \A r \in pic[b].refs :
      pic[r.buf].content = r.content /\ pic[r.buf].poc = r.poc

\* CTU tasks run only on references whose samples are final (borderExtPic):
\* whatever happened to the reference, and out of order too.
RefsReady ==
  \A b \in Buffers :
    pic[b].recon \in {"tasks", "ctus"} => RefsReconstructed(pic[b])

\* A frame the application holds keeps its content, and stays locked, until
\* it is given back (lockedByApplication).
FramesIntact ==
  \A h \in held :
    /\ pic[h.buf].content = h.content
    /\ pic[h.buf].lockedByApplication
    /\ pic[h.buf].progress = finished

\* No fatal check of decode and reconPicture fails: the exception of a
\* picture is not thrown a second time, a picture with an error is not being
\* reconstructed, a picture that is chosen is not in an instance under
\* another content, and decode finds a picture when it has to take another.
NoFatalError == main.pc # "fatal"

TimesReported(i) == Cardinality({k \in DOMAIN reported : reported[k] = i})
Arrived(i) == \E j \in 1 .. i : stream[j].idr

\* The exception of a task leaves the library once: not twice, though it is
\* found by the picture itself, by pictures that reference it and by the
\* parser, and by the end of the stream not never.
ReportedOnce == \A i \in DOMAIN stream : TimesReported(i) <= 1
ErrorsReportedOnce ==
  /\ ReportedOnce
  /\ main.pc = "ended" =>
       \A i \in DOMAIN stream :
         stream[i].fault \in {"parse", "recon"} /\ Arrived(i) => TimesReported(i) = 1

\* The buffers of pictures whose reference lists could not be constructed:
\* parse() leaves them behind in the list, in the state init.
Orphans == {b \in Buffers : pic[b].progress = init /\ pic[b].exceptionThrownOut}
BehindOrphan(i) ==
  \E j, k \in DOMAIN list :
    j <= k /\ list[j] \in Orphans /\ pic[list[k]].content = i

\* When flushPic says that the stream has ended the application was given
\* every picture that is to be output, but for those flushPic took back when
\* it had an exception to throw, and those behind a picture that parse() left
\* behind.
AllShown ==
  main.pc = "ended" =>
    \A i \in DOMAIN stream : stream[i].out /\ Arrived(i) =>
      i \in ToSet(shown) \cup dropped \/ BehindOrphan(i)

\* The application is given the pictures in output order and none twice
\* (getNextOutputPic): DecLib implements OutputOrder.
Output == INSTANCE OutputOrder WITH
  shown <- [k \in DOMAIN shown |-> [cvs |-> CVS(shown[k]), poc |-> stream[shown[k]].poc]]
ImplementsOutputOrder == Output!Spec

\* Every call of vvdec_decode and vvdec_flush returns.
CallsReturn == main.pc # "idle" ~> main.pc \in {"idle", "ended"}
=============================================================================
