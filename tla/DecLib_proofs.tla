---------------------------- MODULE DecLib_proofs ----------------------------
(***************************************************************************)
(* Proofs about DecLib, for any streams and any sizes.                     *)
(***************************************************************************)
EXTENDS DecLib, SequenceTheorems, FiniteSetTheorems, WellFoundedInduction, TLAPS

-----------------------------------------------------------------------------
\* A BlockingBarrier.
Barrier == [locked : BOOLEAN, exception : BOOLEAN]

\* An active reference entry: the buffer, and what it held when the lists were
\* constructed.
Reference == [buf : Nat, content : Nat, poc : Int]

\* The type of a picture buffer.
Picture ==
  [content : Nat, poc : Int, idr : BOOLEAN, nonRef : BOOLEAN, refs : SUBSET Reference,
   progress : init .. finished, dpbReferenceMark : BOOLEAN, stillReferenced : BOOLEAN,
   neededForOutput : BOOLEAN, lockedByApplication : BOOLEAN,
   wasLost : BOOLEAN, error : BOOLEAN, exceptionThrownOut : BOOLEAN,
   skippedDecCount : Nat, borderExtStarted : BOOLEAN,
   parseDone : Barrier, reconDone : Barrier, divException : BOOLEAN,
   slices : Nat, parsedSlices : Nat, parse : {"ok", "throwing", "failed"},
   recon : {"none", "tasks", "ctus", "finish"}]

\* Where the main thread can be.
PCs == {"idle", "head", "lists", "take", "retake", "error", "recon", "wait", "decompress",
        "refs", "finish", "output", "flushed", "drain", "last", "ended", "fatal"}

\* The main thread's variables.
MainState ==
  [pc : PCs, call : {"decode", "flush"}, cur : Nat, done : Nat, out : Nat,
   hasException : BOOLEAN]

\* The buffers the lists of the main thread hold: those that wait to be
\* reconstructed (Listed), those in an instance (Working), the one that was
\* taken from the list (Current), and the one that was taken from its instance
\* and is not finished yet (Done).
Listed  == ToSet(parseFrameList)
Working == {recon[i] : i \in 1 .. NumRecon} \ {0}
Current == IF main.pc \in {"error", "recon", "wait", "decompress"} THEN {main.cur} ELSE {}
Done    == IF main.pc \in {"decompress", "refs", "finish"} THEN {main.done} \ {0} ELSE {}

\* Types.  Of the stream no slice is left out but the lost ones.
Types ==
  /\ stream \in Streams
  /\ nal \in (Nat \ {0}) \X (Nat \ {0})
  /\ nal[2] > 1 => nal[1] \in DOMAIN stream /\ nal[2] <= Arriving(nal[1])
  /\ pic \in Seq(Picture)
  /\ list \in Seq(Nat) /\ IsInjective(list) /\ ToSet(list) = Buffers
  /\ dpb \subseteq Buffers
  /\ parseFrameList \in Seq(Nat) /\ IsInjective(parseFrameList) /\ Listed \subseteq Buffers
  /\ parsePic \in Buffers \cup {0}
  /\ started \in BOOLEAN
  /\ recon \in [1 .. NumRecon -> Buffers \cup {0}]
  /\ tuneInDelay \in 0 .. NumReorderPics + ParallelDecInst + 2
  /\ firstOutputPic \in BOOLEAN
  /\ main \in MainState
  /\ {main.cur, main.done, main.out} \subseteq Buffers \cup {0}
  /\ \A b \in Buffers : pic[b].content \in {0} \cup DOMAIN stream

\* The call decides where the main thread can be.  A picture is worked on only
\* when the slices before the next one are of other pictures.
MainOK ==
  /\ main.pc # "idle" => nal[2] = 1
  /\ main.pc \in {"head", "lists"} => nal[1] \in DOMAIN stream
  /\ main.pc \in {"error", "recon", "wait", "decompress", "refs"} => main.cur # 0
  /\ main.call = "decode" => main.out = 0
  /\ main.pc \in {"idle", "head", "lists", "retake", "error", "output"} => main.call = "decode"
  /\ main.pc \in {"flushed", "drain", "last", "ended"} => main.call = "flush"
  /\ main.pc # "fatal"

\* A picture between its activation and its first slice.
Fresh(p) ==
  /\ p.progress = init
  /\ ~p.wasLost /\ ~p.error /\ ~p.exceptionThrownOut /\ ~p.borderExtStarted

\* What is true of one picture: what its state says of its barriers, its tasks
\* and its exceptions.  A picture that is not finished is still referenced or
\* is needed for output, so its buffer is not reusable.  An error that parsing
\* has found, and that has not been thrown out, is on parseDone as soon as the
\* parse tasks are gone.
LocalOK(p) ==
  /\ p.wasLost <=> p.content = 0
  /\ p.content = 0 => p.progress = reconstructed /\ p.slices = 0
  /\ p.content # 0 /\ p.progress < finished =>
       IF stream[p.content].nonRef THEN p.neededForOutput ELSE p.stillReferenced
  /\ p.progress = init =>
       /\ p.parse = "ok" /\ p.slices = 0 /\ ~p.divException
       /\ p.parseDone = Locked /\ p.reconDone = Locked
  /\ p.progress \in {parsing, parsed} => p.reconDone = Locked
  /\ p.progress = reconstructing => p.reconDone.locked
  /\ p.recon # "none" =>
       /\ p.content # 0 /\ p.reconDone.locked
       /\ p.progress = IF p.recon = "finish" THEN reconstructed ELSE reconstructing
  /\ p.recon = "ctus" => p.reconDone.exception
  /\ p.borderExtStarted => p.progress >= reconstructed
  /\ p.lockedByApplication => p.progress = finished /\ ~p.neededForOutput
  /\ p.parse # "ok" => p.content # 0 /\ stream[p.content].fault = "parse"
  /\ p.progress \in {parsing, parsed} =>
       /\ p.divException => p.parse = "failed"
       /\ p.exceptionThrownOut =>
            /\ ~p.parseDone.exception
            /\ p.divException \/ stream[p.content].fault = "head"
       /\ p.parse = "failed" => p.parseDone.exception \/ p.exceptionThrownOut
       /\ p.error /\ ~p.exceptionThrownOut => p.parse \in {"throwing", "failed"}

\* It is true of all of them.
PicturesOK == \A b \in Buffers : LocalOK(pic[b])

\* The pictures being parsed, or parsed, are those that wait in the parser's
\* list and the one that was taken from it.
ParsedOK ==
  /\ \A b \in Buffers : pic[b].progress \in {parsing, parsed} <=> b \in Listed \cup Current
  /\ Listed \cap Current = {}

\* A picture is in one instance at most, and is being reconstructed or
\* reconstructed.  The one that was taken from its instance has no tasks.
WorkOK ==
  /\ \A b \in Working \cup Done :
       pic[b].content # 0 /\ pic[b].progress \in {reconstructing, reconstructed}
  /\ \A b \in Done : /\ pic[b].recon = "none" /\ b \notin Working
                     /\ pic[b].progress = reconstructing => pic[b].reconDone.exception
  /\ \A i, j \in 1 .. NumRecon : recon[i] = recon[j] /\ recon[i] # 0 => i = j
  /\ main.pc = "decompress" => recon[NumRecon] = 0
  /\ main.pc = "refs" =>
       /\ recon[NumRecon] = main.cur /\ pic[main.cur].progress = reconstructing
       /\ pic[main.cur].recon = "none"

\* A picture that is being reconstructed has tasks or an exception, but
\* between decompressPicture's two halves.
StuckOK ==
  \A b \in Buffers : pic[b].progress = reconstructing =>
    \/ main.pc = "refs" /\ b = main.cur
    \/ pic[b].recon # "none" \/ pic[b].reconDone.exception

\* The picture whose slices arrive: its buffer is the parser's, and if its
\* exception was thrown out then its lists could not be constructed or its
\* tasks have thrown.
HeadOK ==
  /\ main.pc = "lists" =>
       /\ parsePic # 0 /\ Fresh(pic[parsePic]) /\ pic[parsePic].content = nal[1]
  /\ nal[2] > 1 /\ (started \/ stream[nal[1]].idr) =>
       /\ parsePic # 0 /\ pic[parsePic].content = nal[1]
       /\ pic[parsePic].progress \in {init, parsing, parsed}
       /\ pic[parsePic].exceptionThrownOut =>
            pic[parsePic].progress = init \/ pic[parsePic].divException

\* Its references are still needed.
InUse(b) == pic[b].progress < reconstructed

\* The reference entries of a picture in use are what they were when the lists
\* were constructed, and keep their buffers.
RefsHeld ==
  \A b \in Buffers : InUse(b) => \A r \in pic[b].refs :
    /\ r.buf \in Buffers /\ pic[r.buf].stillReferenced
    /\ pic[r.buf].content = r.content /\ pic[r.buf].poc = r.poc
    /\ main.pc = "lists" => r.buf # parsePic

\* No picture refers to itself, or to one behind it in the parser's list: by
\* then that buffer was in use.
RefsOrder ==
  \A j \in DOMAIN parseFrameList : \A r \in pic[parseFrameList[j]].refs :
    \A k \in j .. Len(parseFrameList) : r.buf # parseFrameList[k]

\* The references of the picture that was taken have left the list.
RefsTaken ==
  main.pc \in {"error", "recon", "wait", "decompress", "refs"} =>
    \A r \in pic[main.cur].refs : r.buf \notin Listed \cup {main.cur}

\* The application holds no buffer twice, and not the one that flushPic holds
\* for it.
FramesOK ==
  /\ \A h \in held : h \in [buf : Buffers, content : Nat]
  /\ \A h, g \in held : h.buf = g.buf => h = g
  /\ \A h \in held : h.buf # main.out
  /\ main.out # 0 => pic[main.out].lockedByApplication

\* decode gives up a picture with an error and takes the next one without
\* looking whether there is one.  There is: the picture whose last slice has
\* just arrived is in the list or is the one that was taken, and its exception
\* has not been thrown out yet.  In "error" it will be.
RetakeOK ==
  /\ main.pc \in {"take", "retake", "error"} /\ main.call = "decode" =>
       /\ parsePic # 0 /\ parsePic \in Listed \cup Current
       /\ ~pic[parsePic].exceptionThrownOut
  /\ main.pc = "error" =>
       /\ main.hasException => ~pic[main.cur].exceptionThrownOut
       /\ main.hasException \/ pic[main.cur].error

\* The invariant.
Inv ==
  /\ Types /\ MainOK /\ PicturesOK
  /\ ParsedOK /\ WorkOK /\ StuckOK
  /\ HeadOK /\ RetakeOK
  /\ RefsHeld /\ RefsOrder /\ RefsTaken /\ RefsReady
  /\ FramesIntact /\ FramesOK

-----------------------------------------------------------------------------
(***************************************************************************)
(* What can become of one picture.  q is p but for the fields in F.        *)
(***************************************************************************)
Fields ==
  {"content", "poc", "idr", "nonRef", "refs", "progress", "dpbReferenceMark",
   "stillReferenced", "neededForOutput", "lockedByApplication", "wasLost", "error",
   "exceptionThrownOut", "skippedDecCount", "borderExtStarted", "parseDone", "reconDone",
   "divException", "slices", "parsedSlices", "parse", "recon"}
\* q is p but for the fields in F.
SameBut(p, q, F) == \A f \in Fields : f \notin F => q[f] = p[f]

\* The types of two fields, for the proofs that need no more.
LEMMA Progress ==
  ASSUME NEW p \in Picture
  PROVE  p.progress \in init .. finished /\ p.content \in Nat
  BY DEF Picture

\* The states of a picture are in the range of progress.
LEMMA States ==
  \A g \in {init, parsing, parsed, reconstructing, reconstructed, finished} : g \in init .. finished
  BY DEF init, parsing, parsed, reconstructing, reconstructed, finished

\* Barriers when they are locked, unlocked, and given an exception.
LEMMA Barriers ==
  /\ Locked \in Barrier /\ Unlocked \in Barrier
  /\ Locked.locked /\ ~Locked.exception /\ ~Unlocked.locked /\ ~Unlocked.exception
  /\ \A d \in Barrier : /\ Raise(d) \in Barrier /\ Raise(d).exception
                        /\ Raise(d).locked = d.locked
  /\ \A d \in Barrier : /\ [d EXCEPT !.exception = FALSE] \in Barrier
                        /\ ~[d EXCEPT !.exception = FALSE].exception
                        /\ ~d.exception => [d EXCEPT !.exception = FALSE] = d
                        /\ [d EXCEPT !.locked = FALSE] \in Barrier
                        /\ [d EXCEPT !.locked = FALSE].exception = d.exception
  BY DEF Barrier, Locked, Unlocked, Raise

\* A task moves a picture on.
WorkerMove(p, q) ==
  /\ q \in Picture /\ LocalOK(q)
  /\ SameBut(p, q, {"progress", "error", "parseDone", "reconDone", "divException",
                    "parsedSlices", "parse", "recon"})
  /\ p.content # 0 /\ p.progress # init
  /\ p.error => q.error
  /\ p.divException => q.divException
  /\ p.reconDone.exception => q.reconDone.exception
  /\ \/ q.progress = p.progress
     \/ p.progress = parsing /\ q.progress = parsed
     \/ p.progress = reconstructing /\ q.progress = reconstructed /\ p.recon # "none"
  /\ p.recon = "none" => q.recon = "none"
  /\ q.recon \in {"tasks", "ctus"} => p.recon \in {"tasks", "ctus"}
  /\ p.recon # "none" => \/ q.recon # "none" \/ q.reconDone.exception
                         \/ q.progress # reconstructing

\* parseTask moves the picture on when the slice is parsed,
LEMMA ParseSliceMoves ==
  ASSUME NEW p \in Picture, LocalOK(p), p.parse = "ok", p.parsedSlices < p.slices,
         NEW last \in BOOLEAN
  PROVE  WorkerMove(p, [p EXCEPT !.parsedSlices = @ + 1,
                                 !.progress  = IF last /\ @ = parsing THEN parsed ELSE @,
                                 !.parseDone = IF last THEN Unlocked ELSE @])
  <1>1. PICK n : n = p.parsedSlices + 1
    OBVIOUS
  <1>2. PICK g : g = IF last /\ p.progress = parsing THEN parsed ELSE p.progress
    OBVIOUS
  <1>3. PICK d : d = IF last THEN Unlocked ELSE p.parseDone
    OBVIOUS
  <1>4. PICK q : q = [p EXCEPT !.parsedSlices = n, !.progress = g, !.parseDone = d]
    OBVIOUS
  <1>5. n \in Nat /\ g \in init .. finished /\ d \in Barrier /\ p.parsedSlices \in Nat
        /\ p.progress \in init .. finished
    BY <1>1, <1>2, <1>3, Barriers DEF Picture, init, parsed, finished
  <1>6. /\ q \in Picture /\ SameBut(p, q, {"parsedSlices", "progress", "parseDone"})
        /\ q.progress = g /\ q.parseDone = d
    BY <1>4, <1>5 DEF Picture, SameBut, Fields
  <1>7. p.content # 0 /\ p.progress # init
    BY <1>5 DEF LocalOK
  <1>8. LocalOK(q)
    BY <1>2, <1>3, <1>5, <1>6, <1>7, Barriers
       DEF LocalOK, SameBut, Fields, init, parsing, parsed, reconstructing, reconstructed,
           finished
  <1>9. WorkerMove(p, q)
    BY <1>2, <1>6, <1>7, <1>8 DEF WorkerMove, SameBut, Fields, parsing, parsed
  <1> QED
    BY <1>1, <1>2, <1>3, <1>4, <1>9

\* when parseSlice throws,
LEMMA ParseThrowMoves ==
  ASSUME NEW p \in Picture, LocalOK(p), p.parse = "ok", p.slices > 0, p.content # 0,
         stream[p.content].fault = "parse"
  PROVE  WorkerMove(p, [p EXCEPT !.error = TRUE, !.parse = "throwing"])
  <1>1. PICK q : q = [p EXCEPT !.error = TRUE, !.parse = "throwing"]
    OBVIOUS
  <1>2. /\ q \in Picture /\ SameBut(p, q, {"error", "parse"})
        /\ q.error /\ q.parse = "throwing"
    BY <1>1 DEF Picture, SameBut, Fields
  <1>3. p.progress # init
    BY DEF LocalOK
  <1>4. LocalOK(q)
    BY <1>2, <1>3 DEF LocalOK, SameBut, Fields
  <1>5. WorkerMove(p, q)
    BY <1>2, <1>3, <1>4 DEF WorkerMove, SameBut, Fields
  <1> QED
    BY <1>1, <1>5

\* and when the exception is set.
LEMMA ParseThrownMoves ==
  ASSUME NEW p \in Picture, LocalOK(p), p.parse = "throwing"
  PROVE  WorkerMove(p, [p EXCEPT !.parseDone = Raise(@), !.divException = TRUE,
                                 !.parse = "failed"])
  <1>1. PICK d : d = Raise(p.parseDone)
    OBVIOUS
  <1>2. PICK q : q = [p EXCEPT !.parseDone = d, !.divException = TRUE, !.parse = "failed"]
    OBVIOUS
  <1>3. d \in Barrier /\ d.exception
    BY <1>1, Barriers DEF Picture
  <1>4. /\ q \in Picture /\ SameBut(p, q, {"parseDone", "divException", "parse"})
        /\ q.parseDone = d /\ q.divException /\ q.parse = "failed"
    BY <1>2, <1>3 DEF Picture, SameBut, Fields
  <1>5. p.progress # init /\ p.content # 0
    BY DEF LocalOK
  <1>6. LocalOK(q)
    BY <1>3, <1>4, <1>5 DEF LocalOK, SameBut, Fields
  <1>7. WorkerMove(p, q)
    BY <1>4, <1>5, <1>6 DEF WorkerMove, SameBut, Fields
  <1> QED
    BY <1>1, <1>2, <1>7

\* finishReconTask moves it on,
LEMMA ReconstructMoves ==
  ASSUME NEW p \in Picture, LocalOK(p), p.recon = "tasks"
  PROVE  WorkerMove(p, [p EXCEPT !.progress = reconstructed, !.recon = "finish"])
  <1>1. PICK q : q = [p EXCEPT !.progress = reconstructed, !.recon = "finish"]
    OBVIOUS
  <1>2. /\ q \in Picture /\ SameBut(p, q, {"progress", "recon"})
        /\ q.progress = reconstructed /\ q.recon = "finish"
    BY <1>1, States DEF Picture, SameBut, Fields
  <1>3. p.progress = reconstructing /\ p.content # 0
    BY DEF LocalOK
  <1>4. LocalOK(q)
    BY <1>2, <1>3
       DEF LocalOK, SameBut, Fields, init, parsing, parsed, reconstructing, reconstructed,
           finished
  <1>5. WorkerMove(p, q)
    BY <1>2, <1>3, <1>4 DEF WorkerMove, SameBut, Fields, init, reconstructing
  <1> QED
    BY <1>1, <1>5

\* the pool does when that task is done,
LEMMA ReconDoneMoves ==
  ASSUME NEW p \in Picture, LocalOK(p), p.recon = "finish"
  PROVE  WorkerMove(p, [p EXCEPT !.reconDone.locked = FALSE, !.recon = "none"])
  <1>1. PICK d : d = [p.reconDone EXCEPT !.locked = FALSE]
    OBVIOUS
  <1>2. PICK q : q = [p EXCEPT !.reconDone = d, !.recon = "none"]
    OBVIOUS
  <1>3. d \in Barrier /\ d.exception = p.reconDone.exception
    BY <1>1, Barriers DEF Picture
  <1>4. /\ q \in Picture /\ SameBut(p, q, {"reconDone", "recon"})
        /\ q.reconDone = d /\ q.recon = "none"
    BY <1>2, <1>3 DEF Picture, SameBut, Fields
  <1>5. p.progress = reconstructed /\ p.content # 0
    BY DEF LocalOK
  <1>6. LocalOK(q)
    BY <1>4, <1>5
       DEF LocalOK, SameBut, Fields, init, parsing, parsed, reconstructing, reconstructed
  <1>7. WorkerMove(p, q)
    BY <1>3, <1>4, <1>5, <1>6 DEF WorkerMove, SameBut, Fields, init, reconstructing, reconstructed
  <1> QED
    BY <1>1, <1>2, <1>7

\* and a CTU task that throws.
LEMMA ReconThrowMoves ==
  ASSUME NEW p \in Picture, LocalOK(p), p.recon \in {"tasks", "ctus"}
  PROVE  WorkerMove(p, IF p.recon = "tasks"
                       THEN [p EXCEPT !.recon = "none", !.reconDone = Raise(@),
                                      !.divException = TRUE]
                       ELSE [p EXCEPT !.recon = "none"])
  <1>1. PICK d : d = IF p.recon = "tasks" THEN Raise(p.reconDone) ELSE p.reconDone
    OBVIOUS
  <1>2. PICK q : q = IF p.recon = "tasks"
                     THEN [p EXCEPT !.recon = "none", !.reconDone = d, !.divException = TRUE]
                     ELSE [p EXCEPT !.recon = "none"]
    OBVIOUS
  <1>3. p.progress = reconstructing /\ p.content # 0 /\ p.reconDone.locked
        /\ (p.recon = "ctus" => p.reconDone.exception)
    BY DEF LocalOK
  <1>4. d \in Barrier /\ d.exception /\ d.locked
    BY <1>1, <1>3, Barriers DEF Picture
  <1>5. /\ q \in Picture /\ SameBut(p, q, {"recon", "reconDone", "divException"})
        /\ q.recon = "none" /\ q.reconDone = d
        /\ q.divException = p.divException \/ q.divException
    BY <1>1, <1>2, <1>4 DEF Picture, SameBut, Fields
  <1>6. LocalOK(q)
    BY <1>3, <1>4, <1>5
       DEF LocalOK, SameBut, Fields, init, parsing, parsed, reconstructing, reconstructed
  <1>7. WorkerMove(p, q)
    BY <1>3, <1>4, <1>5, <1>6 DEF WorkerMove, SameBut, Fields, init, reconstructing
  <1> QED
    BY <1>1, <1>2, <1>7

\* What the main thread makes of a picture: parse() marks it, or adds the task
\* of its next slice;
LEMMA MarkThrownLocal ==
  ASSUME NEW p \in Picture, LocalOK(p), p.progress \in {init, parsing, parsed},
         p.progress # init => p.divException \/ stream[p.content].fault = "head"
  PROVE  /\ MarkThrown(p) \in Picture /\ LocalOK(MarkThrown(p))
         /\ SameBut(p, MarkThrown(p), {"error", "exceptionThrownOut", "parseDone"})
  <1>1. PICK d : d = [p.parseDone EXCEPT !.exception = FALSE]
    OBVIOUS
  <1>2. PICK q : q = [p EXCEPT !.error = TRUE, !.exceptionThrownOut = TRUE, !.parseDone = d]
    OBVIOUS
  <1>3. /\ d \in Barrier /\ ~d.exception
        /\ p.parseDone = Locked => d = Locked
    <2>1. p.parseDone \in Barrier
      BY DEF Picture
    <2> QED
      BY <1>1, <2>1, Barriers
  <1>4. /\ q \in Picture /\ SameBut(p, q, {"error", "exceptionThrownOut", "parseDone"})
        /\ q.error /\ q.exceptionThrownOut /\ q.parseDone = d
    BY <1>2, <1>3 DEF Picture, SameBut, Fields
  <1>5. LocalOK(q)
    BY <1>3, <1>4
       DEF LocalOK, SameBut, Fields, init, parsing, parsed, reconstructing, reconstructed,
           finished
  <1> QED
    BY <1>1, <1>2, <1>4, <1>5 DEF MarkThrown

\* it adds the task of a later slice;
LEMMA NextSliceLocal ==
  ASSUME NEW p \in Picture, LocalOK(p), p.progress \in {parsing, parsed},
         NEW k \in Nat, NEW out \in BOOLEAN, stream[p.content].nonRef => out,
         NEW q, q = [p EXCEPT !.slices = k, !.neededForOutput = out]
  PROVE  q \in Picture /\ LocalOK(q) /\ SameBut(p, q, {"slices", "neededForOutput"})
  <1>1. /\ q \in Picture /\ SameBut(p, q, {"slices", "neededForOutput"})
        /\ q.slices = k /\ q.neededForOutput = out
    BY DEF Picture, SameBut, Fields
  <1>2. LocalOK(q)
    BY <1>1
       DEF LocalOK, SameBut, Fields, init, parsing, parsed, reconstructing, reconstructed,
           finished
  <1> QED
    BY <1>1, <1>2

\* it adds the task of the first slice;
LEMMA FirstSliceLocal ==
  ASSUME NEW p \in Picture, LocalOK(p), Fresh(p), p.content # 0,
         NEW q \in Picture, SameBut(p, q, {"progress", "slices"}), q.progress = parsing
  PROVE  LocalOK(q)
  BY Barriers
     DEF LocalOK, Fresh, SameBut, Fields, init, parsing, parsed, reconstructing,
         reconstructed, finished

\* the lists and the marking change who refers to it;
LEMMA ListsLocal ==
  ASSUME NEW p \in Picture, LocalOK(p), NEW q \in Picture,
         SameBut(p, q, {"stillReferenced", "refs"}), p.stillReferenced => q.stillReferenced
  PROVE  LocalOK(q)
  BY DEF LocalOK, SameBut, Fields

\* it is no longer marked as in the DPB;
LEMMA UnmarkLocal ==
  ASSUME NEW p \in Picture, LocalOK(p),
         NEW q, q = [p EXCEPT !.dpbReferenceMark = FALSE]
  PROVE  q \in Picture /\ LocalOK(q) /\ SameBut(p, q, {"dpbReferenceMark"})
  <1>1. q \in Picture /\ SameBut(p, q, {"dpbReferenceMark"})
    BY DEF Picture, SameBut, Fields
  <1>2. LocalOK(q)
    BY <1>1 DEF LocalOK, SameBut, Fields
  <1> QED
    BY <1>1, <1>2

\* nobody refers to it any more;
LEMMA UnreferencedLocal ==
  ASSUME NEW p \in Picture, LocalOK(p), p.progress = finished \/ p.wasLost,
         NEW q, q = [p EXCEPT !.stillReferenced = FALSE]
  PROVE  q \in Picture /\ LocalOK(q) /\ SameBut(p, q, {"stillReferenced"})
  <1>1. q \in Picture /\ SameBut(p, q, {"stillReferenced"})
    BY DEF Picture, SameBut, Fields
  <1>2. LocalOK(q)
    BY <1>1 DEF LocalOK, SameBut, Fields, finished
  <1> QED
    BY <1>1, <1>2

\* it is passed over when a picture is chosen;
LEMMA SkippedLocal ==
  ASSUME NEW p \in Picture, LocalOK(p)
  PROVE  LET q == [p EXCEPT !.skippedDecCount = @ + 1]
         IN  q \in Picture /\ LocalOK(q) /\ SameBut(p, q, {"skippedDecCount"})
  <1>1. PICK n : n = p.skippedDecCount + 1
    OBVIOUS
  <1>2. PICK q : q = [p EXCEPT !.skippedDecCount = n]
    OBVIOUS
  <1>3. n \in Nat
    BY <1>1 DEF Picture
  <1>4. q \in Picture /\ SameBut(p, q, {"skippedDecCount"})
    BY <1>2, <1>3 DEF Picture, SameBut, Fields
  <1>5. LocalOK(q)
    BY <1>4 DEF LocalOK, SameBut, Fields
  <1> QED
    BY <1>1, <1>2, <1>4, <1>5

\* it is reconstructed, waited for and finished;
LEMMA AfterWaitLocal ==
  ASSUME NEW p \in Picture, LocalOK(p), p.progress \in {reconstructing, reconstructed}
  PROVE  /\ AfterWait(p) \in Picture /\ LocalOK(AfterWait(p))
         /\ SameBut(p, AfterWait(p), {"error"})
  <1>1. PICK x : x = (p.error \/ p.reconDone.exception)
    OBVIOUS
  <1>2. PICK q : q = [p EXCEPT !.error = x]
    OBVIOUS
  <1>3. x \in BOOLEAN
    BY <1>1
  <1>4. q \in Picture /\ SameBut(p, q, {"error"})
    BY <1>2, <1>3 DEF Picture, SameBut, Fields
  <1>5. LocalOK(q)
    BY <1>4 DEF LocalOK, SameBut, Fields, parsing, parsed, reconstructing, reconstructed
  <1> QED
    BY <1>1, <1>2, <1>4, <1>5 DEF AfterWait

\* its reconstruction begins;
LEMMA DecompressLocal ==
  ASSUME NEW p \in Picture, LocalOK(p), p.progress \in {parsing, parsed},
         NEW q, q = [p EXCEPT !.progress = reconstructing]
  PROVE  q \in Picture /\ LocalOK(q) /\ SameBut(p, q, {"progress"})
         /\ q.progress = reconstructing
  <1>1. /\ q \in Picture /\ SameBut(p, q, {"progress"}) /\ q.progress = reconstructing
    BY States DEF Picture, SameBut, Fields
  <1>2. LocalOK(q)
    BY <1>1, Barriers
       DEF LocalOK, SameBut, Fields, init, parsing, parsed, reconstructing, reconstructed,
           finished
  <1> QED
    BY <1>1, <1>2

\* its tasks are added, or it fails before;
LEMMA StartedLocal ==
  ASSUME NEW p \in Picture, LocalOK(p), p.progress = reconstructing,
         NEW q \in {[p EXCEPT !.reconDone = Raise(@), !.error = TRUE],
                    [p EXCEPT !.reconDone = Raise(Locked), !.error = TRUE, !.recon = "ctus"],
                    [p EXCEPT !.reconDone = Locked, !.recon = "tasks"]}
  PROVE  /\ q \in Picture /\ LocalOK(q) /\ SameBut(p, q, {"reconDone", "error", "recon"})
         /\ q.recon # "none" \/ q.reconDone.exception
  <1>1. p.content # 0 /\ p.reconDone \in Barrier /\ p.reconDone.locked
    BY DEF LocalOK, Picture, reconstructing, reconstructed
  <1>2. PICK d : d = Raise(p.reconDone)
    OBVIOUS
  <1>3. PICK e : e = Raise(Locked)
    OBVIOUS
  <1>4. /\ d \in Barrier /\ d.exception /\ d.locked
        /\ e \in Barrier /\ e.exception /\ e.locked
        /\ Locked \in Barrier /\ Locked.locked
    BY <1>1, <1>2, <1>3, Barriers
  <1>5. CASE q = [p EXCEPT !.reconDone = d, !.error = TRUE]
    <2>1. /\ q \in Picture /\ SameBut(p, q, {"reconDone", "error"})
          /\ q.reconDone = d /\ q.error
      BY <1>4, <1>5 DEF Picture, SameBut, Fields
    <2>2. LocalOK(q)
      BY <1>1, <1>4, <2>1
         DEF LocalOK, SameBut, Fields, init, parsing, parsed, reconstructing, reconstructed,
             finished
    <2> QED
      BY <1>4, <2>1, <2>2 DEF SameBut, Fields
  <1>6. CASE q = [p EXCEPT !.reconDone = e, !.error = TRUE, !.recon = "ctus"]
    <2>1. /\ q \in Picture /\ SameBut(p, q, {"reconDone", "error", "recon"})
          /\ q.reconDone = e /\ q.error /\ q.recon = "ctus"
      BY <1>4, <1>6 DEF Picture, SameBut, Fields
    <2>2. LocalOK(q)
      BY <1>1, <1>4, <2>1
         DEF LocalOK, SameBut, Fields, init, parsing, parsed, reconstructing, reconstructed,
             finished
    <2> QED
      BY <1>4, <2>1, <2>2 DEF SameBut, Fields
  <1>7. CASE q = [p EXCEPT !.reconDone = Locked, !.recon = "tasks"]
    <2>1. /\ q \in Picture /\ SameBut(p, q, {"reconDone", "recon"})
          /\ q.reconDone = Locked /\ q.recon = "tasks"
      BY <1>4, <1>7 DEF Picture, SameBut, Fields
    <2>2. LocalOK(q)
      BY <1>1, <1>4, <2>1
         DEF LocalOK, SameBut, Fields, init, parsing, parsed, reconstructing, reconstructed,
             finished
    <2> QED
      BY <1>4, <2>1, <2>2 DEF SameBut, Fields
  <1> QED
    BY <1>2, <1>3, <1>5, <1>6, <1>7

\* it is filled in when it has failed and another refers to it;
LEMMA ExtendBorderLocal ==
  ASSUME NEW p \in Picture, LocalOK(p), p.recon = "none",
         p.progress < reconstructed => p.progress = reconstructing /\ p.reconDone.exception
  PROVE  /\ ExtendBorder(p) \in Picture /\ LocalOK(ExtendBorder(p))
         /\ SameBut(p, ExtendBorder(p), {"error", "parseDone", "reconDone", "progress",
                                         "borderExtStarted"})
         /\ ExtendBorder(p).progress = IF p.progress < reconstructed THEN reconstructed
                                       ELSE p.progress
         /\ ExtendBorder(p).reconDone.exception => p.reconDone.exception
         /\ p.progress >= reconstructed => ExtendBorder(p).error = p.error
  <1>1. p.progress \in init .. finished /\ p.content \in Nat
    BY Progress
  <1>2. CASE p.progress < reconstructed
    <2>1. PICK d : d = Raise(p.parseDone)
      OBVIOUS
    <2>2. PICK q : q = [p EXCEPT !.error = TRUE, !.parseDone = d, !.reconDone = Unlocked,
                                 !.progress = reconstructed, !.borderExtStarted = TRUE]
      OBVIOUS
    <2>3. d \in Barrier
      BY <2>1, Barriers DEF Picture
    <2>4. /\ q \in Picture
          /\ SameBut(p, q, {"error", "parseDone", "reconDone", "progress", "borderExtStarted"})
          /\ q.error /\ q.parseDone = d /\ q.reconDone = Unlocked /\ q.progress = reconstructed
          /\ q.borderExtStarted
      BY <2>2, <2>3, Barriers, States DEF Picture, SameBut, Fields
    <2>5. LocalOK(q)
      BY <1>1, <1>2, <2>4
         DEF LocalOK, SameBut, Fields, init, parsing, parsed, reconstructing, reconstructed,
             finished
    <2>6. q = ExtendBorder(p)
      BY <1>2, <2>1, <2>2 DEF ExtendBorder
    <2>7. ~Unlocked.exception /\ ~(p.progress >= reconstructed)
      BY <1>1, <1>2, Barriers DEF init, reconstructed, finished
    <2> QED
      BY <1>2, <2>4, <2>5, <2>6, <2>7
  <1>3. CASE ~(p.progress < reconstructed)
    <2>1. PICK q : q = [p EXCEPT !.borderExtStarted = TRUE]
      OBVIOUS
    <2>2. /\ q \in Picture /\ SameBut(p, q, {"borderExtStarted"}) /\ q.borderExtStarted
      BY <2>1 DEF Picture, SameBut, Fields
    <2>3. LocalOK(q)
      BY <1>1, <1>3, <2>2
         DEF LocalOK, SameBut, Fields, init, parsing, parsed, reconstructing, reconstructed,
             finished
    <2>4. q = ExtendBorder(p)
      BY <1>3, <2>1 DEF ExtendBorder
    <2> QED
      BY <1>3, <2>2, <2>3, <2>4 DEF SameBut, Fields
  <1> QED
    BY <1>2, <1>3

\* it is finished;
LEMMA FinishedLocal ==
  ASSUME NEW p \in Picture, LocalOK(p), p.content # 0, p.recon = "none",
         p.progress # finished, NEW q \in Picture, q.progress = finished,
         SameBut(p, q, {"error", "exceptionThrownOut", "parseDone", "reconDone", "progress"})
  PROVE  LocalOK(q)
  BY Progress
     DEF LocalOK, SameBut, Fields, init, parsing, parsed, reconstructing, reconstructed,
         finished

\* it is filled in grey, and its exception has left the library;
LEMMA GreyLocal ==
  ASSUME NEW p \in Picture, LocalOK(p), p.progress \in {parsing, parsed},
         NEW q \in Picture, q.progress = reconstructed,
         ~q.reconDone.exception, ~q.reconDone.locked,
         SameBut(p, q, {"error", "parseDone", "reconDone", "progress"})
  PROVE  LocalOK(q) /\ q.content # 0 /\ q.recon = "none"
  <1>1. p.content # 0 /\ p.recon = "none"
    BY DEF LocalOK, parsing, parsed, reconstructing, reconstructed
  <1>2. q.content # 0 /\ q.recon = "none"
    BY <1>1 DEF SameBut, Fields
  <1>3. LocalOK(q)
    BY <1>1
       DEF LocalOK, SameBut, Fields, init, parsing, parsed, reconstructing, reconstructed,
           finished
  <1> QED
    BY <1>2, <1>3

\* its exception leaves the library;
LEMMA ThrownLocal ==
  ASSUME NEW p \in Picture, LocalOK(p), p.progress = finished,
         NEW q, q = [p EXCEPT !.exceptionThrownOut = TRUE]
  PROVE  q \in Picture /\ LocalOK(q) /\ SameBut(p, q, {"exceptionThrownOut"})
  <1>1. q \in Picture /\ SameBut(p, q, {"exceptionThrownOut"})
    BY DEF Picture, SameBut, Fields
  <1>2. LocalOK(q)
    BY <1>1
       DEF LocalOK, SameBut, Fields, init, parsing, parsed, reconstructing, reconstructed,
           finished
  <1> QED
    BY <1>1, <1>2

\* the application has it, and gives it back.
LEMMA LockLocal ==
  ASSUME NEW p \in Picture, LocalOK(p), WaitsForOutput(p)
  PROVE  /\ Lock(p) \in Picture /\ LocalOK(Lock(p)) /\ Lock(p).lockedByApplication
         /\ SameBut(p, Lock(p), {"lockedByApplication", "neededForOutput"})
  <1>1. PICK q : q = [p EXCEPT !.lockedByApplication = TRUE, !.neededForOutput = FALSE]
    OBVIOUS
  <1>2. /\ q \in Picture /\ SameBut(p, q, {"lockedByApplication", "neededForOutput"})
        /\ q.lockedByApplication /\ ~q.neededForOutput
    BY <1>1 DEF Picture, SameBut, Fields
  <1>3. LocalOK(q)
    BY <1>2
       DEF WaitsForOutput, LocalOK, SameBut, Fields, init, parsing, parsed, reconstructing,
           reconstructed, finished
  <1> QED
    BY <1>1, <1>2, <1>3 DEF Lock

\* The application gives the picture back.
LEMMA ReleaseLocal ==
  ASSUME NEW p \in Picture, LocalOK(p)
  PROVE  /\ Release(p) \in Picture /\ LocalOK(Release(p))
         /\ SameBut(p, Release(p), {"lockedByApplication"})
  <1>1. PICK q : q = [p EXCEPT !.lockedByApplication = FALSE]
    OBVIOUS
  <1>2. q \in Picture /\ SameBut(p, q, {"lockedByApplication"}) /\ ~q.lockedByApplication
    BY <1>1 DEF Picture, SameBut, Fields
  <1>3. LocalOK(q)
    BY <1>2 DEF LocalOK, SameBut, Fields
  <1> QED
    BY <1>1, <1>2, <1>3 DEF Release

\* A new picture: for one that was lost, or for one that arrives.
LEMMA ReusableLocal ==
  ASSUME NEW p \in Picture, LocalOK(p), Reusable(p)
  PROVE  p.recon = "none" /\ p.progress >= reconstructed
  BY Progress
     DEF Reusable, LocalOK, init, parsing, parsed, reconstructing, reconstructed, finished

\* The fields of a picture that was reset.
LEMMA NewFields ==
  /\ NewPicture \in Picture /\ NewPicture.progress = init /\ NewPicture.content = 0
  /\ NewPicture.recon = "none"
  /\ NewPicture.refs = {} /\ NewPicture.slices = 0 /\ NewPicture.parse = "ok"
  /\ ~NewPicture.wasLost /\ ~NewPicture.lockedByApplication /\ ~NewPicture.borderExtStarted
  /\ ~NewPicture.error /\ ~NewPicture.exceptionThrownOut /\ ~NewPicture.divException
  /\ NewPicture.parseDone = Locked /\ NewPicture.reconDone = Locked
  BY Barriers, States DEF NewPicture, Picture

\* The grey picture for a lost reference.
Lost(poc, nonRef) ==
  [NewPicture EXCEPT !.poc = poc, !.nonRef = nonRef, !.wasLost = TRUE,
                     !.dpbReferenceMark = TRUE, !.stillReferenced = TRUE,
                     !.parseDone = Unlocked, !.reconDone = Unlocked,
                     !.progress = reconstructed]

\* It is a picture as LocalOK says.
LEMMA LostLocal ==
  ASSUME NEW poc \in Int, NEW nonRef \in BOOLEAN, NEW q, q = Lost(poc, nonRef)
  PROVE  /\ q \in Picture /\ LocalOK(q) /\ q.progress = reconstructed /\ q.content = 0
         /\ q.recon = "none" /\ ~q.lockedByApplication /\ q.refs = {}
  <1>1. PICK u : u = Unlocked
    OBVIOUS
  <1>2. PICK m : m = [NewPicture EXCEPT !.poc = poc, !.nonRef = nonRef, !.wasLost = TRUE,
                                        !.dpbReferenceMark = TRUE]
    OBVIOUS
  <1>3. q = [m EXCEPT !.stillReferenced = TRUE, !.parseDone = u, !.reconDone = u,
                      !.progress = reconstructed]
    BY <1>1, <1>2 DEF Lost
  <1>4. /\ m \in Picture /\ m.wasLost
        /\ SameBut(NewPicture, m, {"poc", "nonRef", "wasLost", "dpbReferenceMark"})
    BY <1>2, NewFields DEF Picture, SameBut, Fields
  <1>5. u \in Barrier
    BY <1>1, Barriers
  <1>6. /\ q \in Picture /\ q.progress = reconstructed
        /\ SameBut(m, q, {"stillReferenced", "parseDone", "reconDone", "progress"})
    <2>1. m \in Picture /\ reconstructed \in init .. finished
      BY <1>4, States
    <2>2. q \in Picture
      BY <1>3, <1>5, <2>1 DEF Picture
    <2>3. /\ q.progress = reconstructed
          /\ SameBut(m, q, {"stillReferenced", "parseDone", "reconDone", "progress"})
      BY <1>3, <2>1 DEF Picture, SameBut, Fields
    <2> QED
      BY <2>2, <2>3
  <1>7. /\ q.content = 0 /\ q.wasLost /\ q.recon = "none" /\ ~q.lockedByApplication
        /\ q.refs = {} /\ q.slices = 0 /\ ~q.borderExtStarted /\ q.parse = "ok"
    BY <1>4, <1>6, NewFields DEF SameBut, Fields
  <1>8. LocalOK(q)
    BY <1>6, <1>7
       DEF LocalOK, init, parsing, parsed, reconstructing, reconstructed, finished
  <1> QED
    BY <1>6, <1>7, <1>8

\* The picture whose first slice has arrived.
Active(i, c) ==
  [NewPicture EXCEPT !.content = i, !.poc = c.poc, !.idr = c.idr, !.nonRef = c.nonRef,
                     !.dpbReferenceMark = ~c.nonRef, !.stillReferenced = ~c.nonRef,
                     !.neededForOutput = c.out]

\* Its fields,
LEMMA ActiveFields ==
  ASSUME NEW i \in Nat, NEW c \in CodedPicture, NEW q, q = Active(i, c)
  PROVE  /\ q \in Picture
         /\ SameBut(NewPicture, q, {"content", "poc", "idr", "nonRef", "dpbReferenceMark",
                                    "stillReferenced", "neededForOutput"})
         /\ q.content = i /\ q.stillReferenced = (~c.nonRef) /\ q.neededForOutput = c.out
  <1>1. PICK n \in Picture : n = NewPicture
    BY NewFields
  <1>2. PICK poc \in Int, idr \in BOOLEAN, nonRef \in BOOLEAN, still \in BOOLEAN,
             out \in BOOLEAN :
          /\ poc = c.poc /\ idr = c.idr /\ nonRef = c.nonRef /\ still = (~c.nonRef)
          /\ out = c.out
    BY DEF CodedPicture
  <1>3. q = [[[n EXCEPT !.content = i, !.poc = poc, !.idr = idr]
                EXCEPT !.nonRef = nonRef, !.dpbReferenceMark = still]
                EXCEPT !.stillReferenced = still, !.neededForOutput = out]
    BY <1>1, <1>2 DEF Active
  <1>4. PICK m : m = [n EXCEPT !.content = i, !.poc = poc, !.idr = idr]
    OBVIOUS
  <1>5. PICK l : l = [m EXCEPT !.nonRef = nonRef, !.dpbReferenceMark = still]
    OBVIOUS
  <1>6. q = [l EXCEPT !.stillReferenced = still, !.neededForOutput = out]
    BY <1>3, <1>4, <1>5
  <1>7. /\ n \in Picture /\ poc \in Int /\ idr \in BOOLEAN /\ nonRef \in BOOLEAN
        /\ still \in BOOLEAN /\ out \in BOOLEAN
    BY <1>1, <1>2
  <1>8. m \in Picture /\ SameBut(n, m, {"content", "poc", "idr"}) /\ m.content = i
    BY <1>4, <1>7 DEF Picture, SameBut, Fields
  <1>9. l \in Picture /\ SameBut(m, l, {"nonRef", "dpbReferenceMark"})
    <2>1. m \in Picture
      BY <1>8
    <2> QED
      BY <1>5, <1>7, <2>1 DEF Picture, SameBut, Fields
  <1>10. /\ q \in Picture /\ SameBut(l, q, {"stillReferenced", "neededForOutput"})
         /\ q.stillReferenced = still /\ q.neededForOutput = out
    <2>1. l \in Picture
      BY <1>9
    <2> QED
      BY <1>6, <1>7, <2>1 DEF Picture, SameBut, Fields
  <1>11. SameBut(n, q, {"content", "poc", "idr", "nonRef", "dpbReferenceMark",
                        "stillReferenced", "neededForOutput"}) /\ q.content = i
    BY <1>8, <1>9, <1>10 DEF SameBut, Fields
  <1> QED
    BY <1>1, <1>2, <1>10, <1>11

\* and LocalOK, as a picture that is no reference is output.
LEMMA ActiveLocal ==
  ASSUME NEW i \in DOMAIN stream, i \in Nat \ {0}, NEW c \in CodedPicture, c = stream[i],
         c.nonRef => c.out, NEW q, q = Active(i, c)
  PROVE  /\ q \in Picture /\ LocalOK(q) /\ Fresh(q) /\ q.content = i /\ q.recon = "none"
         /\ ~q.lockedByApplication
  <1>1. /\ q \in Picture
        /\ SameBut(NewPicture, q, {"content", "poc", "idr", "nonRef", "dpbReferenceMark",
                                   "stillReferenced", "neededForOutput"})
        /\ q.content = i /\ q.stillReferenced = (~c.nonRef) /\ q.neededForOutput = c.out
    <2>1. i \in Nat
      OBVIOUS
    <2> QED
      BY <2>1, ActiveFields
  <1>2. /\ q \in Picture /\ q.progress = init /\ q.content = i /\ ~q.wasLost
        /\ q.recon = "none" /\ ~q.lockedByApplication /\ q.refs = {} /\ q.slices = 0
        /\ ~q.borderExtStarted /\ q.parse = "ok" /\ ~q.error /\ ~q.exceptionThrownOut
        /\ ~q.divException /\ q.parseDone = Locked /\ q.reconDone = Locked
    BY <1>1, NewFields DEF SameBut, Fields
  <1>3. IF stream[q.content].nonRef THEN q.neededForOutput ELSE q.stillReferenced
    BY <1>1
  <1>4. LocalOK(q)
    BY <1>2, <1>3
       DEF LocalOK, init, parsing, parsed, reconstructing, reconstructed, finished
  <1> QED
    BY <1>2, <1>4 DEF Fresh

-----------------------------------------------------------------------------
(***************************************************************************)
(* The operators on the lists.                                             *)
(***************************************************************************)
LEMMA LeastMember ==
  ASSUME NEW S \in SUBSET Nat, S # {}
  PROVE  Min(S) \in S /\ \A y \in S : Min(S) <= y
  <1> DEFINE below == OpToRel(<, Nat)
  <1>1. IsWellFoundedOn(below, Nat)
    BY NatLessThanWellFounded
  <1>2. \A m, n \in Nat : n < m => <<n, m>> \in below
    BY DEF OpToRel
  <1> HIDE DEF below
  <1>3. PICK m \in S : \A n \in S : ~ (<<n, m>> \in below)
    BY <1>1, WFMin
  <1>4. \A n \in S : ~ (n < m)
    BY <1>2, <1>3
  <1>5. \A n \in S : m <= n
    BY <1>4
  <1> QED
    BY <1>5 DEF Min

\* What is left of a list without one of its elements.
LEMMA RemoveAtProperties ==
  ASSUME NEW s \in Seq(Nat), NEW n \in Nat, n = Len(s), NEW i \in 1 .. n, NEW t,
         t = RemoveAt(s, i)
  PROVE  /\ t \in Seq(Nat) /\ DOMAIN t = 1 .. (n - 1)
         /\ \A k \in 1 .. (n - 1) : t[k] = IF k < i THEN s[k] ELSE s[k + 1]
  <1>1. PICK b, e \in Int : b = i - 1 /\ e = i + 1
    OBVIOUS
  <1>2. 0 <= b /\ b < n /\ e = b + 2 /\ i = b + 1
    BY <1>1
  <1>3. \A k \in 1 .. n : s[k] \in Nat
    BY ElementOfSeq
  <1>4. PICK u, v : u = SubSeq(s, 1, b) /\ v = SubSeq(s, e, n)
    OBVIOUS
  <1>5. u \in Seq(Nat) /\ Len(u) = b /\ \A k \in 1 .. b : u[k] = s[k]
    <2>1. \A k \in 1 .. b : s[k] \in Nat
      BY <1>2, <1>3
    <2>2. /\ u \in Seq(Nat)
          /\ Len(u) = IF 1 <= b THEN b - 1 + 1 ELSE 0
          /\ \A k \in 1 .. b - 1 + 1 : u[k] = s[1 + k - 1]
      BY <1>4, <2>1, SubSeqProperties
    <2>3. b - 1 + 1 = b /\ \A k \in 1 .. b : 1 + k - 1 = k
      BY <1>2
    <2> QED
      BY <1>2, <2>2, <2>3
  <1>6. v \in Seq(Nat) /\ Len(v) = n - 1 - b /\ \A k \in 1 .. (n - 1 - b) : v[k] = s[k + b + 1]
    <2>1. \A k \in e .. n : s[k] \in Nat
      BY <1>2, <1>3
    <2>2. /\ v \in Seq(Nat)
          /\ Len(v) = IF e <= n THEN n - e + 1 ELSE 0
          /\ \A k \in 1 .. n - e + 1 : v[k] = s[e + k - 1]
      BY <1>4, <2>1, SubSeqProperties
    <2>3. n - e + 1 = n - 1 - b /\ \A k \in 1 .. n - e + 1 : e + k - 1 = k + b + 1
      BY <1>2
    <2>4. Len(v) = n - 1 - b
      BY <1>2, <2>2
    <2> QED
      BY <2>2, <2>3, <2>4
  <1>7. t = u \o v
    BY <1>1, <1>4 DEF RemoveAt
  <1>8. /\ u \o v \in Seq(Nat) /\ Len(u \o v) = Len(u) + Len(v)
        /\ \A k \in 1 .. Len(u) + Len(v) :
             (u \o v)[k] = IF k <= Len(u) THEN u[k] ELSE v[k - Len(u)]
    <2>1. u \in Seq(Nat) /\ v \in Seq(Nat)
      BY <1>5, <1>6
    <2> QED
      BY <2>1, ConcatProperties
  <1>9. Len(u) = b /\ Len(u) + Len(v) = n - 1 /\ n - 1 \in Nat
    BY <1>2, <1>5, <1>6
  <1>10. t \in Seq(Nat) /\ Len(t) = n - 1
         /\ \A k \in 1 .. (n - 1) : t[k] = IF k <= b THEN u[k] ELSE v[k - b]
    <2>1. PICK x : x = u \o v
      OBVIOUS
    <2>2. \A k \in 1 .. (n - 1) : x[k] = IF k <= b THEN u[k] ELSE v[k - b]
      BY <1>8, <1>9, <2>1
    <2>3. x \in Seq(Nat) /\ Len(x) = n - 1
      BY <1>8, <1>9, <2>1
    <2> QED
      BY <1>7, <2>1, <2>2, <2>3
  <1>11. ASSUME NEW k \in 1 .. (n - 1) PROVE t[k] = IF k < i THEN s[k] ELSE s[k + 1]
    <2>1. CASE k <= b
      <3>1. k \in 1 .. b /\ k < i
        BY <2>1, <1>2
      <3>2. t[k] = u[k]
        BY <2>1, <1>10
      <3>3. u[k] = s[k]
        BY <3>1, <1>5
      <3> QED
        BY <3>1, <3>2, <3>3
    <2>2. CASE ~ (k <= b)
      <3>1. PICK m \in Int : m = k - b
        BY <1>2
      <3>2. m \in 1 .. (n - 1 - b) /\ m + b + 1 = k + 1 /\ ~ (k < i)
        BY <2>2, <1>2, <3>1
      <3>3. t[k] = v[m]
        BY <2>2, <1>10, <3>1
      <3>4. v[m] = s[m + b + 1]
        BY <1>6, <3>2
      <3> QED
        BY <3>2, <3>3, <3>4
    <2> QED
      BY <2>1, <2>2
  <1>12. DOMAIN t = 1 .. (n - 1)
    BY <1>10, LenProperties
  <1> QED
    BY <1>10, <1>11, <1>12

\* Its elements are the others, in the same order.
InOrder(t, s) ==
  \A k \in DOMAIN t : \E m \in DOMAIN s :
    /\ t[k] = s[m]
    /\ \A l \in k .. Len(t) : \E o \in m .. Len(s) : t[l] = s[o]

\* The rest of an injective list is injective, and lacks the element.
LEMMA Removed ==
  ASSUME NEW s \in Seq(Nat), IsInjective(s), NEW i \in DOMAIN s, NEW t, t = RemoveAt(s, i)
  PROVE  /\ t \in Seq(Nat) /\ IsInjective(t) /\ ToSet(t) = ToSet(s) \ {s[i]}
         /\ InOrder(t, s)
  <1>1. PICK n \in Nat : n = Len(s) /\ DOMAIN s = 1 .. n
    BY LenProperties
  <1>2. /\ t \in Seq(Nat) /\ DOMAIN t = 1 .. (n - 1)
        /\ \A k \in 1 .. (n - 1) : t[k] = IF k < i THEN s[k] ELSE s[k + 1]
    <2>1. i \in 1 .. n
      BY <1>1
    <2> QED
      BY <1>1, <2>1, RemoveAtProperties, ZenonT(60)
  <1>3. Len(t) = n - 1 /\ n - 1 \in Nat
    <2>1. Len(t) \in Nat /\ DOMAIN t = 1 .. Len(t)
      BY <1>2, LenProperties
    <2>2. n - 1 \in Nat
      BY <1>1
    <2> QED
      BY <1>2, <2>1, <2>2
  <1> DEFINE at(k) == IF k < i THEN k ELSE k + 1
  <1>4. \A k \in 1 .. (n - 1) : at(k) \in 1 .. n /\ at(k) # i /\ t[k] = s[at(k)]
    <2> TAKE k \in 1 .. (n - 1)
    <2>1. at(k) \in 1 .. n /\ at(k) # i
      BY <1>1
    <2>2. CASE k < i
      BY <1>2, <2>1, <2>2
    <2>3. CASE ~ (k < i)
      BY <1>2, <2>1, <2>3
    <2> QED
      BY <2>1, <2>2, <2>3
  <1>5. \A k, m \in 1 .. (n - 1) : at(k) = at(m) => k = m
    BY <1>1
  <1>6. \A k, m \in 1 .. (n - 1) : k <= m => at(k) <= at(m)
    BY <1>1
  <1>7. \A m \in 1 .. n : m # i => \E k \in 1 .. (n - 1) : at(k) = m
    <2> SUFFICES ASSUME NEW m \in 1 .. n, m # i PROVE \E k \in 1 .. (n - 1) : at(k) = m
      OBVIOUS
    <2>1. CASE m < i
      <3>1. m \in 1 .. (n - 1) /\ at(m) = m
        BY <1>1, <2>1
      <3> QED
        BY <3>1
    <2>2. CASE ~ (m < i)
      <3>1. m - 1 \in 1 .. (n - 1) /\ at(m - 1) = m
        BY <1>1, <2>2
      <3> QED
        BY <3>1
    <2> QED
      BY <2>1, <2>2
  <1> HIDE DEF at
  <1>8. IsInjective(t)
    <2> SUFFICES ASSUME NEW k \in 1 .. (n - 1), NEW m \in 1 .. (n - 1), t[k] = t[m]
                 PROVE  k = m
      BY <1>2 DEF IsInjective
    <2>1. at(k) \in DOMAIN s /\ at(m) \in DOMAIN s /\ s[at(k)] = s[at(m)]
      BY <1>1, <1>4
    <2>2. at(k) = at(m)
      BY <2>1 DEF IsInjective
    <2> QED
      BY <1>5, <2>2
  <1>9. ToSet(t) = ToSet(s) \ {s[i]}
    <2>1. ASSUME NEW k \in DOMAIN t PROVE t[k] \in ToSet(s) \ {s[i]}
      <3>1. at(k) \in DOMAIN s /\ t[k] = s[at(k)] /\ at(k) # i
        BY <1>1, <1>2, <1>4
      <3>2. s[at(k)] # s[i]
        BY <3>1 DEF IsInjective
      <3> QED
        BY <3>1, <3>2 DEF ToSet
    <2>2. ASSUME NEW m \in DOMAIN s, s[m] # s[i] PROVE s[m] \in ToSet(t)
      <3>1. PICK k \in 1 .. (n - 1) : at(k) = m
        BY <1>1, <1>7, <2>2
      <3>2. k \in DOMAIN t /\ t[k] = s[m]
        BY <1>2, <1>4, <3>1
      <3> QED
        BY <3>2 DEF ToSet
    <2> QED
      BY <2>1, <2>2 DEF ToSet
  <1>10. InOrder(t, s)
    <2> SUFFICES ASSUME NEW k \in DOMAIN t
                 PROVE  \E m \in DOMAIN s :
                          /\ t[k] = s[m]
                          /\ \A l \in k .. Len(t) : \E o \in m .. Len(s) : t[l] = s[o]
      BY DEF InOrder
    <2>1. at(k) \in DOMAIN s /\ t[k] = s[at(k)]
      BY <1>1, <1>2, <1>4
    <2>2. ASSUME NEW l \in k .. Len(t) PROVE \E o \in at(k) .. Len(s) : t[l] = s[o]
      <3>1. l \in 1 .. (n - 1) /\ k \in 1 .. (n - 1) /\ k <= l
        BY <1>2, <1>3
      <3>2. at(l) \in 1 .. n /\ at(k) \in 1 .. n /\ at(k) <= at(l) /\ t[l] = s[at(l)]
        BY <1>4, <1>6, <3>1
      <3>3. at(l) \in at(k) .. Len(s)
        BY <1>1, <3>2
      <3> QED
        BY <3>2, <3>3
    <2> QED
      BY <2>1, <2>2
  <1> QED
    BY <1>2, <1>8, <1>9, <1>10

\* A new element at the end.
LEMMA Appended ==
  ASSUME NEW s \in Seq(Nat), IsInjective(s), NEW e \in Nat, e \notin ToSet(s),
         NEW t, t = Append(s, e)
  PROVE  /\ t \in Seq(Nat) /\ IsInjective(t) /\ ToSet(t) = ToSet(s) \cup {e}
         /\ DOMAIN t = 1 .. Len(s) + 1 /\ Len(t) = Len(s) + 1
         /\ t[Len(s) + 1] = e /\ \A k \in 1 .. Len(s) : t[k] = s[k]
  <1>1. PICK n \in Nat : n = Len(s) /\ DOMAIN s = 1 .. n
    BY LenProperties
  <1>2. /\ t \in Seq(Nat) /\ Len(t) = n + 1 /\ t[n + 1] = e
        /\ \A k \in 1 .. n : t[k] = s[k]
    BY <1>1, AppendProperties
  <1>3. DOMAIN t = 1 .. (n + 1)
    BY <1>2, LenProperties
  <1>4. \A k \in 1 .. (n + 1) : k \in 1 .. n \/ k = n + 1
    OBVIOUS
  <1>5. IsInjective(t)
    BY <1>1, <1>2, <1>3, <1>4 DEF IsInjective, ToSet
  <1>6. ToSet(t) = ToSet(s) \cup {e}
    <2>1. \A k \in 1 .. n : k \in 1 .. (n + 1)
      OBVIOUS
    <2>2. n + 1 \in 1 .. (n + 1)
      OBVIOUS
    <2> QED
      BY <1>1, <1>2, <1>3, <1>4, <2>1, <2>2 DEF ToSet
  <1> QED
    BY <1>1, <1>2, <1>3, <1>5, <1>6

\* An element is moved to the end of the list of buffers.
LEMMA Moved ==
  ASSUME NEW s \in Seq(Nat), IsInjective(s), NEW i \in DOMAIN s, NEW t, t = MoveToEnd(s, i)
  PROVE  t \in Seq(Nat) /\ IsInjective(t) /\ ToSet(t) = ToSet(s)
  <1>1. PICK u : u = RemoveAt(s, i)
    OBVIOUS
  <1>2. u \in Seq(Nat) /\ IsInjective(u) /\ ToSet(u) = ToSet(s) \ {s[i]}
    BY <1>1, Removed
  <1>3. s[i] \in Nat /\ s[i] \in ToSet(s)
    BY ElementOfSeq, LenProperties DEF ToSet
  <1>4. t = Append(u, s[i])
    BY <1>1 DEF MoveToEnd
  <1>5. /\ t \in Seq(Nat) /\ IsInjective(t) /\ ToSet(t) = ToSet(u) \cup {s[i]}
    BY <1>2, <1>3, <1>4, Appended
  <1> QED
    BY <1>2, <1>3, <1>5

-----------------------------------------------------------------------------
(***************************************************************************)
(* PicListManager.  A buffer is new or reusable, and comes as a new        *)
(* picture.                                                                *)
(***************************************************************************)
LEMMA NewBuffer ==
  ASSUME NEW l \in Seq(Nat), IsInjective(l), NEW q \in Seq(Picture), ToSet(l) = DOMAIN q,
         \A b \in DOMAIN q : LocalOK(q[b]), NEW n, n = GetNewPicBuffer(l, q)
  PROVE  /\ n.list \in Seq(Nat) /\ IsInjective(n.list) /\ ToSet(n.list) = DOMAIN n.pic
         /\ n.pic \in Seq(Picture) /\ DOMAIN n.pic = DOMAIN q \cup {n.buf}
         /\ n.buf \in Nat \ {0}
         /\ n.buf \in DOMAIN q => Reusable(q[n.buf])
         /\ n.pic[n.buf] = NewPicture
         /\ \A b \in DOMAIN q : b # n.buf => n.pic[b] = q[b]
  <1>1. PICK i : i = SelectInSeq(l, LAMBDA b : Reusable(q[b]))
    OBVIOUS
  <1>2. PICK k \in Nat : k = Len(q) /\ DOMAIN q = 1 .. k
    BY LenProperties
  <1>3. CASE n = [buf |-> k + 1, list |-> Append(l, k + 1), pic |-> Append(q, NewPicture)]
    <2>1. PICK b \in Nat : b = k + 1
      BY <1>2
    <2>2. b \notin DOMAIN q /\ b # 0 /\ DOMAIN q \cup {b} = 1 .. b
      BY <1>2, <2>1
    <2>3. n.buf = b /\ n.list = Append(l, b) /\ n.pic = Append(q, NewPicture)
      BY <1>3, <2>1
    <2>4. n.list \in Seq(Nat) /\ IsInjective(n.list) /\ ToSet(n.list) = DOMAIN q \cup {b}
      <3>1. PICK t : t = Append(l, b)
        OBVIOUS
      <3>2. t \in Seq(Nat) /\ IsInjective(t) /\ ToSet(t) = ToSet(l) \cup {b}
        BY <2>2, <3>1, Appended, ZenonT(30)
      <3> QED
        BY <2>3, <3>1, <3>2
    <2>5. /\ n.pic \in Seq(Picture) /\ Len(n.pic) = k + 1 /\ n.pic[k + 1] = NewPicture
          /\ \A c \in 1 .. k : n.pic[c] = q[c]
      BY <1>2, <2>3, NewFields, AppendProperties
    <2>6. DOMAIN n.pic = 1 .. b
      BY <2>1, <2>5, LenProperties
    <2> QED
      BY <1>2, <2>1, <2>2, <2>3, <2>4, <2>5, <2>6
  <1>4. CASE /\ i # 0
             /\ n = [buf |-> l[i], list |-> MoveToEnd(l, i),
                     pic |-> [q EXCEPT ![l[i]] = [NewPicture EXCEPT !.recon = q[l[i]].recon]]]
    <2>1. i \in {j \in 1 .. Len(l) : Reusable(q[l[j]])}
      <3> DEFINE I == {j \in 1 .. Len(l) : Reusable(q[l[j]])}
      <3>1. i = IF I # {} THEN Min(I) ELSE 0
        BY <1>1 DEF SelectInSeq
      <3>2. I \in SUBSET Nat
        OBVIOUS
      <3> HIDE DEF I
      <3>3. i \in I
        BY <1>4, <3>1, <3>2, LeastMember
      <3> QED
        BY <3>3 DEF I
    <2>2. i \in DOMAIN l /\ Reusable(q[l[i]])
      BY <2>1, LenProperties
    <2>3. PICK b : b = l[i]
      OBVIOUS
    <2>4. b \in DOMAIN q /\ b \in Nat /\ b # 0
      BY <1>2, <2>2, <2>3 DEF ToSet
    <2>5. q[b] \in Picture /\ q[b].recon = "none"
      BY <2>2, <2>3, <2>4, ReusableLocal, ElementOfSeq, <1>2
    <2>6. [NewPicture EXCEPT !.recon = q[b].recon] = NewPicture
      <3>1. PICK m \in Picture : m = NewPicture
        BY NewFields
      <3>2. m \in Picture /\ m.recon = "none"
        BY <3>1, NewFields
      <3>3. [m EXCEPT !.recon = "none"] = m
        BY <3>2 DEF Picture
      <3> QED
        BY <2>5, <3>1, <3>3
    <2>7. n.buf = b /\ n.list = MoveToEnd(l, i) /\ n.pic = [q EXCEPT ![b] = NewPicture]
      <3>1. n = [buf |-> b, list |-> MoveToEnd(l, i), pic |-> [q EXCEPT ![b] = NewPicture]]
        BY <1>4, <2>3, <2>6
      <3> QED
        BY <3>1
    <2>8. n.list \in Seq(Nat) /\ IsInjective(n.list) /\ ToSet(n.list) = DOMAIN q
      BY <2>2, <2>7, Moved
    <2>9. n.pic \in Seq(Picture)
      BY <1>2, <2>4, <2>7, NewFields, ExceptSeq
    <2>10. /\ DOMAIN n.pic = DOMAIN q /\ n.pic[b] = NewPicture
           /\ \A c \in DOMAIN q : c # b => n.pic[c] = q[c]
      BY <2>4, <2>7
    <2>11. n.buf = b /\ n.pic[b] = NewPicture /\ b \in Nat \ {0} /\ Reusable(q[b])
           /\ DOMAIN q = DOMAIN q \cup {b}
      BY <2>2, <2>3, <2>4, <2>7, <2>10
    <2> QED
      BY <2>8, <2>9, <2>10, <2>11
  <1> QED
    BY <1>1, <1>2, <1>3, <1>4 DEF GetNewPicBuffer

\* Pictures, one for one.
LEMMA SamePlaces ==
  ASSUME NEW q \in Seq(Picture), NEW P, P = [b \in DOMAIN q |-> P[b]],
         \A b \in DOMAIN q : P[b] \in Picture
  PROVE  P \in Seq(Picture)
  <1>1. PICK k \in Nat : k = Len(q) /\ DOMAIN q = 1 .. k
    BY LenProperties
  <1>2. P \in [1 .. k -> Picture]
    BY <1>1
  <1> QED
    BY <1>2, SeqDef

\* A picture loses stillReferenced only when no picture that is still to be
\* reconstructed refers to it, and when it is finished or was never received.
Forgets(q, P) ==
  /\ P \in Seq(Picture) /\ DOMAIN P = DOMAIN q
  /\ \A b \in DOMAIN q : LocalOK(P[b]) /\ SameBut(q[b], P[b], {"stillReferenced"})
  /\ \A b \in DOMAIN q : q[b].stillReferenced /\ ~P[b].stillReferenced =>
        \A c \in DOMAIN q : q[c].progress < reconstructed => \A r \in q[c].refs : r.buf # b

\* markUnusedPicturesReusable does that.
LEMMA MarkUnusedForgets ==
  ASSUME NEW l \in Seq(Nat), NEW q \in Seq(Picture), ToSet(l) = DOMAIN q,
         \A b \in DOMAIN q : LocalOK(q[b]),
         NEW P, P = MarkUnusedPicturesReusable(l, q)
  PROVE  Forgets(q, P)
  <1>1. PICK i : i = SelectInSeq(l, LAMBDA b : UnfinishedInList(q[b]))
    OBVIOUS
  <1>2. PICK upTo : upTo = IF i = 0 THEN l ELSE SubSeq(l, 1, i - 1)
    OBVIOUS
  <1>3. PICK used : used = ReferencedInProgress(l, q)
    OBVIOUS
  <1>4. P = [b \in DOMAIN q |->
               IF b \in ToSet(upTo) \ used /\ ~q[b].dpbReferenceMark
               THEN [q[b] EXCEPT !.stillReferenced = FALSE] ELSE q[b]]
    BY <1>1, <1>2, <1>3, Zenon DEF MarkUnusedPicturesReusable
  <1>5. PICK n \in Nat : n = Len(l) /\ DOMAIN l = 1 .. n
    BY LenProperties
  <1>6. ASSUME NEW b \in ToSet(upTo) PROVE ~UnfinishedInList(q[b])
    <2> DEFINE I == {j \in 1 .. Len(l) : UnfinishedInList(q[l[j]])}
    <2>1. i = IF I # {} THEN Min(I) ELSE 0
      BY <1>1, Zenon DEF SelectInSeq
    <2>2. I \in SUBSET Nat
      OBVIOUS
    <2>3. \A j \in 1 .. n : j \notin I => ~UnfinishedInList(q[l[j]])
      BY <1>5
    <2>4. I \subseteq 1 .. n
      BY <1>5
    <2> HIDE DEF I
    <2>5. CASE I = {}
      <3>1. upTo = l
        BY <1>2, <2>1, <2>5
      <3>2. PICK j \in 1 .. n : b = l[j]
        BY <1>5, <3>1 DEF ToSet
      <3> QED
        BY <2>3, <2>5, <3>2
    <2>6. CASE I # {}
      <3>1. i \in I /\ \A j \in I : i <= j
        BY <2>1, <2>2, <2>6, LeastMember
      <3>2. i \in 1 .. n /\ i # 0
        BY <2>4, <3>1
      <3>3. upTo = SubSeq(l, 1, i - 1)
        BY <1>2, <3>2
      <3>4. PICK m \in Int : m = i - 1
        BY <3>2
      <3>5. \A j \in 1 .. m : l[j] \in Nat /\ j \in 1 .. n /\ j < i
        BY <1>5, <3>2, <3>4, ElementOfSeq
      <3>6. /\ upTo \in Seq(Nat) /\ Len(upTo) = IF 1 <= m THEN m - 1 + 1 ELSE 0
            /\ \A j \in 1 .. m - 1 + 1 : upTo[j] = l[1 + j - 1]
        BY <3>3, <3>4, <3>5, SubSeqProperties
      <3>7. DOMAIN upTo = 1 .. m /\ \A j \in 1 .. m : upTo[j] = l[j]
        <4>1. m - 1 + 1 = m /\ \A j \in 1 .. m : 1 + j - 1 = j
          OBVIOUS
        <4>2. Len(upTo) = m
          BY <3>2, <3>4, <3>6
        <4> QED
          BY <3>6, <4>1, <4>2, LenProperties
      <3>8. PICK j \in 1 .. m : b = l[j]
        BY <3>7 DEF ToSet
      <3>9. j \notin I
        BY <3>1, <3>2, <3>5
      <3> QED
        BY <2>3, <3>5, <3>8, <3>9
    <2> QED
      BY <2>5, <2>6
  <1>7. ASSUME NEW b \in DOMAIN q
        PROVE  /\ P[b] \in Picture /\ LocalOK(P[b])
               /\ SameBut(q[b], P[b], {"stillReferenced"})
               /\ P[b] # q[b] => b \notin used
    <2>1. q[b] \in Picture
      BY ElementOfSeq, LenProperties
    <2>2. CASE b \in ToSet(upTo) \ used /\ ~q[b].dpbReferenceMark
      <3>1. PICK p \in Picture : p = q[b]
        BY <2>1
      <3>2. p.progress = finished \/ p.wasLost
        <4>1. ~UnfinishedInList(p) /\ p.progress \in init .. finished
          BY <1>6, <2>2, <3>1, Progress
        <4> QED
          BY <4>1 DEF UnfinishedInList, init, finished
      <3>3. P[b] = [p EXCEPT !.stillReferenced = FALSE] /\ LocalOK(p)
        BY <1>4, <2>2, <3>1
      <3> QED
        BY <2>2, <3>1, <3>2, <3>3, UnreferencedLocal
    <2>3. CASE ~(b \in ToSet(upTo) \ used /\ ~q[b].dpbReferenceMark)
      <3>1. P[b] = q[b]
        BY <1>4, <2>3
      <3> QED
        BY <2>1, <3>1 DEF SameBut
    <2> QED
      BY <2>2, <2>3
  <1>8. P \in Seq(Picture) /\ DOMAIN P = DOMAIN q
    BY <1>4, <1>7, SamePlaces
  <1>9. ASSUME NEW b \in DOMAIN q, P[b] # q[b], NEW c \in DOMAIN q,
               q[c].progress < reconstructed, NEW r \in q[c].refs
        PROVE  r.buf # b
    BY <1>3, <1>7, <1>9 DEF ReferencedInProgress
  <1> QED
    BY <1>7, <1>8, <1>9 DEF Forgets

\* A picture is finished.
Finishes(q, P, b) ==
  /\ P \in Seq(Picture) /\ DOMAIN P = DOMAIN q
  /\ \A c \in DOMAIN q : LocalOK(P[c])
  /\ \A c \in DOMAIN q : c # b => SameBut(q[c], P[c], {"stillReferenced"})
  /\ P[b].progress = finished
  /\ SameBut(q[b], P[b], {"stillReferenced", "progress", "error", "exceptionThrownOut",
                          "parseDone", "reconDone"})
  /\ \A c \in DOMAIN q : q[c].stillReferenced /\ ~P[c].stillReferenced =>
        \A d \in DOMAIN q : q[d].progress < reconstructed => \A r \in q[d].refs : r.buf # c

\* finishPicture does that.
LEMMA FinishPictureFinishes ==
  ASSUME list \in Seq(Nat), NEW q \in Seq(Picture), ToSet(list) = DOMAIN q,
         \A c \in DOMAIN q : LocalOK(q[c]),
         NEW b \in DOMAIN q, q[b].content # 0, q[b].recon = "none", q[b].progress # finished,
         NEW P, P = FinishPicture(b, q)
  PROVE  Finishes(q, P, b)
  <1>1. PICK p \in Picture : p = q[b]
    BY ElementOfSeq, LenProperties
  <1>2. b \in 1 .. Len(q) /\ DOMAIN q = 1 .. Len(q)
    BY LenProperties
  <1>3. CASE HasError(p)
    <2>1. PICK r : r = IF p.parseDone.exception \/ p.reconDone.exception
                       THEN [p EXCEPT !.progress = finished, !.reconDone = Unlocked,
                                      !.error = TRUE, !.exceptionThrownOut = TRUE]
                       ELSE [p EXCEPT !.progress = finished]
      OBVIOUS
    <2>2. P = [q EXCEPT ![b] = r]
      BY <1>1, <1>3, <2>1, Zenon DEF FinishPicture
    <2>3. /\ r \in Picture /\ r.progress = finished
          /\ SameBut(p, r, {"progress", "reconDone", "error", "exceptionThrownOut"})
      <3>1. CASE p.parseDone.exception \/ p.reconDone.exception
        <4>1. r = [p EXCEPT !.progress = finished, !.reconDone = Unlocked,
                            !.error = TRUE, !.exceptionThrownOut = TRUE]
          BY <2>1, <3>1
        <4> QED
          BY <4>1, States, Barriers DEF Picture, SameBut, Fields
      <3>2. CASE ~(p.parseDone.exception \/ p.reconDone.exception)
        <4>1. r = [p EXCEPT !.progress = finished]
          BY <2>1, <3>2
        <4> QED
          BY <4>1, States DEF Picture, SameBut, Fields
      <3> QED
        BY <3>1, <3>2
    <2>4. LocalOK(p) /\ p.content # 0 /\ p.recon = "none" /\ p.progress # finished
      BY <1>1
    <2>5. SameBut(p, r, {"error", "exceptionThrownOut", "parseDone", "reconDone", "progress"})
          /\ SameBut(p, r, {"stillReferenced", "progress", "error", "exceptionThrownOut",
                          "parseDone", "reconDone"})
      BY <2>3 DEF SameBut
    <2>6. LocalOK(r)
      BY <2>3, <2>4, <2>5, FinishedLocal
    <2>7. P \in Seq(Picture)
      BY <1>2, <2>2, <2>3, ExceptSeq
    <2>8. DOMAIN P = DOMAIN q /\ P[b] = r /\ \A c \in DOMAIN q : c # b => P[c] = q[c]
      BY <2>2
    <2>9. P[b].stillReferenced = q[b].stillReferenced
      BY <1>1, <2>3, <2>8 DEF SameBut, Fields
    <2> QED
      BY <1>1, <2>3, <2>5, <2>6, <2>7, <2>8, <2>9 DEF Finishes, SameBut
  <1>4. CASE ~HasError(p)
    <2>1. PICK M : M = MarkUnusedPicturesReusable(list, q)
      OBVIOUS
    <2>2. Forgets(q, M)
      BY <2>1, MarkUnusedForgets
    <2>3. P = [M EXCEPT ![b].progress = finished]
      BY <1>1, <1>4, <2>1, Zenon DEF FinishPicture
    <2>4. PICK m \in Picture : m = M[b]
      <3>1. M \in Seq(Picture) /\ b \in 1 .. Len(M)
        BY <2>2, LenProperties DEF Forgets
      <3> QED
        BY <3>1, ElementOfSeq
    <2>5. LocalOK(m) /\ SameBut(p, m, {"stillReferenced"})
      BY <1>1, <2>2, <2>4 DEF Forgets
    <2>6. PICK r : r = [m EXCEPT !.progress = finished]
      OBVIOUS
    <2>7. r \in Picture /\ r.progress = finished /\ SameBut(m, r, {"progress"})
      BY <2>6, States DEF Picture, SameBut, Fields
    <2>8. m.content # 0 /\ m.recon = "none" /\ m.progress # finished
      BY <1>1, <2>5 DEF SameBut, Fields
    <2>9. SameBut(m, r, {"error", "exceptionThrownOut", "parseDone", "reconDone", "progress"})
      BY <2>7 DEF SameBut
    <2>10. LocalOK(r)
      BY <2>5, <2>7, <2>8, <2>9, FinishedLocal
    <2>11. P = [M EXCEPT ![b] = r]
      BY <2>3, <2>4, <2>6
    <2>12. M \in Seq(Picture) /\ DOMAIN M = DOMAIN q /\ b \in 1 .. Len(M)
      BY <2>2, LenProperties DEF Forgets
    <2>13. P \in Seq(Picture)
      BY <2>7, <2>11, <2>12, ExceptSeq
    <2>14. DOMAIN P = DOMAIN q /\ P[b] = r /\ \A c \in DOMAIN q : c # b => P[c] = M[c]
      BY <2>11, <2>12
    <2>15. SameBut(q[b], P[b], {"stillReferenced", "progress", "error", "exceptionThrownOut",
                                "parseDone", "reconDone"})
           /\ P[b].stillReferenced = M[b].stillReferenced
      BY <1>1, <2>4, <2>5, <2>7, <2>14 DEF SameBut, Fields
    <2> QED
      BY <2>2, <2>7, <2>10, <2>13, <2>14, <2>15 DEF Finishes, Forgets
  <1> QED
    BY <1>3, <1>4

\* The picture that is output waits for it.
LEMMA LowestExists ==
  ASSUME NEW q, NEW R \in SUBSET (Nat \ {0}), R # {}, \A b \in R : q[b].poc \in Int,
         NEW n \in Nat, \A b \in R : b <= n
  PROVE  \E b \in R : \A c \in R : q[b].poc <= q[c].poc
  <1> DEFINE below(k) == {b \in R : b <= k}
             Lowest(S) == \E b \in S : \A c \in S : q[b].poc <= q[c].poc
             Bad == {k \in Nat : below(k) # {} /\ ~Lowest(below(k))}
  <1>1. Bad = {}
    <2> SUFFICES ASSUME Bad # {} PROVE FALSE
      OBVIOUS
    <2>1. PICK k \in Bad : \A j \in Bad : k <= j
      BY LeastMember
    <2>2. k \in Nat /\ k # 0
      BY <2>1
    <2>3. PICK j \in Nat : j = k - 1
      BY <2>2
    <2>4. j \notin Bad
      BY <2>1, <2>2, <2>3
    <2>5. \A b \in R : b <= k <=> b <= j \/ b = k
      BY <2>2, <2>3
    <2>6. CASE k \notin R
      <3>1. below(k) = below(j)
        BY <2>5, <2>6
      <3> QED
        BY <2>1, <2>4, <3>1
    <2>7. CASE k \in R /\ below(j) = {}
      <3>1. below(k) = {k}
        BY <2>2, <2>5, <2>7
      <3>2. q[k].poc <= q[k].poc
        BY <2>7
      <3>3. Lowest(below(k))
        BY <3>1, <3>2
      <3> QED
        BY <2>1, <3>3
    <2>8. CASE k \in R /\ below(j) # {}
      <3>1. PICK b \in below(j) : \A c \in below(j) : q[b].poc <= q[c].poc
        BY <2>4, <2>8
      <3>2. q[b].poc \in Int /\ q[k].poc \in Int /\ b \in below(k) /\ k \in below(k)
        BY <2>2, <2>5, <2>8, <3>1
      <3>3. \A c \in below(k) : (c = k \/ c \in below(j)) /\ q[c].poc \in Int
        BY <2>5
      <3>4. CASE q[b].poc <= q[k].poc
        <4>1. \A c \in below(k) : q[b].poc <= q[c].poc
          BY <3>1, <3>3, <3>4
        <4> QED
          BY <2>1, <3>2, <4>1
      <3>5. CASE ~(q[b].poc <= q[k].poc)
        <4>1. \A c \in below(k) : q[k].poc <= q[c].poc
          BY <3>1, <3>2, <3>3, <3>5
        <4> QED
          BY <2>1, <3>2, <4>1
      <3> QED
        BY <3>4, <3>5
    <2> QED
      BY <2>6, <2>7, <2>8
  <1>2. below(n) = R
    OBVIOUS
  <1> QED
    BY <1>1, <1>2

\* getNextOutputPic stops in front of place i.
StopsAt(l, q, i) ==
  /\ q[l[i]].neededForOutput \/ q[l[i]].progress < reconstructed
  /\ \/ q[l[i]].progress < finished
     \/ q[l[i]].idr /\ \E j \in 1 .. i - 1 : WaitsForOutput(q[l[j]])

\* The pictures it looks at are those before place e, or all.
Bounds(l, q, e) ==
  /\ \A b : b \in OutputRange(l, q) <=>
        \E k \in DOMAIN l : (e = 0 \/ k < e) /\ b = l[k] /\ WaitsForOutput(q[b])
  /\ \A k \in DOMAIN l : e = 0 \/ k < e => ~StopsAt(l, q, k)
  /\ e # 0 => StopsAt(l, q, e)

\* It looks at a part of the list.
LEMMA RangeBounds ==
  ASSUME NEW l \in Seq(Nat), NEW q
  PROVE  \E e \in 0 .. Len(l) : Bounds(l, q, e)
  <1>1. PICK m \in Nat : m = Len(l) /\ DOMAIN l = 1 .. m
    BY LenProperties
  <1>2. PICK e : e = EndOfRange(l, q)
    OBVIOUS
  <1> DEFINE ends == {i \in DOMAIN l :
                        LET p == q[l[i]] IN
                          /\ p.neededForOutput \/ p.progress < reconstructed
                          /\ \/ p.progress < finished
                             \/ p.idr /\ \E j \in 1 .. i - 1 : WaitsForOutput(q[l[j]])}
  <1>3. e = IF ends = {} THEN 0 ELSE Min(ends)
    BY <1>2, Zenon DEF EndOfRange, Min
  <1>4. ends \in SUBSET (1 .. m) /\ \A k \in DOMAIN l : k \in ends <=> StopsAt(l, q, k)
    BY <1>1 DEF StopsAt
  <1>5. PICK range : range = OutputRange(l, q)
    OBVIOUS
  <1>6. range = {b \in ToSet(IF e = 0 THEN l ELSE SubSeq(l, 1, e - 1)) : WaitsForOutput(q[b])}
    BY <1>2, <1>5, Zenon DEF OutputRange
  <1> HIDE DEF ends
  <1>7. /\ e = 0 \/ e \in 1 .. m
        /\ \A k \in DOMAIN l : e = 0 \/ k < e => ~StopsAt(l, q, k)
        /\ e # 0 => StopsAt(l, q, e)
    <2>1. ends \in SUBSET Nat
      BY <1>4
    <2>2. ends # {} => Min(ends) \in ends /\ \A k \in ends : Min(ends) <= k
      BY <2>1, LeastMember
    <2>3. CASE ends = {}
      BY <1>3, <1>4, <2>3
    <2>4. CASE ends # {}
      <3>1. e \in ends /\ e \in 1 .. m /\ \A k \in ends : e <= k
        BY <1>3, <1>4, <2>2, <2>4
      <3>2. \A k \in 1 .. m : e = 0 \/ k < e => k \notin ends
        BY <3>1
      <3> QED
        BY <1>1, <1>4, <3>1, <3>2
    <2> QED
      BY <2>3, <2>4
  <1>8. \A b : b \in range <=>
          \E k \in DOMAIN l : (e = 0 \/ k < e) /\ b = l[k] /\ WaitsForOutput(q[b])
    <2>1. CASE e = 0
      BY <1>6, <2>1 DEF ToSet
    <2>2. CASE e # 0
      <3>1. PICK k \in Int : k = e - 1
        BY <1>7, <2>2
      <3>2. \A j \in 1 .. k : l[j] \in Nat /\ j \in 1 .. m
        BY <1>1, <1>7, <2>2, <3>1, ElementOfSeq
      <3>3. PICK s : s = SubSeq(l, 1, k)
        OBVIOUS
      <3>4. /\ s \in Seq(Nat) /\ Len(s) = IF 1 <= k THEN k - 1 + 1 ELSE 0
            /\ \A j \in 1 .. k - 1 + 1 : s[j] = l[1 + j - 1]
        BY <3>2, <3>3, SubSeqProperties
      <3>5. DOMAIN s = 1 .. k /\ \A j \in 1 .. k : s[j] = l[j]
        <4>1. k - 1 + 1 = k /\ \A j \in 1 .. k : 1 + j - 1 = j
          OBVIOUS
        <4>2. Len(s) = k
          BY <1>7, <2>2, <3>1, <3>4
        <4> QED
          BY <3>4, <4>1, <4>2, LenProperties
      <3>6. \A j : j \in DOMAIN l /\ j < e <=> j \in 1 .. k
        BY <1>1, <1>7, <2>2, <3>1
      <3>7. range = {b \in ToSet(s) : WaitsForOutput(q[b])}
        BY <1>6, <2>2, <3>1, <3>3
      <3> QED
        BY <2>2, <3>5, <3>6, <3>7 DEF ToSet
    <2> QED
      BY <2>1, <2>2
  <1>9. e \in 0 .. Len(l)
    BY <1>1, <1>7
  <1> QED
    BY <1>5, <1>7, <1>8, <1>9 DEF Bounds

\* getNextOutputPic chooses a picture that waits for output, and keeps the
\* tune-in delay in its range.
LEMMA OutputChoice ==
  ASSUME NEW l \in Seq(Nat), NEW q \in Seq(Picture), ToSet(l) = DOMAIN q,
         NEW t \in 0 .. NumReorderPics + ParallelDecInst + 2, NEW first \in BOOLEAN,
         NEW flush \in BOOLEAN, NEW o, o = GetNextOutputPic(l, q, t, first, flush)
  PROVE  /\ o.tuneIn \in 0 .. NumReorderPics + ParallelDecInst + 2 /\ o.first \in BOOLEAN
         /\ o.buf # 0 => o.buf \in DOMAIN q /\ WaitsForOutput(q[o.buf])
         /\ flush /\ o.buf = 0 => OutputRange(l, q) = {}
  <1>1. PICK range : range = OutputRange(l, q)
    OBVIOUS
  <1>2. PICK e : e = EndOfRange(l, q)
    OBVIOUS
  <1>3. PICK limit : limit = NumReorderPics + (IF first THEN MaxOutOfOrderPics ELSE 0)
    OBVIOUS
  <1>4. PICK lowest : lowest = CHOOSE b \in range : \A c \in range : q[b].poc <= q[c].poc
    OBVIOUS
  <1>5. PICK u : u = t + 1
    OBVIOUS
  <1>6. \/ o = [buf |-> 0, tuneIn |-> t, first |-> first] /\ (flush => range = {})
        \/ /\ t <= NumReorderPics + ParallelDecInst + 1 /\ ~flush
           /\ o = [buf |-> 0, tuneIn |-> u, first |-> first]
        \/ range # {} /\ o = [buf |-> lowest, tuneIn |-> t, first |-> FALSE]
    <2>1. [[buf |-> 0, tuneIn |-> t, first |-> first] EXCEPT !.tuneIn = u]
          = [buf |-> 0, tuneIn |-> u, first |-> first]
      OBVIOUS
    <2>2. o = IF range = {} THEN [buf |-> 0, tuneIn |-> t, first |-> first]
              ELSE IF t <= NumReorderPics + ParallelDecInst + 1 /\ ~flush
              THEN [[buf |-> 0, tuneIn |-> t, first |-> first] EXCEPT !.tuneIn = u]
              ELSE IF Cardinality(range) > limit \/ (flush \/ (e # 0 /\ q[l[e]].idr))
              THEN [buf |-> lowest, tuneIn |-> t, first |-> FALSE]
              ELSE [buf |-> 0, tuneIn |-> t, first |-> first]
      BY <1>1, <1>2, <1>3, <1>4, <1>5, Zenon DEF GetNextOutputPic
    <2> QED
      BY <2>1, <2>2
  <1>7. range # {} => lowest \in DOMAIN q /\ WaitsForOutput(q[lowest])
    <2> SUFFICES ASSUME range # {} PROVE lowest \in DOMAIN q /\ WaitsForOutput(q[lowest])
      OBVIOUS
    <2>1. PICK n \in Nat : n = Len(q) /\ DOMAIN q = 1 .. n
      BY LenProperties
    <2>2. \A b \in range : b \in DOMAIN q /\ WaitsForOutput(q[b])
      <3>1. PICK e1 \in 0 .. Len(l) : Bounds(l, q, e1)
        BY RangeBounds
      <3> QED
        BY <1>1, <3>1 DEF Bounds, ToSet
    <2>3. range \in SUBSET (Nat \ {0}) /\ \A b \in range : b <= n
      BY <2>1, <2>2
    <2>4. \A b \in range : q[b].poc \in Int
      <3> TAKE b \in range
      <3>1. q[b] \in Picture
        BY <2>1, <2>2, ElementOfSeq
      <3> QED
        BY <3>1 DEF Picture
    <2>5. \E b \in range : \A c \in range : q[b].poc <= q[c].poc
      BY <2>3, <2>4, LowestExists
    <2> QED
      BY <1>4, <2>2, <2>5
  <1>8. /\ t \in Nat /\ u \in Nat
        /\ t <= NumReorderPics + ParallelDecInst + 1
           => u \in 0 .. NumReorderPics + ParallelDecInst + 2
    BY <1>5, PicListAssumption
  <1>9. \/ o.buf = 0 /\ o.tuneIn = t /\ o.first = first /\ (flush => range = {})
        \/ /\ t <= NumReorderPics + ParallelDecInst + 1 /\ ~flush
           /\ o.buf = 0 /\ o.tuneIn = u /\ o.first = first
        \/ range # {} /\ o.buf = lowest /\ o.tuneIn = t /\ o.first = FALSE
    BY <1>6
  <1>10. flush /\ o.buf = 0 => range = {}
    <2>1. range # {} => lowest # 0
      <3>1. 0 \notin DOMAIN q
        BY LenProperties
      <3> QED
        BY <1>7, <3>1
    <2> QED
      BY <1>9, <2>1
  <1>11. o.tuneIn \in 0 .. NumReorderPics + ParallelDecInst + 2
    BY <1>8, <1>9
  <1>12. o.first \in BOOLEAN
    BY <1>9
  <1>13. o.buf # 0 => o.buf \in DOMAIN q /\ WaitsForOutput(q[o.buf])
    BY <1>7, <1>9
  <1> QED
    BY <1>1, <1>10, <1>11, <1>12, <1>13

-----------------------------------------------------------------------------
(***************************************************************************)
(* The slices, and the choice of a picture.                                *)
(***************************************************************************)
LEMMA Streaming ==
  ASSUME Types
  PROVE  /\ stream \in Streams /\ Len(stream) \in Nat /\ DOMAIN stream = 1 .. Len(stream)
         /\ \A i \in DOMAIN stream :
              /\ stream[i] \in CodedPicture /\ i \in Nat \ {0}
              /\ stream[i].nonRef => stream[i].out
              /\ LastSlice(i) \in Nat \ {0} /\ Arriving(i) \in Nat \ {0}
              /\ Arriving(i) <= LastSlice(i)
  <1>1. /\ stream \in Streams /\ Len(stream) \in Nat /\ DOMAIN stream = 1 .. Len(stream)
        /\ \A i \in DOMAIN stream :
             /\ stream[i] \in CodedPicture /\ (stream[i].nonRef => stream[i].out)
             /\ stream[i].fault \in {"head", "lost"} => stream[i].slices > 1
    BY DecLibAssumption, ShownOrReferenced DEF Types
  <1>2. ASSUME NEW i \in DOMAIN stream
        PROVE  /\ i \in Nat \ {0} /\ LastSlice(i) \in Nat \ {0}
               /\ Arriving(i) \in Nat \ {0} /\ Arriving(i) <= LastSlice(i)
    <2>1. PICK n \in Nat \ {0} : n = stream[i].slices
      BY <1>1 DEF CodedPicture
    <2>2. Arriving(i) = (IF stream[i].fault = "lost" THEN n - 1 ELSE n) /\ LastSlice(i) = n
      BY <2>1 DEF Arriving, LastSlice
    <2>3. stream[i].fault = "lost" => n > 1
      BY <1>1, <2>1
    <2> QED
      BY <1>1, <2>1, <2>2, <2>3
  <1> QED
    BY <1>1, <1>2

\* The slice after this one: of the same picture if there is another.
LEMMA NextSlice ==
  ASSUME Types, nal[1] \in DOMAIN stream, NEW n, n = NextNal
  PROVE  /\ n \in (Nat \ {0}) \X (Nat \ {0})
         /\ n[2] > 1 => n[1] = nal[1] /\ n[2] = nal[2] + 1 /\ n[2] <= Arriving(nal[1])
         /\ nal[2] = LastSlice(nal[1]) => n[2] = 1
  <1>1. PICK i, k \in Nat \ {0} : nal = <<i, k>>
    BY DEF Types
  <1>2. PICK a, z \in Nat \ {0} : a = Arriving(i) /\ z = LastSlice(i) /\ a <= z
    BY <1>1, Streaming
  <1>3. n = IF k < a THEN <<i, k + 1>> ELSE <<i + 1, 1>>
    BY <1>1, <1>2 DEF NextNal
  <1>4. nal[1] = i /\ nal[2] = k
    BY <1>1
  <1>5. CASE k < a
    BY <1>2, <1>3, <1>4, <1>5
  <1>6. CASE ~(k < a)
    BY <1>2, <1>3, <1>4, <1>6
  <1> QED
    BY <1>5, <1>6

\* The picture that is taken is the first one, or its references are there.
LEMMA Decodables ==
  ASSUME Types, parseFrameList # <<>>, NEW j, j = NextDecodable
  PROVE  /\ j \in DOMAIN parseFrameList
         /\ j = 1 \/ Decodable(pic[parseFrameList[j]])
  <1>1. PICK i : i = SelectInSeq(parseFrameList, LAMBDA b : Decodable(pic[b]))
    OBVIOUS
  <1>2. j = 1 \/ (i # 0 /\ j = i)
    BY <1>1, Zenon DEF NextDecodable
  <1>3. PICK n \in Nat \ {0} : n = Len(parseFrameList) /\ DOMAIN parseFrameList = 1 .. n
    <2>1. parseFrameList \in Seq(Nat)
      BY DEF Types
    <2> QED
      BY <2>1, EmptySeq, LenProperties
  <1>4. i # 0 => i \in DOMAIN parseFrameList /\ Decodable(pic[parseFrameList[i]])
    <2> DEFINE I == {k \in 1 .. Len(parseFrameList) : Decodable(pic[parseFrameList[k]])}
    <2>1. i = IF I # {} THEN Min(I) ELSE 0
      BY <1>1, Zenon DEF SelectInSeq
    <2>2. I \in SUBSET Nat
      OBVIOUS
    <2>3. \A k \in I : k \in DOMAIN parseFrameList /\ Decodable(pic[parseFrameList[k]])
      BY <1>3
    <2> HIDE DEF I
    <2> QED
      BY <2>1, <2>2, <2>3, LeastMember
  <1>5. 1 \in DOMAIN parseFrameList
    BY <1>3
  <1> QED
    BY <1>2, <1>4, <1>5

-----------------------------------------------------------------------------
(***************************************************************************)
(* The steps.  First what all proofs need of the state.                    *)
(***************************************************************************)
LEMMA Buffered ==
  ASSUME Types
  PROVE  /\ \A b \in Buffers : /\ pic[b] \in Picture /\ b \in Nat \ {0}
                               /\ pic[b].progress \in init .. finished /\ pic[b].content \in Nat
         /\ DOMAIN pic = 1 .. Len(pic) /\ Len(pic) \in Nat
         /\ 0 \notin Buffers
  <1>1. pic \in Seq(Picture) /\ DOMAIN pic = 1 .. Len(pic) /\ Len(pic) \in Nat
    BY LenProperties DEF Types
  <1>2. \A b \in Buffers : pic[b] \in Picture /\ b \in Nat \ {0}
    BY <1>1, ElementOfSeq DEF Buffers
  <1>3. \A b \in Buffers : pic[b].progress \in init .. finished /\ pic[b].content \in Nat
    BY <1>2, Progress
  <1> QED
    BY <1>1, <1>2, <1>3 DEF Buffers

\* The buffers the lists and the instances hold.
LEMMA Held ==
  ASSUME Types
  PROVE  /\ Working \subseteq Buffers /\ Done \subseteq Buffers /\ Listed \subseteq Buffers
         /\ \A j \in DOMAIN parseFrameList :
              parseFrameList[j] \in Listed /\ parseFrameList[j] \in Buffers
         /\ \A b \in Listed : \E j \in DOMAIN parseFrameList : b = parseFrameList[j]
         /\ Len(parseFrameList) \in Nat /\ DOMAIN parseFrameList = 1 .. Len(parseFrameList)
  <1>1. Working \subseteq Buffers
    BY DEF Types, Working
  <1>2. Done \subseteq Buffers
    BY DEF Types, Done
  <1>3. Listed \subseteq Buffers
    BY DEF Types
  <1>4. /\ \A j \in DOMAIN parseFrameList : parseFrameList[j] \in Listed
        /\ \A b \in Listed : \E j \in DOMAIN parseFrameList : b = parseFrameList[j]
    BY DEF Listed, ToSet
  <1>5. Len(parseFrameList) \in Nat /\ DOMAIN parseFrameList = 1 .. Len(parseFrameList)
    BY LenProperties DEF Types
  <1> QED
    BY <1>1, <1>2, <1>3, <1>4, <1>5

\* One picture changes.
LEMMA OneChanged ==
  ASSUME Types, NEW b \in Buffers, NEW q \in Picture, pic' = [pic EXCEPT ![b] = q]
  PROVE  /\ pic' \in Seq(Picture) /\ DOMAIN pic' = Buffers
         /\ \A c \in Buffers : pic'[c] = IF c = b THEN q ELSE pic[c]
  <1>1. pic \in Seq(Picture) /\ b \in 1 .. Len(pic)
    BY Buffered DEF Types, Buffers
  <1>2. pic' \in Seq(Picture)
    BY <1>1, ExceptSeq
  <1> QED
    BY <1>2 DEF Buffers

\* It is enough to look at the pictures one by one.
LEMMA LocalKept ==
  ASSUME stream' = stream, \A b \in DOMAIN pic' : LocalOK(pic'[b])
  PROVE  PicturesOK'
  BY DEF PicturesOK, LocalOK, Buffers

\* Each task moves one picture as WorkerMove says.
LEMMA TaskMoves ==
  ASSUME Inv, NEW b \in Buffers, Worker(b)
  PROVE  \E q : /\ WorkerMove(pic[b], q)
                /\ Task(b, q)
  <1>1. PICK p \in Picture : p = pic[b] /\ LocalOK(p)
    BY Buffered DEF Inv, PicturesOK
  <1>2. CASE ParseSlice(b)
    <2>1. PICK last \in BOOLEAN : last = (p.parsedSlices + 1 = LastSlice(p.content))
      OBVIOUS
    <2>2. PICK q : q = [p EXCEPT !.parsedSlices = @ + 1,
                          !.progress  = IF last /\ @ = parsing THEN parsed ELSE @,
                          !.parseDone = IF last THEN Unlocked ELSE @]
      OBVIOUS
    <2>3. p.parse = "ok" /\ p.parsedSlices < p.slices /\ Task(b, q)
      BY <1>1, <1>2, <2>1, <2>2 DEF ParseSlice
    <2>4. WorkerMove(p, q)
      BY <1>1, <2>2, <2>3, ParseSliceMoves
    <2> QED
      BY <1>1, <2>3, <2>4
  <1>3. CASE ParseThrow(b)
    <2>1. PICK q : q = [p EXCEPT !.error = TRUE, !.parse = "throwing"]
      OBVIOUS
    <2>2. Task(b, q) /\ p.parse = "ok" /\ p.slices > 0
      BY <1>1, <1>3, <2>1 DEF ParseThrow
    <2>3. p.content # 0 /\ stream[p.content].fault = "parse"
      BY <1>1, <1>3 DEF ParseThrow, Fault
    <2>4. WorkerMove(p, q)
      BY <1>1, <2>1, <2>2, <2>3, ParseThrowMoves
    <2> QED
      BY <1>1, <2>2, <2>4
  <1>4. CASE ParseThrown(b)
    <2>1. PICK q : q = [p EXCEPT !.parseDone = Raise(@), !.divException = TRUE,
                                 !.parse = "failed"]
      OBVIOUS
    <2>2. Task(b, q) /\ p.parse = "throwing"
      BY <1>1, <1>4, <2>1 DEF ParseThrown
    <2>3. WorkerMove(p, q)
      BY <1>1, <2>1, <2>2, ParseThrownMoves
    <2> QED
      BY <1>1, <2>2, <2>3
  <1>5. CASE Reconstruct(b)
    <2>1. PICK q : q = [p EXCEPT !.progress = reconstructed, !.recon = "finish"]
      OBVIOUS
    <2>2. Task(b, q) /\ p.recon = "tasks"
      BY <1>1, <1>5, <2>1 DEF Reconstruct
    <2>3. WorkerMove(p, q)
      BY <1>1, <2>1, <2>2, ReconstructMoves
    <2> QED
      BY <1>1, <2>2, <2>3
  <1>6. CASE ReconDone(b)
    <2>1. PICK q : q = [p EXCEPT !.reconDone.locked = FALSE, !.recon = "none"]
      OBVIOUS
    <2>2. Task(b, q) /\ p.recon = "finish"
      BY <1>1, <1>6, <2>1 DEF ReconDone
    <2>3. WorkerMove(p, q)
      BY <1>1, <2>1, <2>2, ReconDoneMoves
    <2> QED
      BY <1>1, <2>2, <2>3
  <1>7. CASE ReconThrow(b)
    <2>1. PICK q : q = IF p.recon = "tasks"
                       THEN [p EXCEPT !.recon = "none", !.reconDone = Raise(@),
                                      !.divException = TRUE]
                       ELSE [p EXCEPT !.recon = "none"]
      OBVIOUS
    <2>2. Task(b, q) /\ p.recon \in {"tasks", "ctus"}
      BY <1>1, <1>7, <2>1 DEF ReconThrow
    <2>3. WorkerMove(p, q)
      BY <1>1, <2>1, <2>2, ReconThrowMoves
    <2> QED
      BY <1>1, <2>2, <2>3
  <1> QED
    BY <1>2, <1>3, <1>4, <1>5, <1>6, <1>7 DEF Worker

-----------------------------------------------------------------------------
\* A task.
LEMMA TaskKeeps ==
  ASSUME Inv, NEW b \in Buffers, Worker(b)
  PROVE  Inv'
  <1>1. PICK q : WorkerMove(pic[b], q) /\ Task(b, q)
    BY TaskMoves
  <1>2. /\ UNCHANGED <<stream, list, nal, dpb, parsePic, started, parseFrameList, recon,
                       tuneInDelay, firstOutputPic, main, held, shown, reported, dropped>>
        /\ pic' = [pic EXCEPT ![b] = q]
    BY <1>1 DEF Task, parserVars, appVars
  <1>3. q \in Picture /\ LocalOK(q) /\ pic[b].content # 0 /\ pic[b].progress # init
    BY <1>1 DEF WorkerMove
  <1>4. /\ pic' \in Seq(Picture) /\ DOMAIN pic' = Buffers
        /\ \A c \in Buffers : pic'[c] = IF c = b THEN q ELSE pic[c]
    BY <1>2, <1>3, OneChanged DEF Inv
  <1>5. \A c \in Buffers :
          /\ pic'[c].content = pic[c].content /\ pic'[c].poc = pic[c].poc
          /\ pic'[c].refs = pic[c].refs /\ pic'[c].stillReferenced = pic[c].stillReferenced
          /\ pic'[c].lockedByApplication = pic[c].lockedByApplication
          /\ pic'[c].exceptionThrownOut = pic[c].exceptionThrownOut
          /\ pic[c].progress = init => pic'[c] = pic[c]
    BY <1>1, <1>3, <1>4 DEF WorkerMove, SameBut, Fields
  <1>6. \A c \in Buffers :
          /\ pic[c].error => pic'[c].error
          /\ pic[c].divException => pic'[c].divException
          /\ pic[c].reconDone.exception => pic'[c].reconDone.exception
          /\ \/ pic'[c].progress = pic[c].progress
             \/ pic[c].progress = parsing /\ pic'[c].progress = parsed
             \/ /\ pic[c].progress = reconstructing /\ pic'[c].progress = reconstructed
                /\ pic[c].recon # "none"
          /\ pic[c].recon = "none" => pic'[c].recon = "none"
          /\ pic'[c].recon \in {"tasks", "ctus"} => pic[c].recon \in {"tasks", "ctus"}
          /\ pic[c].recon # "none" => \/ pic'[c].recon # "none" \/ pic'[c].reconDone.exception
                                      \/ pic'[c].progress # reconstructing
    BY <1>1, <1>4 DEF WorkerMove
  <1>7. \A c \in Buffers :
          /\ pic'[c].progress = init <=> pic[c].progress = init
          /\ pic'[c].progress \in {parsing, parsed} <=> pic[c].progress \in {parsing, parsed}
          /\ pic'[c].progress = reconstructing => pic[c].progress = reconstructing
          /\ pic[c].progress \in {reconstructing, reconstructed}
             => pic'[c].progress \in {reconstructing, reconstructed}
          /\ pic[c].progress = finished <=> pic'[c].progress = finished
          /\ pic'[c].progress < reconstructed => pic[c].progress < reconstructed
          /\ pic[c].progress >= reconstructed => pic'[c].progress >= reconstructed
          /\ pic'[c].progress \in parsing .. reconstructing
             => pic[c].progress \in parsing .. reconstructing
    BY <1>6 DEF init, parsing, parsed, reconstructing, reconstructed, finished
  <1>8. Types'
    BY <1>2, <1>4, <1>5 DEF Inv, Types, Buffers, Listed, Arriving
  <1>9. MainOK'
    BY <1>2 DEF Inv, MainOK
  <1>10. PicturesOK'
    <2>1. \A c \in DOMAIN pic' : LocalOK(pic'[c])
      BY <1>3, <1>4 DEF Inv, PicturesOK
    <2> QED
      BY <1>2, <2>1, LocalKept
  <1>11. Listed' = Listed /\ Working' = Working /\ Current' = Current /\ Done' = Done
    BY <1>2 DEF Listed, Working, Current, Done
  <1>12. ParsedOK'
    BY <1>2, <1>4, <1>7, <1>11 DEF Inv, ParsedOK, Buffers
  <1>13. WorkOK'
    <2>1. Working \subseteq Buffers /\ Done \subseteq Buffers
      BY DEF Inv, Types, Working, Done
    <2>2. main.pc = "refs" => main.cur \in Buffers
      BY DEF Inv, Types, MainOK
    <2>3. \A c \in Working \cup Done :
            pic'[c].content # 0 /\ pic'[c].progress \in {reconstructing, reconstructed}
      BY <1>5, <1>7, <2>1 DEF Inv, WorkOK
    <2>4. \A c \in Done : /\ pic'[c].recon = "none" /\ c \notin Working
                          /\ pic'[c].progress = reconstructing => pic'[c].reconDone.exception
      <3> SUFFICES ASSUME NEW c \in Done
                   PROVE  /\ pic'[c].recon = "none" /\ c \notin Working
                          /\ pic'[c].progress = reconstructing => pic'[c].reconDone.exception
        OBVIOUS
      <3>1. /\ pic[c].recon = "none" /\ c \notin Working
            /\ pic[c].progress = reconstructing => pic[c].reconDone.exception
        BY DEF Inv, WorkOK
      <3>2. c \in Buffers
        BY <2>1
      <3> QED
        BY <1>6, <1>7, <3>1, <3>2
    <2>5. main.pc = "refs" => /\ pic'[main.cur].progress = reconstructing
                              /\ pic'[main.cur].recon = "none"
      BY <1>6, <2>2 DEF Inv, WorkOK, parsing, reconstructing
    <2> QED
      BY <1>2, <1>11, <2>3, <2>4, <2>5 DEF Inv, WorkOK
  <1>14. StuckOK'
    BY <1>2, <1>4, <1>6, <1>7 DEF Inv, StuckOK, Buffers
  <1>15. HeadOK'
    BY <1>2, <1>4, <1>5, <1>6, <1>7 DEF Inv, HeadOK, Types, Buffers, Fresh
  <1>16. RetakeOK'
    BY <1>2, <1>4, <1>5, <1>6, <1>11 DEF Inv, RetakeOK, Types, Buffers
  <1>17. RefsHeld'
    BY <1>2, <1>4, <1>5, <1>7 DEF Inv, RefsHeld, Buffers, InUse
  <1>18. RefsOrder'
    <2>1. \A j \in DOMAIN parseFrameList : parseFrameList[j] \in Buffers
      BY DEF Inv, Types, Listed, ToSet
    <2> QED
      BY <1>2, <1>5, <2>1 DEF Inv, RefsOrder
  <1>19. RefsTaken'
    BY <1>2, <1>5, <1>11 DEF Inv, RefsTaken, Types, MainOK
  <1>20. RefsReady'
    <2> SUFFICES ASSUME NEW c \in Buffers, pic'[c].recon \in {"tasks", "ctus"},
                        NEW r \in pic'[c].refs
                 PROVE  pic'[r.buf].progress >= reconstructed
      BY <1>4 DEF RefsReady, RefsReconstructed, Buffers
    <2>1. pic[c].recon \in {"tasks", "ctus"} /\ r \in pic[c].refs
      BY <1>5, <1>6
    <2>2. pic[r.buf].progress >= reconstructed
      BY <2>1 DEF Inv, RefsReady, RefsReconstructed
    <2>3. pic[c].progress = reconstructing
      BY <2>1 DEF Inv, PicturesOK, LocalOK
    <2>4. r.buf \in Buffers
      BY <2>1, <2>3 DEF Inv, RefsHeld, InUse, reconstructing, reconstructed
    <2> QED
      BY <1>7, <2>2, <2>4
  <1>21. FramesIntact'
    BY <1>2, <1>4, <1>5, <1>7 DEF Inv, FramesIntact, FramesOK, Buffers
  <1>22. FramesOK'
    BY <1>2, <1>4, <1>5 DEF Inv, FramesOK, Types, Buffers
  <1> QED
    BY <1>8, <1>9, <1>10, <1>12, <1>13, <1>14, <1>15, <1>16, <1>17, <1>18, <1>19, <1>20,
       <1>21, <1>22 DEF Inv

-----------------------------------------------------------------------------
(***************************************************************************)
(* Steps of the main thread between pictures.                              *)
(***************************************************************************)
QuietPCs ==
  {"idle", "head", "take", "retake", "output", "flushed", "drain", "last", "ended"}
\* The fields those steps may change.
QuietFields ==
  {"lockedByApplication", "neededForOutput", "slices", "error", "exceptionThrownOut",
   "parseDone"}

\* Such a step keeps what says nothing of these fields.
LEMMA QuietStep ==
  ASSUME Inv, main.pc \in QuietPCs, main'.pc \in QuietPCs,
         UNCHANGED <<stream, list, parseFrameList, recon>>,
         DOMAIN pic' = Buffers, \A c \in Buffers : LocalOK(pic'[c]),
         \A c \in Buffers : SameBut(pic[c], pic'[c], QuietFields),
         Types', MainOK', HeadOK', RetakeOK', FramesIntact', FramesOK'
  PROVE  Inv'
  <1>1. /\ Current = {} /\ Done = {} /\ Current' = {} /\ Done' = {}
        /\ Listed' = Listed /\ Working' = Working /\ Buffers' = Buffers
    BY DEF QuietPCs, Current, Done, Listed, Working, Buffers
  <1>2. \A c \in Buffers :
          /\ pic'[c].content = pic[c].content /\ pic'[c].poc = pic[c].poc
          /\ pic'[c].refs = pic[c].refs /\ pic'[c].progress = pic[c].progress
          /\ pic'[c].stillReferenced = pic[c].stillReferenced
          /\ pic'[c].recon = pic[c].recon /\ pic'[c].reconDone = pic[c].reconDone
    BY DEF SameBut, Fields, QuietFields
  <1>3. PicturesOK'
    BY LocalKept
  <1>4. ParsedOK'
    BY <1>1, <1>2 DEF Inv, ParsedOK
  <1>5. WorkOK'
    <2>1. \A c \in Working : /\ c \in Buffers /\ pic[c].content # 0
                            /\ pic[c].progress \in {reconstructing, reconstructed}
      BY Held DEF Inv, WorkOK
    <2>2. \A c \in Working : /\ pic'[c].content # 0
                            /\ pic'[c].progress \in {reconstructing, reconstructed}
      BY <1>2, <2>1
    <2>3. \A i, j \in 1 .. NumRecon : recon[i] = recon[j] /\ recon[i] # 0 => i = j
      BY DEF Inv, WorkOK
    <2>4. main'.pc \notin {"decompress", "refs"}
      BY DEF QuietPCs
    <2> QED
      BY <1>1, <2>2, <2>3, <2>4 DEF WorkOK
  <1>6. StuckOK'
    <2>1. main.pc # "refs"
      BY DEF QuietPCs
    <2> QED
      BY <1>1, <1>2, <2>1 DEF Inv, StuckOK
  <1>7. RefsHeld'
    <2>1. main'.pc # "lists"
      BY DEF QuietPCs
    <2> QED
      BY <1>1, <1>2, <2>1 DEF Inv, RefsHeld, InUse
  <1>8. RefsOrder'
    <2>1. \A j \in DOMAIN parseFrameList : parseFrameList[j] \in Buffers
      BY DEF Inv, Types, Listed, ToSet
    <2> QED
      BY <1>2, <2>1 DEF Inv, RefsOrder
  <1>9. RefsTaken'
    BY DEF RefsTaken, QuietPCs
  <1>10. RefsReady'
    <2> SUFFICES ASSUME NEW c \in Buffers, pic'[c].recon \in {"tasks", "ctus"},
                        NEW r \in pic'[c].refs
                 PROVE  pic'[r.buf].progress >= reconstructed
      BY <1>1 DEF RefsReady, RefsReconstructed
    <2>1. pic[c].recon \in {"tasks", "ctus"} /\ r \in pic[c].refs
      BY <1>2
    <2>2. pic[r.buf].progress >= reconstructed
      BY <2>1 DEF Inv, RefsReady, RefsReconstructed
    <2>3. pic[c].progress = reconstructing
      BY <2>1 DEF Inv, PicturesOK, LocalOK
    <2>4. r.buf \in Buffers
      BY <2>1, <2>3 DEF Inv, RefsHeld, InUse, reconstructing, reconstructed
    <2> QED
      BY <1>2, <2>2, <2>4
  <1> QED
    BY <1>3, <1>4, <1>5, <1>6, <1>7, <1>8, <1>9, <1>10 DEF Inv

\* The application's frames when none is given to it and none comes back.
LEMMA FramesKept ==
  ASSUME Inv, held' = held, DOMAIN pic' = Buffers, main'.out \in {main.out, 0},
         \A c \in Buffers : /\ pic'[c].content = pic[c].content
                            /\ pic[c].lockedByApplication => pic'[c].lockedByApplication
                            /\ pic[c].progress = finished => pic'[c].progress = finished
  PROVE  FramesIntact' /\ FramesOK'
  <1>1. \A h \in held : h.buf \in Buffers
    BY DEF Inv, FramesOK
  <1>2. FramesIntact'
    BY <1>1 DEF Inv, FramesIntact
  <1>3. FramesOK'
    BY <1>1 DEF Inv, FramesOK, Types, Buffers
  <1> QED
    BY <1>2, <1>3

\* The pictures are left alone.
LEMMA PicturesKept ==
  ASSUME Inv, pic' = pic
  PROVE  /\ DOMAIN pic' = Buffers /\ \A c \in Buffers : LocalOK(pic'[c])
         /\ \A c \in Buffers : SameBut(pic[c], pic'[c], QuietFields)
  BY DEF Inv, PicturesOK, Buffers, SameBut

\* Then the invariant is about the main thread only.
LEMMA MainKept ==
  ASSUME Inv, main.pc \in QuietPCs, main'.pc \in QuietPCs,
         UNCHANGED <<stream, list, pic, parseFrameList, recon, held>>,
         main'.out \in {main.out, 0}, Types', MainOK', HeadOK', RetakeOK'
  PROVE  Inv'
  <1>1. FramesIntact' /\ FramesOK'
    BY FramesKept DEF Buffers
  <1> QED
    BY <1>1, PicturesKept, QuietStep

\* The main thread's variables.
LEMMA MainStates ==
  /\ Idle \in MainState /\ Idle.pc = "idle" /\ Idle.call = "decode"
  /\ Idle.cur = 0 /\ Idle.done = 0 /\ Idle.out = 0 /\ Idle.hasException = FALSE
  /\ \A m \in MainState : \A x \in PCs :
       /\ [m EXCEPT !.pc = x] \in MainState /\ [m EXCEPT !.pc = x].pc = x
       /\ [m EXCEPT !.pc = x].call = m.call /\ [m EXCEPT !.pc = x].cur = m.cur
       /\ [m EXCEPT !.pc = x].done = m.done /\ [m EXCEPT !.pc = x].out = m.out
       /\ [m EXCEPT !.pc = x].hasException = m.hasException
  BY DEF Idle, MainState, PCs

\* The state of the main thread in a call that parses or takes a picture.
LEMMA Calls ==
  ASSUME NEW x \in {"head", "take"}, NEW m, m = [Idle EXCEPT !.pc = x]
  PROVE  /\ m \in MainState /\ m.pc = x /\ m.call = "decode"
         /\ m.cur = 0 /\ m.done = 0 /\ m.out = 0
  BY DEF Idle, MainState, PCs

\* Types, when no buffer is added and the contents stay.
LEMMA TypesKept ==
  ASSUME Types, UNCHANGED <<stream, list, dpb, parseFrameList, recon>>,
         pic' \in Seq(Picture), DOMAIN pic' = Buffers,
         \A b \in Buffers : pic'[b].content = pic[b].content,
         nal' \in (Nat \ {0}) \X (Nat \ {0}),
         nal'[2] > 1 => nal'[1] \in DOMAIN stream /\ nal'[2] <= Arriving(nal'[1]),
         parsePic' = parsePic, started' \in BOOLEAN,
         tuneInDelay' \in 0 .. NumReorderPics + ParallelDecInst + 2,
         firstOutputPic' \in BOOLEAN, main' \in MainState,
         {main'.cur, main'.done, main'.out} \subseteq Buffers \cup {0}
  PROVE  Types'
  BY DEF Types, Buffers, Listed, Arriving

\* decode, up to the first slice's references, or with a later slice.
LEMMA DecodeKeeps ==
  ASSUME Inv, Decode
  PROVE  Inv'
  <1>1. PICK i, k : i = nal[1] /\ k = nal[2]
    OBVIOUS
  <1>2. /\ main.pc = "idle" /\ ~EndOfStream
        /\ UNCHANGED <<stream, list, dpb, parsePic, parseFrameList, recon, tuneInDelay,
                       firstOutputPic, held, shown, dropped>>
        /\ started' = (started \/ stream[i].idr)
        /\ \/ ~started' /\ SkipSlice
           \/ /\ started' /\ k = 1
              /\ main' = [Idle EXCEPT !.pc = "head"] /\ UNCHANGED <<nal, pic, reported>>
           \/ started' /\ k # 1 /\ DecodeNextSlice(i, k)
    BY <1>1 DEF Decode, outputVars
  <1>3. /\ Types /\ main \in MainState /\ pic \in Seq(Picture) /\ started \in BOOLEAN
        /\ nal \in (Nat \ {0}) \X (Nat \ {0}) /\ i \in Nat \ {0} /\ k \in Nat \ {0}
        /\ tuneInDelay \in 0 .. NumReorderPics + ParallelDecInst + 2
        /\ firstOutputPic \in BOOLEAN /\ main.out \in Buffers \cup {0}
        /\ parsePic \in Buffers \cup {0}
    BY <1>1 DEF Inv, Types
  <1>4. /\ i \in DOMAIN stream /\ i \in Nat \ {0} /\ stream[i] \in CodedPicture
        /\ stream[i].nonRef => stream[i].out
        /\ LastSlice(i) \in Nat \ {0}
    <2>1. Len(stream) \in Nat /\ DOMAIN stream = 1 .. Len(stream)
      BY <1>3, Streaming
    <2>2. i \in DOMAIN stream
      BY <1>1, <1>2, <1>3, <2>1 DEF EndOfStream
    <2> QED
      BY <1>3, <2>2, Streaming
  <1>5. started' \in BOOLEAN /\ "idle" \in QuietPCs /\ "head" \in QuietPCs /\ "take" \in QuietPCs
    BY <1>2 DEF QuietPCs
  <1>6. PICK n : n = NextNal
    OBVIOUS
  <1>7. /\ n \in (Nat \ {0}) \X (Nat \ {0})
        /\ n[2] > 1 => n[1] = i /\ n[2] = k + 1 /\ n[2] <= Arriving(i)
        /\ k = LastSlice(i) => n[2] = 1
    BY <1>1, <1>3, <1>4, <1>6, NextSlice
  <1>8. k > 1 /\ started' => /\ parsePic # 0 /\ pic[parsePic].content = i
                             /\ pic[parsePic].progress \in {init, parsing, parsed}
                             /\ pic[parsePic].exceptionThrownOut =>
                                  pic[parsePic].progress = init \/ pic[parsePic].divException
    BY <1>1, <1>2 DEF Inv, HeadOK
  <1>9. CASE ~started' /\ SkipSlice
    <2>1. main' = Idle /\ nal' = n /\ UNCHANGED <<pic, reported>>
      BY <1>6, <1>9 DEF SkipSlice
    <2>2. Types'
      BY <1>2, <1>3, <1>4, <1>5, <1>7, <2>1, MainStates, TypesKept DEF Buffers
    <2>3. MainOK' /\ RetakeOK'
      BY <2>1, MainStates DEF MainOK, RetakeOK
    <2>4. HeadOK'
      BY <1>2, <1>7, <1>9, <2>1, MainStates DEF HeadOK
    <2> QED
      BY <1>2, <1>5, <2>1, <2>2, <2>3, <2>4, MainStates, MainKept
  <1>10. CASE /\ started' /\ k = 1
              /\ main' = [Idle EXCEPT !.pc = "head"] /\ UNCHANGED <<nal, pic, reported>>
    <2>1. /\ main' \in MainState /\ main'.pc = "head" /\ main'.call = "decode"
          /\ main'.cur = 0 /\ main'.done = 0 /\ main'.out = 0
      BY <1>10, Calls
    <2>2. Types'
      BY <1>1, <1>2, <1>3, <1>4, <1>5, <1>10, <2>1, TypesKept DEF Types, Buffers
    <2>3. MainOK' /\ RetakeOK'
      BY <1>1, <1>2, <1>4, <1>10, <2>1 DEF MainOK, RetakeOK
    <2>4. HeadOK'
      <3>0. nal' = nal /\ nal[2] = 1
        BY <1>1, <1>10
      <3>1. ~(nal'[2] > 1)
        BY <3>0
      <3> QED
        BY <2>1, <3>1 DEF HeadOK
    <2> QED
      BY <1>2, <1>5, <1>10, <2>1, <2>2, <2>3, <2>4, MainKept
  <1>11. CASE started' /\ k # 1 /\ DecodeNextSlice(i, k)
    <2>1. k > 1
      BY <1>3, <1>11
    <2>2. PICK p \in Picture : p = pic[parsePic]
      BY <1>3, <1>8, <1>11, <2>1, Buffered
    <2>3. /\ parsePic \in Buffers /\ LocalOK(p) /\ p.content = i
          /\ p.progress \in {init, parsing, parsed}
          /\ p.exceptionThrownOut => p.progress = init \/ p.divException
      BY <1>3, <1>8, <1>11, <2>1, <2>2 DEF Inv, PicturesOK
    <2>4. nal' = n
      BY <1>6, <1>11 DEF DecodeNextSlice
    <2>5. ASSUME NEW q \in Picture, LocalOK(q), SameBut(p, q, QuietFields),
                 pic' = [pic EXCEPT ![parsePic] = q],
                 q.exceptionThrownOut /\ k # LastSlice(i) => q.progress = init \/ q.divException,
                 \/ main' = Idle
                 \/ /\ main' = [Idle EXCEPT !.pc = "take"] /\ k = LastSlice(i)
                    /\ p.progress # init /\ ~q.exceptionThrownOut
          PROVE  Inv'
      <3>1. /\ pic' \in Seq(Picture) /\ DOMAIN pic' = Buffers
            /\ \A c \in Buffers : pic'[c] = IF c = parsePic THEN q ELSE pic[c]
        BY <1>3, <2>3, <2>5, OneChanged
      <3>2. \A c \in Buffers : LocalOK(pic'[c])
        BY <2>5, <3>1 DEF Inv, PicturesOK
      <3>3. \A c \in Buffers : SameBut(pic[c], pic'[c], QuietFields)
        BY <2>2, <2>5, <3>1 DEF SameBut
      <3>4. /\ main' \in MainState /\ main'.pc \in {"idle", "take"} /\ main'.call = "decode"
            /\ main'.cur = 0 /\ main'.done = 0 /\ main'.out = 0
            /\ main'.pc = "take" => /\ k = LastSlice(i) /\ p.progress # init
                                    /\ ~q.exceptionThrownOut
        BY <2>5, MainStates, Calls
      <3>5. q.content = i /\ q.progress = p.progress
        BY <2>3, <2>5 DEF SameBut, Fields, QuietFields
      <3>6. \A c \in Buffers :
              /\ pic'[c].content = pic[c].content /\ pic'[c].progress = pic[c].progress
              /\ pic[c].lockedByApplication => pic'[c].lockedByApplication
        <4>1. p.progress # finished
          BY <2>3 DEF init, parsing, parsed, finished
        <4>2. ~p.lockedByApplication
          BY <2>3, <4>1 DEF LocalOK
        <4> QED
          BY <2>2, <2>3, <3>1, <3>5, <4>2
      <3>7. Types'
        BY <1>2, <1>3, <1>4, <1>5, <1>7, <2>4, <3>1, <3>4, <3>6, TypesKept
      <3>8. MainOK'
        BY <1>7, <2>4, <3>4 DEF MainOK
      <3>9. HeadOK'
        <4>1. n[2] > 1 => k # LastSlice(i) /\ n[1] = i
          BY <1>7
        <4> QED
          BY <1>2, <2>3, <2>4, <2>5, <3>1, <3>4, <3>5, <4>1 DEF HeadOK
      <3>10. RetakeOK'
        <4>1. main'.pc = "take" => parsePic \in Listed /\ ~pic'[parsePic].exceptionThrownOut
          <5>1. Current = {}
            BY <1>2 DEF Current
          <5>2. p.progress \in {parsing, parsed} => parsePic \in Listed
            BY <2>2, <2>3, <5>1 DEF Inv, ParsedOK
          <5> QED
            BY <2>3, <3>1, <3>4, <5>2
        <4>2. Listed' = Listed /\ parsePic' = parsePic /\ parsePic # 0
          BY <1>2, <1>3, <2>3, Buffered DEF Listed
        <4> QED
          BY <3>4, <4>1, <4>2 DEF RetakeOK
      <3>11. FramesIntact' /\ FramesOK'
        BY <1>2, <3>1, <3>4, <3>6, FramesKept
      <3> QED
        BY <1>2, <1>5, <3>1, <3>2, <3>3, <3>4, <3>7, <3>8, <3>9, <3>10, <3>11, QuietStep
    <2>6. CASE \/ k = LastSlice(i) /\ stream[i].fault = "head"
               \/ p.progress = init
               \/ p.divException
      <3>1. PICK q : q = MarkThrown(p)
        OBVIOUS
      <3>2. /\ q \in Picture /\ LocalOK(q)
            /\ SameBut(p, q, {"error", "exceptionThrownOut", "parseDone"})
        BY <2>3, <2>6, <3>1, MarkThrownLocal
      <3>3. main' = Idle /\ pic' = [pic EXCEPT ![parsePic] = q]
        BY <1>11, <2>2, <2>6, <3>1 DEF DecodeNextSlice
      <3>4. SameBut(p, q, QuietFields) /\ q.progress = p.progress
            /\ q.divException = p.divException
        BY <3>2 DEF SameBut, QuietFields, Fields
      <3> QED
        BY <2>5, <2>6, <3>2, <3>3, <3>4
    <2>7. CASE ~ \/ k = LastSlice(i) /\ stream[i].fault = "head"
                 \/ p.progress = init
                 \/ p.divException
      <3>1. PICK out \in BOOLEAN : out = stream[i].out
        BY <1>4 DEF CodedPicture
      <3>2. PICK q : q = [p EXCEPT !.slices = k, !.neededForOutput = out]
        OBVIOUS
      <3>3. q \in Picture /\ LocalOK(q) /\ SameBut(p, q, {"slices", "neededForOutput"})
        BY <1>3, <1>4, <2>3, <2>7, <3>1, <3>2, NextSliceLocal
      <3>4. pic' = [pic EXCEPT ![parsePic] = q]
        BY <1>11, <2>2, <2>7, <3>1, <3>2 DEF DecodeNextSlice
      <3>5. \/ main' = Idle
            \/ main' = [Idle EXCEPT !.pc = "take"] /\ k = LastSlice(i)
        BY <1>11, <2>2, <2>7 DEF DecodeNextSlice
      <3>6. SameBut(p, q, QuietFields) /\ q.exceptionThrownOut = p.exceptionThrownOut
            /\ q.progress = p.progress /\ q.divException = p.divException
        BY <3>3 DEF SameBut, QuietFields, Fields
      <3> QED
        BY <2>3, <2>5, <2>7, <3>3, <3>4, <3>5, <3>6
    <2> QED
      BY <2>6, <2>7
  <1> QED
    BY <1>2, <1>9, <1>10, <1>11

\* A picture is chosen for output, and is given to the application or held
\* until the call returns.
LEMMA OutputKeeps ==
  ASSUME Inv, main.pc \in QuietPCs, main'.pc \in QuietPCs, nal[2] = 1,
         NEW b, b # 0 => b \in Buffers /\ WaitsForOutput(pic[b]),
         pic' = LockPic(b),
         UNCHANGED <<stream, nal, list, dpb, parsePic, parseFrameList, recon>>,
         started' \in BOOLEAN, tuneInDelay' \in 0 .. NumReorderPics + ParallelDecInst + 2,
         firstOutputPic' \in BOOLEAN, main' \in MainState,
         {main'.cur, main'.done} \subseteq Buffers \cup {0},
         \/ /\ b # 0 /\ main'.out = 0
            /\ held' = held \cup {[buf |-> b, content |-> pic[b].content]}
         \/ b # 0 /\ held' = held /\ main'.out = b
         \/ b = 0 /\ held' = held /\ main'.out \in {0, main.out},
         MainOK', RetakeOK'
  PROVE  Inv'
  <1>1. Types /\ PicturesOK /\ main.out \in Buffers \cup {0} /\ 0 \notin Buffers
    BY Buffered DEF Inv, Types
  <1>2. HeadOK'
    <2>1. ~(nal'[2] > 1)
      OBVIOUS
    <2> QED
      BY <2>1 DEF HeadOK, QuietPCs
  <1>3. CASE b = 0
    <2>1. pic' = pic
      BY <1>3 DEF LockPic
    <2>2. held' = held /\ main'.out \in {0, main.out}
      BY <1>3
    <2>3. Types'
      <3>1. /\ pic' \in Seq(Picture) /\ DOMAIN pic' = Buffers
            /\ \A c \in Buffers : pic'[c].content = pic[c].content
            /\ nal' \in (Nat \ {0}) \X (Nat \ {0}) /\ nal' = nal
            /\ nal'[2] > 1 => nal'[1] \in DOMAIN stream /\ nal'[2] <= Arriving(nal'[1])
            /\ {main'.cur, main'.done, main'.out} \subseteq Buffers \cup {0}
        BY <1>1, <2>1, <2>2 DEF Types, Buffers
      <3> QED
        BY <1>1, <3>1, TypesKept
    <2> QED
      BY <1>2, <2>1, <2>2, <2>3, MainKept
  <1>4. CASE b # 0
    <2>1. PICK p \in Picture : p = pic[b]
      BY <1>1, <1>4, Buffered
    <2>2. PICK q : q = Lock(p)
      OBVIOUS
    <2>3. /\ b \in Buffers /\ LocalOK(p) /\ WaitsForOutput(p)
      BY <1>1, <1>4, <2>1 DEF PicturesOK
    <2>4. /\ q \in Picture /\ LocalOK(q) /\ q.lockedByApplication
          /\ SameBut(p, q, {"lockedByApplication", "neededForOutput"})
      BY <2>2, <2>3, LockLocal
    <2>5. pic' = [pic EXCEPT ![b] = q]
      BY <1>4, <2>1, <2>2 DEF LockPic
    <2>6. /\ pic' \in Seq(Picture) /\ DOMAIN pic' = Buffers
          /\ \A c \in Buffers : pic'[c] = IF c = b THEN q ELSE pic[c]
      BY <1>1, <2>3, <2>4, <2>5, OneChanged
    <2>7. \A c \in Buffers : LocalOK(pic'[c])
      BY <1>1, <2>4, <2>6 DEF PicturesOK
    <2>8. \A c \in Buffers : SameBut(pic[c], pic'[c], QuietFields)
      BY <2>1, <2>4, <2>6 DEF SameBut, QuietFields
    <2>9. q.content = p.content /\ q.progress = p.progress
      BY <2>4 DEF SameBut, Fields
    <2>10. Types'
      <3>1. /\ \A c \in Buffers : pic'[c].content = pic[c].content
            /\ nal' \in (Nat \ {0}) \X (Nat \ {0}) /\ nal' = nal
            /\ nal'[2] > 1 => nal'[1] \in DOMAIN stream /\ nal'[2] <= Arriving(nal'[1])
            /\ {main'.cur, main'.done, main'.out} \subseteq Buffers \cup {0}
        BY <1>1, <1>4, <2>1, <2>3, <2>6, <2>9 DEF Types
      <3> QED
        BY <1>1, <2>6, <3>1, TypesKept
    <2>11. /\ p.progress = finished /\ p.content = pic[b].content
           /\ \A c \in Buffers : /\ pic'[c].content = pic[c].content
                                 /\ pic[c].lockedByApplication => pic'[c].lockedByApplication
                                 /\ pic[c].progress = finished => pic'[c].progress = finished
      BY <2>1, <2>3, <2>4, <2>6, <2>9 DEF WaitsForOutput
    <2>12. \A h \in held : /\ h.buf \in Buffers /\ h.content \in Nat /\ h.buf # b
                           /\ h = [buf |-> h.buf, content |-> h.content]
      <3> TAKE h \in held
      <3>1. h \in [buf : Buffers, content : Nat] /\ pic[h.buf].lockedByApplication
        BY DEF Inv, FramesOK, FramesIntact
      <3>2. ~pic[h.buf].neededForOutput
        BY <1>1, <3>1 DEF PicturesOK, LocalOK
      <3> QED
        BY <2>1, <2>3, <3>1, <3>2 DEF WaitsForOutput
    <2>13. FramesIntact'
      <3>1. \A h \in held : /\ pic'[h.buf].content = h.content
                            /\ pic'[h.buf].lockedByApplication /\ pic'[h.buf].progress = finished
        BY <2>11, <2>12 DEF Inv, FramesIntact
      <3>2. pic'[b].content = pic[b].content /\ pic'[b].lockedByApplication
            /\ pic'[b].progress = finished
        BY <2>1, <2>3, <2>4, <2>6, <2>9, <2>11
      <3> QED
        BY <1>4, <3>1, <3>2 DEF FramesIntact
    <2>14. FramesOK'
      <3>1. pic'[b].lockedByApplication /\ pic[b].content \in Nat /\ Buffers' = Buffers
        BY <1>1, <2>3, <2>4, <2>6, Buffered DEF Buffers
      <3>2. CASE /\ main'.out = 0
                 /\ held' = held \cup {[buf |-> b, content |-> pic[b].content]}
        <4>1. PICK g : g = [buf |-> b, content |-> pic[b].content]
          OBVIOUS
        <4>2. g \in [buf : Buffers, content : Nat] /\ g.buf = b
          BY <2>3, <3>1, <4>1
        <4>3. \A h \in held : h.buf # g.buf /\ h \in [buf : Buffers, content : Nat] /\ h.buf # 0
          BY <1>1, <2>12, <4>2
        <4>4. \A h, k \in held : h.buf = k.buf => h = k
          BY DEF Inv, FramesOK
        <4> QED
          BY <1>4, <3>1, <3>2, <4>1, <4>2, <4>3, <4>4 DEF FramesOK
      <3>3. CASE held' = held /\ main'.out = b
        <4>1. /\ \A h \in held : h \in [buf : Buffers, content : Nat]
              /\ \A h, k \in held : h.buf = k.buf => h = k
          BY DEF Inv, FramesOK
        <4> QED
          BY <2>12, <3>1, <3>3, <4>1 DEF FramesOK
      <3> QED
        BY <1>4, <3>2, <3>3
    <2> QED
      BY <1>2, <2>6, <2>7, <2>8, <2>10, <2>13, <2>14, QuietStep
  <1> QED
    BY <1>3, <1>4

\* The picture that was held is given to the application.
LEMMA ReturnKeeps ==
  ASSUME Inv, main.pc \in QuietPCs \ {"idle"}, main.out # 0, Return(main.out),
         UNCHANGED <<stream, nal, list, pic, dpb, parsePic, started, parseFrameList, recon,
                     tuneInDelay, firstOutputPic>>
  PROVE  Inv'
  <1>1. /\ Types /\ PicturesOK /\ main.out \in Buffers /\ 0 \notin Buffers /\ nal[2] = 1
        /\ pic[main.out].lockedByApplication
    BY Buffered DEF Inv, Types, MainOK, FramesOK, QuietPCs
  <1>2. PICK g : g = [buf |-> main.out, content |-> pic[main.out].content]
    OBVIOUS
  <1>3. main' = Idle /\ held' = held \cup {g}
    BY <1>2 DEF Return
  <1>4. /\ main' \in MainState /\ main'.pc = "idle" /\ main'.call = "decode"
        /\ main'.cur = 0 /\ main'.done = 0 /\ main'.out = 0
    BY <1>3, MainStates
  <1>5. Types'
    <2>1. /\ pic' \in Seq(Picture) /\ DOMAIN pic' = Buffers
          /\ \A c \in Buffers : pic'[c].content = pic[c].content
          /\ nal' \in (Nat \ {0}) \X (Nat \ {0}) /\ nal' = nal /\ started' \in BOOLEAN
          /\ nal'[2] > 1 => nal'[1] \in DOMAIN stream /\ nal'[2] <= Arriving(nal'[1])
          /\ {main'.cur, main'.done, main'.out} \subseteq Buffers \cup {0}
          /\ tuneInDelay' \in 0 .. NumReorderPics + ParallelDecInst + 2
          /\ firstOutputPic' \in BOOLEAN
      BY <1>1, <1>4 DEF Types, Buffers
    <2> QED
      BY <1>1, <1>4, <2>1, TypesKept
  <1>6. MainOK' /\ RetakeOK'
    BY <1>4 DEF MainOK, RetakeOK
  <1>7. HeadOK'
    <2>1. ~(nal'[2] > 1)
      BY <1>1
    <2> QED
      BY <1>4, <2>1 DEF HeadOK
  <1>8. /\ g \in [buf : Buffers, content : Nat] /\ g.buf = main.out
        /\ g.content = pic[main.out].content
    BY <1>1, <1>2, Buffered
  <1>9. \A h \in held : /\ h \in [buf : Buffers, content : Nat] /\ h.buf # g.buf
                        /\ h.buf \in Buffers
    BY <1>8 DEF Inv, FramesOK
  <1>10. FramesIntact'
    <2>1. pic[main.out].progress = finished
      BY <1>1 DEF PicturesOK, LocalOK
    <2> QED
      BY <1>1, <1>3, <1>8, <2>1 DEF Inv, FramesIntact
  <1>11. FramesOK'
    <2>1. \A h, k \in held : h.buf = k.buf => h = k
      BY DEF Inv, FramesOK
    <2>2. Buffers' = Buffers /\ \A h \in held \cup {g} : h.buf # 0
      BY <1>1, <1>8, <1>9 DEF Buffers
    <2> QED
      BY <1>3, <1>4, <1>8, <1>9, <2>1, <2>2 DEF FramesOK
  <1>12. "idle" \in QuietPCs
    BY DEF QuietPCs
  <1> QED
    BY <1>4, <1>5, <1>6, <1>7, <1>10, <1>11, <1>12, PicturesKept, QuietStep

\* What the state offers for these steps.
LEMMA Chosen ==
  ASSUME Inv, NEW t \in 0 .. NumReorderPics + ParallelDecInst + 2, NEW first \in BOOLEAN,
         NEW flush \in BOOLEAN, NEW o, o = GetNextOutputPic(list, pic, t, first, flush)
  PROVE  /\ o.tuneIn \in 0 .. NumReorderPics + ParallelDecInst + 2 /\ o.first \in BOOLEAN
         /\ o.buf # 0 => o.buf \in Buffers /\ WaitsForOutput(pic[o.buf])
         /\ flush /\ o.buf = 0 => OutputRange(list, pic) = {}
  <1>1. list \in Seq(Nat) /\ pic \in Seq(Picture) /\ ToSet(list) = DOMAIN pic
    BY DEF Inv, Types, Buffers
  <1> QED
    BY <1>1, OutputChoice DEF Buffers

\* The types of what the main thread reads.
LEMMA MainTypes ==
  ASSUME Inv
  PROVE  /\ main \in MainState /\ main.cur \in Buffers \cup {0} /\ main.done \in Buffers \cup {0}
         /\ main.out \in Buffers \cup {0} /\ started \in BOOLEAN
         /\ tuneInDelay \in 0 .. NumReorderPics + ParallelDecInst + 2
         /\ firstOutputPic \in BOOLEAN
         /\ main.pc # "idle" => nal[2] = 1
  BY DEF Inv, Types, MainOK

\* decode returns with a picture or none.
LEMMA DecodeOutputKeeps ==
  ASSUME Inv, DecodeOutput
  PROVE  Inv'
  <1>1. PICK o : o = NextOutput(FALSE)
    OBVIOUS
  <1>2. /\ main.pc = "output" /\ pic' = LockPic(o.buf) /\ Return(o.buf)
        /\ tuneInDelay' = o.tuneIn /\ firstOutputPic' = o.first
        /\ UNCHANGED <<stream, nal, dpb, parsePic, started, list, parseFrameList, recon>>
    BY <1>1 DEF DecodeOutput, Choose, parserVars
  <1>3. /\ o.tuneIn \in 0 .. NumReorderPics + ParallelDecInst + 2 /\ o.first \in BOOLEAN
        /\ o.buf # 0 => o.buf \in Buffers /\ WaitsForOutput(pic[o.buf])
    BY <1>1, Chosen, MainTypes DEF NextOutput
  <1>4. /\ main' = Idle
        /\ \/ o.buf # 0 /\ held' = held \cup {[buf |-> o.buf, content |-> pic[o.buf].content]}
           \/ o.buf = 0 /\ held' = held
    BY <1>2 DEF Return
  <1>5. /\ main' \in MainState /\ main'.pc = "idle" /\ main'.call = "decode"
        /\ main'.cur = 0 /\ main'.done = 0 /\ main'.out = 0
    BY <1>4, MainStates
  <1>6. MainOK' /\ RetakeOK'
    BY <1>5 DEF MainOK, RetakeOK
  <1>7. /\ main.pc \in QuietPCs /\ main'.pc \in QuietPCs /\ nal[2] = 1
        /\ started' \in BOOLEAN /\ {main'.cur, main'.done} \subseteq Buffers \cup {0}
    BY <1>2, <1>5, MainTypes DEF QuietPCs
  <1> QED
    BY <1>2, <1>3, <1>4, <1>5, <1>6, <1>7, OutputKeeps

\* flushPic begins, with a picture that it holds or none.
LEMMA FlushPicKeeps ==
  ASSUME Inv, FlushPic
  PROVE  Inv'
  <1>1. PICK o : o = NextOutput(FALSE)
    OBVIOUS
  <1>2. /\ main.pc = "idle" /\ EndOfStream /\ pic' = LockPic(o.buf) /\ held' = held
        /\ main' = [Idle EXCEPT !.pc = "take", !.call = "flush", !.out = o.buf]
        /\ tuneInDelay' = o.tuneIn /\ firstOutputPic' = o.first
        /\ UNCHANGED <<stream, nal, dpb, parsePic, started, list, parseFrameList, recon>>
    BY <1>1 DEF FlushPic, Choose, parserVars, appVars
  <1>3. /\ o.tuneIn \in 0 .. NumReorderPics + ParallelDecInst + 2 /\ o.first \in BOOLEAN
        /\ o.buf # 0 => o.buf \in Buffers /\ WaitsForOutput(pic[o.buf])
    BY <1>1, Chosen, MainTypes DEF NextOutput
  <1>4. o.buf \in Nat
    BY <1>3, Buffered DEF Inv
  <1>5. PICK b \in Nat : b = o.buf
    BY <1>4
  <1>6. /\ main' \in MainState /\ main'.pc = "take" /\ main'.call = "flush"
        /\ main'.cur = 0 /\ main'.done = 0 /\ main'.out = b
    <2>1. main' = [Idle EXCEPT !.pc = "take", !.call = "flush", !.out = b]
      BY <1>2, <1>5
    <2> QED
      BY <1>5, <2>1 DEF Idle, MainState, PCs
  <1>7. nal[2] = 1
    <2>1. PICK i, k \in Nat \ {0} : nal = <<i, k>>
      BY DEF Inv, Types
    <2>2. i \notin DOMAIN stream
      BY <1>2, <2>1, Streaming DEF Inv, EndOfStream
    <2>3. ~(k > 1)
      BY <2>1, <2>2 DEF Inv, Types
    <2> QED
      BY <2>1, <2>3
  <1>8. MainOK' /\ RetakeOK'
    BY <1>2, <1>6, <1>7 DEF MainOK, RetakeOK
  <1>9. /\ main.pc \in QuietPCs /\ main'.pc \in QuietPCs
        /\ started' \in BOOLEAN /\ {main'.cur, main'.done} \subseteq Buffers \cup {0}
    BY <1>2, <1>6, MainTypes DEF QuietPCs
  <1> QED
    BY <1>2, <1>3, <1>5, <1>6, <1>7, <1>8, <1>9, OutputKeeps

\* flushPic goes on after a picture was reconstructed.
LEMMA FlushedKeeps ==
  ASSUME Inv, Flushed
  PROVE  Inv'
  <1>1. /\ main.pc = "flushed"
        /\ UNCHANGED <<stream, nal, dpb, parsePic, started, list, parseFrameList, recon>>
    BY DEF Flushed, parserVars
  <1>2. /\ main.pc \in QuietPCs \ {"idle"} /\ nal[2] = 1 /\ main.call = "flush"
        /\ started' \in BOOLEAN
    BY <1>1, MainTypes DEF QuietPCs, Inv, MainOK
  <1>3. CASE main.out # 0
    <2>1. Return(main.out) /\ UNCHANGED <<pic, tuneInDelay, firstOutputPic>>
      BY <1>3 DEF Flushed, outputVars
    <2> QED
      BY <1>1, <1>2, <1>3, <2>1, ReturnKeeps
  <1>4. CASE main.out = 0
    <2>1. PICK o : o = NextOutput(FALSE)
      OBVIOUS
    <2>2. /\ pic' = LockPic(o.buf)
          /\ tuneInDelay' = o.tuneIn /\ firstOutputPic' = o.first
          /\ IF o.buf # 0 THEN Return(o.buf) ELSE Goto("take") /\ UNCHANGED appVars
      BY <1>4, <2>1 DEF Flushed, Choose
    <2>3. /\ o.tuneIn \in 0 .. NumReorderPics + ParallelDecInst + 2 /\ o.first \in BOOLEAN
          /\ o.buf # 0 => o.buf \in Buffers /\ WaitsForOutput(pic[o.buf])
      BY <2>1, Chosen, MainTypes DEF NextOutput
    <2>4. /\ main' \in MainState /\ {main'.cur, main'.done} \subseteq Buffers \cup {0}
          /\ \/ main'.pc = "idle" /\ main'.call = "decode" /\ o.buf # 0
                /\ held' = held \cup {[buf |-> o.buf, content |-> pic[o.buf].content]}
             \/ main'.pc = "take" /\ main'.call = "flush" /\ o.buf = 0 /\ held' = held
          /\ main'.out = 0
      <3>1. CASE o.buf # 0
        <4>1. main' = Idle
              /\ held' = held \cup {[buf |-> o.buf, content |-> pic[o.buf].content]}
          BY <2>2, <3>1 DEF Return
        <4> QED
          BY <3>1, <4>1, MainStates
      <3>2. CASE o.buf = 0
        <4>1. main' = [main EXCEPT !.pc = "take"] /\ held' = held
          BY <2>2, <3>2 DEF Goto, appVars
        <4>2. "take" \in PCs
          BY DEF PCs
        <4> QED
          BY <1>2, <1>4, <3>2, <4>1, <4>2, MainTypes, MainStates
      <3> QED
        BY <3>1, <3>2
    <2>5. MainOK' /\ RetakeOK'
      BY <1>1, <1>2, <2>4 DEF MainOK, RetakeOK
    <2>6. main.pc \in QuietPCs /\ main'.pc \in QuietPCs
      BY <1>2, <2>4 DEF QuietPCs
    <2> QED
      BY <1>1, <1>2, <2>2, <2>3, <2>4, <2>5, <2>6, OutputKeeps
  <1> QED
    BY <1>3, <1>4

\* flushPic when all pictures are finished.
LEMMA FlushLastKeeps ==
  ASSUME Inv, FlushLast
  PROVE  Inv'
  <1>1. PICK o1 : o1 = NextOutput(FALSE)
    OBVIOUS
  <1>2. PICK o : o = IF o1.buf # 0 THEN o1
                     ELSE GetNextOutputPic(list, pic, o1.tuneIn, o1.first, TRUE)
    OBVIOUS
  <1>3. /\ main.pc = "last"
        /\ UNCHANGED <<stream, nal, dpb, parsePic, list, parseFrameList, recon>>
        /\ IF o.buf # 0
           THEN /\ tuneInDelay' = o.tuneIn /\ firstOutputPic' = o.first
                /\ pic' = LockPic(o.buf) /\ Return(o.buf)
                /\ UNCHANGED started
           ELSE /\ Goto("ended")
                /\ started' = FALSE /\ tuneInDelay' = 0 /\ firstOutputPic' = TRUE
                /\ UNCHANGED <<pic, appVars>>
    BY <1>1, <1>2, Zenon DEF FlushLast, Choose
  <1>4. /\ o.tuneIn \in 0 .. NumReorderPics + ParallelDecInst + 2 /\ o.first \in BOOLEAN
        /\ o.buf # 0 => o.buf \in Buffers /\ WaitsForOutput(pic[o.buf])
    <2>1. /\ o1.tuneIn \in 0 .. NumReorderPics + ParallelDecInst + 2 /\ o1.first \in BOOLEAN
          /\ o1.buf # 0 => o1.buf \in Buffers /\ WaitsForOutput(pic[o1.buf])
      BY <1>1, Chosen, MainTypes DEF NextOutput
    <2> QED
      BY <1>2, <2>1, Chosen
  <1>5. /\ main.pc \in QuietPCs /\ nal[2] = 1 /\ main.call = "flush" /\ started \in BOOLEAN
    BY <1>3, MainTypes DEF QuietPCs, Inv, MainOK
  <1>6. CASE o.buf # 0
    <2>1. /\ tuneInDelay' = o.tuneIn /\ firstOutputPic' = o.first
          /\ pic' = LockPic(o.buf) /\ Return(o.buf) /\ started' = started
      BY <1>3, <1>6
    <2>2. main' = Idle /\ held' = held \cup {[buf |-> o.buf, content |-> pic[o.buf].content]}
      BY <1>6, <2>1 DEF Return
    <2>3. /\ main' \in MainState /\ main'.pc = "idle" /\ main'.call = "decode"
          /\ main'.cur = 0 /\ main'.done = 0 /\ main'.out = 0
      BY <2>2, MainStates
    <2>4. MainOK' /\ RetakeOK' /\ main'.pc \in QuietPCs
          /\ {main'.cur, main'.done} \subseteq Buffers \cup {0}
      BY <2>3 DEF MainOK, RetakeOK, QuietPCs
    <2> QED
      BY <1>3, <1>4, <1>5, <1>6, <2>1, <2>2, <2>3, <2>4, OutputKeeps
  <1>7. CASE o.buf = 0
    <2>1. /\ main' = [main EXCEPT !.pc = "ended"]
          /\ started' = FALSE /\ tuneInDelay' = 0 /\ firstOutputPic' = TRUE
          /\ pic' = pic /\ held' = held
      BY <1>3, <1>7 DEF Goto, appVars
    <2>2. "ended" \in PCs
      BY DEF PCs
    <2>3. /\ main' \in MainState /\ main'.pc = "ended" /\ main'.call = "flush"
          /\ main'.out = main.out /\ main'.cur = main.cur /\ main'.done = main.done
      BY <1>5, <2>1, <2>2, MainTypes, MainStates
    <2>4. MainOK' /\ RetakeOK'
      BY <1>3, <1>5, <2>3 DEF MainOK, RetakeOK
    <2>5. /\ pic' = LockPic(0) /\ main'.pc \in QuietPCs
          /\ 0 \in 0 .. NumReorderPics + ParallelDecInst + 2
      BY <2>1, <2>3, PicListAssumption DEF LockPic, QuietPCs
    <2> QED
      BY <1>3, <1>5, <2>1, <2>3, <2>4, <2>5, MainTypes, OutputKeeps
  <1> QED
    BY <1>6, <1>7

\* No picture is left to take.  That happens to flushPic only: decode has just
\* added one to the list, or else it is on its way to be reconstructed.
LEMMA TakeNothingKeeps ==
  ASSUME Inv, TakeNothing
  PROVE  Inv'
  <1>1. /\ main.pc \in {"take", "retake"} /\ parseFrameList = <<>>
        /\ UNCHANGED <<stream, nal, dpb, parsePic, started, list, pic, parseFrameList, recon,
                       tuneInDelay, firstOutputPic, held>>
    BY DEF TakeNothing, parserVars, outputVars, appVars
  <1>2. main.call = "flush"
    <2>1. Listed \cup Current = {}
      BY <1>1, Held DEF Inv, Current
    <2>2. main.call # "decode"
      BY <1>1, <2>1 DEF Inv, RetakeOK
    <2> QED
      BY <2>2, MainTypes DEF MainState
  <1>3. main' = [main EXCEPT !.pc = "drain"]
    BY <1>2 DEF TakeNothing, Goto
  <1>4. /\ main' \in MainState /\ main'.pc = "drain" /\ main'.call = "flush"
        /\ main'.out = main.out /\ main'.cur = main.cur /\ main'.done = main.done
    <2>1. "drain" \in PCs
      BY DEF PCs
    <2> QED
      BY <1>2, <1>3, <2>1, MainTypes, MainStates
  <1>5. MainOK' /\ RetakeOK' /\ nal[2] = 1
    BY <1>1, <1>4, MainTypes DEF MainOK, RetakeOK
  <1>6. /\ pic' = LockPic(0) /\ main.pc \in QuietPCs /\ main'.pc \in QuietPCs
    BY <1>1, <1>4 DEF LockPic, QuietPCs
  <1> QED
    BY <1>1, <1>4, <1>5, <1>6, MainTypes, OutputKeeps

\* The application gives a frame back.
LEMMA UnrefKeeps ==
  ASSUME Inv, NEW h \in held, Unref(h)
  PROVE  Inv'
  <1>1. /\ main.pc \in {"idle", "ended"} /\ held' = held \ {h}
        /\ pic' = [pic EXCEPT ![h.buf] = Release(@)]
        /\ UNCHANGED <<stream, nal, dpb, parsePic, started, list, parseFrameList, recon,
                       tuneInDelay, firstOutputPic, main>>
    BY DEF Unref, parserVars, outputVars
  <1>2. h.buf \in Buffers /\ Types /\ PicturesOK /\ main.out # h.buf
    BY DEF Inv, FramesOK
  <1>3. PICK p \in Picture : p = pic[h.buf]
    BY <1>2, Buffered
  <1>4. PICK q : q = Release(p)
    OBVIOUS
  <1>5. q \in Picture /\ LocalOK(q) /\ SameBut(p, q, {"lockedByApplication"})
    BY <1>2, <1>3, <1>4, ReleaseLocal DEF PicturesOK
  <1>6. pic' = [pic EXCEPT ![h.buf] = q]
    BY <1>1, <1>3, <1>4
  <1>7. /\ pic' \in Seq(Picture) /\ DOMAIN pic' = Buffers
        /\ \A c \in Buffers : pic'[c] = IF c = h.buf THEN q ELSE pic[c]
    BY <1>2, <1>5, <1>6, OneChanged
  <1>8. \A c \in Buffers : LocalOK(pic'[c])
    BY <1>2, <1>5, <1>7 DEF PicturesOK
  <1>9. \A c \in Buffers : SameBut(pic[c], pic'[c], QuietFields)
    BY <1>3, <1>5, <1>7 DEF SameBut, QuietFields
  <1>10. \A c \in Buffers :
           /\ pic'[c].content = pic[c].content /\ pic'[c].progress = pic[c].progress
           /\ pic'[c].exceptionThrownOut = pic[c].exceptionThrownOut
           /\ pic'[c].divException = pic[c].divException
    BY <1>3, <1>5, <1>7 DEF SameBut, Fields
  <1>11. Types'
    BY <1>1, <1>2, <1>7, <1>10, MainTypes, TypesKept DEF Types
  <1>12. MainOK' /\ RetakeOK'
    BY <1>1 DEF Inv, MainOK, RetakeOK
  <1>13. HeadOK'
    BY <1>1, <1>2, <1>7, <1>10 DEF Inv, HeadOK, Types
  <1>14. \A g \in held' : g \in held /\ g.buf \in Buffers /\ pic'[g.buf] = pic[g.buf]
    BY <1>1, <1>7 DEF Inv, FramesOK
  <1>15. FramesIntact'
    BY <1>14 DEF Inv, FramesIntact
  <1>16. FramesOK'
    <2>1. main.out # 0 => main.out \in Buffers
      BY MainTypes
    <2>2. Buffers' = Buffers
      BY <1>7 DEF Buffers
    <2> QED
      BY <1>1, <1>2, <1>7, <1>14, <2>1, <2>2 DEF Inv, FramesOK
  <1>17. main.pc \in QuietPCs /\ main'.pc \in QuietPCs
    BY <1>1 DEF QuietPCs
  <1> QED
    BY <1>1, <1>7, <1>8, <1>9, <1>11, <1>12, <1>13, <1>15, <1>16, <1>17, QuietStep

-----------------------------------------------------------------------------
(***************************************************************************)
(* A picture is taken to be reconstructed.                                 *)
(***************************************************************************)
LEMMA TakePictureKeeps ==
  ASSUME Inv, TakePicture
  PROVE  Inv'
  <1>1. PICK j : j = NextDecodable
    OBVIOUS
  <1>2. PICK b : b = parseFrameList[j]
    OBVIOUS
  <1>3. PICK skipped : skipped = {parseFrameList[k] : k \in 1 .. j - 1}
    OBVIOUS
  <1>4. /\ main.pc \in {"take", "retake"} /\ parseFrameList # <<>>
        /\ parseFrameList' = RemoveAt(parseFrameList, j)
        /\ pic' = [c \in DOMAIN pic |->
                     IF c \in skipped THEN [pic[c] EXCEPT !.skippedDecCount = @ + 1]
                     ELSE pic[c]]
        /\ main' = [main EXCEPT
             !.cur = b, !.hasException = pic[b].parseDone.exception,
             !.pc = IF /\ main.call = "decode"
                       /\ pic[b].error \/ pic[b].wasLost \/ pic[b].parseDone.exception
                    THEN "error" ELSE "recon"]
        /\ UNCHANGED <<stream, nal, dpb, parsePic, started, list, recon, tuneInDelay,
                       firstOutputPic, held>>
    BY <1>1, <1>2, <1>3, Zenon DEF TakePicture, parserVars, outputVars, appVars
  <1>5. Types /\ PicturesOK /\ nal[2] = 1 /\ main \in MainState
    BY <1>4, MainTypes DEF Inv
  <1>6. /\ j \in DOMAIN parseFrameList /\ b \in Listed /\ b \in Buffers
        /\ j = 1 \/ Decodable(pic[b])
    BY <1>1, <1>2, <1>4, <1>5, Decodables, Held
  <1>7. PICK p \in Picture : p = pic[b]
    BY <1>5, <1>6, Buffered
  <1>8. /\ LocalOK(p) /\ p.progress \in {parsing, parsed} /\ ~p.wasLost
        /\ p.parseDone.exception \in BOOLEAN /\ p.error \in BOOLEAN
    <2>1. LocalOK(p) /\ p.progress \in {parsing, parsed}
      BY <1>5, <1>6, <1>7 DEF Inv, PicturesOK, ParsedOK
    <2>2. ~p.wasLost
      BY <2>1 DEF LocalOK, parsing, parsed, reconstructed
    <2> QED
      BY <1>7, <2>1, <2>2 DEF Picture, Barrier
  <1>9. PICK x \in BOOLEAN : x = p.parseDone.exception
    BY <1>8
  <1>10. PICK y \in {"error", "recon"} :
           /\ y = IF main.call = "decode" /\ (p.error \/ p.wasLost \/ x)
                  THEN "error" ELSE "recon"
           /\ main' = [main EXCEPT !.cur = b, !.hasException = x, !.pc = y]
    BY <1>4, <1>7, <1>9
  <1>11. /\ main' \in MainState /\ main'.pc = y /\ main'.cur = b /\ main'.hasException = x
         /\ main'.call = main.call /\ main'.done = main.done /\ main'.out = main.out
         /\ b # 0
    <2>1. b \in Nat /\ b # 0
      BY <1>5, <1>6, Buffered
    <2> QED
      BY <1>5, <1>10, <2>1 DEF MainState, PCs
  <1>12. ASSUME NEW c \in Buffers
         PROVE  pic'[c] \in Picture /\ LocalOK(pic'[c])
                /\ SameBut(pic[c], pic'[c], {"skippedDecCount"})
    <2>1. PICK r \in Picture : r = pic[c] /\ LocalOK(r)
      BY <1>5, Buffered DEF PicturesOK
    <2>2. CASE c \in skipped
      <3>1. pic'[c] = [r EXCEPT !.skippedDecCount = @ + 1]
        BY <1>4, <2>1, <2>2 DEF Buffers
      <3> QED
        BY <2>1, <3>1, SkippedLocal
    <2>3. CASE c \notin skipped
      <3>1. pic'[c] = r
        BY <1>4, <2>1, <2>3 DEF Buffers
      <3> QED
        BY <2>1, <3>1 DEF SameBut
    <2> QED
      BY <2>2, <2>3
  <1>13. pic' \in Seq(Picture) /\ DOMAIN pic' = Buffers
    <2>1. pic \in Seq(Picture) /\ DOMAIN pic = Buffers
      BY <1>5 DEF Types, Buffers
    <2>2. DOMAIN pic' = DOMAIN pic /\ pic' = [c \in DOMAIN pic |-> pic'[c]]
      BY <1>4
    <2> QED
      BY <1>12, <2>1, <2>2, SamePlaces
  <1>14. \A c \in Buffers :
           /\ pic'[c].content = pic[c].content /\ pic'[c].poc = pic[c].poc
           /\ pic'[c].refs = pic[c].refs /\ pic'[c].progress = pic[c].progress
           /\ pic'[c].stillReferenced = pic[c].stillReferenced
           /\ pic'[c].recon = pic[c].recon /\ pic'[c].reconDone = pic[c].reconDone
           /\ pic'[c].lockedByApplication = pic[c].lockedByApplication
           /\ pic'[c].exceptionThrownOut = pic[c].exceptionThrownOut
           /\ pic'[c].error = pic[c].error
    BY <1>12 DEF SameBut, Fields
  <1>15. PICK s, t : s = parseFrameList /\ t = parseFrameList'
    OBVIOUS
  <1>16. /\ s \in Seq(Nat) /\ IsInjective(s) /\ j \in DOMAIN s /\ t = RemoveAt(s, j)
         /\ s[j] = b /\ ToSet(s) = Listed /\ ToSet(t) = Listed'
    BY <1>2, <1>4, <1>5, <1>6, <1>15 DEF Types, Listed
  <1>17. t \in Seq(Nat) /\ IsInjective(t) /\ Listed' = Listed \ {b} /\ InOrder(t, s)
    <2>1. /\ t \in Seq(Nat) /\ IsInjective(t) /\ ToSet(t) = ToSet(s) \ {s[j]}
          /\ InOrder(t, s)
      BY <1>16, Removed, ZenonT(60)
    <2> QED
      BY <1>16, <2>1
  <1>18. /\ Current = {} /\ Done = {} /\ Current' = {b} /\ Done' = {}
         /\ Working' = Working /\ Buffers' = Buffers
    BY <1>4, <1>10, <1>11, <1>13 DEF Current, Done, Working, Buffers
  <1>19. Types'
    <2>1. stream' \in Streams /\ nal' \in (Nat \ {0}) \X (Nat \ {0})
          /\ (nal'[2] > 1 => nal'[1] \in DOMAIN stream' /\ nal'[2] <= Arriving(nal[1])')
      BY <1>4, <1>5 DEF Types, Arriving
    <2>2. /\ list' \in Seq(Nat) /\ IsInjective(list') /\ ToSet(list') = Buffers'
          /\ dpb' \subseteq Buffers' /\ parsePic' \in Buffers' \cup {0}
          /\ started' \in BOOLEAN /\ recon' \in [1 .. NumRecon -> Buffers' \cup {0}]
          /\ tuneInDelay' \in 0 .. NumReorderPics + ParallelDecInst + 2
          /\ firstOutputPic' \in BOOLEAN
      BY <1>4, <1>5, <1>18 DEF Types
    <2>3. {main'.cur, main'.done, main'.out} \subseteq Buffers' \cup {0}
      BY <1>6, <1>11, <1>18, MainTypes
    <2>4. Listed' \subseteq Buffers' /\ parseFrameList' = t
      BY <1>5, <1>15, <1>17, <1>18, Held
    <2>5. \A c \in Buffers' : pic'[c].content \in {0} \cup DOMAIN stream'
      BY <1>4, <1>5, <1>14, <1>18 DEF Types
    <2> QED
      BY <1>11, <1>13, <1>17, <2>1, <2>2, <2>3, <2>4, <2>5 DEF Types
  <1>20. MainOK'
    BY <1>4, <1>5, <1>10, <1>11 DEF Inv, MainOK
  <1>21. PicturesOK'
    BY <1>4, <1>12, <1>13, LocalKept
  <1>22. ParsedOK'
    BY <1>6, <1>14, <1>17, <1>18 DEF Inv, ParsedOK
  <1>23. WorkOK'
    <2>1. \A c \in Working : /\ c \in Buffers /\ pic[c].content # 0
                            /\ pic[c].progress \in {reconstructing, reconstructed}
      BY <1>5, Held DEF Inv, WorkOK
    <2>2. \A c \in Working : /\ pic'[c].content # 0
                            /\ pic'[c].progress \in {reconstructing, reconstructed}
      BY <1>14, <2>1
    <2>3. \A i, k \in 1 .. NumRecon : recon'[i] = recon'[k] /\ recon'[i] # 0 => i = k
      BY <1>4 DEF Inv, WorkOK
    <2> QED
      BY <1>10, <1>11, <1>18, <2>2, <2>3 DEF WorkOK
  <1>24. StuckOK'
    BY <1>4, <1>14, <1>18 DEF Inv, StuckOK
  <1>25. HeadOK'
    <2>1. ~(nal'[2] > 1)
      BY <1>4, <1>5
    <2> QED
      BY <1>10, <1>11, <2>1 DEF HeadOK
  <1>26. RetakeOK'
    <2>1. main.call = "decode" => /\ parsePic # 0 /\ parsePic \in Listed
                                  /\ ~pic[parsePic].exceptionThrownOut
      BY <1>4, <1>18 DEF Inv, RetakeOK
    <2>2. main.call = "decode" => /\ parsePic' # 0 /\ parsePic' \in Listed' \cup Current'
                                  /\ ~pic'[parsePic'].exceptionThrownOut
      BY <1>4, <1>5, <1>14, <1>17, <1>18, <2>1, Held
    <2>3. x => ~p.exceptionThrownOut
      BY <1>8, <1>9 DEF LocalOK
    <2>4. pic'[b].exceptionThrownOut = p.exceptionThrownOut /\ pic'[b].error = p.error
      BY <1>6, <1>7, <1>14
    <2> QED
      BY <1>8, <1>10, <1>11, <2>2, <2>3, <2>4 DEF RetakeOK
  <1>27. RefsHeld'
    BY <1>10, <1>11, <1>14, <1>18 DEF Inv, RefsHeld, InUse
  <1>28. RefsOrder'
    <2>1. \A m \in DOMAIN s : s[m] \in Buffers
      BY <1>5, <1>15, Held
    <2>2. ASSUME NEW k \in DOMAIN t, NEW r \in pic'[t[k]].refs, NEW l \in k .. Len(t)
          PROVE  r.buf # t[l]
      <3>1. PICK m \in DOMAIN s : /\ t[k] = s[m]
                                  /\ \A i \in k .. Len(t) : \E o \in m .. Len(s) : t[i] = s[o]
        BY <1>17 DEF InOrder
      <3>2. PICK o \in m .. Len(s) : t[l] = s[o]
        BY <3>1
      <3>3. r \in pic[s[m]].refs
        BY <1>14, <2>1, <2>2, <3>1
      <3> QED
        BY <1>15, <3>2, <3>3 DEF Inv, RefsOrder
    <2> QED
      BY <1>15, <2>2 DEF RefsOrder
  <1>29. RefsTaken'
    <2> SUFFICES ASSUME NEW r \in pic[b].refs PROVE r.buf \notin Listed
      BY <1>6, <1>11, <1>14, <1>17 DEF RefsTaken
    <2>1. CASE j = 1
      <3>1. \A k \in 1 .. Len(parseFrameList) : r.buf # parseFrameList[k]
        BY <1>2, <1>6, <2>1 DEF Inv, RefsOrder
      <3> QED
        BY <1>5, <3>1, Held
    <2>2. CASE Decodable(pic[b])
      <3>1. pic[r.buf].progress >= reconstructed
        BY <2>2 DEF Decodable, RefsReconstructed
      <3>2. \A c \in Listed : pic[c].progress \in {parsing, parsed}
        BY <1>5, Held DEF Inv, ParsedOK
      <3> QED
        BY <3>1, <3>2 DEF parsing, parsed, reconstructed
    <2> QED
      BY <1>6, <2>1, <2>2
  <1>30. RefsReady'
    <2> SUFFICES ASSUME NEW c \in Buffers, pic'[c].recon \in {"tasks", "ctus"},
                        NEW r \in pic'[c].refs
                 PROVE  pic'[r.buf].progress >= reconstructed
      BY <1>18 DEF RefsReady, RefsReconstructed
    <2>1. pic[c].recon \in {"tasks", "ctus"} /\ r \in pic[c].refs
      BY <1>14
    <2>2. pic[r.buf].progress >= reconstructed
      BY <2>1 DEF Inv, RefsReady, RefsReconstructed
    <2>3. pic[c].progress = reconstructing
      BY <2>1 DEF Inv, PicturesOK, LocalOK
    <2>4. r.buf \in Buffers
      BY <2>1, <2>3 DEF Inv, RefsHeld, InUse, reconstructing, reconstructed
    <2> QED
      BY <1>14, <2>2, <2>4
  <1>31. FramesIntact' /\ FramesOK'
    BY <1>4, <1>11, <1>13, <1>14, FramesKept
  <1> QED
    BY <1>19, <1>20, <1>21, <1>22, <1>23, <1>24, <1>25, <1>26, <1>27, <1>28, <1>29, <1>30,
       <1>31 DEF Inv

-----------------------------------------------------------------------------
(***************************************************************************)
(* A picture on its way.  What holds of every step of the main thread that *)
(* neither takes a buffer nor looks at the stream.                         *)
(***************************************************************************)
LEMMA StepKept ==
  ASSUME Inv, nal[2] = 1, main'.pc \notin {"lists", "fatal"},
         UNCHANGED <<stream, nal, list, dpb, parsePic, started, parseFrameList, tuneInDelay,
                     firstOutputPic>>,
         pic' \in Seq(Picture), DOMAIN pic' = Buffers, \A c \in Buffers : LocalOK(pic'[c]),
         \A c \in Buffers :
           /\ pic'[c].content = pic[c].content /\ pic'[c].poc = pic[c].poc
           /\ pic'[c].refs = pic[c].refs
           /\ pic[c].progress >= reconstructed => pic'[c].progress >= reconstructed
           /\ pic[c].stillReferenced /\ ~pic'[c].stillReferenced =>
                \A d \in Buffers : InUse(d)' => \A r \in pic[d].refs : r.buf # c,
         recon' \in [1 .. NumRecon -> Buffers \cup {0}], main' \in MainState,
         {main'.cur, main'.done, main'.out} \subseteq Buffers \cup {0}
  PROVE  Types' /\ PicturesOK' /\ HeadOK' /\ RefsHeld' /\ RefsOrder'
  <1>1. Buffers' = Buffers /\ Listed' = Listed /\ Types
    BY DEF Buffers, Listed, Inv
  <1>2. Types'
    BY <1>1 DEF Types, Arriving
  <1>3. PicturesOK'
    BY LocalKept
  <1>4. HeadOK'
    <2>1. ~(nal'[2] > 1)
      OBVIOUS
    <2> QED
      BY <2>1 DEF HeadOK
  <1>5. \A c \in Buffers : InUse(c)' => InUse(c)
    <2> SUFFICES ASSUME NEW c \in Buffers, InUse(c)' PROVE InUse(c)
      OBVIOUS
    <2>1. pic[c].progress \in init .. finished /\ pic'[c].progress \in init .. finished
      BY <1>1, Buffered, ElementOfSeq, LenProperties, Progress
    <2> QED
      BY <2>1 DEF InUse, init, reconstructed, finished
  <1>6. RefsHeld'
    <2> SUFFICES ASSUME NEW b \in Buffers, InUse(b)', NEW r \in pic'[b].refs
                 PROVE  /\ r.buf \in Buffers /\ pic'[r.buf].stillReferenced
                        /\ pic'[r.buf].content = r.content /\ pic'[r.buf].poc = r.poc
      BY <1>1 DEF RefsHeld
    <2>1. r \in pic[b].refs /\ InUse(b)
      BY <1>5
    <2>2. /\ r.buf \in Buffers /\ pic[r.buf].stillReferenced
          /\ pic[r.buf].content = r.content /\ pic[r.buf].poc = r.poc
      BY <2>1 DEF Inv, RefsHeld
    <2> QED
      BY <2>1, <2>2
  <1>7. RefsOrder'
    <2>1. \A j \in DOMAIN parseFrameList : parseFrameList[j] \in Buffers
      BY <1>1, Held
    <2> QED
      BY <2>1 DEF Inv, RefsOrder
  <1> QED
    BY <1>2, <1>3, <1>4, <1>6, <1>7

\* What was ready stays ready: no picture becomes less reconstructed.
LEMMA ReadyKept ==
  ASSUME Inv, DOMAIN pic' = Buffers,
         \A c \in Buffers :
           /\ pic'[c].refs = pic[c].refs
           /\ pic[c].progress >= reconstructed => pic'[c].progress >= reconstructed
           /\ pic'[c].recon \in {"tasks", "ctus"} => pic[c].recon \in {"tasks", "ctus"}
  PROVE  RefsReady'
  <1> SUFFICES ASSUME NEW c \in Buffers, pic'[c].recon \in {"tasks", "ctus"},
                      NEW r \in pic'[c].refs
               PROVE  pic'[r.buf].progress >= reconstructed
    BY DEF RefsReady, RefsReconstructed, Buffers
  <1>1. pic[c].recon \in {"tasks", "ctus"} /\ r \in pic[c].refs
    OBVIOUS
  <1>2. pic[r.buf].progress >= reconstructed
    BY <1>1 DEF Inv, RefsReady, RefsReconstructed
  <1>3. pic[c].progress = reconstructing
    BY <1>1 DEF Inv, PicturesOK, LocalOK
  <1>4. r.buf \in Buffers
    BY <1>1, <1>3 DEF Inv, RefsHeld, InUse, reconstructing, reconstructed
  <1> QED
    BY <1>2, <1>4

\* The instances change places.
Rotate(f) == Append(Tail(f), Head(f))

\* Its first element has become the last.
LEMMA Rotated ==
  ASSUME NEW S, NEW f \in Seq(S), NEW N \in Nat \ {0}, N = Len(f)
  PROVE  /\ Rotate(f) \in Seq(S) /\ Len(Rotate(f)) = N
         /\ Rotate(f)[N] = f[1] /\ \A i \in 1 .. N : i # N => Rotate(f)[i] = f[i + 1]
  <1>1. f # <<>> /\ Head(f) = f[1] /\ f[1] \in S
    OBVIOUS
  <1>2. PICK t : t = Tail(f)
    OBVIOUS
  <1>3. t \in Seq(S) /\ Len(t) = N - 1 /\ \A i \in 1 .. (N - 1) : t[i] = f[i + 1]
    BY <1>1, <1>2
  <1>4. Rotate(f) = Append(t, f[1])
    BY <1>1, <1>2 DEF Rotate
  <1>5. PICK g : g = Append(t, f[1])
    OBVIOUS
  <1>6. /\ g \in Seq(S) /\ Len(g) = N /\ g[N] = f[1]
        /\ \A i \in 1 .. (N - 1) : g[i] = t[i]
    BY <1>1, <1>3, <1>5
  <1>7. \A i \in 1 .. N : i # N => g[i] = f[i + 1]
    BY <1>3, <1>6
  <1> QED
    BY <1>4, <1>5, <1>6, <1>7

\* A sequence is a function.
LEMMA Tuples ==
  ASSUME NEW S, NEW f \in Seq(S)
  PROVE  f \in [1 .. Len(f) -> S]
  <1>1. PICK n \in Nat : f \in [1 .. n -> S]
    <2>1. Seq(S) = UNION {[1 .. n -> S] : n \in Nat}
      BY SeqDef
    <2> QED
      BY <2>1, Zenon
  <1>2. DOMAIN f = 1 .. Len(f)
    BY LenProperties
  <1>3. 1 .. n = 1 .. Len(f)
    BY <1>1, <1>2
  <1> QED
    BY <1>1, <1>3, Zenon

\* reconPicture takes the instance that was used first.  The picture is in
\* none: it was in the parser's list.
LEMMA RotateReconKeeps ==
  ASSUME Inv, RotateRecon
  PROVE  Inv'
  <1>1. /\ main.pc = "recon"
        /\ UNCHANGED <<stream, nal, dpb, parsePic, started, list, pic, parseFrameList,
                       tuneInDelay, firstOutputPic, held>>
    BY DEF RotateRecon, parserVars, outputVars, appVars
  <1>2. /\ Types /\ recon \in [1 .. NumRecon -> Buffers \cup {0}] /\ NumRecon \in Nat \ {0}
        /\ pic \in Seq(Picture) /\ nal[2] = 1
    BY <1>1, DecLibAssumption, MainTypes DEF Inv, Types
  <1>3. main.cur \in Buffers /\ main.cur \in Current /\ main.cur # 0
    BY <1>1, MainTypes DEF Inv, MainOK, Current
  <1>4. main.cur \notin Working
    BY <1>3
       DEF Inv, ParsedOK, WorkOK, parsing, parsed, reconstructing, reconstructed
  <1>5. main' = [main EXCEPT !.pc = "wait"] /\ recon' = Append(Tail(recon), Head(recon))
    <2>1. ~ \E i \in DOMAIN recon : recon[i] = main.cur
      BY <1>2, <1>3, <1>4 DEF Working
    <2> QED
      BY <2>1 DEF RotateRecon, Goto
  <1>6. /\ main' \in MainState /\ main'.pc = "wait" /\ main'.cur = main.cur
        /\ main'.done = main.done /\ main'.out = main.out /\ main'.call = main.call
    <2>1. "wait" \in PCs
      BY DEF PCs
    <2> QED
      BY <1>5, <2>1, MainTypes, MainStates
  <1>7. PICK next : next = [i \in 1 .. NumRecon |-> IF i = NumRecon THEN 1 ELSE i + 1]
    OBVIOUS
  <1>8. /\ next \in [1 .. NumRecon -> 1 .. NumRecon]
        /\ \A i, j \in 1 .. NumRecon : next[i] = next[j] => i = j
        /\ \A i \in 1 .. NumRecon : \E j \in 1 .. NumRecon : next[j] = i
    <2>1. next \in [1 .. NumRecon -> 1 .. NumRecon]
      BY <1>2, <1>7
    <2>2. \A i, j \in 1 .. NumRecon : next[i] = next[j] => i = j
      BY <1>2, <1>7
    <2>3. ASSUME NEW i \in 1 .. NumRecon PROVE \E j \in 1 .. NumRecon : next[j] = i
      <3>1. CASE i = 1
        <4>1. NumRecon \in 1 .. NumRecon /\ next[NumRecon] = 1
          BY <1>2, <1>7
        <4> QED
          BY <3>1, <4>1
      <3>2. CASE i # 1
        <4>1. i - 1 \in 1 .. NumRecon /\ i - 1 # NumRecon
          BY <1>2, <3>2
        <4>2. next[i - 1] = i
          BY <1>7, <4>1
        <4> QED
          BY <4>1, <4>2
      <3> QED
        BY <3>1, <3>2
    <2> QED
      BY <2>1, <2>2, <2>3
  <1>9. /\ recon' \in [1 .. NumRecon -> Buffers \cup {0}]
        /\ \A i \in 1 .. NumRecon : recon'[i] = recon[next[i]]
    <2>1. PICK S, N : S = Buffers \cup {0} /\ N = NumRecon
      OBVIOUS
    <2>2. N \in Nat \ {0} /\ recon \in Seq(S) /\ N = Len(recon) /\ recon' = Rotate(recon)
      BY <1>2, <1>5, <2>1, SeqDef DEF Rotate
    <2>3. /\ recon' \in Seq(S) /\ Len(recon') = N
          /\ recon'[N] = recon[1] /\ \A i \in 1 .. N : i # N => recon'[i] = recon[i + 1]
      BY <2>2, Rotated
    <2>4. recon' \in [1 .. N -> S]
      BY <2>3, Tuples
    <2> QED
      BY <1>7, <2>1, <2>2, <2>3, <2>4
  <1>10. /\ Working' = Working /\ Listed' = Listed /\ Current' = Current /\ Done' = Done
         /\ Buffers' = Buffers
    <2>1. {recon'[i] : i \in 1 .. NumRecon} = {recon[i] : i \in 1 .. NumRecon}
      <3>1. \A i \in 1 .. NumRecon : next[i] \in 1 .. NumRecon
        BY <1>8
      <3>2. \A i \in 1 .. NumRecon : \E j \in 1 .. NumRecon : recon'[i] = recon[j]
        BY <1>9, <3>1
      <3>3. \A i \in 1 .. NumRecon : \E j \in 1 .. NumRecon : recon'[j] = recon[i]
        BY <1>8, <1>9
      <3> QED
        BY <3>2, <3>3
    <2> QED
      BY <1>1, <1>6, <2>1 DEF Working, Listed, Current, Done, Buffers
  <1>11. Types' /\ PicturesOK' /\ HeadOK' /\ RefsHeld' /\ RefsOrder'
    BY <1>1, <1>2, <1>6, <1>9, MainTypes, PicturesKept, StepKept DEF Buffers
  <1>12. MainOK'
    BY <1>1, <1>2, <1>3, <1>6 DEF Inv, MainOK
  <1>13. ParsedOK' /\ StuckOK'
    BY <1>1, <1>6, <1>10 DEF Inv, ParsedOK, StuckOK
  <1>14. WorkOK'
    <2>1. \A i, j \in 1 .. NumRecon : recon'[i] = recon'[j] /\ recon'[i] # 0 => i = j
      <3> SUFFICES ASSUME NEW i \in 1 .. NumRecon, NEW j \in 1 .. NumRecon,
                          recon'[i] = recon'[j], recon'[i] # 0
                   PROVE  i = j
        OBVIOUS
      <3>1. /\ next[i] \in 1 .. NumRecon /\ next[j] \in 1 .. NumRecon
            /\ recon[next[i]] = recon[next[j]] /\ recon[next[i]] # 0
        BY <1>8, <1>9
      <3>2. next[i] = next[j]
        BY <3>1 DEF Inv, WorkOK
      <3> QED
        BY <1>8, <3>2
    <2> QED
      BY <1>1, <1>6, <1>10, <2>1 DEF Inv, WorkOK
  <1>15. RetakeOK' /\ RefsTaken' /\ RefsReady'
    BY <1>1, <1>6, <1>10 DEF Inv, RetakeOK, RefsTaken, RefsReady, RefsReconstructed
  <1>16. FramesIntact' /\ FramesOK'
    BY <1>1, <1>6, <1>10, FramesKept DEF Buffers
  <1> QED
    BY <1>11, <1>12, <1>13, <1>14, <1>15, <1>16 DEF Inv

\* waitForPrevDecompressedPic no longer blocks: no task of the picture is left.
LEMMA Returned ==
  ASSUME NEW p, LocalOK(p), CanReturn(p)
  PROVE  p.recon = "none" /\ (p.progress = reconstructing => p.reconDone.exception)
  <1>1. p.recon # "none" \/ p.progress = reconstructing => p.reconDone.locked
    BY DEF LocalOK
  <1>2. p.reconDone.exception \/ ~p.reconDone.locked
    BY DEF CanReturn
  <1>3. p.reconDone.exception => p.recon = "none"
    BY DEF CanReturn, Busy
  <1> QED
    BY <1>1, <1>2, <1>3

\* The picture in that instance is waited for, and taken out.
LEMMA WaitKeeps ==
  ASSUME Inv, WaitForPrevDecompressedPic
  PROVE  Inv'
  <1>1. PICK b : b = recon[NumRecon]
    OBVIOUS
  <1>2. /\ main.pc = "wait" /\ (b # 0 => CanReturn(pic[b]))
        /\ pic' = IF b = 0 THEN pic ELSE [pic EXCEPT ![b] = AfterWait(@)]
        /\ main' = [main EXCEPT !.pc = "decompress", !.done = b]
        /\ recon' = [recon EXCEPT ![NumRecon] = 0]
        /\ UNCHANGED <<stream, nal, dpb, parsePic, started, list, parseFrameList,
                       tuneInDelay, firstOutputPic, held>>
    BY <1>1 DEF WaitForPrevDecompressedPic, ClearRecon, parserVars, outputVars, appVars
  <1>3. /\ Types /\ PicturesOK /\ recon \in [1 .. NumRecon -> Buffers \cup {0}] /\ nal[2] = 1
        /\ NumRecon \in 1 .. NumRecon /\ 0 \notin Buffers
    BY <1>2, DecLibAssumption, MainTypes, Buffered DEF Inv, Types
  <1>4. /\ b \in Buffers \cup {0} /\ b \in Nat /\ (b # 0 => b \in Working)
        /\ main.cur \in Buffers /\ main.cur # 0
    BY <1>1, <1>2, <1>3, MainTypes, Buffered DEF Working, Inv, MainOK
  <1>5. /\ main' \in MainState /\ main'.pc = "decompress" /\ main'.cur = main.cur
        /\ main'.done = b /\ main'.out = main.out /\ main'.call = main.call
    BY <1>2, <1>4, MainTypes DEF MainState, PCs
  <1>6. b # 0 => /\ pic[b].content # 0 /\ pic[b].progress \in {reconstructing, reconstructed}
                 /\ pic[b].recon = "none"
                 /\ pic[b].progress = reconstructing => pic[b].reconDone.exception
    BY <1>2, <1>3, <1>4, Returned DEF Inv, WorkOK, PicturesOK
  <1>7. /\ pic' \in Seq(Picture) /\ DOMAIN pic' = Buffers
        /\ \A c \in Buffers : LocalOK(pic'[c]) /\ SameBut(pic[c], pic'[c], {"error"})
    <2>1. CASE b = 0
      BY <1>2, <1>3, <2>1 DEF Types, PicturesOK, Buffers, SameBut
    <2>2. CASE b # 0
      <3>1. PICK p \in Picture : p = pic[b] /\ LocalOK(p)
        BY <1>3, <1>4, <2>2, Buffered DEF PicturesOK
      <3>2. PICK q : q = AfterWait(p)
        OBVIOUS
      <3>3. q \in Picture /\ LocalOK(q) /\ SameBut(p, q, {"error"})
        BY <1>6, <2>2, <3>1, <3>2, AfterWaitLocal
      <3>4. pic' = [pic EXCEPT ![b] = q] /\ b \in Buffers
        BY <1>2, <1>4, <2>2, <3>1, <3>2
      <3>5. /\ pic' \in Seq(Picture) /\ DOMAIN pic' = Buffers
            /\ \A c \in Buffers : pic'[c] = IF c = b THEN q ELSE pic[c]
        BY <1>3, <3>3, <3>4, OneChanged
      <3> QED
        BY <1>3, <3>1, <3>3, <3>5 DEF PicturesOK, SameBut
    <2> QED
      BY <2>1, <2>2
  <1>8. \A c \in Buffers :
          /\ pic'[c].content = pic[c].content /\ pic'[c].poc = pic[c].poc
          /\ pic'[c].refs = pic[c].refs /\ pic'[c].progress = pic[c].progress
          /\ pic'[c].stillReferenced = pic[c].stillReferenced
          /\ pic'[c].recon = pic[c].recon /\ pic'[c].reconDone = pic[c].reconDone
          /\ pic'[c].lockedByApplication = pic[c].lockedByApplication
    BY <1>7 DEF SameBut, Fields
  <1>9. /\ recon' \in [1 .. NumRecon -> Buffers \cup {0}]
        /\ \A i \in 1 .. NumRecon : recon'[i] = IF i = NumRecon THEN 0 ELSE recon[i]
    BY <1>2, <1>3
  <1>10. /\ Working' = Working \ {b} /\ Listed' = Listed /\ Current' = Current
         /\ Done' = {b} \ {0} /\ Buffers' = Buffers
    <2>1. \A i \in 1 .. NumRecon : recon[i] = b /\ b # 0 => i = NumRecon
      BY <1>1, <1>3 DEF Inv, WorkOK
    <2>2. Working' = Working \ {b}
      BY <1>1, <1>9, <2>1 DEF Working
    <2> QED
      BY <1>2, <1>5, <1>7, <2>2 DEF Listed, Current, Done, Buffers
  <1>11. Types' /\ PicturesOK' /\ HeadOK' /\ RefsHeld' /\ RefsOrder'
    <2>1. {main'.cur, main'.done, main'.out} \subseteq Buffers \cup {0}
      BY <1>4, <1>5, MainTypes
    <2>2. main'.pc \notin {"lists", "fatal"}
      BY <1>5
    <2> QED
      BY <1>2, <1>3, <1>5, <1>7, <1>8, <1>9, <2>1, <2>2, StepKept
  <1>12. MainOK'
    BY <1>2, <1>3, <1>4, <1>5 DEF Inv, MainOK
  <1>13. ParsedOK' /\ StuckOK'
    BY <1>2, <1>5, <1>8, <1>10 DEF Inv, ParsedOK, StuckOK
  <1>14. WorkOK'
    <2>1. \A c \in Working \cup {b} : c # 0 =>
            c \in Buffers /\ pic[c].content # 0
            /\ pic[c].progress \in {reconstructing, reconstructed}
      BY <1>3, <1>4, Held DEF Inv, WorkOK
    <2>2. \A c \in Working' \cup Done' :
            pic'[c].content # 0 /\ pic'[c].progress \in {reconstructing, reconstructed}
      BY <1>8, <1>10, <2>1, <1>3, Held
    <2>3. \A c \in Done' : /\ pic'[c].recon = "none" /\ c \notin Working'
                           /\ pic'[c].progress = reconstructing => pic'[c].reconDone.exception
      BY <1>4, <1>6, <1>8, <1>10
    <2>4. \A i, j \in 1 .. NumRecon : recon'[i] = recon'[j] /\ recon'[i] # 0 => i = j
      BY <1>9 DEF Inv, WorkOK
    <2>5. recon'[NumRecon] = 0
      BY <1>3, <1>9
    <2> QED
      BY <1>5, <2>2, <2>3, <2>4, <2>5 DEF WorkOK
  <1>15. RetakeOK' /\ RefsTaken'
    BY <1>2, <1>4, <1>5, <1>8, <1>10 DEF Inv, RetakeOK, RefsTaken
  <1>16. RefsReady'
    BY <1>7, <1>8, ReadyKept
  <1>17. FramesIntact' /\ FramesOK'
    BY <1>2, <1>5, <1>7, <1>8, FramesKept
  <1> QED
    BY <1>11, <1>12, <1>13, <1>14, <1>15, <1>16, <1>17 DEF Inv

\* The new one goes in.
LEMMA DecompressKeeps ==
  ASSUME Inv, DecompressPicture
  PROVE  Inv'
  <1>1. PICK b : b = main.cur
    OBVIOUS
  <1>2. /\ main.pc = "decompress"
        /\ recon' = [recon EXCEPT ![NumRecon] = b]
        /\ pic' = [pic EXCEPT ![b].progress = reconstructing]
        /\ main' = [main EXCEPT !.pc = "refs"]
        /\ UNCHANGED <<stream, nal, dpb, parsePic, started, list, parseFrameList,
                       tuneInDelay, firstOutputPic, held>>
    BY <1>1 DEF DecompressPicture, Goto, parserVars, outputVars, appVars
  <1>3. /\ Types /\ PicturesOK /\ recon \in [1 .. NumRecon -> Buffers \cup {0}] /\ nal[2] = 1
        /\ NumRecon \in 1 .. NumRecon /\ 0 \notin Buffers
    BY <1>2, DecLibAssumption, MainTypes, Buffered DEF Inv, Types
  <1>4. b \in Buffers /\ b # 0 /\ Current = {b}
    BY <1>1, <1>2, <1>3, MainTypes DEF Inv, MainOK, Current
  <1>5. PICK p \in Picture : p = pic[b] /\ LocalOK(p) /\ p.progress \in {parsing, parsed}
    BY <1>3, <1>4, Buffered DEF PicturesOK, Inv, ParsedOK
  <1>6. PICK q : q = [p EXCEPT !.progress = reconstructing]
    OBVIOUS
  <1>7. q \in Picture /\ LocalOK(q) /\ SameBut(p, q, {"progress"}) /\ q.progress = reconstructing
    BY <1>5, <1>6, DecompressLocal
  <1>8. pic' = [pic EXCEPT ![b] = q]
    BY <1>2, <1>5, <1>6
  <1>9. /\ pic' \in Seq(Picture) /\ DOMAIN pic' = Buffers
        /\ \A c \in Buffers : pic'[c] = IF c = b THEN q ELSE pic[c]
    BY <1>3, <1>4, <1>7, <1>8, OneChanged
  <1>10. \A c \in Buffers :
          /\ pic'[c].content = pic[c].content /\ pic'[c].poc = pic[c].poc
          /\ pic'[c].refs = pic[c].refs
          /\ pic'[c].stillReferenced = pic[c].stillReferenced
          /\ pic'[c].recon = pic[c].recon /\ pic'[c].reconDone = pic[c].reconDone
          /\ pic'[c].lockedByApplication = pic[c].lockedByApplication
    BY <1>5, <1>7, <1>9 DEF SameBut, Fields
  <1>11. /\ p.recon = "none" /\ p.content # 0
         /\ ~(p.progress >= reconstructed)
         /\ p.progress \notin {reconstructing, reconstructed, finished}
    BY <1>5 DEF LocalOK, parsing, parsed, reconstructing, reconstructed, finished
  <1>12. /\ pic'[b].progress = reconstructing
         /\ \A c \in Buffers : c # b => pic'[c].progress = pic[c].progress
    BY <1>4, <1>7, <1>9
  <1>13. b \notin Working /\ b \notin Done /\ b \notin Listed
    BY <1>4, <1>5, <1>11 DEF Inv, WorkOK, ParsedOK
  <1>14. /\ main' \in MainState /\ main'.pc = "refs" /\ main'.cur = b
         /\ main'.done = main.done /\ main'.out = main.out /\ main'.call = main.call
    <2>1. "refs" \in PCs
      BY DEF PCs
    <2> QED
      BY <1>1, <1>2, <2>1, MainTypes, MainStates
  <1>15. /\ recon' \in [1 .. NumRecon -> Buffers \cup {0}]
         /\ \A i \in 1 .. NumRecon : recon'[i] = IF i = NumRecon THEN b ELSE recon[i]
    BY <1>2, <1>3, <1>4
  <1>16. /\ Working' = Working \cup {b} /\ Listed' = Listed /\ Current' = {}
         /\ Done' = Done /\ Buffers' = Buffers
    <2>1. recon[NumRecon] = 0
      BY <1>2 DEF Inv, WorkOK
    <2>2. Working' = Working \cup {b}
      BY <1>3, <1>4, <1>15, <2>1 DEF Working
    <2> QED
      BY <1>2, <1>9, <1>14, <2>2 DEF Listed, Current, Done, Buffers
  <1>17. Types' /\ PicturesOK' /\ HeadOK' /\ RefsHeld' /\ RefsOrder'
    <2>1. {main'.cur, main'.done, main'.out} \subseteq Buffers \cup {0}
      BY <1>4, <1>14, MainTypes
    <2>2. main'.pc \notin {"lists", "fatal"}
      BY <1>14
    <2>3. \A c \in Buffers : LocalOK(pic'[c])
      BY <1>3, <1>7, <1>9 DEF PicturesOK
    <2>4. \A c \in Buffers :
            /\ pic'[c].content = pic[c].content /\ pic'[c].poc = pic[c].poc
            /\ pic'[c].refs = pic[c].refs
            /\ pic[c].progress >= reconstructed => pic'[c].progress >= reconstructed
            /\ pic'[c].stillReferenced = pic[c].stillReferenced
      BY <1>5, <1>10, <1>11, <1>12
    <2>5. UNCHANGED <<stream, nal, list, dpb, parsePic, started, parseFrameList, tuneInDelay,
                      firstOutputPic>>
      BY <1>2
    <2>6. /\ pic' \in Seq(Picture) /\ DOMAIN pic' = Buffers /\ nal[2] = 1
          /\ main' \in MainState /\ recon' \in [1 .. NumRecon -> Buffers \cup {0}]
      BY <1>3, <1>9, <1>14, <1>15
    <2> QED
      BY <2>1, <2>2, <2>3, <2>4, <2>5, <2>6, StepKept
  <1>18. MainOK'
    BY <1>2, <1>3, <1>4, <1>14 DEF Inv, MainOK
  <1>19. ParsedOK'
    <2>1. reconstructing \notin {parsing, parsed}
      BY DEF parsing, parsed, reconstructing
    <2> QED
      BY <1>4, <1>12, <1>13, <1>16, <2>1 DEF Inv, ParsedOK
  <1>20. StuckOK'
    BY <1>10, <1>12, <1>14, <1>16, <1>2 DEF Inv, StuckOK
  <1>21. WorkOK'
    <2>1. \A c \in Working \cup Done :
            c \in Buffers /\ pic[c].content # 0
            /\ pic[c].progress \in {reconstructing, reconstructed}
      BY <1>3, Held DEF Inv, WorkOK
    <2>2. \A c \in Working' \cup Done' :
            pic'[c].content # 0 /\ pic'[c].progress \in {reconstructing, reconstructed}
      BY <1>4, <1>5, <1>10, <1>11, <1>12, <1>16, <2>1
    <2>3. \A c \in Done' : /\ pic'[c].recon = "none" /\ c \notin Working'
                           /\ pic'[c].progress = reconstructing => pic'[c].reconDone.exception
      <3> SUFFICES ASSUME NEW c \in Done
                   PROVE  /\ pic'[c].recon = "none" /\ c \notin Working'
                          /\ pic'[c].progress = reconstructing => pic'[c].reconDone.exception
        BY <1>16
      <3>1. /\ pic[c].recon = "none" /\ c \notin Working
            /\ pic[c].progress = reconstructing => pic[c].reconDone.exception
        BY DEF Inv, WorkOK
      <3> QED
        BY <1>10, <1>12, <1>13, <1>16, <2>1, <3>1
    <2>4. \A i, j \in 1 .. NumRecon : recon'[i] = recon'[j] /\ recon'[i] # 0 => i = j
      <3>1. \A i \in 1 .. NumRecon : recon[i] # b
        BY <1>4, <1>13 DEF Working
      <3> QED
        BY <1>15, <3>1 DEF Inv, WorkOK
    <2>5. recon'[NumRecon] = b /\ pic'[b].recon = "none"
      BY <1>3, <1>4, <1>5, <1>10, <1>11, <1>15
    <2> QED
      BY <1>12, <1>14, <2>2, <2>3, <2>4, <2>5 DEF WorkOK
  <1>22. RetakeOK' /\ RefsTaken'
    BY <1>1, <1>2, <1>4, <1>10, <1>14, <1>16 DEF Inv, RetakeOK, RefsTaken
  <1>23. RefsReady'
    BY <1>5, <1>9, <1>10, <1>11, <1>12, ReadyKept
  <1>24. FramesIntact' /\ FramesOK'
    BY <1>2, <1>5, <1>9, <1>10, <1>11, <1>12, <1>14, FramesKept
  <1> QED
    BY <1>17, <1>18, <1>19, <1>20, <1>21, <1>22, <1>23, <1>24 DEF Inv

\* The tasks of the picture are added.  Its references have no tasks by now,
\* and one that is not reconstructed has an exception, so it is filled in.
LEMMA StartTasksKeeps ==
  ASSUME Inv, StartTasks
  PROVE  Inv'
  <1>1. PICK b : b = main.cur
    OBVIOUS
  <1>2. PICK toExtend : toExtend = {r.buf : r \in pic[b].refs} \cap
                                   {c \in DOMAIN pic : ~pic[c].borderExtStarted}
    OBVIOUS
  <1>3. PICK q : q = IF \E c \in toExtend : pic[c].progress < parsing
                     THEN [pic[b] EXCEPT !.reconDone = Raise(@), !.error = TRUE]
                     ELSE IF pic[b].divException
                     THEN [pic[b] EXCEPT !.reconDone = Raise(Locked), !.error = TRUE,
                                         !.recon = "ctus"]
                     ELSE [pic[b] EXCEPT !.reconDone = Locked, !.recon = "tasks"]
    OBVIOUS
  <1>4. /\ main.pc = "refs" /\ \A c \in toExtend : ~Busy(pic[c])
        /\ pic' = [c \in DOMAIN pic |->
                     IF c = b THEN q
                     ELSE IF c \in toExtend /\ pic[c].progress >= parsing
                     THEN ExtendBorder(pic[c]) ELSE pic[c]]
        /\ main' = [main EXCEPT !.pc = "finish"]
        /\ UNCHANGED <<stream, nal, dpb, parsePic, started, list, parseFrameList, recon,
                       tuneInDelay, firstOutputPic, held>>
    BY <1>1, <1>2, <1>3, Zenon DEF StartTasks, Goto, parserVars, outputVars, appVars
  <1>5. /\ Types /\ PicturesOK /\ nal[2] = 1 /\ 0 \notin Buffers
        /\ recon \in [1 .. NumRecon -> Buffers \cup {0}]
    BY <1>4, MainTypes, Buffered DEF Inv, Types
  <1>6. /\ b \in Buffers /\ b # 0 /\ Current = {} /\ pic[b].progress = reconstructing
        /\ pic[b].recon = "none"
    BY <1>1, <1>4, MainTypes DEF Inv, MainOK, WorkOK, Current
  <1>7. PICK p \in Picture : p = pic[b] /\ LocalOK(p) /\ p.progress = reconstructing
                             /\ p.recon = "none"
    BY <1>5, <1>6, Buffered DEF PicturesOK
  <1>8. /\ q \in Picture /\ LocalOK(q) /\ SameBut(p, q, {"reconDone", "error", "recon"})
        /\ q.recon # "none" \/ q.reconDone.exception
    <2>1. q \in {[p EXCEPT !.reconDone = Raise(@), !.error = TRUE],
                 [p EXCEPT !.reconDone = Raise(Locked), !.error = TRUE, !.recon = "ctus"],
                 [p EXCEPT !.reconDone = Locked, !.recon = "tasks"]}
      BY <1>3, <1>7
    <2> QED
      BY <1>7, <2>1, StartedLocal
  <1>9. \A r \in pic[b].refs : r.buf \in Buffers /\ r.buf # b /\ r.buf \notin Listed
    <2>1. InUse(b)
      BY <1>6 DEF InUse, reconstructing, reconstructed
    <2>2. \A r \in pic[b].refs : r.buf \notin Listed \cup {b}
      BY <1>1, <1>4 DEF Inv, RefsTaken
    <2> QED
      BY <1>6, <2>1, <2>2 DEF Inv, RefsHeld
  \* The references that are filled in.
  <1>10. ASSUME NEW c \in toExtend, pic[c].progress >= parsing
         PROVE  /\ c \in Buffers /\ c # b /\ pic[c].recon = "none"
                /\ pic[c].progress < reconstructed =>
                     pic[c].progress = reconstructing /\ pic[c].reconDone.exception
    <2>1. c \in Buffers /\ c # b /\ c \notin Listed
      BY <1>2, <1>9
    <2>2. pic[c].recon = "none"
      BY <1>4 DEF Busy
    <2>3. pic[c].progress \notin {parsing, parsed}
      BY <1>6, <2>1 DEF Inv, ParsedOK
    <2>4. pic[c].progress \in init .. finished
      BY <1>5, <2>1, Buffered
    <2>5. pic[c].progress < reconstructed => pic[c].progress = reconstructing
      BY <1>10, <2>3, <2>4 DEF init, parsing, parsed, reconstructing, reconstructed, finished
    <2>6. pic[c].progress = reconstructing => pic[c].reconDone.exception
      BY <1>1, <2>1, <2>2 DEF Inv, StuckOK
    <2> QED
      BY <2>1, <2>2, <2>5, <2>6
  \* What becomes of the pictures.
  <1>11. ASSUME NEW c \in Buffers, c # b
         PROVE  /\ pic'[c] \in Picture /\ LocalOK(pic'[c])
                /\ SameBut(pic[c], pic'[c], {"error", "parseDone", "reconDone", "progress",
                                             "borderExtStarted"})
                /\ \/ pic'[c] = pic[c] /\ ~(c \in toExtend /\ pic[c].progress >= parsing)
                   \/ /\ pic'[c].progress = IF pic[c].progress < reconstructed
                                            THEN reconstructed ELSE pic[c].progress
                      /\ pic[c].recon = "none"
                      /\ pic[c].progress < reconstructed => pic[c].progress = reconstructing
    <2>1. pic[c] \in Picture /\ LocalOK(pic[c])
      BY <1>5, Buffered DEF PicturesOK
    <2>2. CASE c \in toExtend /\ pic[c].progress >= parsing
      <3>1. pic'[c] = ExtendBorder(pic[c])
        BY <1>4, <1>11, <2>2 DEF Buffers
      <3>2. /\ pic[c].recon = "none"
            /\ pic[c].progress < reconstructed =>
                 pic[c].progress = reconstructing /\ pic[c].reconDone.exception
        BY <1>10, <2>2
      <3> QED
        BY <2>1, <3>1, <3>2, ExtendBorderLocal
    <2>3. CASE ~(c \in toExtend /\ pic[c].progress >= parsing)
      <3>1. pic'[c] = pic[c]
        BY <1>4, <1>11, <2>3 DEF Buffers
      <3> QED
        BY <2>1, <2>3, <3>1 DEF SameBut
    <2> QED
      BY <2>2, <2>3
  <1>12. pic'[b] = q /\ DOMAIN pic' = Buffers
    BY <1>4, <1>6 DEF Buffers
  <1>13. pic' \in Seq(Picture) /\ \A c \in Buffers : LocalOK(pic'[c])
    <2>1. \A c \in Buffers : pic'[c] \in Picture /\ LocalOK(pic'[c])
      BY <1>8, <1>11, <1>12
    <2>2. pic \in Seq(Picture) /\ pic' = [c \in DOMAIN pic |-> pic'[c]]
      BY <1>4, <1>5 DEF Types
    <2> QED
      BY <2>1, <2>2, SamePlaces DEF Buffers
  <1>14. \A c \in Buffers :
           /\ pic'[c].content = pic[c].content /\ pic'[c].poc = pic[c].poc
           /\ pic'[c].refs = pic[c].refs
           /\ pic'[c].stillReferenced = pic[c].stillReferenced
           /\ pic'[c].lockedByApplication = pic[c].lockedByApplication
           /\ c # b => pic'[c].recon = pic[c].recon
    <2>1. ASSUME NEW c \in Buffers, c # b
          PROVE  /\ pic'[c].content = pic[c].content /\ pic'[c].poc = pic[c].poc
                 /\ pic'[c].refs = pic[c].refs
                 /\ pic'[c].stillReferenced = pic[c].stillReferenced
                 /\ pic'[c].lockedByApplication = pic[c].lockedByApplication
                 /\ pic'[c].recon = pic[c].recon
      BY <1>11, <2>1 DEF SameBut, Fields
    <2>2. /\ pic'[b].content = pic[b].content /\ pic'[b].poc = pic[b].poc
          /\ pic'[b].refs = pic[b].refs
          /\ pic'[b].stillReferenced = pic[b].stillReferenced
          /\ pic'[b].lockedByApplication = pic[b].lockedByApplication
      BY <1>7, <1>8, <1>12 DEF SameBut, Fields
    <2> QED
      BY <2>1, <2>2
  <1>15. \A c \in Buffers :
           \/ pic'[c].progress = pic[c].progress /\ (c # b => pic'[c] = pic[c])
           \/ pic'[c].progress = pic[c].progress /\ pic[c].progress >= reconstructed
           \/ /\ pic'[c].progress = reconstructed /\ pic[c].progress = reconstructing
              /\ pic[c].recon = "none" /\ c # b
    <2>1. pic'[b].progress = pic[b].progress
      BY <1>7, <1>8, <1>12 DEF SameBut, Fields
    <2>2. ASSUME NEW c \in Buffers, c # b
          PROVE  \/ pic'[c] = pic[c]
                 \/ pic'[c].progress = pic[c].progress /\ pic[c].progress >= reconstructed
                 \/ /\ pic'[c].progress = reconstructed /\ pic[c].progress = reconstructing
                    /\ pic[c].recon = "none"
      <3>1. pic[c].progress \in init .. finished
        BY <1>5, Buffered
      <3> QED
        BY <1>11, <2>2, <3>1 DEF init, reconstructed, finished
    <2> QED
      BY <2>1, <2>2
  <1>16. \A c \in Buffers :
           /\ pic[c].progress >= reconstructed => pic'[c].progress >= reconstructed
           /\ pic'[c].progress \in {parsing, parsed} <=> pic[c].progress \in {parsing, parsed}
           /\ pic[c].progress \in {reconstructing, reconstructed}
              => pic'[c].progress \in {reconstructing, reconstructed}
           /\ pic[c].progress = finished => pic'[c].progress = finished
           /\ pic'[c].progress = reconstructing =>
                pic[c].progress = reconstructing /\ (c # b => pic'[c] = pic[c])
    BY <1>15 DEF parsing, parsed, reconstructing, reconstructed, finished
  <1>17. /\ main' \in MainState /\ main'.pc = "finish" /\ main'.cur = b
         /\ main'.done = main.done /\ main'.out = main.out /\ main'.call = main.call
    <2>1. "finish" \in PCs
      BY DEF PCs
    <2> QED
      BY <1>1, <1>4, <2>1, MainTypes, MainStates
  <1>18. /\ Working' = Working /\ Listed' = Listed /\ Current' = {}
         /\ Done' = Done /\ Buffers' = Buffers
    BY <1>4, <1>12, <1>17 DEF Working, Listed, Current, Done, Buffers
  <1>19. Types' /\ PicturesOK' /\ HeadOK' /\ RefsHeld' /\ RefsOrder'
    <2>1. {main'.cur, main'.done, main'.out} \subseteq Buffers \cup {0}
      BY <1>6, <1>17, MainTypes
    <2>2. \A c \in Buffers :
            /\ pic'[c].content = pic[c].content /\ pic'[c].poc = pic[c].poc
            /\ pic'[c].refs = pic[c].refs
            /\ pic[c].progress >= reconstructed => pic'[c].progress >= reconstructed
            /\ pic'[c].stillReferenced = pic[c].stillReferenced
      BY <1>14, <1>16
    <2>3. UNCHANGED <<stream, nal, list, dpb, parsePic, started, parseFrameList, tuneInDelay,
                      firstOutputPic>>
      BY <1>4
    <2>4. /\ pic' \in Seq(Picture) /\ DOMAIN pic' = Buffers /\ nal[2] = 1
          /\ \A c \in Buffers : LocalOK(pic'[c])
          /\ main' \in MainState /\ recon' \in [1 .. NumRecon -> Buffers \cup {0}]
          /\ main'.pc \notin {"lists", "fatal"}
      BY <1>4, <1>5, <1>12, <1>13, <1>17
    <2> QED
      BY <2>1, <2>2, <2>3, <2>4, StepKept
  <1>20. MainOK'
    BY <1>4, <1>5, <1>6, <1>17 DEF Inv, MainOK
  <1>21. ParsedOK'
    BY <1>6, <1>16, <1>18 DEF Inv, ParsedOK
  <1>22. StuckOK'
    <2> SUFFICES ASSUME NEW c \in Buffers, pic'[c].progress = reconstructing
                 PROVE  pic'[c].recon # "none" \/ pic'[c].reconDone.exception
      BY <1>18 DEF StuckOK
    <2>1. CASE c = b
      BY <1>8, <1>12, <2>1
    <2>2. CASE c # b
      <3>1. pic[c].progress = reconstructing /\ pic'[c] = pic[c]
        BY <1>16, <2>2
      <3> QED
        BY <1>1, <2>2, <3>1 DEF Inv, StuckOK
    <2> QED
      BY <2>1, <2>2
  <1>23. WorkOK'
    <2>1. \A c \in Working \cup Done :
            c \in Buffers /\ pic[c].content # 0
            /\ pic[c].progress \in {reconstructing, reconstructed}
      BY <1>5, Held DEF Inv, WorkOK
    <2>2. \A c \in Working' \cup Done' :
            pic'[c].content # 0 /\ pic'[c].progress \in {reconstructing, reconstructed}
      BY <1>14, <1>16, <1>18, <2>1
    <2>3. \A c \in Done' : /\ pic'[c].recon = "none" /\ c \notin Working'
                           /\ pic'[c].progress = reconstructing => pic'[c].reconDone.exception
      <3> SUFFICES ASSUME NEW c \in Done
                   PROVE  /\ pic'[c].recon = "none" /\ c \notin Working'
                          /\ pic'[c].progress = reconstructing => pic'[c].reconDone.exception
        BY <1>18
      <3>1. /\ pic[c].recon = "none" /\ c \notin Working
            /\ pic[c].progress = reconstructing => pic[c].reconDone.exception
        BY DEF Inv, WorkOK
      <3>2. b \in Working
        BY <1>1, <1>4, <1>5, <1>6, DecLibAssumption DEF Inv, WorkOK, Working
      <3>3. c # b /\ c \in Buffers
        BY <2>1, <3>1, <3>2
      <3> QED
        BY <1>14, <1>16, <1>18, <3>1, <3>3
    <2>4. \A i, j \in 1 .. NumRecon : recon'[i] = recon'[j] /\ recon'[i] # 0 => i = j
      BY <1>4 DEF Inv, WorkOK
    <2> QED
      BY <1>17, <2>2, <2>3, <2>4 DEF WorkOK
  <1>24. RetakeOK' /\ RefsTaken'
    BY <1>17 DEF RetakeOK, RefsTaken
  <1>25. RefsReady'
    <2> SUFFICES ASSUME NEW c \in Buffers, pic'[c].recon \in {"tasks", "ctus"},
                        NEW r \in pic'[c].refs
                 PROVE  pic'[r.buf].progress >= reconstructed
      BY <1>18 DEF RefsReady, RefsReconstructed
    <2>1. CASE c # b
      <3>1. pic[c].recon \in {"tasks", "ctus"} /\ r \in pic[c].refs
        BY <1>14, <2>1
      <3>2. pic[r.buf].progress >= reconstructed
        BY <3>1 DEF Inv, RefsReady, RefsReconstructed
      <3>3. pic[c].progress = reconstructing
        BY <3>1 DEF Inv, PicturesOK, LocalOK
      <3>4. r.buf \in Buffers
        BY <3>1, <3>3 DEF Inv, RefsHeld, InUse, reconstructing, reconstructed
      <3> QED
        BY <1>16, <3>2, <3>4
    <2>2. CASE c = b
      <3>1. r \in pic[b].refs /\ q.recon \in {"tasks", "ctus"}
        BY <1>12, <1>14, <2>2
      <3>2. PICK d \in Buffers : d = r.buf /\ d # b
        BY <1>9, <3>1
      <3>3. pic[d].progress \in init .. finished
        BY <1>5, Buffered
      <3>4. \A e \in toExtend : ~(pic[e].progress < parsing)
        <4> SUFFICES ASSUME \E e \in toExtend : pic[e].progress < parsing PROVE FALSE
          OBVIOUS
        <4>1. PICK x : x = Raise(p.reconDone)
          OBVIOUS
        <4>2. q = [p EXCEPT !.reconDone = x, !.error = TRUE]
          BY <1>3, <1>7, <4>1
        <4>3. q.recon = p.recon
          BY <4>2 DEF Picture
        <4> QED
          BY <1>7, <3>1, <4>3
      <3>5. CASE d \in toExtend
        <4>1. pic[d].progress >= parsing
          BY <3>3, <3>4, <3>5 DEF init, parsing, finished
        <4>2. pic'[d].progress = IF pic[d].progress < reconstructed
                                 THEN reconstructed ELSE pic[d].progress
          BY <1>11, <3>2, <3>5, <4>1
        <4> QED
          BY <3>2, <3>3, <4>2 DEF init, reconstructed, finished
      <3>6. CASE d \notin toExtend
        <4>1. pic[d].borderExtStarted
          BY <1>2, <3>1, <3>2, <3>6 DEF Buffers
        <4>2. pic[d].progress >= reconstructed
          BY <1>5, <3>2, <4>1 DEF PicturesOK, LocalOK
        <4> QED
          BY <1>16, <3>2, <4>2
      <3> QED
        BY <3>5, <3>6
    <2> QED
      BY <2>1, <2>2
  <1>26. FramesIntact' /\ FramesOK'
    BY <1>4, <1>12, <1>14, <1>16, <1>17, FramesKept
  <1> QED
    BY <1>19, <1>20, <1>21, <1>22, <1>23, <1>24, <1>25, <1>26 DEF Inv

-----------------------------------------------------------------------------
(***************************************************************************)
(* A picture is finished, and its exception may leave the library.         *)
(***************************************************************************)
LEMMA FinishKeeps ==
  ASSUME Inv, main.pc \in {"error", "finish", "drain"},
         NEW b \in Working \cup Done \cup Current, Current \cup Done \subseteq {b},
         UNCHANGED <<stream, nal, list, dpb, parsePic, started, parseFrameList, tuneInDelay,
                     firstOutputPic, held>>,
         recon' \in [1 .. NumRecon -> Buffers \cup {0}], Working' \subseteq Working \ {b},
         \A i, j \in 1 .. NumRecon : recon'[i] = recon'[j] /\ recon'[i] # 0 => i = j,
         main' \in MainState, main'.pc \in QuietPCs, main'.out \in {main.out, 0},
         {main'.cur, main'.done} \subseteq Buffers \cup {0}, MainOK', RetakeOK',
         pic' \in Seq(Picture), DOMAIN pic' = Buffers, \A c \in Buffers : LocalOK(pic'[c]),
         \A c \in Buffers : /\ pic'[c].content = pic[c].content /\ pic'[c].poc = pic[c].poc
                            /\ pic'[c].refs = pic[c].refs /\ pic'[c].recon = pic[c].recon
                            /\ c # b => /\ pic'[c].progress = pic[c].progress
                                        /\ pic'[c].reconDone = pic[c].reconDone
                            /\ pic[c].lockedByApplication =>
                                 \/ pic'[c].lockedByApplication
                                 \/ c = main.out /\ main'.out = 0,
         pic'[b].progress = finished,
         \A c \in Buffers :
           pic[c].stillReferenced /\ ~pic'[c].stillReferenced =>
             \A d \in Buffers : InUse(d)' => \A r \in pic[d].refs : r.buf # c
  PROVE  Inv'
  <1>1. /\ Types /\ PicturesOK /\ nal[2] = 1 /\ 0 \notin Buffers /\ main.out \in Buffers \cup {0}
    BY MainTypes, Buffered DEF Inv
  <1>2. b \in Buffers /\ b # 0
    BY <1>1, Held, MainTypes DEF Current, Inv, MainOK
  <1>3. b \notin Listed /\ pic[b].progress \in {parsing, parsed, reconstructing, reconstructed}
    <2>1. CASE b \in Current
      BY <1>2, <2>1 DEF Inv, ParsedOK
    <2>2. CASE b \in Working \cup Done
      <3>1. pic[b].progress \in {reconstructing, reconstructed}
        BY <2>2 DEF Inv, WorkOK
      <3>2. pic[b].progress \notin {parsing, parsed}
        BY <3>1 DEF parsing, parsed, reconstructing, reconstructed
      <3> QED
        BY <1>2, <3>1, <3>2 DEF Inv, ParsedOK
    <2> QED
      BY <2>1, <2>2
  <1>4. /\ Current' = {} /\ Done' = {} /\ Listed' = Listed /\ Buffers' = Buffers
    BY DEF QuietPCs, Current, Done, Listed, Buffers
  <1>5. \A c \in Buffers :
          /\ pic[c].progress >= reconstructed => pic'[c].progress >= reconstructed
          /\ pic'[c].progress \in {parsing, parsed} <=> pic[c].progress \in {parsing, parsed}
                                                        /\ c # b
          /\ pic[c].progress = finished => pic'[c].progress = finished
          /\ pic'[c].progress = reconstructing =>
               /\ pic[c].progress = reconstructing /\ c # b
               /\ pic'[c].recon = pic[c].recon /\ pic'[c].reconDone = pic[c].reconDone
    BY DEF parsing, parsed, reconstructing, reconstructed, finished
  <1>6. Types' /\ PicturesOK' /\ HeadOK' /\ RefsHeld' /\ RefsOrder'
    <2>1. {main'.cur, main'.done, main'.out} \subseteq Buffers \cup {0}
      BY <1>1
    <2>2. \A c \in Buffers :
           /\ pic'[c].content = pic[c].content /\ pic'[c].poc = pic[c].poc
           /\ pic'[c].refs = pic[c].refs
           /\ pic[c].progress >= reconstructed => pic'[c].progress >= reconstructed
           /\ pic[c].stillReferenced /\ ~pic'[c].stillReferenced =>
                \A d \in Buffers : InUse(d)' => \A r \in pic[d].refs : r.buf # c
      BY <1>5
    <2>3. main'.pc \notin {"lists", "fatal"}
      BY DEF QuietPCs
    <2> QED
      BY <1>1, <2>1, <2>2, <2>3, StepKept
  <1>7. ParsedOK'
    BY <1>3, <1>4, <1>5 DEF Inv, ParsedOK
  <1>8. WorkOK'
    <2>1. \A c \in Working' : c \in Buffers /\ c # b /\ pic[c].content # 0
                              /\ pic[c].progress \in {reconstructing, reconstructed}
      BY <1>1, Held DEF Inv, WorkOK
    <2>2. \A c \in Working' : pic'[c].content # 0
                              /\ pic'[c].progress \in {reconstructing, reconstructed}
      BY <2>1
    <2>3. main'.pc \notin {"decompress", "refs"}
      BY DEF QuietPCs
    <2> QED
      BY <1>4, <2>2, <2>3 DEF WorkOK
  <1>9. StuckOK'
    BY <1>4, <1>5 DEF Inv, StuckOK
  <1>10. RefsTaken'
    BY DEF RefsTaken, QuietPCs
  <1>11. RefsReady'
    BY <1>5, ReadyKept
  <1>12. \A h \in held : h.buf \in Buffers /\ h.buf # main.out
    BY DEF Inv, FramesOK
  <1>13. FramesIntact'
    BY <1>5, <1>12 DEF Inv, FramesIntact
  <1>14. FramesOK'
    BY <1>1, <1>4, <1>12 DEF Inv, FramesOK
  <1> QED
    BY <1>6, <1>7, <1>8, <1>9, <1>10, <1>11, <1>13, <1>14 DEF Inv

\* What finishPicture makes of the pictures that went into it.
LEMMA FinishedFields ==
  ASSUME Inv, NEW b \in Buffers, NEW q \in Seq(Picture), DOMAIN q = Buffers,
         \A c \in Buffers : c # b => q[c] = pic[c],
         SameBut(pic[b], q[b], {"error", "parseDone", "reconDone", "progress"}),
         NEW P, Finishes(q, P, b)
  PROVE  /\ P \in Seq(Picture) /\ DOMAIN P = Buffers /\ P[b].progress = finished
         /\ \A c \in Buffers :
              /\ LocalOK(P[c])
              /\ P[c].content = pic[c].content /\ P[c].poc = pic[c].poc
              /\ P[c].refs = pic[c].refs /\ P[c].recon = pic[c].recon
              /\ P[c].lockedByApplication = pic[c].lockedByApplication
              /\ c # b => /\ P[c].progress = pic[c].progress
                          /\ P[c].reconDone = pic[c].reconDone
                          /\ P[c].exceptionThrownOut = pic[c].exceptionThrownOut
              /\ pic[c].stillReferenced /\ ~P[c].stillReferenced =>
                   \A d \in Buffers : P[d].progress < reconstructed =>
                     \A r \in pic[d].refs : r.buf # c
  <1>1. P \in Seq(Picture) /\ DOMAIN P = Buffers /\ P[b].progress = finished
        /\ \A c \in Buffers : LocalOK(P[c])
    BY DEF Finishes
  <1>2. ASSUME NEW c \in Buffers, c # b
        PROVE  SameBut(pic[c], P[c], {"stillReferenced"})
    BY <1>2 DEF Finishes
  <1>3. SameBut(q[b], P[b], {"stillReferenced", "progress", "error", "exceptionThrownOut",
                             "parseDone", "reconDone"})
    BY DEF Finishes
  <1>4. /\ P[b].content = pic[b].content /\ P[b].poc = pic[b].poc
        /\ P[b].refs = pic[b].refs /\ P[b].recon = pic[b].recon
        /\ P[b].lockedByApplication = pic[b].lockedByApplication
        /\ q[b].stillReferenced = pic[b].stillReferenced
    BY <1>3 DEF SameBut, Fields
  <1>5. ASSUME NEW c \in Buffers, c # b
        PROVE  /\ P[c].content = pic[c].content /\ P[c].poc = pic[c].poc
               /\ P[c].refs = pic[c].refs /\ P[c].recon = pic[c].recon
               /\ P[c].lockedByApplication = pic[c].lockedByApplication
               /\ P[c].progress = pic[c].progress
               /\ P[c].reconDone = pic[c].reconDone
               /\ P[c].exceptionThrownOut = pic[c].exceptionThrownOut
    BY <1>2, <1>5 DEF SameBut, Fields
  <1>6. ASSUME NEW c \in Buffers, pic[c].stillReferenced, ~P[c].stillReferenced,
               NEW d \in Buffers, P[d].progress < reconstructed, NEW r \in pic[d].refs
        PROVE  r.buf # c
    <2>1. q[c].stillReferenced
      BY <1>4, <1>6
    <2>2. d # b
      BY <1>1, <1>6 DEF reconstructed, finished
    <2>3. q[d].progress < reconstructed /\ r \in q[d].refs
      BY <1>5, <1>6, <2>2
    <2> QED
      BY <1>6, <2>1, <2>3 DEF Finishes
  <1> QED
    BY <1>1, <1>4, <1>5, <1>6

\* The exception leaves the library, and flushPic gives up the frame it held.
LEMMA ThrownOut ==
  ASSUME Inv, NEW P \in Seq(Picture), DOMAIN P = Buffers, \A c \in Buffers : LocalOK(P[c]),
         NEW b, ThrowOut(b, P)
  PROVE  /\ main' = Idle /\ held' = held
         /\ pic' \in Seq(Picture) /\ DOMAIN pic' = Buffers
         /\ \A c \in Buffers : LocalOK(pic'[c])
         /\ \A c \in Buffers : SameBut(P[c], pic'[c], {"lockedByApplication"})
         /\ \A c \in Buffers : c # main.out => pic'[c] = P[c]
  <1>1. main' = Idle /\ held' = held
    BY DEF ThrowOut
  <1>2. CASE main.out = 0
    <2>1. pic' = P
      BY <1>2 DEF ThrowOut
    <2> QED
      BY <1>1, <2>1 DEF SameBut
  <1>3. CASE main.out # 0
    <2>1. main.out \in Buffers /\ main.out \in 1 .. Len(P)
      BY <1>3, MainTypes, LenProperties
    <2>2. PICK p \in Picture : p = P[main.out] /\ LocalOK(p)
      BY <2>1, ElementOfSeq
    <2>3. PICK q : q = Release(p)
      OBVIOUS
    <2>4. q \in Picture /\ LocalOK(q) /\ SameBut(p, q, {"lockedByApplication"})
      BY <2>2, <2>3, ReleaseLocal
    <2>5. pic' = [P EXCEPT ![main.out] = q]
      BY <1>3, <2>2, <2>3 DEF ThrowOut
    <2>6. pic' \in Seq(Picture)
      BY <2>1, <2>4, <2>5, ExceptSeq
    <2>7. /\ DOMAIN pic' = Buffers
          /\ \A c \in Buffers : pic'[c] = IF c = main.out THEN q ELSE P[c]
      BY <2>5
    <2> QED
      BY <1>1, <2>2, <2>4, <2>6, <2>7 DEF SameBut
  <1> QED
    BY <1>2, <1>3

\* A step that finishes picture b, throws its exception or goes on.  q are the
\* pictures before finishPicture and P after it; Q is P with the exception of
\* b taken as thrown.
LEMMA FinishStep ==
  ASSUME Inv, main.pc \in {"error", "finish", "drain"},
         NEW b \in Working \cup Done \cup Current, Current \cup Done \subseteq {b}, b \in Buffers,
         UNCHANGED <<stream, nal, list, dpb, parsePic, started, parseFrameList, tuneInDelay,
                     firstOutputPic>>,
         recon' \in [1 .. NumRecon -> Buffers \cup {0}], Working' \subseteq Working \ {b},
         \A i, j \in 1 .. NumRecon : recon'[i] = recon'[j] /\ recon'[i] # 0 => i = j,
         NEW q \in Seq(Picture), DOMAIN q = Buffers, \A c \in Buffers : c # b => q[c] = pic[c],
         SameBut(pic[b], q[b], {"error", "parseDone", "reconDone", "progress"}),
         NEW P, Finishes(q, P, b),
         NEW Q \in Seq(Picture), DOMAIN Q = Buffers, \A c \in Buffers : LocalOK(Q[c]),
         \A c \in Buffers : c # b => Q[c] = P[c], SameBut(P[b], Q[b], {"exceptionThrownOut"}),
         \/ ThrowOut(b, Q)
         \/ /\ pic' = Q /\ held' = held /\ main' \in MainState /\ main'.pc \in QuietPCs
            /\ main'.out = main.out /\ {main'.cur, main'.done} \subseteq Buffers \cup {0}
            /\ MainOK' /\ RetakeOK'
  PROVE  Inv'
  <1>1. /\ P[b].progress = finished
        /\ \A c \in Buffers :
             /\ P[c].content = pic[c].content /\ P[c].poc = pic[c].poc
             /\ P[c].refs = pic[c].refs /\ P[c].recon = pic[c].recon
             /\ P[c].lockedByApplication = pic[c].lockedByApplication
             /\ c # b => /\ P[c].progress = pic[c].progress
                         /\ P[c].reconDone = pic[c].reconDone
             /\ pic[c].stillReferenced /\ ~P[c].stillReferenced =>
                  \A d \in Buffers : P[d].progress < reconstructed =>
                    \A r \in pic[d].refs : r.buf # c
    BY FinishedFields
  <1>2. /\ Q[b].progress = finished
        /\ \A c \in Buffers :
             /\ Q[c].content = pic[c].content /\ Q[c].poc = pic[c].poc
             /\ Q[c].refs = pic[c].refs /\ Q[c].recon = pic[c].recon
             /\ Q[c].lockedByApplication = pic[c].lockedByApplication
             /\ Q[c].stillReferenced = P[c].stillReferenced /\ Q[c].progress = P[c].progress
             /\ c # b => /\ Q[c].progress = pic[c].progress
                         /\ Q[c].reconDone = pic[c].reconDone
    <2>1. \A c \in Buffers : SameBut(P[c], Q[c], {"exceptionThrownOut"})
      BY DEF SameBut
    <2>2. \A c \in Buffers :
             /\ Q[c].content = P[c].content /\ Q[c].poc = P[c].poc
             /\ Q[c].refs = P[c].refs /\ Q[c].recon = P[c].recon
             /\ Q[c].lockedByApplication = P[c].lockedByApplication
             /\ Q[c].stillReferenced = P[c].stillReferenced /\ Q[c].progress = P[c].progress
             /\ Q[c].reconDone = P[c].reconDone
      BY <2>1 DEF SameBut, Fields
    <2> QED
      BY <1>1, <2>2
  <1>3. /\ held' = held /\ main' \in MainState /\ main'.pc \in QuietPCs
        /\ main'.out \in {main.out, 0} /\ {main'.cur, main'.done} \subseteq Buffers \cup {0}
        /\ MainOK' /\ RetakeOK'
        /\ pic' \in Seq(Picture) /\ DOMAIN pic' = Buffers /\ \A c \in Buffers : LocalOK(pic'[c])
        /\ \A c \in Buffers : SameBut(Q[c], pic'[c], {"lockedByApplication"})
        /\ \A c \in Buffers : pic'[c] = Q[c] \/ (c = main.out /\ main'.out = 0)
    <2>1. CASE ThrowOut(b, Q)
      <3>1. /\ main' = Idle /\ held' = held
            /\ pic' \in Seq(Picture) /\ DOMAIN pic' = Buffers
            /\ \A c \in Buffers : LocalOK(pic'[c])
            /\ \A c \in Buffers : SameBut(Q[c], pic'[c], {"lockedByApplication"})
            /\ \A c \in Buffers : c # main.out => pic'[c] = Q[c]
        BY <2>1, ThrownOut
      <3>2. /\ main' \in MainState /\ main'.pc = "idle" /\ main'.call = "decode"
            /\ main'.cur = 0 /\ main'.done = 0 /\ main'.out = 0
        BY <3>1, MainStates
      <3>3. MainOK' /\ RetakeOK' /\ main'.pc \in QuietPCs
            /\ {main'.cur, main'.done} \subseteq Buffers \cup {0}
        BY <3>2 DEF MainOK, RetakeOK, QuietPCs
      <3> QED
        BY <3>1, <3>2, <3>3
    <2>2. CASE /\ pic' = Q /\ held' = held /\ main' \in MainState /\ main'.pc \in QuietPCs
               /\ main'.out = main.out /\ {main'.cur, main'.done} \subseteq Buffers \cup {0}
               /\ MainOK' /\ RetakeOK'
      BY <2>2 DEF SameBut
    <2> QED
      BY <2>1, <2>2
  <1>4. \A c \in Buffers :
          /\ pic'[c].content = Q[c].content /\ pic'[c].poc = Q[c].poc
          /\ pic'[c].refs = Q[c].refs /\ pic'[c].recon = Q[c].recon
          /\ pic'[c].progress = Q[c].progress /\ pic'[c].reconDone = Q[c].reconDone
          /\ pic'[c].stillReferenced = Q[c].stillReferenced
    BY <1>3 DEF SameBut, Fields
  <1>5. \A c \in Buffers :
          /\ pic'[c].content = pic[c].content /\ pic'[c].poc = pic[c].poc
          /\ pic'[c].refs = pic[c].refs /\ pic'[c].recon = pic[c].recon
          /\ c # b => /\ pic'[c].progress = pic[c].progress
                      /\ pic'[c].reconDone = pic[c].reconDone
          /\ pic[c].lockedByApplication =>
               \/ pic'[c].lockedByApplication
               \/ c = main.out /\ main'.out = 0
    BY <1>2, <1>3, <1>4
  <1>6. pic'[b].progress = finished
    BY <1>2, <1>4
  <1>7. \A c \in Buffers :
          pic[c].stillReferenced /\ ~pic'[c].stillReferenced =>
            \A d \in Buffers : InUse(d)' => \A r \in pic[d].refs : r.buf # c
    BY <1>1, <1>2, <1>4 DEF InUse
  <1> QED
    BY <1>3, <1>5, <1>6, <1>7, FinishKeeps

\* reconPicture finishes the picture that the instance worked on before.
LEMMA FinishPrevKeeps ==
  ASSUME Inv, FinishPrev
  PROVE  Inv'
  <1>1. PICK b : b = main.done
    OBVIOUS
  <1>2. /\ main.pc = "finish"
        /\ UNCHANGED <<stream, nal, dpb, parsePic, started, list, parseFrameList, recon,
                       tuneInDelay, firstOutputPic>>
        /\ \/ b # 0 /\ ThrowOut(b, FinishPicture(b, pic))
           \/ /\ pic' = IF b = 0 THEN pic ELSE FinishPicture(b, pic)
              /\ main' = [main EXCEPT !.pc = IF main.call = "decode" THEN "output" ELSE "flushed"]
              /\ held' = held
    BY <1>1 DEF FinishPrev, Goto, parserVars, outputVars, appVars
  <1>3. /\ Types /\ PicturesOK /\ nal[2] = 1 /\ 0 \notin Buffers
        /\ recon \in [1 .. NumRecon -> Buffers \cup {0}] /\ b \in Buffers \cup {0}
        /\ list \in Seq(Nat) /\ pic \in Seq(Picture) /\ ToSet(list) = DOMAIN pic
        /\ main.call \in {"decode", "flush"}
    BY <1>1, <1>2, MainTypes, Buffered DEF Inv, Types, Buffers, MainState
  <1>4. \A i, j \in 1 .. NumRecon : recon'[i] = recon'[j] /\ recon'[i] # 0 => i = j
    BY <1>2 DEF Inv, WorkOK
  <1>5. Current = {} /\ Done = {b} \ {0} /\ Working' = Working
    BY <1>1, <1>2 DEF Current, Done, Working
  <1>6. PICK x \in {"output", "flushed"} :
          x = IF main.call = "decode" THEN "output" ELSE "flushed"
    OBVIOUS
  <1>7. ASSUME main' = [main EXCEPT !.pc = x]
        PROVE  /\ main' \in MainState /\ main'.pc \in QuietPCs
               /\ main'.out = main.out /\ {main'.cur, main'.done} \subseteq Buffers \cup {0}
               /\ MainOK' /\ RetakeOK'
    <2>1. x \in PCs
      BY DEF PCs
    <2>2. /\ main' \in MainState /\ main'.pc = x /\ main'.cur = main.cur
          /\ main'.done = main.done /\ main'.out = main.out /\ main'.call = main.call
      BY <1>7, <2>1, MainTypes, MainStates
    <2>3. MainOK' /\ RetakeOK'
      BY <1>2, <1>3, <1>6, <2>2 DEF Inv, MainOK, RetakeOK
    <2> QED
      BY <2>2, <2>3, MainTypes DEF QuietPCs
  <1>8. CASE b = 0
    <2>1. pic' = pic /\ main' = [main EXCEPT !.pc = x] /\ held' = held
      BY <1>2, <1>6, <1>8
    <2>2. /\ main' \in MainState /\ main'.pc \in QuietPCs
          /\ main'.out = main.out /\ {main'.cur, main'.done} \subseteq Buffers \cup {0}
          /\ MainOK' /\ RetakeOK'
      BY <1>7, <2>1
    <2>3. Types' /\ PicturesOK' /\ HeadOK' /\ RefsHeld' /\ RefsOrder'
      <3>1. {main'.cur, main'.done, main'.out} \subseteq Buffers \cup {0}
            /\ main'.pc \notin {"lists", "fatal"}
        BY <2>2, MainTypes DEF QuietPCs
      <3> QED
        BY <1>2, <1>3, <2>1, <2>2, <3>1, StepKept DEF Buffers, PicturesOK
    <2>4. /\ Current' = {} /\ Done' = {} /\ Done = {} /\ Listed' = Listed /\ Buffers' = Buffers
      BY <1>2, <1>5, <1>8, <2>1, <2>2 DEF QuietPCs, Current, Done, Listed, Buffers
    <2>5. main'.pc \notin {"decompress", "refs", "error", "recon", "wait"}
      BY <2>2 DEF QuietPCs
    <2>6. ParsedOK' /\ WorkOK' /\ StuckOK'
      BY <1>2, <1>5, <2>1, <2>4, <2>5 DEF Inv, ParsedOK, WorkOK, StuckOK
    <2>7. RefsTaken' /\ RefsReady'
      BY <2>1, <2>4, <2>5 DEF Inv, RefsTaken, RefsReady, RefsReconstructed
    <2>8. FramesIntact' /\ FramesOK'
      BY <2>1, <2>2, FramesKept DEF Buffers
    <2> QED
      BY <2>2, <2>3, <2>6, <2>7, <2>8 DEF Inv
  <1>9. CASE b # 0
    <2>1. PICK P : P = FinishPicture(b, pic)
      OBVIOUS
    <2>2. /\ b \in Buffers /\ b \in Done /\ b \notin Working
          /\ pic[b].content # 0 /\ pic[b].recon = "none"
          /\ pic[b].progress \in {reconstructing, reconstructed}
      BY <1>3, <1>5, <1>9 DEF Inv, WorkOK
    <2>3. Finishes(pic, P, b)
      <3>1. pic[b].progress # finished
        BY <2>2 DEF reconstructing, reconstructed, finished
      <3> QED
        BY <1>3, <2>1, <2>2, <3>1, FinishPictureFinishes DEF PicturesOK, Buffers
    <2>4. P \in Seq(Picture) /\ DOMAIN P = Buffers /\ \A c \in Buffers : LocalOK(P[c])
      BY <2>3 DEF Finishes, Buffers
    <2>5. \/ ThrowOut(b, P)
          \/ /\ pic' = P /\ held' = held /\ main' \in MainState /\ main'.pc \in QuietPCs
             /\ main'.out = main.out /\ {main'.cur, main'.done} \subseteq Buffers \cup {0}
             /\ MainOK' /\ RetakeOK'
      BY <1>2, <1>6, <1>7, <1>9, <2>1
    <2>6. /\ Current \cup Done \subseteq {b} /\ Working' \subseteq Working \ {b}
          /\ recon' \in [1 .. NumRecon -> Buffers \cup {0}] /\ DOMAIN pic = Buffers
      BY <1>2, <1>3, <1>5, <2>2 DEF Buffers
    <2>7. /\ SameBut(pic[b], pic[b], {"error", "parseDone", "reconDone", "progress"})
          /\ SameBut(P[b], P[b], {"exceptionThrownOut"})
      BY DEF SameBut
    <2> QED
      BY <1>2, <1>3, <1>4, <2>2, <2>3, <2>4, <2>5, <2>6, <2>7, FinishStep
  <1> QED
    BY <1>8, <1>9

\* flushPic empties the instances, and then asks for output again.
LEMMA DrainKeeps ==
  ASSUME Inv, Drain
  PROVE  Inv'
  <1>1. PICK i : i = SelectInSeq(recon, LAMBDA b : b # 0)
    OBVIOUS
  <1>2. PICK b : b = recon[i]
    OBVIOUS
  <1>3. PICK q : q = [pic EXCEPT ![b] = AfterWait(@)]
    OBVIOUS
  <1>4. /\ main.pc = "drain"
        /\ UNCHANGED <<stream, nal, dpb, parsePic, started, list, parseFrameList,
                       tuneInDelay, firstOutputPic>>
        /\ \/ main.out # 0 /\ Return(main.out) /\ UNCHANGED <<pic, recon>>
           \/ /\ main.out = 0 /\ i = 0
              /\ Goto("last") /\ UNCHANGED <<pic, recon, held>>
           \/ /\ main.out = 0 /\ i # 0 /\ CanReturn(pic[b]) /\ recon' = [recon EXCEPT ![i] = 0]
              /\ \/ ThrowOut(b, FinishPicture(b, q))
                 \/ pic' = FinishPicture(b, q) /\ main' = main /\ held' = held
    BY <1>1, <1>2, <1>3, Zenon DEF Drain, ClearRecon, parserVars, outputVars, appVars
  <1>5. /\ Types /\ PicturesOK /\ nal[2] = 1 /\ 0 \notin Buffers
        /\ recon \in [1 .. NumRecon -> Buffers \cup {0}]
        /\ list \in Seq(Nat) /\ pic \in Seq(Picture) /\ ToSet(list) = DOMAIN pic
        /\ MainOK /\ RetakeOK /\ main \in MainState
    BY <1>4, MainTypes, Buffered DEF Inv, Types, Buffers
  <1>6. main.pc \in QuietPCs \ {"idle"} /\ main.call = "flush"
    BY <1>4, <1>5 DEF QuietPCs, MainOK
  <1>7. CASE main.out # 0 /\ Return(main.out) /\ UNCHANGED <<pic, recon>>
    BY <1>4, <1>6, <1>7, ReturnKeeps
  <1>8. CASE /\ main.out = 0 /\ i = 0
             /\ Goto("last") /\ UNCHANGED <<pic, recon, held>>
    <2>1. "last" \in PCs /\ main' = [main EXCEPT !.pc = "last"]
      BY <1>8 DEF PCs, Goto
    <2>2. /\ main' \in MainState /\ main'.pc = "last" /\ main'.call = main.call
          /\ main'.out = main.out /\ main'.cur = main.cur /\ main'.done = main.done
      BY <1>5, <2>1, MainStates
    <2>3. MainOK' /\ RetakeOK'
      BY <1>4, <1>5, <1>6, <2>2 DEF MainOK, RetakeOK
    <2>4. pic' = LockPic(0) /\ main'.pc \in QuietPCs
      BY <1>8, <2>2 DEF LockPic, QuietPCs
    <2> QED
      BY <1>4, <1>5, <1>6, <1>8, <2>2, <2>3, <2>4, MainTypes, OutputKeeps
  <1>9. CASE /\ main.out = 0 /\ i # 0 /\ CanReturn(pic[b]) /\ recon' = [recon EXCEPT ![i] = 0]
             /\ \/ ThrowOut(b, FinishPicture(b, q))
                \/ pic' = FinishPicture(b, q) /\ main' = main /\ held' = held
    <2>1. i \in 1 .. NumRecon /\ b # 0
      <3> DEFINE I == {j \in 1 .. Len(recon) : recon[j] # 0}
      <3>1. i = IF I # {} THEN Min(I) ELSE 0
        BY <1>1 DEF SelectInSeq
      <3>2. Len(recon) = NumRecon /\ recon \in Seq(Buffers \cup {0})
        BY <1>5, DecLibAssumption, SeqDef, LenProperties
      <3>3. I \in SUBSET Nat
        OBVIOUS
      <3>4. I # {} /\ i \in I
        BY <1>9, <3>1, <3>3, LeastMember
      <3> QED
        BY <1>2, <3>2, <3>4
    <2>2. /\ b \in Buffers /\ b \in Working
      BY <1>2, <1>5, <2>1 DEF Working
    <2>3. /\ pic[b].content # 0 /\ pic[b].progress \in {reconstructing, reconstructed}
          /\ pic[b].recon = "none"
      BY <1>5, <1>9, <2>2, Returned DEF Inv, WorkOK, PicturesOK
    <2>4. PICK p \in Picture : p = pic[b] /\ LocalOK(p)
      BY <1>5, <2>2, Buffered DEF PicturesOK
    <2>5. PICK a : a = AfterWait(p)
      OBVIOUS
    <2>6. a \in Picture /\ LocalOK(a) /\ SameBut(p, a, {"error"})
      BY <2>3, <2>4, <2>5, AfterWaitLocal
    <2>7. /\ q \in Seq(Picture) /\ DOMAIN q = Buffers
          /\ \A c \in Buffers : q[c] = IF c = b THEN a ELSE pic[c]
      <3>1. q = [pic EXCEPT ![b] = a]
        BY <1>3, <2>2, <2>4, <2>5 DEF Buffers
      <3> QED
        BY <1>5, <2>2, <2>6, <3>1 DEF Buffers
    <2>8. /\ \A c \in Buffers : LocalOK(q[c])
          /\ \A c \in Buffers : c # b => q[c] = pic[c]
          /\ SameBut(pic[b], q[b], {"error", "parseDone", "reconDone", "progress"})
          /\ q[b].content # 0 /\ q[b].recon = "none" /\ q[b].progress # finished
      <3>1. /\ a.progress = p.progress /\ a.content = p.content /\ a.recon = p.recon
            /\ SameBut(p, a, {"error", "parseDone", "reconDone", "progress"})
        BY <2>6 DEF SameBut, Fields
      <3>2. a.progress # finished
        BY <2>3, <2>4, <3>1 DEF reconstructing, reconstructed, finished
      <3> QED
        BY <1>5, <2>2, <2>3, <2>4, <2>6, <2>7, <3>1, <3>2 DEF PicturesOK
    <2>9. PICK P : P = FinishPicture(b, q)
      OBVIOUS
    <2>10. Finishes(q, P, b)
      BY <1>5, <2>2, <2>7, <2>8, <2>9, FinishPictureFinishes DEF Buffers
    <2>11. /\ P \in Seq(Picture) /\ DOMAIN P = Buffers /\ \A c \in Buffers : LocalOK(P[c])
           /\ SameBut(P[b], P[b], {"exceptionThrownOut"})
      BY <2>7, <2>10 DEF Finishes, SameBut
    <2>12. Current \cup Done \subseteq {b} /\ b \in Working \cup Done \cup Current
      BY <1>4, <2>2 DEF Current, Done
    <2>13. /\ recon' \in [1 .. NumRecon -> Buffers \cup {0}]
           /\ \A j \in 1 .. NumRecon : recon'[j] = IF j = i THEN 0 ELSE recon[j]
      BY <1>5, <1>9, <2>1
    <2>14. \A j, k \in 1 .. NumRecon : recon[j] = recon[k] /\ recon[j] # 0 => j = k
      BY DEF Inv, WorkOK
    <2>15. Working' \subseteq Working \ {b}
      BY <1>2, <2>1, <2>13, <2>14 DEF Working
    <2>16. \A j, k \in 1 .. NumRecon : recon'[j] = recon'[k] /\ recon'[j] # 0 => j = k
      BY <2>13, <2>14
    <2>17. \/ ThrowOut(b, P)
           \/ /\ pic' = P /\ held' = held /\ main' \in MainState /\ main'.pc \in QuietPCs
              /\ main'.out = main.out /\ {main'.cur, main'.done} \subseteq Buffers \cup {0}
              /\ MainOK' /\ RetakeOK'
      <3>1. CASE ThrowOut(b, FinishPicture(b, q))
        BY <2>9, <3>1
      <3>2. CASE pic' = FinishPicture(b, q) /\ main' = main /\ held' = held
        <4>1. MainOK' /\ RetakeOK'
          BY <1>4, <1>5, <3>2 DEF MainOK, RetakeOK
        <4> QED
          BY <1>5, <1>6, <2>9, <3>2, <4>1, MainTypes
      <3> QED
        BY <1>9, <3>1, <3>2
    <2> QED
      BY <1>4, <2>2, <2>7, <2>8, <2>10, <2>11, <2>12, <2>13, <2>15, <2>16, <2>17, FinishStep
  <1> QED
    BY <1>4, <1>7, <1>8, <1>9

\* decode gives up the picture it took: it is finished as it is, and the call
\* ends with its exception or takes another picture.  There is another one, as
\* the picture that has just been parsed has not failed, or else its exception
\* is thrown.
LEMMA HandleErrorKeeps ==
  ASSUME Inv, HandleErrorPicture
  PROVE  Inv'
  <1>1. PICK b : b = main.cur
    OBVIOUS
  <1>2. PICK h : h = main.hasException
    OBVIOUS
  <1>3. /\ main.pc = "error" /\ ~Busy(pic[b])
        /\ UNCHANGED <<stream, nal, dpb, parsePic, started, list, parseFrameList, recon,
                       tuneInDelay, firstOutputPic>>
    BY <1>1 DEF HandleErrorPicture, parserVars, outputVars
  <1>4. /\ Types /\ PicturesOK /\ nal[2] = 1 /\ 0 \notin Buffers
        /\ recon \in [1 .. NumRecon -> Buffers \cup {0}]
        /\ list \in Seq(Nat) /\ pic \in Seq(Picture) /\ ToSet(list) = DOMAIN pic
        /\ MainOK /\ RetakeOK /\ main \in MainState
    BY <1>3, MainTypes, Buffered DEF Inv, Types, Buffers
  <1>5. b \in Buffers /\ main.call = "decode" /\ main.out = 0 /\ h \in BOOLEAN
    BY <1>1, <1>2, <1>3, <1>4, MainTypes DEF MainOK, MainState
  <1>6. Current = {b} /\ Done = {}
    BY <1>1, <1>3 DEF Current, Done
  <1>7. pic[b].progress \in {parsing, parsed} /\ b \notin Listed
    BY <1>5, <1>6 DEF Inv, ParsedOK
  <1>8. PICK p \in Picture : p = pic[b] /\ LocalOK(p)
    BY <1>4, <1>5, Buffered DEF PicturesOK
  <1>9. PICK grey : grey = [p EXCEPT !.error = @ \/ h, !.parseDone.exception = @ /\ ~h,
                                     !.progress = reconstructed, !.reconDone = Unlocked]
    OBVIOUS
  <1>10. PICK q : q = [pic EXCEPT ![b] = grey]
    OBVIOUS
  <1>11. PICK P : P = FinishPicture(b, q)
    OBVIOUS
  <1>12. \/ (h \/ Throws(grey)) /\ ThrowOut(b, [P EXCEPT ![b].exceptionThrownOut = TRUE])
         \/ /\ ~h /\ ~Throws(grey) /\ pic' = P /\ held' = held
            /\ main' = [main EXCEPT !.pc = "retake"]
    <2>1. ~(p.progress < parsing) /\ ~(p.progress >= reconstructing)
      BY <1>7, <1>8 DEF parsing, parsed, reconstructing
    <2>2. ~(h /\ p.exceptionThrownOut)
      BY <1>1, <1>2, <1>3, <1>4, <1>8 DEF RetakeOK
    <2> QED
      BY <1>1, <1>2, <1>8, <1>9, <1>10, <1>11, <2>1, <2>2, Zenon
         DEF HandleErrorPicture, Goto, appVars
  <1>13. /\ grey \in Picture /\ LocalOK(grey)
         /\ SameBut(p, grey, {"error", "parseDone", "reconDone", "progress"})
         /\ grey.content # 0 /\ grey.recon = "none" /\ grey.progress = reconstructed
         /\ grey.error = (p.error \/ h)
         /\ ~h => grey.parseDone.exception = p.parseDone.exception
    <2>1. PICK e : e = (p.error \/ h)
      OBVIOUS
    <2>2. PICK d : d = [p.parseDone EXCEPT !.exception = @ /\ ~h]
      OBVIOUS
    <2>3. PICK u : u = Unlocked
      OBVIOUS
    <2>4. p.parseDone \in Barrier /\ p.error \in BOOLEAN
      BY DEF Picture
    <2>5. e \in BOOLEAN /\ u \in Barrier /\ ~u.exception /\ ~u.locked
      BY <1>5, <2>1, <2>3, <2>4, Barriers
    <2>6. d \in Barrier /\ (~h => d.exception = p.parseDone.exception)
      BY <1>5, <2>2, <2>4 DEF Barrier
    <2>7. grey = [p EXCEPT !.error = e, !.parseDone = d, !.progress = reconstructed,
                           !.reconDone = u]
      BY <1>9, <2>1, <2>2, <2>3
    <2>8. p.progress \in {parsing, parsed} /\ LocalOK(p)
      BY <1>7, <1>8
    <2>9. /\ grey \in Picture /\ grey.progress = reconstructed
          /\ SameBut(p, grey, {"error", "parseDone", "reconDone", "progress"})
          /\ grey.error = e /\ grey.parseDone = d /\ grey.reconDone = u
      <3>1. reconstructed \in init .. finished
        BY States
      <3>2. grey \in Picture
        BY <2>5, <2>6, <2>7, <3>1 DEF Picture
      <3> QED
        BY <2>7, <3>2 DEF Picture, SameBut, Fields
    <2>10. LocalOK(grey) /\ grey.content # 0 /\ grey.recon = "none"
      BY <2>5, <2>8, <2>9, GreyLocal
    <2> QED
      BY <2>1, <2>6, <2>9, <2>10
  <1>14. /\ q \in Seq(Picture) /\ DOMAIN q = Buffers
         /\ \A c \in Buffers : q[c] = IF c = b THEN grey ELSE pic[c]
    BY <1>4, <1>5, <1>10, <1>13 DEF Buffers
  <1>15. /\ \A c \in Buffers : LocalOK(q[c])
         /\ \A c \in Buffers : c # b => q[c] = pic[c]
         /\ SameBut(pic[b], q[b], {"error", "parseDone", "reconDone", "progress"})
    BY <1>4, <1>5, <1>8, <1>13, <1>14 DEF PicturesOK
  <1>16. Finishes(q, P, b)
    <2>1. grey.progress # finished
      BY <1>13 DEF reconstructed, finished
    <2> QED
      BY <1>4, <1>5, <1>11, <1>13, <1>14, <1>15, <2>1, FinishPictureFinishes DEF Buffers
  <1>17. /\ P \in Seq(Picture) /\ DOMAIN P = Buffers /\ \A c \in Buffers : LocalOK(P[c])
         /\ P[b].progress = finished
    BY <1>14, <1>16 DEF Finishes
  <1>18. PICK Q : Q = IF h \/ Throws(grey) THEN [P EXCEPT ![b].exceptionThrownOut = TRUE]
                      ELSE P
    OBVIOUS
  <1>19. /\ Q \in Seq(Picture) /\ DOMAIN Q = Buffers /\ \A c \in Buffers : LocalOK(Q[c])
         /\ \A c \in Buffers : c # b => Q[c] = P[c]
         /\ SameBut(P[b], Q[b], {"exceptionThrownOut"})
    <2>1. PICK x \in Picture : x = P[b] /\ LocalOK(x) /\ x.progress = finished
      BY <1>5, <1>17
    <2>2. PICK y : y = [x EXCEPT !.exceptionThrownOut = TRUE]
      OBVIOUS
    <2>3. y \in Picture /\ LocalOK(y) /\ SameBut(x, y, {"exceptionThrownOut"})
      BY <2>1, <2>2, ThrownLocal
    <2>4. CASE Q = [P EXCEPT ![b].exceptionThrownOut = TRUE]
      <3>1. Q = [P EXCEPT ![b] = y]
        BY <1>5, <1>17, <2>1, <2>2, <2>4
      <3>2. /\ Q \in Seq(Picture) /\ DOMAIN Q = Buffers
            /\ \A c \in Buffers : Q[c] = IF c = b THEN y ELSE P[c]
        BY <1>5, <1>17, <2>3, <3>1
      <3> QED
        BY <1>5, <1>17, <2>1, <2>3, <3>2
    <2>5. CASE Q = P
      BY <1>17, <2>5 DEF SameBut
    <2> QED
      BY <1>18, <2>4, <2>5
  <1>20. b \notin Working /\ Working' = Working
    <2>1. b \notin Working
      BY <1>7, <1>8
         DEF Inv, WorkOK, parsing, parsed, reconstructing, reconstructed
    <2> QED
      BY <1>3, <2>1 DEF Working
  <1>21. ASSUME ~h, ~Throws(grey), pic' = P, main' = [main EXCEPT !.pc = "retake"]
         PROVE  /\ main' \in MainState /\ main'.pc \in QuietPCs
                /\ main'.out = main.out /\ {main'.cur, main'.done} \subseteq Buffers \cup {0}
                /\ MainOK' /\ RetakeOK'
    <2>1. "retake" \in PCs
      BY DEF PCs
    <2>2. /\ main' \in MainState /\ main'.pc = "retake" /\ main'.call = "decode"
          /\ main'.out = main.out /\ main'.cur = main.cur /\ main'.done = main.done
      BY <1>4, <1>5, <1>21, <2>1, MainStates
    <2>3. MainOK'
      BY <1>3, <1>4, <1>5, <2>2 DEF MainOK
    <2>4. /\ parsePic # 0 /\ parsePic \in Listed \cup {b} /\ ~pic[parsePic].exceptionThrownOut
          /\ p.error
      BY <1>1, <1>2, <1>3, <1>4, <1>5, <1>6, <1>8, <1>21 DEF RetakeOK
    <2>5. parsePic # b
      <3> SUFFICES ASSUME parsePic = b PROVE FALSE
        OBVIOUS
      <3>1. ~p.exceptionThrownOut /\ p.parse \in {"throwing", "failed"}
        BY <1>7, <1>8, <2>4 DEF LocalOK
      <3>2. p.parse = "failed"
        BY <1>3, <1>8, <3>1 DEF Busy
      <3>3. p.parseDone.exception
        BY <1>7, <1>8, <3>1, <3>2 DEF LocalOK
      <3>4. ~grey.exceptionThrownOut
        BY <1>13, <3>1 DEF SameBut, Fields
      <3> QED
        BY <1>13, <1>21, <2>4, <3>3, <3>4 DEF Throws, HasError
    <2>6. pic'[parsePic].exceptionThrownOut = pic[parsePic].exceptionThrownOut
      <3>1. parsePic \in Buffers
        BY <1>4, <1>5, <2>4, Held
      <3>2. \A c \in Buffers : c # b => P[c].exceptionThrownOut = pic[c].exceptionThrownOut
        BY <1>5, <1>14, <1>15, <1>16, FinishedFields
      <3> QED
        BY <1>21, <2>5, <3>1, <3>2
    <2>7. Listed' = Listed /\ parsePic \in Listed' /\ parsePic' = parsePic
      BY <1>3, <2>4, <2>5 DEF Listed
    <2>8. RetakeOK'
      BY <2>2, <2>4, <2>6, <2>7 DEF RetakeOK
    <2> QED
      BY <2>2, <2>3, <2>8, MainTypes DEF QuietPCs
  <1>22. \/ ThrowOut(b, Q)
         \/ /\ pic' = Q /\ held' = held /\ main' \in MainState /\ main'.pc \in QuietPCs
            /\ main'.out = main.out /\ {main'.cur, main'.done} \subseteq Buffers \cup {0}
            /\ MainOK' /\ RetakeOK'
    BY <1>12, <1>18, <1>21
  <1>23. /\ Current \cup Done \subseteq {b} /\ b \in Working \cup Done \cup Current
         /\ Working' \subseteq Working \ {b}
         /\ recon' \in [1 .. NumRecon -> Buffers \cup {0}]
         /\ \A i, j \in 1 .. NumRecon : recon'[i] = recon'[j] /\ recon'[i] # 0 => i = j
    BY <1>3, <1>4, <1>6, <1>20 DEF Inv, WorkOK
  <1> QED
    BY <1>3, <1>5, <1>14, <1>15, <1>16, <1>19, <1>22, <1>23, FinishStep

-----------------------------------------------------------------------------
(***************************************************************************)
(* A buffer is taken for a new picture.  Nobody works on what was in it,   *)
(* nobody still refers to it, and the application does not hold it.        *)
(***************************************************************************)
LEMMA BufferFree ==
  ASSUME Inv, NEW q \in Seq(Picture), DOMAIN q = Buffers,
         \A c \in Buffers : LocalOK(q[c]) /\ SameBut(pic[c], q[c], {"dpbReferenceMark"}),
         NEW f \in Buffers, Reusable(q[f])
  PROVE  /\ f \notin Listed /\ f \notin Working
         /\ \A h \in held : h.buf # f
         /\ \A b \in Buffers : InUse(b) => \A r \in pic[b].refs : r.buf # f
  <1>1. /\ pic[f].progress = q[f].progress /\ pic[f].stillReferenced = q[f].stillReferenced
        /\ pic[f].neededForOutput = q[f].neededForOutput
        /\ pic[f].lockedByApplication = q[f].lockedByApplication
    BY DEF SameBut, Fields
  <1>2. /\ pic[f].progress >= reconstructed /\ ~pic[f].stillReferenced
        /\ ~pic[f].neededForOutput /\ ~pic[f].lockedByApplication
    BY <1>1 DEF Reusable
  <1>3. f \notin Listed
    <2>1. ~(pic[f].progress \in {parsing, parsed})
      BY <1>2 DEF parsing, parsed, reconstructed
    <2> QED
      BY <2>1 DEF Inv, ParsedOK
  <1>4. f \notin Working
    <2>1. SUFFICES ASSUME f \in Working PROVE FALSE
      OBVIOUS
    <2>2. pic[f].content # 0 /\ pic[f].progress < finished
      BY <2>1 DEF Inv, WorkOK, reconstructing, reconstructed, finished
    <2>3. LocalOK(pic[f])
      BY DEF Inv, PicturesOK
    <2> QED
      BY <1>2, <2>2, <2>3 DEF LocalOK
  <1>5. \A h \in held : h.buf # f
    BY <1>2 DEF Inv, FramesIntact
  <1>6. \A b \in Buffers : InUse(b) => \A r \in pic[b].refs : r.buf # f
    BY <1>2 DEF Inv, RefsHeld
  <1> QED
    BY <1>3, <1>4, <1>5, <1>6

\* A step that puts the new picture x into the buffer.
LEMMA BufferKeeps ==
  ASSUME Inv, main.pc = "head",
         NEW q \in Seq(Picture), DOMAIN q = Buffers,
         \A c \in Buffers : LocalOK(q[c]) /\ SameBut(pic[c], q[c], {"dpbReferenceMark"}),
         NEW n, n = GetNewPicBuffer(list, q),
         NEW x \in Picture, LocalOK(x), x.recon = "none", ~x.lockedByApplication, x.refs = {},
         x.progress \in {init, reconstructed}, x.content \in {0} \cup DOMAIN stream,
         pic' = [n.pic EXCEPT ![n.buf] = x], list' = n.list, dpb' \subseteq dpb \cup {n.buf},
         UNCHANGED <<stream, nal, started, parseFrameList, recon, tuneInDelay, firstOutputPic,
                     held>>,
         main' \in MainState, main'.call = "decode", main'.out = 0,
         {main'.cur, main'.done} \subseteq Buffers \cup {0},
         \/ main'.pc = "head" /\ parsePic' = parsePic
         \/ main'.pc = "lists" /\ parsePic' = n.buf /\ Fresh(x) /\ x.content = nal[1]
  PROVE  Inv'
  <1>1. PICK f : f = n.buf
    OBVIOUS
  <1>2. /\ Types /\ PicturesOK /\ nal[2] = 1 /\ list \in Seq(Nat) /\ IsInjective(list)
        /\ ToSet(list) = DOMAIN q /\ nal[1] \in DOMAIN stream
    BY DEF Inv, Types, MainOK, Buffers
  <1>3. /\ n.list \in Seq(Nat) /\ IsInjective(n.list) /\ ToSet(n.list) = DOMAIN n.pic
        /\ n.pic \in Seq(Picture) /\ DOMAIN n.pic = Buffers \cup {f}
        /\ f \in Nat \ {0} /\ (f \in Buffers => Reusable(q[f]))
        /\ \A b \in Buffers : b # f => n.pic[b] = q[b]
    BY <1>1, <1>2, NewBuffer
  <1>4. /\ f \notin Listed /\ f \notin Working
        /\ \A h \in held : h.buf # f
        /\ \A b \in Buffers : InUse(b) => \A r \in pic[b].refs : r.buf # f
    <2>1. CASE f \in Buffers
      <3>1. Reusable(q[f])
        BY <1>3, <2>1
      <3> QED
        BY <2>1, <3>1, BufferFree
    <2>2. CASE f \notin Buffers
      <3>1. f \notin Listed /\ f \notin Working
        BY <1>2, <2>2, Held
      <3>2. \A h \in held : h.buf # f
        BY <2>2 DEF Inv, FramesOK
      <3>3. \A b \in Buffers : InUse(b) => \A r \in pic[b].refs : r.buf # f
        BY <2>2 DEF Inv, RefsHeld
      <3> QED
        BY <3>1, <3>2, <3>3
    <2> QED
      BY <2>1, <2>2
  <1>5. /\ pic' \in Seq(Picture) /\ Buffers' = Buffers \cup {f} /\ DOMAIN pic' = Buffers \cup {f}
        /\ pic'[f] = x
        /\ \A c \in Buffers : c # f => pic'[c] = q[c]
    BY <1>1, <1>3 DEF Buffers
  <1>6. \A c \in Buffers : c # f =>
          /\ pic'[c].content = pic[c].content /\ pic'[c].poc = pic[c].poc
          /\ pic'[c].refs = pic[c].refs /\ pic'[c].progress = pic[c].progress
          /\ pic'[c].stillReferenced = pic[c].stillReferenced
          /\ pic'[c].recon = pic[c].recon /\ pic'[c].reconDone = pic[c].reconDone
          /\ pic'[c].lockedByApplication = pic[c].lockedByApplication
    BY <1>5 DEF SameBut, Fields
  <1>7. /\ Listed' = Listed /\ Working' = Working /\ Current = {} /\ Current' = {}
        /\ Done = {} /\ Done' = {}
    BY DEF Listed, Working, Current, Done
  <1>8. Listed \subseteq Buffers /\ Working \subseteq Buffers
        /\ \A j \in DOMAIN parseFrameList : parseFrameList[j] \in Listed
    BY <1>2, Held
  <1>9. main'.pc \in {"head", "lists"}
    OBVIOUS
  <1>10. Types'
    <2>1. /\ list' \in Seq(Nat) /\ IsInjective(list)' /\ ToSet(list)' = Buffers'
      BY <1>3, <1>5 DEF IsInjective, ToSet
    <2>2. \A c \in Buffers' : pic'[c].content \in {0} \cup DOMAIN stream'
      <3>1. \A c \in Buffers : c # f => pic'[c].content \in {0} \cup DOMAIN stream
        BY <1>2, <1>6 DEF Types
      <3> QED
        BY <1>5, <3>1
    <2>3. /\ recon' \in [1 .. NumRecon -> Buffers' \cup {0}] /\ parsePic' \in Buffers' \cup {0}
          /\ dpb' \subseteq Buffers' /\ {main'.cur, main'.done, main'.out} \subseteq Buffers' \cup {0}
      BY <1>1, <1>2, <1>5 DEF Types
    <2>4. /\ stream' \in Streams /\ nal' \in (Nat \ {0}) \X (Nat \ {0})
          /\ ~(nal'[2] > 1)
      BY <1>2 DEF Types
    <2>5. /\ parseFrameList' \in Seq(Nat) /\ IsInjective(parseFrameList)' /\ Listed' \subseteq Buffers'
          /\ started' \in BOOLEAN /\ firstOutputPic' \in BOOLEAN
          /\ tuneInDelay' \in 0 .. NumReorderPics + ParallelDecInst + 2
      BY <1>2, <1>5, <1>7 DEF Types
    <2> QED
      BY <1>5, <2>1, <2>2, <2>3, <2>4, <2>5 DEF Types
  <1>11. PicturesOK'
    BY <1>5, LocalKept
  <1>12. MainOK'
    BY <1>2, <1>9 DEF MainOK
  <1>13. ParsedOK'
    <2>1. ~(x.progress \in {parsing, parsed})
      BY DEF init, parsing, parsed, reconstructed
    <2> QED
      BY <1>4, <1>5, <1>6, <1>7, <2>1 DEF Inv, ParsedOK
  <1>14. WorkOK'
    BY <1>4, <1>6, <1>7, <1>8, <1>9 DEF Inv, WorkOK
  <1>15. StuckOK'
    <2>1. x.progress # reconstructing
      BY DEF init, reconstructing, reconstructed
    <2> QED
      BY <1>5, <1>6, <2>1 DEF Inv, StuckOK
  <1>16. HeadOK'
    <2>1. ~(nal'[2] > 1)
      BY <1>2
    <2> QED
      BY <1>1, <1>3, <1>5, <2>1 DEF HeadOK
  <1>17. RetakeOK' /\ RefsTaken'
    BY <1>9 DEF RetakeOK, RefsTaken
  <1>18. RefsHeld'
    <2>1. ASSUME NEW b \in Buffers', InUse(b)', NEW r \in pic'[b].refs
          PROVE  /\ r.buf \in Buffers' /\ pic'[r.buf].stillReferenced
                 /\ pic'[r.buf].content = r.content /\ pic'[r.buf].poc = r.poc
                 /\ main'.pc = "lists" => r.buf # parsePic'
      <3>1. b \in Buffers /\ b # f
        BY <1>5, <2>1
      <3>2. InUse(b) /\ r \in pic[b].refs
        BY <1>6, <2>1, <3>1 DEF InUse
      <3>3. /\ r.buf \in Buffers /\ r.buf # f /\ pic[r.buf].stillReferenced
            /\ pic[r.buf].content = r.content /\ pic[r.buf].poc = r.poc
        BY <1>4, <3>1, <3>2 DEF Inv, RefsHeld
      <3> QED
        BY <1>1, <1>5, <1>6, <3>3
    <2> QED
      BY <2>1 DEF RefsHeld
  <1>19. RefsOrder'
    <2>1. \A j \in DOMAIN parseFrameList : pic'[parseFrameList[j]].refs = pic[parseFrameList[j]].refs
      BY <1>4, <1>6, <1>8
    <2> QED
      BY <2>1 DEF Inv, RefsOrder
  <1>20. RefsReady'
    <2>1. ASSUME NEW b \in Buffers', pic'[b].recon \in {"tasks", "ctus"}, NEW r \in pic'[b].refs
          PROVE  pic'[r.buf].progress >= reconstructed
      <3>1. b \in Buffers /\ b # f
        BY <1>5, <2>1
      <3>2. r \in pic[b].refs /\ pic[b].recon \in {"tasks", "ctus"}
        BY <1>6, <2>1, <3>1
      <3>3. InUse(b)
        BY <3>1, <3>2, <1>2 DEF PicturesOK, LocalOK, InUse, reconstructing, reconstructed
      <3>4. r.buf \in Buffers /\ r.buf # f
        BY <1>4, <3>1, <3>2, <3>3 DEF Inv, RefsHeld
      <3>5. pic[r.buf].progress >= reconstructed
        BY <3>1, <3>2 DEF Inv, RefsReady, RefsReconstructed
      <3> QED
        BY <1>6, <3>4, <3>5
    <2> QED
      BY <2>1 DEF RefsReady, RefsReconstructed
  <1>21. FramesIntact' /\ FramesOK'
    <2>1. \A h \in held : h \in [buf : Buffers, content : Nat] /\ h.buf \in Buffers
      BY DEF Inv, FramesOK
    <2>2. FramesIntact'
      BY <1>4, <1>6, <2>1 DEF Inv, FramesIntact
    <2>3. \A h \in held : h \in [buf : Buffers', content : Nat] /\ h.buf # 0
      BY <1>2, <1>5, <2>1, Buffered
    <2>4. \A h, g \in held : h.buf = g.buf => h = g
      BY DEF Inv, FramesOK
    <2> QED
      BY <2>2, <2>3, <2>4 DEF FramesOK
  <1> QED
    BY <1>10, <1>11, <1>12, <1>13, <1>14, <1>15, <1>16, <1>17, <1>18, <1>19, <1>20, <1>21
       DEF Inv

\* A picture that was lost gets a buffer.
LEMMA PrepareKeeps ==
  ASSUME Inv, PrepareUnavailablePicture
  PROVE  Inv'
  <1>1. PICK c : c = stream[nal[1]]
    OBVIOUS
  <1>2. PICK n : n = GetNewPicBuffer(list, pic)
    OBVIOUS
  <1>3. PICK poc \in LostRefs(c) :
          /\ list' = n.list /\ dpb' = dpb \cup {n.buf}
          /\ pic' = [n.pic EXCEPT ![n.buf] =
                [@ EXCEPT !.poc = poc, !.nonRef = c.nonRef, !.wasLost = TRUE,
                          !.dpbReferenceMark = TRUE, !.stillReferenced = TRUE,
                          !.parseDone = Unlocked, !.reconDone = Unlocked,
                          !.progress = reconstructed]]
    BY <1>1, <1>2, Zenon DEF PrepareUnavailablePicture
  <1>4. /\ main.pc = "head"
        /\ UNCHANGED <<stream, nal, parsePic, started, parseFrameList, recon, tuneInDelay,
                       firstOutputPic, main, held>>
    BY DEF PrepareUnavailablePicture, outputVars, appVars
  <1>5. /\ Types /\ PicturesOK /\ list \in Seq(Nat) /\ IsInjective(list)
        /\ ToSet(list) = DOMAIN pic /\ pic \in Seq(Picture) /\ DOMAIN pic = Buffers
        /\ main \in MainState /\ main.call = "decode" /\ main.out = 0
        /\ {main.cur, main.done} \subseteq Buffers \cup {0} /\ nal[1] \in DOMAIN stream
    BY <1>4, MainTypes DEF Inv, Types, MainOK, Buffers
  <1>6. poc \in Int /\ c.nonRef \in BOOLEAN
    <2>1. c \in CodedPicture
      BY <1>1, <1>5, Streaming
    <2>2. poc \in c.refs
      BY DEF LostRefs
    <2> QED
      BY <2>1, <2>2 DEF CodedPicture
  <1>7. /\ n.pic \in Seq(Picture) /\ DOMAIN n.pic = Buffers \cup {n.buf}
        /\ n.pic[n.buf] = NewPicture
    BY <1>2, <1>5, NewBuffer DEF PicturesOK
  <1>8. PICK x : x = Lost(poc, c.nonRef)
    OBVIOUS
  <1>9. pic' = [n.pic EXCEPT ![n.buf] = x]
    BY <1>3, <1>7, <1>8, Zenon DEF Lost
  <1>10. PICK nonRef \in BOOLEAN : nonRef = c.nonRef /\ x = Lost(poc, nonRef)
    BY <1>6, <1>8
  <1>11. /\ x \in Picture /\ LocalOK(x) /\ x.progress = reconstructed /\ x.content = 0
         /\ x.recon = "none" /\ ~x.lockedByApplication /\ x.refs = {}
    BY <1>6, <1>10, LostLocal
  <1>12. \A b \in Buffers : LocalOK(pic[b]) /\ SameBut(pic[b], pic[b], {"dpbReferenceMark"})
    BY <1>5 DEF PicturesOK, SameBut
  <1>13. /\ x.progress \in {init, reconstructed} /\ x.content \in {0} \cup DOMAIN stream
         /\ dpb' \subseteq dpb \cup {n.buf} /\ list' = n.list
         /\ main'.pc = "head" /\ parsePic' = parsePic
         /\ main' \in MainState /\ main'.call = "decode" /\ main'.out = 0
         /\ {main'.cur, main'.done} \subseteq Buffers \cup {0}
    BY <1>3, <1>4, <1>5, <1>11
  <1> QED
    BY <1>2, <1>4, <1>5, <1>9, <1>11, <1>12, <1>13, BufferKeeps

\* The marking of the pictures that leave the DPB.
LEMMA MarkingApplied ==
  ASSUME Types, PicturesOK, NEW c, NEW q, q = ApplyMarking(c)
  PROVE  /\ q \in Seq(Picture) /\ DOMAIN q = Buffers
         /\ \A b \in Buffers : /\ q[b] \in Picture /\ LocalOK(q[b])
                               /\ SameBut(pic[b], q[b], {"dpbReferenceMark"})
  <1>1. DOMAIN pic = Buffers
    BY DEF Buffers
  <1>2. \A b \in Buffers : /\ q[b] \in Picture /\ LocalOK(q[b])
                           /\ SameBut(pic[b], q[b], {"dpbReferenceMark"})
    <2>1. SUFFICES ASSUME NEW b \in Buffers
                   PROVE  /\ q[b] \in Picture /\ LocalOK(q[b])
                          /\ SameBut(pic[b], q[b], {"dpbReferenceMark"})
      OBVIOUS
    <2>2. pic[b] \in Picture /\ LocalOK(pic[b])
      BY <1>1, Buffered DEF PicturesOK
    <2>3. q[b] \in {pic[b], [pic[b] EXCEPT !.dpbReferenceMark = FALSE]}
      BY <1>1 DEF ApplyMarking
    <2>4. CASE q[b] = pic[b]
      BY <2>2, <2>4 DEF SameBut
    <2>5. CASE q[b] = [pic[b] EXCEPT !.dpbReferenceMark = FALSE]
      BY <2>2, <2>5, UnmarkLocal
    <2> QED
      BY <2>3, <2>4, <2>5
  <1>3. q \in Seq(Picture) /\ DOMAIN q = Buffers
    <2>1. q = [b \in DOMAIN pic |-> q[b]]
      BY DEF ApplyMarking
    <2> QED
      BY <1>1, <1>2, <2>1, SamePlaces
  <1> QED
    BY <1>2, <1>3

\* The picture that arrives gets one.
LEMMA ActivateKeeps ==
  ASSUME Inv, ActivatePicture
  PROVE  Inv'
  <1>1. PICK i : i = nal[1]
    OBVIOUS
  <1>2. PICK c : c = stream[i]
    OBVIOUS
  <1>3. PICK q : q = ApplyMarking(c)
    OBVIOUS
  <1>4. PICK n : n = GetNewPicBuffer(list, q)
    OBVIOUS
  <1>5. /\ main.pc = "head" /\ list' = n.list /\ dpb' = Kept(c) \cup {n.buf}
        /\ parsePic' = n.buf
        /\ pic' = [n.pic EXCEPT ![n.buf] =
                  [@ EXCEPT !.content = i, !.poc = c.poc, !.idr = c.idr,
                            !.nonRef = c.nonRef,
                            !.dpbReferenceMark = ~c.nonRef,
                            !.stillReferenced = ~c.nonRef,
                            !.neededForOutput = c.out]]
        /\ main' = [main EXCEPT !.pc = "lists"]
        /\ UNCHANGED <<stream, nal, started, parseFrameList, recon, tuneInDelay,
                       firstOutputPic, held>>
    BY <1>1, <1>2, <1>3, <1>4, Zenon DEF ActivatePicture, Goto, outputVars, appVars
  <1>6. /\ Types /\ PicturesOK /\ list \in Seq(Nat) /\ IsInjective(list)
        /\ ToSet(list) = Buffers /\ pic \in Seq(Picture) /\ DOMAIN pic = Buffers
        /\ main \in MainState /\ main.call = "decode" /\ main.out = 0
        /\ {main.cur, main.done} \subseteq Buffers \cup {0} /\ i \in DOMAIN stream
    BY <1>1, <1>5, MainTypes DEF Inv, Types, MainOK, Buffers
  <1>7. c \in CodedPicture /\ i \in Nat \ {0} /\ (c.nonRef => c.out)
    BY <1>2, <1>6, Streaming
  <1>8. \A b \in Buffers : /\ q[b] \in Picture /\ LocalOK(q[b])
                           /\ SameBut(pic[b], q[b], {"dpbReferenceMark"})
    BY <1>3, <1>6, MarkingApplied
  <1>9. q \in Seq(Picture) /\ DOMAIN q = Buffers
    BY <1>3, <1>6, MarkingApplied
  <1>10. /\ n.pic \in Seq(Picture) /\ DOMAIN n.pic = Buffers \cup {n.buf}
         /\ n.pic[n.buf] = NewPicture
    BY <1>4, <1>6, <1>8, <1>9, NewBuffer
  <1>11. PICK x : x = Active(i, c)
    OBVIOUS
  <1>12. pic' = [n.pic EXCEPT ![n.buf] = x]
    BY <1>5, <1>10, <1>11, Zenon DEF Active
  <1>13. /\ x \in Picture /\ LocalOK(x) /\ Fresh(x) /\ x.content = i /\ x.recon = "none"
         /\ ~x.lockedByApplication
    BY <1>2, <1>6, <1>7, <1>11, ActiveLocal
  <1>14. x.refs = {}
    BY <1>7, <1>11, ActiveFields, NewFields DEF SameBut, Fields
  <1>15. Kept(c) \subseteq dpb
    BY DEF Kept, Marked
  <1>16. "lists" \in PCs
    BY DEF PCs
  <1>17. /\ main' \in MainState /\ main'.pc = "lists" /\ main'.call = "decode"
         /\ main'.out = 0 /\ {main'.cur, main'.done} \subseteq Buffers \cup {0}
    BY <1>5, <1>6, <1>16, MainStates
  <1>18. /\ x.progress \in {init, reconstructed} /\ x.content \in {0} \cup DOMAIN stream
         /\ dpb' \subseteq dpb \cup {n.buf} /\ x.content = nal[1]
    BY <1>1, <1>5, <1>6, <1>13, <1>15 DEF Fresh
  <1> QED
    BY <1>4, <1>5, <1>8, <1>9, <1>12, <1>13, <1>14, <1>17, <1>18, BufferKeeps

-----------------------------------------------------------------------------
(***************************************************************************)
(* The reference lists of the picture are constructed: it refers to        *)
(* pictures in the DPB only, and never to itself.                          *)
(***************************************************************************)
LEMMA Constructed ==
  ASSUME Inv, main.pc = "lists", NEW c \in CodedPicture,
         NEW q, q = ConstructRefPicLists(c)
  PROVE  /\ q \in Seq(Picture) /\ DOMAIN q = Buffers
         /\ \A b \in Buffers : /\ LocalOK(q[b])
                               /\ SameBut(pic[b], q[b], {"stillReferenced", "refs"})
                               /\ pic[b].stillReferenced => q[b].stillReferenced
                               /\ b # parsePic => q[b].refs = pic[b].refs
         /\ q[parsePic].refs = ActiveRefs(c)
         /\ \A r \in ActiveRefs(c) :
              /\ r.buf \in Buffers /\ r.buf # parsePic /\ q[r.buf].stillReferenced
              /\ r.content = pic[r.buf].content /\ r.poc = pic[r.buf].poc
  <1>1. /\ Types /\ PicturesOK /\ DOMAIN pic = Buffers /\ pic \in Seq(Picture)
        /\ dpb \subseteq Buffers /\ parsePic \in Buffers
    BY DEF Inv, Types, HeadOK, Buffers
  <1>2. \A b \in Buffers : pic[b] \in Picture /\ LocalOK(pic[b]) /\ b \in Nat
    BY <1>1, Buffered DEF PicturesOK
  <1>3. Found(c.refs) \subseteq Buffers /\ Found(c.refs) \subseteq Found(ListEntries(c))
    BY <1>1 DEF Found, Marked, ListEntries
  <1>4. \A r \in ActiveRefs(c) :
          /\ r \in Reference /\ r.buf \in Found(c.refs) /\ r.buf # parsePic
          /\ r.content = pic[r.buf].content /\ r.poc = pic[r.buf].poc
    <2>1. SUFFICES ASSUME NEW b \in Found(c.refs) \ {parsePic}, NEW r,
                          r = [buf |-> b, content |-> pic[b].content, poc |-> pic[b].poc]
                   PROVE  /\ r \in Reference /\ r.buf \in Found(c.refs) /\ r.buf # parsePic
                          /\ r.content = pic[r.buf].content /\ r.poc = pic[r.buf].poc
      BY DEF ActiveRefs
    <2>2. b \in Nat /\ pic[b].content \in Nat /\ pic[b].poc \in Int
      BY <1>2, <1>3 DEF Picture
    <2> QED
      BY <2>1, <2>2 DEF Reference
  <1>5. \A b \in Buffers :
          q[b] = [pic[b] EXCEPT
                    !.stillReferenced = @ \/ b \in Found(ListEntries(c)),
                    !.refs = IF b = parsePic THEN ActiveRefs(c) ELSE @]
    BY <1>1, Zenon DEF ConstructRefPicLists
  <1>6. \A b \in Buffers :
          /\ q[b] \in Picture /\ LocalOK(q[b])
          /\ SameBut(pic[b], q[b], {"stillReferenced", "refs"})
          /\ pic[b].stillReferenced => q[b].stillReferenced
          /\ b \in Found(ListEntries(c)) => q[b].stillReferenced
          /\ q[b].refs = IF b = parsePic THEN ActiveRefs(c) ELSE pic[b].refs
    <2>1. SUFFICES ASSUME NEW b \in Buffers
                   PROVE  /\ q[b] \in Picture /\ LocalOK(q[b])
                          /\ SameBut(pic[b], q[b], {"stillReferenced", "refs"})
                          /\ pic[b].stillReferenced => q[b].stillReferenced
                          /\ b \in Found(ListEntries(c)) => q[b].stillReferenced
                          /\ q[b].refs = IF b = parsePic THEN ActiveRefs(c) ELSE pic[b].refs
      OBVIOUS
    <2>2. pic[b] \in Picture /\ LocalOK(pic[b])
      BY <1>2
    <2>3. PICK p \in Picture : p = pic[b] /\ LocalOK(p)
      BY <2>2
    <2>4. PICK R : R = IF b = parsePic THEN ActiveRefs(c) ELSE p.refs
      OBVIOUS
    <2>5. R \in SUBSET Reference
      BY <1>4, <2>4 DEF Picture
    <2>6. q[b] = [p EXCEPT !.stillReferenced = @ \/ b \in Found(ListEntries(c)),
                           !.refs = IF b = parsePic THEN ActiveRefs(c) ELSE @]
      BY <1>5, <2>3, Zenon
    <2>7. CASE p.stillReferenced \/ b \in Found(ListEntries(c))
      <3>1. q[b] = [p EXCEPT !.stillReferenced = TRUE, !.refs = R]
        BY <2>4, <2>6, <2>7
      <3>2. /\ q[b] \in Picture /\ SameBut(p, q[b], {"stillReferenced", "refs"})
            /\ q[b].stillReferenced /\ q[b].refs = R
        BY <2>5, <3>1 DEF Picture, SameBut, Fields
      <3>3. LocalOK(q[b])
        BY <2>3, <3>2, ListsLocal
      <3> QED
        BY <2>3, <2>4, <3>2, <3>3
    <2>8. CASE ~p.stillReferenced /\ b \notin Found(ListEntries(c))
      <3>1. q[b] = [p EXCEPT !.stillReferenced = FALSE, !.refs = R]
        BY <2>4, <2>6, <2>8
      <3>2. /\ q[b] \in Picture /\ SameBut(p, q[b], {"stillReferenced", "refs"})
            /\ q[b].refs = R
        BY <2>5, <3>1 DEF Picture, SameBut, Fields
      <3>3. LocalOK(q[b])
        BY <2>3, <2>8, <3>2, ListsLocal
      <3> QED
        BY <2>3, <2>4, <2>8, <3>2, <3>3
    <2> QED
      BY <2>7, <2>8
  <1>7. q \in Seq(Picture) /\ DOMAIN q = Buffers
    <2>1. q = [b \in DOMAIN pic |-> q[b]]
      BY Zenon DEF ConstructRefPicLists
    <2> QED
      BY <1>1, <1>6, <2>1, SamePlaces
  <1> QED
    BY <1>1, <1>3, <1>4, <1>6, <1>7

\* parse() of the first slice: the picture waits to be reconstructed, or is
\* left behind because its lists could not be constructed.
LEMMA DecodeFirstSliceKeeps ==
  ASSUME Inv, DecodeFirstSlice
  PROVE  Inv'
  <1>1. PICK i : i = nal[1]
    OBVIOUS
  <1>2. PICK c : c = stream[i]
    OBVIOUS
  <1>3. PICK q : q = ConstructRefPicLists(c)
    OBVIOUS
  <1>4. PICK f : f = parsePic
    OBVIOUS
  <1>5. PICK L : L = Len(parseFrameList)
    OBVIOUS
  <1>6. PICK m : m = [Idle EXCEPT !.pc = "take"]
    OBVIOUS
  <1>7. /\ main.pc = "lists" /\ nal' = NextNal
        /\ \/ /\ pic' = [q EXCEPT ![f] = MarkThrown(@)] /\ main' = Idle
              /\ parseFrameList' = parseFrameList
           \/ /\ pic' = [q EXCEPT ![f].progress = parsing, ![f].slices = 1]
              /\ parseFrameList' = Append(parseFrameList, f)
              /\ \/ main' = Idle
                 \/ main' = m /\ c.slices = 1
        /\ UNCHANGED <<stream, list, dpb, parsePic, started, recon, tuneInDelay,
                       firstOutputPic, held>>
    BY <1>1, <1>2, <1>3, <1>4, <1>6 DEF DecodeFirstSlice, outputVars, appVars
  <1>8. /\ Types /\ PicturesOK /\ nal[2] = 1 /\ i \in DOMAIN stream
        /\ f \in Buffers /\ Fresh(pic[f]) /\ pic[f].content = i
        /\ parseFrameList \in Seq(Nat) /\ IsInjective(parseFrameList) /\ Buffers = DOMAIN pic
    BY <1>1, <1>4, <1>7, MainTypes DEF Inv, Types, MainOK, HeadOK, Buffers
  <1>9. /\ c \in CodedPicture /\ i \in Nat \ {0}
    BY <1>2, <1>8, Streaming
  <1>10. /\ q \in Seq(Picture) /\ DOMAIN q = Buffers
         /\ \A b \in Buffers : /\ LocalOK(q[b])
                               /\ SameBut(pic[b], q[b], {"stillReferenced", "refs"})
                               /\ pic[b].stillReferenced => q[b].stillReferenced
                               /\ b # f => q[b].refs = pic[b].refs
         /\ q[f].refs = ActiveRefs(c)
         /\ \A r \in ActiveRefs(c) :
              /\ r.buf \in Buffers /\ r.buf # f /\ q[r.buf].stillReferenced
              /\ r.content = pic[r.buf].content /\ r.poc = pic[r.buf].poc
    BY <1>3, <1>4, <1>7, <1>9, Constructed
  <1>11. PICK p \in Picture : p = q[f] /\ LocalOK(p)
    BY <1>8, <1>10
  <1>12. Fresh(p) /\ p.content = i /\ p.content # 0 /\ p.progress = init
    BY <1>8, <1>9, <1>10, <1>11 DEF Fresh, SameBut, Fields
  <1>13. PICK z : z = IF parseFrameList' = parseFrameList THEN MarkThrown(p)
                      ELSE [p EXCEPT !.progress = parsing, !.slices = 1]
    OBVIOUS
  <1>14. DOMAIN parseFrameList = 1 .. L /\ L \in Nat /\ parseFrameList # Append(parseFrameList, f)
    <2>1. Len(parseFrameList) \in Nat /\ DOMAIN parseFrameList = 1 .. Len(parseFrameList)
          /\ Len(Append(parseFrameList, f)) = Len(parseFrameList) + 1
      BY <1>8, LenProperties, AppendProperties, Buffered
    <2> QED
      BY <1>5, <2>1
  <1>15. f \notin Listed /\ f \notin Working
    <2>1. pic[f].progress = init
      BY <1>8 DEF Fresh
    <2> QED
      BY <1>8, <2>1 DEF Inv, ParsedOK, WorkOK, init, parsing, parsed, reconstructing, reconstructed
  <1>16. \/ /\ pic' = [q EXCEPT ![f] = z] /\ z = MarkThrown(p) /\ main' = Idle
            /\ parseFrameList' = parseFrameList
         \/ /\ pic' = [q EXCEPT ![f] = z]
            /\ z = [p EXCEPT !.progress = parsing, !.slices = 1]
            /\ parseFrameList' = Append(parseFrameList, f)
            /\ \/ main' = Idle
               \/ main' = m /\ c.slices = 1
    <2>1. CASE /\ pic' = [q EXCEPT ![f] = MarkThrown(@)] /\ main' = Idle
               /\ parseFrameList' = parseFrameList
      BY <1>8, <1>10, <1>11, <1>13, <2>1
    <2>2. CASE /\ pic' = [q EXCEPT ![f].progress = parsing, ![f].slices = 1]
               /\ parseFrameList' = Append(parseFrameList, f)
               /\ \/ main' = Idle
                  \/ main' = m /\ c.slices = 1
      <3>1. z = [p EXCEPT !.progress = parsing, !.slices = 1]
        BY <1>13, <1>14, <2>2
      <3>2. pic' = [q EXCEPT ![f] = z]
        BY <1>8, <1>10, <1>11, <2>2, <3>1
      <3> QED
        BY <2>2, <3>1, <3>2
    <2> QED
      BY <1>7, <2>1, <2>2
  <1>17. /\ z \in Picture /\ LocalOK(z) /\ z.progress \in {init, parsing}
         /\ SameBut(p, z, {"error", "exceptionThrownOut", "parseDone", "progress", "slices"})
         /\ parseFrameList' = parseFrameList => z.progress = init
         /\ parseFrameList' # parseFrameList => z.progress = parsing /\ ~z.exceptionThrownOut
    <2>1. CASE z = MarkThrown(p) /\ parseFrameList' = parseFrameList
      <3>1. /\ z \in Picture /\ LocalOK(z)
            /\ SameBut(p, z, {"error", "exceptionThrownOut", "parseDone"})
        BY <1>11, <1>12, <2>1, MarkThrownLocal
      <3> QED
        BY <1>12, <2>1, <3>1 DEF SameBut, Fields
    <2>2. CASE /\ z = [p EXCEPT !.progress = parsing, !.slices = 1]
               /\ parseFrameList' = Append(parseFrameList, f)
      <3>1. /\ z \in Picture /\ LocalOK(z) /\ SameBut(p, z, {"progress", "slices"})
            /\ z.progress = parsing
        <4>1. parsing \in init .. finished /\ p \in Picture
          BY States
        <4>2. /\ z \in Picture /\ SameBut(p, z, {"progress", "slices"})
              /\ z.progress = parsing
          BY <2>2, <4>1 DEF Picture, SameBut, Fields
        <4>3. LocalOK(p) /\ Fresh(p) /\ p.content # 0
          BY <1>11, <1>12
        <4> QED
          BY <4>2, <4>3, FirstSliceLocal
      <3>2. ~z.exceptionThrownOut
        BY <1>12, <3>1 DEF Fresh, SameBut, Fields
      <3> QED
        BY <1>14, <2>2, <3>1, <3>2 DEF SameBut
    <2> QED
      BY <1>16, <2>1, <2>2
  <1>18. /\ pic' \in Seq(Picture) /\ DOMAIN pic' = Buffers /\ Buffers' = Buffers
         /\ pic'[f] = z /\ \A b \in Buffers : b # f => pic'[b] = q[b]
    <2>1. pic' = [q EXCEPT ![f] = z]
      BY <1>16
    <2> QED
      BY <1>8, <1>10, <1>17, <2>1 DEF Buffers
  <1>19. \A b \in Buffers : b # f =>
           /\ pic'[b].content = pic[b].content /\ pic'[b].poc = pic[b].poc
           /\ pic'[b].refs = pic[b].refs /\ pic'[b].progress = pic[b].progress
           /\ pic[b].stillReferenced => pic'[b].stillReferenced
           /\ pic'[b].recon = pic[b].recon /\ pic'[b].reconDone = pic[b].reconDone
           /\ pic'[b].lockedByApplication = pic[b].lockedByApplication
    BY <1>10, <1>18 DEF SameBut, Fields
  <1>20. /\ pic'[f].content = i /\ pic'[f].poc = pic[f].poc /\ pic'[f].refs = ActiveRefs(c)
         /\ pic'[f].progress \in {init, parsing}
         /\ pic[f].stillReferenced => pic'[f].stillReferenced
         /\ pic'[f].recon = pic[f].recon
         /\ pic'[f].lockedByApplication = pic[f].lockedByApplication
    BY <1>8, <1>10, <1>11, <1>12, <1>17, <1>18 DEF SameBut, Fields
  <1>21. /\ \/ parseFrameList' = parseFrameList /\ main' = Idle /\ pic'[f].progress = init
            \/ /\ parseFrameList' = Append(parseFrameList, f) /\ pic'[f].progress = parsing
               /\ ~pic'[f].exceptionThrownOut
               /\ main' = Idle \/ (main' = m /\ c.slices = 1)
    BY <1>14, <1>16, <1>17, <1>18
  <1>22. /\ main' \in MainState /\ main'.pc \in {"idle", "take"} /\ main'.call = "decode"
         /\ main'.cur = 0 /\ main'.done = 0 /\ main'.out = 0
         /\ main'.pc = "take" => c.slices = 1 /\ parseFrameList' = Append(parseFrameList, f)
    <2>1. Idle.pc # "take"
      BY MainStates
    <2>2. /\ m \in MainState /\ m.pc = "take" /\ m.call = "decode"
          /\ m.cur = 0 /\ m.done = 0 /\ m.out = 0
      BY <1>6, Calls
    <2> QED
      BY <1>21, <2>1, <2>2, MainStates
  <1>23. /\ nal' \in (Nat \ {0}) \X (Nat \ {0})
         /\ nal'[2] > 1 => nal'[1] = i /\ i \in DOMAIN stream' /\ nal'[2] <= Arriving(i)
         /\ main'.pc # "idle" => nal'[2] = 1
    <2>1. /\ nal' \in (Nat \ {0}) \X (Nat \ {0})
          /\ nal'[2] > 1 => nal'[1] = nal[1] /\ nal'[2] = nal[2] + 1 /\ nal'[2] <= Arriving(nal[1])
          /\ nal[2] = LastSlice(nal[1]) => nal'[2] = 1
      BY <1>1, <1>7, <1>8, NextSlice
    <2>2. main'.pc # "idle" => LastSlice(i) = 1
      BY <1>2, <1>22 DEF LastSlice
    <2> QED
      BY <1>1, <1>7, <1>8, <2>1, <2>2
  <1>24. \/ parseFrameList' = parseFrameList /\ Listed' = Listed
         \/ /\ parseFrameList' \in Seq(Nat) /\ IsInjective(parseFrameList)'
            /\ Listed' = Listed \cup {f} /\ DOMAIN parseFrameList' = 1 .. L + 1
            /\ Len(parseFrameList') = L + 1 /\ parseFrameList'[L + 1] = f
            /\ \A k \in 1 .. L : parseFrameList'[k] = parseFrameList[k]
            /\ parseFrameList' = Append(parseFrameList, f)
    <2>1. f \in Nat /\ f \notin ToSet(parseFrameList)
      BY <1>8, <1>15, Buffered DEF Listed
    <2>2. CASE parseFrameList' = parseFrameList
      BY <2>2 DEF Listed
    <2>3. CASE parseFrameList' = Append(parseFrameList, f)
      <3>1. PICK t : t = parseFrameList'
        OBVIOUS
      <3>2. /\ t \in Seq(Nat) /\ IsInjective(t) /\ ToSet(t) = ToSet(parseFrameList) \cup {f}
            /\ DOMAIN t = 1 .. Len(parseFrameList) + 1 /\ Len(t) = Len(parseFrameList) + 1
            /\ t[Len(parseFrameList) + 1] = f
            /\ \A k \in 1 .. Len(parseFrameList) : t[k] = parseFrameList[k]
        <4>1. t = Append(parseFrameList, f) /\ parseFrameList \in Seq(Nat)
              /\ IsInjective(parseFrameList)
          BY <1>8, <2>3, <3>1
        <4> QED
          <5>1. PICK s \in Seq(Nat) : s = parseFrameList /\ IsInjective(s)
            BY <4>1
          <5>2. f \in Nat /\ f \notin ToSet(s) /\ t = Append(s, f)
            BY <2>1, <4>1, <5>1
          <5>3. t \in Seq(Nat) /\ IsInjective(t) /\ ToSet(t) = ToSet(s) \cup {f}
            BY <5>1, <5>2, Appended, ZenonT(30)
          <5>4. /\ Len(t) = Len(s) + 1 /\ t[Len(s) + 1] = f
                /\ \A k \in 1 .. Len(s) : t[k] = s[k]
            BY <5>2, AppendProperties
          <5>5. DOMAIN t = 1 .. Len(s) + 1
            BY <5>3, <5>4, LenProperties
          <5> QED
            BY <5>1, <5>3, <5>4, <5>5
      <3>3. IsInjective(parseFrameList)' /\ Listed' = Listed \cup {f}
        BY <3>1, <3>2 DEF Listed, IsInjective, ToSet
      <3> QED
        BY <1>5, <2>3, <3>1, <3>2, <3>3
    <2> QED
      BY <1>21, <2>2, <2>3
  <1>25. /\ Current = {} /\ Current' = {} /\ Done = {} /\ Done' = {} /\ Working' = Working
         /\ Listed' \in {Listed, Listed \cup {f}}
    BY <1>7, <1>22, <1>24 DEF Current, Done, Working
  <1>26. Types'
    <2>1. \A b \in Buffers' : pic'[b].content \in {0} \cup DOMAIN stream'
      <3>1. \A b \in Buffers : pic[b].content \in {0} \cup DOMAIN stream
        BY <1>8 DEF Types
      <3>2. stream' = stream
        BY <1>7
      <3> QED
        BY <1>8, <1>18, <1>19, <1>20, <3>1, <3>2
    <2>2. /\ parseFrameList' \in Seq(Nat) /\ IsInjective(parseFrameList)' /\ Listed' \subseteq Buffers'
      <3>1. Listed \subseteq Buffers
        BY <1>8, Held
      <3> QED
        BY <1>8, <1>18, <1>24, <3>1 DEF IsInjective
    <2>3. /\ stream' \in Streams /\ list' \in Seq(Nat) /\ IsInjective(list)'
          /\ ToSet(list)' = Buffers' /\ dpb' \subseteq Buffers' /\ parsePic' \in Buffers' \cup {0}
          /\ started' \in BOOLEAN /\ recon' \in [1 .. NumRecon -> Buffers' \cup {0}]
          /\ tuneInDelay' \in 0 .. NumReorderPics + ParallelDecInst + 2
          /\ firstOutputPic' \in BOOLEAN
      BY <1>7, <1>8, <1>18 DEF Types
    <2>4. nal'[2] > 1 => nal'[1] \in DOMAIN stream' /\ nal'[2] <= Arriving(nal[1])'
      BY <1>7, <1>23 DEF Arriving
    <2>5. {main'.cur, main'.done, main'.out} \subseteq Buffers' \cup {0}
      BY <1>22
    <2> QED
      BY <1>18, <1>22, <1>23, <2>1, <2>2, <2>3, <2>4, <2>5 DEF Types
  <1>27. PicturesOK'
    <2>1. \A b \in DOMAIN pic' : LocalOK(pic'[b])
      BY <1>10, <1>17, <1>18
    <2> QED
      BY <1>7, <2>1, LocalKept
  <1>28. MainOK'
    BY <1>22, <1>23 DEF MainOK
  <1>29. ParsedOK'
    <2>1. \A b \in Buffers : pic[b].progress \in {parsing, parsed} <=> b \in Listed
      BY <1>25 DEF Inv, ParsedOK
    <2>2. pic'[f].progress \in {parsing, parsed} <=> f \in Listed'
      BY <1>15, <1>14, <1>21, <1>24 DEF init, parsing, parsed
    <2>3. \A b \in Buffers : b # f => (b \in Listed' <=> b \in Listed)
      BY <1>25
    <2> QED
      BY <1>18, <1>19, <1>25, <2>1, <2>2, <2>3 DEF ParsedOK
  <1>30. WorkOK'
    <2>1. \A b \in Working : b # f /\ b \in Buffers
      BY <1>8, <1>15, Held
    <2>2. \A b \in Working' : pic'[b].content # 0 /\ pic'[b].progress \in {reconstructing, reconstructed}
      BY <1>19, <1>25, <2>1 DEF Inv, WorkOK
    <2>3. \A j, k \in 1 .. NumRecon : recon'[j] = recon'[k] /\ recon'[j] # 0 => j = k
      BY <1>7 DEF Inv, WorkOK
    <2> QED
      BY <1>22, <1>25, <2>2, <2>3 DEF WorkOK
  <1>31. StuckOK'
    <2>1. pic'[f].progress # reconstructing
      BY <1>20 DEF init, parsing, reconstructing
    <2> QED
      BY <1>7, <1>18, <1>19, <2>1 DEF Inv, StuckOK
  <1>32. HeadOK'
    <2>1. ASSUME nal'[2] > 1
          PROVE  /\ parsePic' # 0 /\ pic'[parsePic'].content = nal'[1]
                 /\ pic'[parsePic'].progress \in {init, parsing, parsed}
                 /\ pic'[parsePic'].exceptionThrownOut => pic'[parsePic'].progress = init
      <3>1. parsePic' = f /\ f # 0 /\ nal'[1] = i
        BY <1>4, <1>7, <1>8, <1>23, <2>1, Buffered
      <3> QED
        BY <1>20, <1>21, <3>1
    <2> QED
      BY <1>22, <2>1 DEF HeadOK
  <1>33. RetakeOK'
    <2>1. ASSUME main'.pc = "take"
          PROVE  parsePic' # 0 /\ parsePic' \in Listed' /\ ~pic'[parsePic'].exceptionThrownOut
      <3>1. parsePic' = f /\ f # 0
        BY <1>4, <1>7, <1>8, Buffered
      <3> QED
        BY <1>14, <1>21, <1>22, <1>24, <2>1, <3>1
    <2> QED
      BY <1>22, <2>1 DEF RetakeOK
  <1>34. \A b \in Buffers : b # f /\ InUse(b) =>
           \A r \in pic[b].refs :
             /\ r.buf \in Buffers /\ r.buf # f /\ pic[r.buf].stillReferenced
             /\ pic[r.buf].content = r.content /\ pic[r.buf].poc = r.poc
    BY <1>4, <1>7 DEF Inv, RefsHeld
  <1>35. RefsHeld'
    <2>1. ASSUME NEW b \in Buffers', InUse(b)', NEW r \in pic'[b].refs
          PROVE  /\ r.buf \in Buffers' /\ pic'[r.buf].stillReferenced
                 /\ pic'[r.buf].content = r.content /\ pic'[r.buf].poc = r.poc
      <3>1. CASE b = f
        <4>1. r \in ActiveRefs(c)
          BY <1>20, <2>1, <3>1
        <4>2. /\ r.buf \in Buffers /\ r.buf # f /\ q[r.buf].stillReferenced
              /\ r.content = pic[r.buf].content /\ r.poc = pic[r.buf].poc
          BY <1>10, <4>1
        <4> QED
          BY <1>18, <1>19, <4>2
      <3>2. CASE b # f
        <4>1. b \in Buffers /\ r \in pic[b].refs /\ InUse(b)
          BY <1>18, <1>19, <2>1, <3>2 DEF InUse
        <4> QED
          BY <1>18, <1>19, <1>34, <3>2, <4>1
      <3> QED
        BY <3>1, <3>2
    <2> QED
      BY <1>22, <2>1 DEF RefsHeld
  <1>36. RefsOrder'
    <2>1. \A j \in 1 .. L : /\ parseFrameList[j] \in Buffers /\ parseFrameList[j] # f
                            /\ InUse(parseFrameList[j])
                            /\ pic'[parseFrameList[j]].refs = pic[parseFrameList[j]].refs
      <3>1. \A j \in 1 .. L : /\ parseFrameList[j] \in Buffers /\ parseFrameList[j] # f
                              /\ parseFrameList[j] \in Listed
        BY <1>8, <1>14, <1>15, Held
      <3>2. \A b \in Listed : b \in Buffers => InUse(b)
        BY DEF Inv, ParsedOK, InUse, parsing, parsed, reconstructed
      <3> QED
        BY <1>19, <3>1, <3>2
    <2>2. \A j \in 1 .. L : \A r \in pic[parseFrameList[j]].refs :
            \A k \in j .. L : r.buf # parseFrameList[k]
      BY <1>5, <1>14 DEF Inv, RefsOrder
    <2>3. CASE parseFrameList' = parseFrameList
      BY <1>5, <1>14, <2>1, <2>2, <2>3 DEF RefsOrder
    <2>4. CASE /\ DOMAIN parseFrameList' = 1 .. L + 1
               /\ Len(parseFrameList') = L + 1 /\ parseFrameList'[L + 1] = f
               /\ \A k \in 1 .. L : parseFrameList'[k] = parseFrameList[k]
      <3>1. ASSUME NEW j \in 1 .. L + 1, NEW r \in pic'[parseFrameList'[j]].refs,
                   NEW k \in j .. L + 1
            PROVE  r.buf # parseFrameList'[k]
        <4>1. CASE j = L + 1
          <5>1. r \in ActiveRefs(c) /\ k = L + 1
            BY <1>14, <1>20, <2>4, <3>1, <4>1
          <5> QED
            BY <1>10, <2>4, <5>1
        <4>2. CASE j # L + 1
          <5>1. j \in 1 .. L /\ r \in pic[parseFrameList[j]].refs
            BY <1>14, <2>1, <2>4, <3>1, <4>2
          <5>2. r.buf # f
            BY <1>34, <2>1, <5>1
          <5>3. k = L + 1 \/ k \in j .. L
            BY <1>14, <3>1
          <5>4. CASE k = L + 1
            BY <2>4, <5>2, <5>4
          <5>5. CASE k \in j .. L
            <6>1. k \in 1 .. L
              BY <1>14, <5>1, <5>5
            <6> QED
              BY <2>2, <2>4, <5>1, <5>5, <6>1
          <5> QED
            BY <5>3, <5>4, <5>5
        <4> QED
          BY <4>1, <4>2
      <3> QED
        BY <2>4, <3>1 DEF RefsOrder
    <2> QED
      BY <1>24, <2>3, <2>4
  <1>37. RefsTaken'
    BY <1>22 DEF RefsTaken
  <1>38. RefsReady'
    <2>1. ASSUME NEW b \in Buffers', pic'[b].recon \in {"tasks", "ctus"}, NEW r \in pic'[b].refs
          PROVE  pic'[r.buf].progress >= reconstructed
      <3>1. b \in Buffers /\ pic[b].recon \in {"tasks", "ctus"}
        BY <1>8, <1>18, <1>19, <1>20, <2>1
      <3>2. pic[b].progress = reconstructing
        BY <1>8, <3>1 DEF PicturesOK, LocalOK
      <3>3. b # f /\ InUse(b)
        BY <1>8, <3>2 DEF Fresh, InUse, init, reconstructing, reconstructed
      <3>4. r \in pic[b].refs
        BY <1>19, <2>1, <3>1, <3>3
      <3>5. r.buf \in Buffers /\ r.buf # f
        BY <1>34, <3>1, <3>3, <3>4
      <3>6. pic[r.buf].progress >= reconstructed
        BY <3>1, <3>4 DEF Inv, RefsReady, RefsReconstructed
      <3> QED
        BY <1>19, <3>5, <3>6
    <2> QED
      BY <2>1 DEF RefsReady, RefsReconstructed
  <1>39. FramesIntact' /\ FramesOK'
    <2>1. \A b \in Buffers : /\ pic'[b].content = pic[b].content
                             /\ pic[b].lockedByApplication => pic'[b].lockedByApplication
                             /\ pic[b].progress = finished => pic'[b].progress = finished
      <3>1. pic[f].progress # finished
        BY <1>8 DEF Fresh, init, finished
      <3> QED
        BY <1>8, <1>19, <1>20, <3>1
    <2> QED
      BY <1>7, <1>18, <1>22, <2>1, FramesKept
  <1> QED
    BY <1>26, <1>27, <1>28, <1>29, <1>30, <1>31, <1>32, <1>33, <1>35, <1>36, <1>37, <1>38, <1>39
       DEF Inv

-----------------------------------------------------------------------------
(***************************************************************************)
(* The invariant, and what it implies.                                     *)
(***************************************************************************)
LEMMA InitInv ==
  ASSUME Init
  PROVE  Inv
  <1>1. /\ stream \in Streams /\ nal = <<1, 1>> /\ dpb = {} /\ parsePic = 0
        /\ started = FALSE /\ tuneInDelay = 0 /\ firstOutputPic = TRUE /\ main = Idle
        /\ recon = [i \in 1 .. NumRecon |-> 0] /\ held = {}
    BY DEF Init
  <1>2. /\ pic \in Seq(Picture) /\ Buffers = {} /\ list \in Seq(Nat)
        /\ parseFrameList \in Seq(Nat) /\ DOMAIN list = {} /\ DOMAIN parseFrameList = {}
    BY DEF Init, Buffers
  <1>3. /\ IsInjective(list) /\ ToSet(list) = {} /\ IsInjective(parseFrameList) /\ Listed = {}
    BY <1>2 DEF IsInjective, ToSet, Listed
  <1>4. /\ main \in MainState /\ main.pc = "idle" /\ main.call = "decode"
        /\ main.cur = 0 /\ main.done = 0 /\ main.out = 0
    BY <1>1, MainStates
  <1>5. nal \in (Nat \ {0}) \X (Nat \ {0}) /\ nal[2] = 1
    BY <1>1
  <1>6. 0 \in 0 .. NumReorderPics + ParallelDecInst + 2
    BY PicListAssumption
  <1>7. recon \in [1 .. NumRecon -> {0}] /\ Working = {} /\ Current = {} /\ Done = {}
    BY <1>1, <1>4 DEF Working, Current, Done
  <1>8. Types
    <2>1. recon \in [1 .. NumRecon -> Buffers \cup {0}]
      BY <1>2, <1>7
    <2>2. {main.cur, main.done, main.out} \subseteq Buffers \cup {0}
      BY <1>4
    <2>3. dpb \subseteq Buffers /\ parsePic \in Buffers \cup {0} /\ Listed \subseteq Buffers
          /\ ToSet(list) = Buffers
      BY <1>1, <1>2, <1>3
    <2>4. /\ ~(nal[2] > 1) /\ started \in BOOLEAN /\ firstOutputPic \in BOOLEAN
          /\ tuneInDelay \in 0 .. NumReorderPics + ParallelDecInst + 2
      <3>1. ~(nal[2] > 1)
        BY <1>5
      <3>2. started \in BOOLEAN /\ firstOutputPic \in BOOLEAN
        BY <1>1
      <3>3. tuneInDelay \in 0 .. NumReorderPics + ParallelDecInst + 2
        BY <1>1, <1>6
      <3> QED
        BY <3>1, <3>2, <3>3
    <2>5. \A b \in Buffers : pic[b].content \in {0} \cup DOMAIN stream
      BY <1>2
    <2> QED
      <3>1. /\ stream \in Streams /\ nal \in (Nat \ {0}) \X (Nat \ {0}) /\ main \in MainState
            /\ pic \in Seq(Picture) /\ list \in Seq(Nat) /\ parseFrameList \in Seq(Nat)
            /\ IsInjective(list) /\ IsInjective(parseFrameList)
        BY <1>1, <1>2, <1>3, <1>4, <1>5
      <3> QED
        BY <2>1, <2>2, <2>3, <2>4, <2>5, <3>1 DEF Types
  <1>9. MainOK /\ HeadOK /\ RetakeOK /\ RefsTaken
    BY <1>4, <1>5 DEF MainOK, HeadOK, RetakeOK, RefsTaken
  <1>10. PicturesOK /\ StuckOK /\ RefsHeld /\ RefsReady
    BY <1>2 DEF PicturesOK, StuckOK, RefsHeld, RefsReady
  <1>11. ParsedOK /\ RefsOrder
    BY <1>2, <1>3, <1>7 DEF ParsedOK, RefsOrder
  <1>12. WorkOK
    BY <1>4, <1>7 DEF WorkOK
  <1>13. FramesIntact /\ FramesOK
    BY <1>1, <1>4 DEF FramesIntact, FramesOK
  <1> QED
    BY <1>8, <1>9, <1>10, <1>11, <1>12, <1>13 DEF Inv

\* A step of the rest of the world.
LEMMA StutterKeeps ==
  ASSUME Inv, UNCHANGED vars
  PROVE  Inv'
  <1>1. UNCHANGED <<stream, nal, list, pic, dpb, parseFrameList, parsePic, started, recon,
                    tuneInDelay, firstOutputPic, main, held>>
    BY DEF vars
  <1>2. /\ Buffers' = Buffers /\ Listed' = Listed /\ Working' = Working
        /\ Current' = Current /\ Done' = Done
    BY <1>1 DEF Buffers, Listed, Working, Current, Done
  <1>3. Types'
    <2>1. Types /\ Arriving(nal[1])' = Arriving(nal[1])
      BY <1>1 DEF Inv, Arriving
    <2> QED
      BY <1>1, <1>2, <2>1 DEF Types
  <1>4. MainOK' /\ HeadOK' /\ RetakeOK'
    BY <1>1, <1>2 DEF Inv, MainOK, HeadOK, Fresh, RetakeOK
  <1>5. PicturesOK'
    BY <1>1, <1>2, LocalKept DEF Inv, PicturesOK, LocalOK, Buffers
  <1>6. ParsedOK' /\ WorkOK' /\ StuckOK'
    BY <1>1, <1>2 DEF Inv, ParsedOK, WorkOK, StuckOK
  <1>7. RefsHeld' /\ RefsOrder' /\ RefsTaken'
    BY <1>1, <1>2 DEF Inv, RefsHeld, InUse, RefsOrder, RefsTaken
  <1>8. RefsReady' /\ FramesIntact' /\ FramesOK'
    BY <1>1, <1>2 DEF Inv, RefsReady, RefsReconstructed, FramesIntact, FramesOK
  <1> QED
    BY <1>3, <1>4, <1>5, <1>6, <1>7, <1>8 DEF Inv

\* Every step keeps the invariant: one case for each action.
LEMMA NextKeeps ==
  ASSUME Inv, [Next]_vars
  PROVE  Inv'
  <1>1. CASE Decode
    BY <1>1, DecodeKeeps
  <1>2. CASE FlushPic
    BY <1>2, FlushPicKeeps
  <1>3. CASE PrepareUnavailablePicture
    BY <1>3, PrepareKeeps
  <1>4. CASE ActivatePicture
    BY <1>4, ActivateKeeps
  <1>5. CASE DecodeFirstSlice
    BY <1>5, DecodeFirstSliceKeeps
  <1>6. CASE TakePicture
    BY <1>6, TakePictureKeeps
  <1>7. CASE TakeNothing
    BY <1>7, TakeNothingKeeps
  <1>8. CASE HandleErrorPicture
    BY <1>8, HandleErrorKeeps
  <1>9. CASE RotateRecon
    BY <1>9, RotateReconKeeps
  <1>10. CASE WaitForPrevDecompressedPic
    BY <1>10, WaitKeeps
  <1>11. CASE DecompressPicture
    BY <1>11, DecompressKeeps
  <1>12. CASE StartTasks
    BY <1>12, StartTasksKeeps
  <1>13. CASE FinishPrev
    BY <1>13, FinishPrevKeeps
  <1>14. CASE DecodeOutput
    BY <1>14, DecodeOutputKeeps
  <1>15. CASE Flushed
    BY <1>15, FlushedKeeps
  <1>16. CASE Drain
    BY <1>16, DrainKeeps
  <1>17. CASE FlushLast
    BY <1>17, FlushLastKeeps
  <1>18. CASE SomeTask
    <2>1. PICK b \in Buffers : Worker(b)
      BY <1>18 DEF SomeTask, Buffers
    <2> QED
      BY <2>1, TaskKeeps
  <1>19. CASE \E h \in held : Unref(h)
    BY <1>19, UnrefKeeps
  <1>20. CASE UNCHANGED vars
    BY <1>20, StutterKeeps
  <1>21. CASE Ended
    BY <1>21, StutterKeeps DEF Ended
  <1> QED
    BY <1>1, <1>2, <1>3, <1>4, <1>5, <1>6, <1>7, <1>8, <1>9, <1>10, <1>11, <1>12, <1>13,
       <1>14, <1>15, <1>16, <1>17, <1>18, <1>19, <1>20, <1>21
       DEF Next, MainStep

\* In every reachable state of the decoder's control the invariant is true:
\* for any streams, and any numbers of buffers and of instances.
THEOREM InvHolds == Spec => []Inv
  <1>1. Init => Inv
    BY InitInv
  <1>2. Inv /\ [Next]_vars => Inv'
    BY NextKeeps
  <1> QED
    BY <1>1, <1>2, PTL DEF Spec

\* It implies the types the runs check.
LEMMA InvTypes ==
  ASSUME Inv
  PROVE  TypeOK
  <1>1. Types
    BY DEF Inv
  <1>2. \A b \in Buffers :
          /\ pic[b].progress \in init .. finished
          /\ pic[b].recon \in {"none", "tasks", "ctus", "finish"}
          /\ pic[b].parse \in {"ok", "throwing", "failed"}
    <2>1. \A b \in Buffers : pic[b] \in Picture
      BY <1>1, Buffered
    <2> QED
      BY <2>1 DEF Picture
  <1> QED
    BY <1>1, <1>2 DEF Types, TypeOK, Listed

\* A buffer is once in m_cPicList, the parser's list has no picture twice, and
\* all the other lists, the instances and the main thread's variables hold
\* buffers.
THEOREM TypesHold == Spec => []TypeOK
  BY InvHolds, InvTypes, PTL

\* It implies that references are intact.
LEMMA InvRefs ==
  ASSUME Inv
  PROVE  RefsIntact
  <1>1. SUFFICES ASSUME NEW b \in Buffers, pic[b].progress \in parsing .. reconstructing,
                        NEW r \in pic[b].refs
                 PROVE  pic[r.buf].content = r.content /\ pic[r.buf].poc = r.poc
    BY DEF RefsIntact
  <1>2. InUse(b)
    BY <1>1 DEF InUse, parsing, reconstructing, reconstructed
  <1> QED
    BY <1>2 DEF Inv, RefsHeld

\* No buffer is given to a new picture while a picture that refers to the old
\* one is still to be reconstructed, or is being reconstructed:
\* markUnusedPicturesReusable and getNewPicBuffer agree, whatever was lost,
\* has failed or was dropped from the DPB.
THEOREM RefsStayIntact == Spec => []RefsIntact
  BY InvHolds, InvRefs, PTL

\* The CTU tasks of a picture run only when all its references are
\* reconstructed, or were filled in because they had failed.
THEOREM RefsAreReady == Spec => []RefsReady
  <1>1. Inv => RefsReady
    BY DEF Inv
  <1> QED
    BY <1>1, InvHolds, PTL

\* A frame in the application's hands keeps its picture until it is given
\* back.
THEOREM FramesStayIntact == Spec => []FramesIntact
  <1>1. Inv => FramesIntact
    BY DEF Inv
  <1> QED
    BY <1>1, InvHolds, PTL

\* None of the fatal checks of decode and reconPicture fails: a picture's
\* exception is not thrown a second time, a picture with an error is not being
\* reconstructed, a picture is not in two instances, and decode finds another
\* picture when it gives one up.  A picture has one fault at most
\* (CodedPicture).
THEOREM NeverFatal == Spec => []NoFatalError
  <1>1. Inv => NoFatalError
    BY DEF Inv, MainOK, NoFatalError
  <1> QED
    BY <1>1, InvHolds, PTL

-----------------------------------------------------------------------------
(***************************************************************************)
(* The exception of a picture's tasks leaves the library once at most,     *)
(* whoever finds it: exceptionThrownOut says that it has, and a coded      *)
(* picture is in one buffer.                                               *)
(***************************************************************************)
\* The exception of a parse task stays on the picture's counter, so that each
\* slice that arrives later throws it again.  It does not with two slices.
TwoSlices == \A i \in DOMAIN stream : stream[i].fault = "parse" => stream[i].slices <= 2

\* Picture i of the stream has a buffer, or had one.
Begun(i, n, pc) == \/ i < n[1]
                   \/ i = n[1] /\ (n[2] > 1 \/ pc = "lists")

\* When its second slice arrives, the exception of the picture has not been
\* thrown, unless it was about its lists.
HeadOnce ==
  nal[2] = 2 /\ (started \/ stream[nal[1]].idr) /\ pic[parsePic].exceptionThrownOut =>
    pic[parsePic].progress = init

\* No picture was reported twice.  One that was, and is in a buffer still, says
\* so; and it is not in another buffer.
OnceOK ==
  /\ reported \in Seq(Nat) /\ IsInjective(reported)
  /\ \A i \in ToSet(reported) : Begun(i, nal, main.pc)
  /\ \A b \in Buffers : pic[b].content # 0 =>
       /\ Begun(pic[b].content, nal, main.pc)
       /\ \A c \in Buffers : pic[c].content = pic[b].content => c = b
       /\ pic[b].content \in ToSet(reported) => pic[b].exceptionThrownOut
  /\ HeadOnce

\* The buffers hold what they held, and no mark of an exception is lost.
SamePictures(p, q) ==
  /\ DOMAIN q = DOMAIN p
  /\ \A c \in DOMAIN p : /\ q[c].content = p[c].content
                         /\ p[c].exceptionThrownOut => q[c].exceptionThrownOut

\* A step that reports nothing keeps it.
LEMMA OnceKept ==
  ASSUME Inv, OnceOK, SamePictures(pic, pic'), reported' = reported,
         \A i \in Nat : Begun(i, nal, main.pc) => Begun(i, nal', main'.pc), HeadOnce'
  PROVE  OnceOK'
  <1>1. Buffers' = Buffers /\ DOMAIN pic = Buffers
    BY DEF SamePictures, Buffers
  <1>2. \A b \in Buffers : pic'[b].content = pic[b].content
                           /\ (pic[b].exceptionThrownOut => pic'[b].exceptionThrownOut)
    BY <1>1 DEF SamePictures
  <1>3. ToSet(reported) \subseteq Nat /\ \A b \in Buffers : pic[b].content \in Nat
    BY Buffered DEF Inv, OnceOK, ToSet
  <1> QED
    BY <1>1, <1>2, <1>3 DEF OnceOK

\* Another picture is reported.
LEMMA ReportedMore ==
  ASSUME NEW s \in Seq(Nat), IsInjective(s), NEW e \in Nat, e \notin ToSet(s)
  PROVE  /\ Append(s, e) \in Seq(Nat) /\ IsInjective(Append(s, e))
         /\ ToSet(Append(s, e)) = ToSet(s) \cup {e}
  <1>1. PICK t : t = Append(s, e)
    OBVIOUS
  <1>2. t \in Seq(Nat) /\ IsInjective(t) /\ ToSet(t) = ToSet(s) \cup {e}
    BY <1>1, Appended, ZenonT(30)
  <1> QED
    BY <1>1, <1>2

\* So does one that reports a picture whose exception was not thrown out.
LEMMA OnceReported ==
  ASSUME Inv, OnceOK, SamePictures(pic, pic'), NEW b \in Buffers, pic[b].content # 0,
         ~pic[b].exceptionThrownOut, pic'[b].exceptionThrownOut,
         reported' = Append(reported, pic[b].content),
         \A i \in Nat : Begun(i, nal, main.pc) => Begun(i, nal', main'.pc), HeadOnce'
  PROVE  OnceOK'
  <1>1. Buffers' = Buffers /\ DOMAIN pic = Buffers
    BY DEF SamePictures, Buffers
  <1>2. \A c \in Buffers : pic'[c].content = pic[c].content
                           /\ (pic[c].exceptionThrownOut => pic'[c].exceptionThrownOut)
    BY <1>1 DEF SamePictures
  <1>3. PICK i \in Nat : i = pic[b].content
    BY Buffered DEF Inv
  <1>4. i \notin ToSet(reported) /\ Begun(i, nal, main.pc)
    BY <1>3 DEF OnceOK
  <1>5. /\ reported' \in Seq(Nat) /\ IsInjective(reported')
        /\ ToSet(reported') = ToSet(reported) \cup {i}
    <2>1. reported \in Seq(Nat) /\ IsInjective(reported) /\ reported' = Append(reported, i)
      BY <1>3 DEF OnceOK
    <2> QED
      BY <1>4, <2>1, ReportedMore
  <1>6. \A c \in Buffers : pic'[c].content = i => c = b
    BY <1>2, <1>3 DEF OnceOK
  <1>9. ToSet(reported) \subseteq Nat /\ \A c \in Buffers : pic[c].content \in Nat
    BY Buffered DEF Inv, OnceOK, ToSet
  <1>7. \A c \in Buffers : pic'[c].content # 0 =>
          /\ Begun(pic'[c].content, nal', main'.pc)
          /\ \A d \in Buffers : pic'[d].content = pic'[c].content => d = c
          /\ pic'[c].content \in ToSet(reported') => pic'[c].exceptionThrownOut
    BY <1>2, <1>5, <1>6, <1>9 DEF OnceOK
  <1>8. \A j \in ToSet(reported') : Begun(j, nal', main'.pc)
    BY <1>3, <1>4, <1>5, <1>9 DEF OnceOK
  <1> QED
    BY <1>1, <1>5, <1>7, <1>8 DEF OnceOK

\* A new buffer is for a lost picture, or for the one whose first slice is
\* being parsed and which no buffer has yet.
LEMMA OnceBuffer ==
  ASSUME Inv, OnceOK, main.pc = "head", UNCHANGED <<nal, reported>>,
         NEW f, DOMAIN pic' = Buffers \cup {f},
         \A c \in Buffers : c # f =>
           /\ pic'[c].content = pic[c].content
           /\ pic'[c].exceptionThrownOut = pic[c].exceptionThrownOut,
         \/ pic'[f].content = 0
         \/ pic'[f].content = nal[1] /\ main'.pc = "lists"
  PROVE  OnceOK'
  <1>1. nal[2] = 1 /\ nal \in (Nat \ {0}) \X (Nat \ {0})
    BY DEF Inv, MainOK, Types
  <1>2. Buffers' = Buffers \cup {f}
    BY DEF Buffers
  <1>3. ~Begun(nal[1], nal, main.pc)
      /\ \A i \in Nat : Begun(i, nal, main.pc) => Begun(i, nal', main'.pc)
    BY <1>1 DEF Begun
  <1>4. nal[1] \notin ToSet(reported)
        /\ \A c \in Buffers : pic[c].content # 0 => pic[c].content # nal[1]
    BY <1>3 DEF OnceOK
  <1>5. pic'[f].content = nal[1] => Begun(nal[1], nal', main'.pc)
    BY <1>1 DEF Begun
  <1>8. ToSet(reported) \subseteq Nat /\ \A c \in Buffers : pic[c].content \in Nat
    BY Buffered DEF Inv, OnceOK, ToSet
  <1>6. \A c \in Buffers' : pic'[c].content # 0 =>
          /\ Begun(pic'[c].content, nal', main'.pc)
          /\ \A d \in Buffers' : pic'[d].content = pic'[c].content => d = c
          /\ pic'[c].content \in ToSet(reported) => pic'[c].exceptionThrownOut
    <2> TAKE c \in Buffers'
    <2> HAVE pic'[c].content # 0
    <2>1. CASE c = f
      BY <1>2, <1>4, <1>5, <2>1
    <2>2. CASE c # f
      <3>1. c \in Buffers /\ pic'[c].content = pic[c].content
            /\ pic'[c].exceptionThrownOut = pic[c].exceptionThrownOut
        BY <1>2, <2>2
      <3>2. pic[c].content \in Nat /\ pic[c].content \notin {0, nal[1]}
        BY <1>4, <1>8, <3>1
      <3>3. /\ Begun(pic[c].content, nal', main'.pc)
            /\ pic[c].content \in ToSet(reported) => pic[c].exceptionThrownOut
            /\ \A d \in Buffers : pic[d].content = pic[c].content => d = c
        BY <1>3, <3>1, <3>2 DEF OnceOK
      <3>4. \A d \in Buffers' : pic'[d].content = pic'[c].content => d = c
        BY <1>2, <3>1, <3>2, <3>3
      <3> QED
        BY <3>1, <3>3, <3>4
    <2> QED
      BY <2>1, <2>2
  <1>7. HeadOnce'
    BY <1>1 DEF HeadOnce
  <1> QED
    BY <1>3, <1>6, <1>7, <1>8 DEF OnceOK

\* When the next slice comes, the picture of this one has begun.
LEMMA NextBegun ==
  ASSUME Types, nal' = NextNal
  PROVE  Begun(nal[1], nal', main'.pc)
      /\ \A i \in Nat : Begun(i, nal, main.pc) => Begun(i, nal', main'.pc)
  <1>1. PICK n, k : n \in Nat \ {0} /\ k \in Nat \ {0} /\ nal = <<n, k>>
    BY DEF Types
  <1>2. nal[1] = n /\ nal[2] = k
    BY <1>1
  <1>3. CASE nal' = <<n, k + 1>>
    <2>1. nal'[1] = n /\ nal'[2] = k + 1 /\ k + 1 > 1
      BY <1>1, <1>3
    <2> QED
      BY <1>2, <2>1 DEF Begun
  <1>4. CASE nal' = <<n + 1, 1>>
    <2>1. nal'[1] = n + 1 /\ n < n + 1 /\ \A i \in Nat : i < n => i < n + 1
      BY <1>1, <1>4
    <2> QED
      BY <1>2, <2>1 DEF Begun
  <1> QED
    BY <1>2, <1>3, <1>4 DEF NextNal

\* Most steps come between two slices, and only move pictures on.
LEMMA OnceQuiet ==
  ASSUME Inv, OnceOK, SamePictures(pic, pic'), UNCHANGED <<nal, reported>>, nal[2] = 1,
         main.pc # "lists"
  PROVE  OnceOK'
  <1>1. \A i \in Nat : Begun(i, nal, main.pc) => Begun(i, nal', main'.pc)
    BY DEF Begun
  <1>2. HeadOnce'
    BY DEF HeadOnce
  <1> QED
    BY <1>1, <1>2, OnceKept

\* A step that takes a picture p to q and leaves the others alone.
LEMMA OneSame ==
  ASSUME NEW b, NEW q, pic' = [pic EXCEPT ![b] = q],
         b \in Buffers => q.content = pic[b].content
                          /\ (pic[b].exceptionThrownOut => q.exceptionThrownOut)
  PROVE  SamePictures(pic, pic')
  BY DEF SamePictures, Buffers

\* The tasks do not look at it.
LEMMA TaskOnce ==
  ASSUME Inv, OnceOK, NEW b \in Buffers, Worker(b)
  PROVE  OnceOK'
  <1>1. PICK q : WorkerMove(pic[b], q) /\ Task(b, q)
    BY TaskMoves
  <1>2. /\ q.content = pic[b].content /\ q.exceptionThrownOut = pic[b].exceptionThrownOut
        /\ pic[b].progress # init
    BY <1>1 DEF WorkerMove, SameBut, Fields
  <1>3. /\ pic' = [pic EXCEPT ![b] = q]
        /\ UNCHANGED <<stream, nal, parsePic, started, main, reported>>
    BY <1>1 DEF Task, parserVars, appVars
  <1>4. SamePictures(pic, pic')
    BY <1>2, <1>3, OneSame
  <1>5. HeadOnce'
    <2>1. \/ parsePic = b /\ pic'[parsePic] = q
          \/ pic'[parsePic] = pic[parsePic]
      BY <1>3 DEF Buffers
    <2> QED
      BY <1>2, <1>3, <2>1 DEF OnceOK, HeadOnce
  <1>6. \A i \in Nat : Begun(i, nal, main.pc) => Begun(i, nal', main'.pc)
    BY <1>3
  <1> QED
    BY <1>3, <1>4, <1>5, <1>6, OnceKept

\* Nor does the application when it gives a frame back.
LEMMA UnrefOnce ==
  ASSUME Inv, OnceOK, NEW h \in held, Unref(h)
  PROVE  OnceOK'
  <1>1. /\ h.buf \in Buffers
        /\ pic' = [pic EXCEPT ![h.buf] = Release(pic[h.buf])]
        /\ UNCHANGED <<stream, nal, parsePic, started, main, reported>>
    BY DEF Unref, parserVars, Inv, FramesOK, Buffers
  <1>2. /\ Release(pic[h.buf]).content = pic[h.buf].content
        /\ Release(pic[h.buf]).exceptionThrownOut = pic[h.buf].exceptionThrownOut
        /\ Release(pic[h.buf]).progress = pic[h.buf].progress
    <2>1. pic[h.buf] \in Picture
      BY <1>1, Buffered DEF Inv
    <2>2. SameBut(pic[h.buf], Release(pic[h.buf]), {"lockedByApplication"})
      BY <1>1, <2>1, ReleaseLocal DEF Inv, PicturesOK
    <2> QED
      BY <2>2 DEF SameBut, Fields
  <1>3. SamePictures(pic, pic')
    BY <1>1, <1>2, OneSame
  <1>4. HeadOnce'
    <2>1. \/ parsePic = h.buf /\ pic'[parsePic] = Release(pic[parsePic])
          \/ pic'[parsePic] = pic[parsePic]
      BY <1>1 DEF Buffers
    <2> QED
      BY <1>1, <1>2, <2>1 DEF OnceOK, HeadOnce
  <1>5. \A i \in Nat : Begun(i, nal, main.pc) => Begun(i, nal', main'.pc)
    BY <1>1
  <1> QED
    BY <1>1, <1>3, <1>4, <1>5, OnceKept

\* q holds what p does, and waits for output if p does.
Keeps(p, q) == q.content = p.content /\ q.neededForOutput = p.neededForOutput

\* The tasks of a picture are added: every buffer keeps what it holds.
LEMMA StartKeeps ==
  ASSUME Inv, StartTasks
  PROVE  /\ SamePictures(pic, pic')
         /\ \A c \in Buffers : Keeps(pic[c], pic'[c])
  <1> DEFINE Same(p, q) == /\ Keeps(p, q)
                           /\ p.exceptionThrownOut => q.exceptionThrownOut
  <1>1. DOMAIN pic' = DOMAIN pic
    BY DEF StartTasks
  <1>2. ASSUME NEW c \in Buffers
        PROVE  Same(pic[c], pic'[c])
    <2>1. pic[c] \in Picture /\ c \in DOMAIN pic
      BY Buffered DEF Inv, Buffers
    <2>2. Same(pic[c], ExtendBorder(pic[c]))
      BY <2>1 DEF ExtendBorder, Keeps, Picture
    <2>3. CASE c = main.cur
      BY <2>1, <2>3 DEF StartTasks, Keeps, Picture
    <2>4. CASE c # main.cur
      <3>1. pic'[c] \in {pic[c], ExtendBorder(pic[c])}
        BY <2>1, <2>4 DEF StartTasks
      <3> QED
        BY <2>2, <3>1 DEF Keeps
    <2> QED
      BY <2>3, <2>4
  <1> QED
    BY <1>1, <1>2 DEF SamePictures, Buffers, Keeps

\* The main thread's steps between two slices that do not throw, but for those
\* that finish a picture.
LEMMA QuietOnce ==
  ASSUME Inv, OnceOK,
         \/ TakePicture \/ TakeNothing \/ RotateRecon \/ WaitForPrevDecompressedPic
         \/ DecompressPicture \/ StartTasks \/ DecodeOutput \/ FlushPic \/ Flushed \/ FlushLast
  PROVE  OnceOK'
  <1>1. UNCHANGED <<nal, reported>> /\ main.pc # "lists"
    BY DEF TakePicture, TakeNothing, RotateRecon, WaitForPrevDecompressedPic, DecompressPicture,
           StartTasks, DecodeOutput, FlushPic, Flushed, FlushLast, Return, parserVars, appVars
  <1>2. nal[2] = 1
    <2>1. CASE main.pc # "idle"
      BY <2>1 DEF Inv, MainOK
    <2>2. CASE main.pc = "idle"
      <3>1. EndOfStream
        BY <2>2
           DEF TakePicture, TakeNothing, RotateRecon, WaitForPrevDecompressedPic,
               DecompressPicture, StartTasks, DecodeOutput, FlushPic, Flushed, FlushLast
      <3>2. nal[1] \notin DOMAIN stream /\ nal[2] \in Nat \ {0}
        BY <3>1, Streaming DEF EndOfStream, Inv, Types
      <3> QED
        BY <3>2 DEF Inv, Types
    <2> QED
      BY <2>1, <2>2
  <1>3. \A b \in Buffers : pic[b] \in Picture /\ b \in DOMAIN pic
    BY Buffered DEF Inv, Buffers
  <1>4. SamePictures(pic, pic')
    <2>1. CASE TakePicture
      BY <1>3, <2>1 DEF TakePicture, SamePictures, Picture, Buffers
    <2>2. CASE TakeNothing \/ RotateRecon
      BY <2>2 DEF TakeNothing, RotateRecon, SamePictures
    <2>3. CASE WaitForPrevDecompressedPic
      BY <1>3, <2>3 DEF WaitForPrevDecompressedPic, AfterWait, SamePictures, Picture, Buffers
    <2>4. CASE DecompressPicture
      BY <1>3, <2>4 DEF DecompressPicture, SamePictures, Picture, Buffers
    <2>5. CASE StartTasks
      BY <2>5, StartKeeps
    <2>6. ASSUME NEW b, pic' = LockPic(b)
          PROVE  SamePictures(pic, pic')
      BY <1>3, <2>6 DEF LockPic, Lock, SamePictures, Picture, Buffers
    <2>7. CASE DecodeOutput \/ FlushPic
      BY <2>6, <2>7 DEF DecodeOutput, FlushPic
    <2>8. CASE Flushed
      BY <2>6, <2>8 DEF Flushed, SamePictures
    <2>9. CASE FlushLast
      BY <2>6, <2>9 DEF FlushLast, SamePictures
    <2> QED
      BY <2>1, <2>2, <2>3, <2>4, <2>5, <2>7, <2>8, <2>9
  <1> QED
    BY <1>1, <1>2, <1>4, OnceQuiet

\* finishPicture keeps what is in the buffers, and marks the exception it is to
\* throw.
LEMMA FinishedSame ==
  ASSUME NEW q \in Seq(Picture), NEW b \in DOMAIN q, NEW P, P = FinishPicture(b, q)
  PROVE  /\ SamePictures(q, P)
         /\ \A c \in DOMAIN P : P[c] \in Picture /\ Keeps(q[c], P[c])
         /\ Throws(q[b]) => P[b].exceptionThrownOut
  <1>1. \A c \in DOMAIN q : q[c] \in Picture
    BY ElementOfSeq, LenProperties
  <1>2. finished \in init .. finished /\ Unlocked \in Barrier
    BY States, Barriers
  <1>3. CASE HasError(q[b])
    <2>1. PICK p : p \in Picture /\ p = q[b]
      BY <1>1
    <2>2. PICK x : x = IF p.parseDone.exception \/ p.reconDone.exception
                       THEN [p EXCEPT !.progress = finished, !.reconDone = Unlocked,
                                      !.error = TRUE, !.exceptionThrownOut = TRUE]
                       ELSE [p EXCEPT !.progress = finished]
      OBVIOUS
    <2>3. P = [q EXCEPT ![b] = x]
      BY <1>3, <2>1, <2>2 DEF FinishPicture
    <2>4. /\ x \in Picture /\ Keeps(p, x)
          /\ p.exceptionThrownOut => x.exceptionThrownOut
          /\ Throws(p) => x.exceptionThrownOut
      BY <1>2, <2>1, <2>2 DEF Picture, Throws, Keeps
    <2> QED
      BY <1>1, <2>1, <2>3, <2>4 DEF SamePictures, Keeps
  <1>4. CASE ~HasError(q[b])
    <2>1. PICK M : M = MarkUnusedPicturesReusable(list, q)
      OBVIOUS
    <2>2. /\ DOMAIN M = DOMAIN q
          /\ \A c \in DOMAIN q : M[c] \in {q[c], [q[c] EXCEPT !.stillReferenced = FALSE]}
      BY <2>1 DEF MarkUnusedPicturesReusable
    <2>3. P = [M EXCEPT ![b].progress = finished]
      BY <1>4, <2>1 DEF FinishPicture
    <2>4. \A c \in DOMAIN q : /\ M[c] \in Picture /\ Keeps(q[c], M[c])
                              /\ M[c].exceptionThrownOut = q[c].exceptionThrownOut
      <3>1. ASSUME NEW p \in Picture, NEW x, x = [p EXCEPT !.stillReferenced = FALSE]
            PROVE  /\ x \in Picture /\ Keeps(p, x)
                   /\ x.exceptionThrownOut = p.exceptionThrownOut
        BY <3>1 DEF Picture, Keeps
      <3> QED
        BY <1>1, <2>2, <3>1 DEF Keeps
    <2>5. PICK p : p \in Picture /\ p = M[b]
      BY <2>4
    <2>6. PICK x : x = [p EXCEPT !.progress = finished]
      OBVIOUS
    <2>7. /\ x \in Picture /\ Keeps(p, x)
          /\ x.exceptionThrownOut = p.exceptionThrownOut
      BY <1>2, <2>5, <2>6 DEF Picture, Keeps
    <2>8. P = [M EXCEPT ![b] = x]
      BY <2>2, <2>3, <2>5, <2>6
    <2> QED
      BY <1>4, <2>2, <2>4, <2>5, <2>7, <2>8 DEF SamePictures, Throws, Keeps
  <1> QED
    BY <1>3, <1>4

\* A call that ends with an exception reports a picture that was not.
LEMMA ThrowOutOnce ==
  ASSUME Inv, OnceOK, NEW b \in Buffers, pic[b].content # 0, ~pic[b].exceptionThrownOut,
         NEW P, SamePictures(pic, P), \A c \in DOMAIN P : P[c] \in Picture,
         P[b].exceptionThrownOut, ThrowOut(b, P),
         nal' = nal, nal[2] = 1, main.pc # "lists"
  PROVE  OnceOK'
  <1>1. /\ pic' \in {P, [P EXCEPT ![main.out] = Release(P[main.out])]}
        /\ reported' = Append(reported, pic[b].content)
    BY DEF ThrowOut
  <1>2. \A p \in Picture : /\ Release(p).content = p.content
                           /\ Release(p).exceptionThrownOut = p.exceptionThrownOut
    BY DEF Release, Picture
  <1>3. /\ DOMAIN pic' = DOMAIN P
        /\ \A c \in DOMAIN P : /\ pic'[c].content = P[c].content
                               /\ pic'[c].exceptionThrownOut = P[c].exceptionThrownOut
    BY <1>1, <1>2
  <1>4. SamePictures(pic, pic') /\ pic'[b].exceptionThrownOut
    BY <1>3 DEF SamePictures, Buffers
  <1>5. HeadOnce'
    BY DEF HeadOnce
  <1>6. \A i \in Nat : Begun(i, nal, main.pc) => Begun(i, nal', main'.pc)
    BY DEF Begun
  <1> QED
    BY <1>1, <1>4, <1>5, <1>6, OnceReported

\* A step finishes picture b: P are the pictures then.  It throws an exception
\* that was not thrown before, or the main thread goes on.
Finishing(b, P) ==
  /\ b \in Buffers /\ pic[b].content # 0
  /\ SamePictures(pic, P) /\ \A c \in Buffers : P[c] \in Picture /\ Keeps(pic[c], P[c])
  /\ \/ ThrowOut(b, P) /\ P[b].exceptionThrownOut /\ ~pic[b].exceptionThrownOut
     \/ /\ pic' = P /\ UNCHANGED appVars
        /\ main'.out = main.out /\ main'.pc \in {"retake", "output", "flushed", "drain"}

\* reconPicture finishes the picture it waited for.
LEMMA FinishPrevFinishes ==
  ASSUME Inv, FinishPrev, main.done # 0
  PROVE  \E P : Finishing(main.done, P)
  <1>1. PICK b : b = main.done
    OBVIOUS
  <1>2. PICK P : P = FinishPicture(b, pic)
    OBVIOUS
  <1>3. PICK x \in {"output", "flushed"} :
          x = IF main.call = "decode" THEN "output" ELSE "flushed"
    OBVIOUS
  <1>4. /\ main.pc = "finish"
        /\ \/ Throws(pic[b]) /\ ThrowOut(b, P)
           \/ pic' = P /\ main' = [main EXCEPT !.pc = x] /\ UNCHANGED appVars
    BY <1>1, <1>2, <1>3 DEF FinishPrev, Goto
  <1>5. /\ main \in MainState /\ pic \in Seq(Picture) /\ b \in Buffers /\ DOMAIN pic = Buffers
        /\ pic[b].content # 0
    BY <1>1, <1>4, MainTypes DEF Inv, Types, Buffers, WorkOK, Done
  <1>6. /\ SamePictures(pic, P) /\ \A c \in Buffers : P[c] \in Picture /\ Keeps(pic[c], P[c])
        /\ Throws(pic[b]) => P[b].exceptionThrownOut
    BY <1>2, <1>5, FinishedSame DEF SamePictures
  <1>7. main' = [main EXCEPT !.pc = x] => main'.pc = x /\ main'.out = main.out
    BY <1>3, <1>5 DEF MainState
  <1> QED
    BY <1>1, <1>3, <1>4, <1>5, <1>6, <1>7 DEF Finishing, Throws

\* flushPic finishes the pictures that are in the instances still.
LEMMA DrainFinishes ==
  ASSUME Inv, Drain
  PROVE  \/ pic' = pic /\ main.out # 0 /\ Return(main.out)
         \/ /\ pic' = pic /\ UNCHANGED appVars /\ main.out = 0
            /\ main' = [main EXCEPT !.pc = "last"]
         \/ \E b, P : Finishing(b, P)
  <1>1. PICK i : i = SelectInSeq(recon, LAMBDA b : b # 0)
    OBVIOUS
  <1>2. PICK b : b = recon[i]
    OBVIOUS
  <1>3. PICK q : q = [pic EXCEPT ![b] = AfterWait(@)]
    OBVIOUS
  <1>4. PICK P : P = FinishPicture(b, q)
    OBVIOUS
  <1>5. /\ main.pc = "drain"
        /\ \/ pic' = pic /\ main.out # 0 /\ Return(main.out)
           \/ /\ pic' = pic /\ UNCHANGED appVars /\ main.out = 0
              /\ main' = [main EXCEPT !.pc = "last"]
           \/ /\ i # 0
              /\ \/ Throws(q[b]) /\ ThrowOut(b, P)
                 \/ pic' = P /\ UNCHANGED <<main, appVars>>
    BY <1>1, <1>2, <1>3, <1>4, Zenon DEF Drain, Goto
  <1>6. /\ Types /\ pic \in Seq(Picture) /\ DOMAIN pic = Buffers
        /\ recon \in [1 .. NumRecon -> Buffers \cup {0}]
    BY DEF Inv, Types, Buffers
  <1>7. CASE /\ i # 0
             /\ \/ Throws(q[b]) /\ ThrowOut(b, P)
                \/ pic' = P /\ UNCHANGED <<main, appVars>>
    <2>1. i \in 1 .. NumRecon /\ b # 0
      <3> DEFINE I == {j \in 1 .. Len(recon) : recon[j] # 0}
      <3>1. i = IF I # {} THEN Min(I) ELSE 0
        BY <1>1 DEF SelectInSeq
      <3>2. Len(recon) = NumRecon /\ recon \in Seq(Buffers \cup {0})
        BY <1>6, DecLibAssumption, SeqDef, LenProperties
      <3>3. I \in SUBSET Nat
        OBVIOUS
      <3>4. I # {} /\ i \in I
        BY <1>7, <3>1, <3>3, LeastMember
      <3> QED
        BY <1>2, <3>2, <3>4
    <2>2. b \in Buffers /\ pic[b].content # 0
      <3>1. b \in Buffers /\ b \in Working
        BY <1>2, <1>6, <2>1 DEF Working
      <3> QED
        BY <3>1 DEF Inv, WorkOK
    <2>3. PICK p \in Picture : p = pic[b]
      BY <1>6, <2>2, Buffered
    <2>4. PICK a : a = AfterWait(p)
      OBVIOUS
    <2>5. a \in Picture /\ Keeps(p, a) /\ a.exceptionThrownOut = p.exceptionThrownOut
      <3>1. p.reconDone.exception \in BOOLEAN
        BY DEF Picture, Barrier
      <3> QED
        BY <2>4, <3>1 DEF AfterWait, Picture, Keeps
    <2>6. q = [pic EXCEPT ![b] = a]
      BY <1>3, <1>6, <2>2, <2>3, <2>4
    <2>7. q \in Seq(Picture) /\ b \in DOMAIN q /\ q[b] = a
      BY <1>6, <2>2, <2>5, <2>6
    <2>8. SamePictures(pic, q) /\ \A c \in Buffers : Keeps(pic[c], q[c])
      BY <1>6, <2>3, <2>5, <2>6 DEF SamePictures, Keeps
    <2>9. /\ SamePictures(q, P) /\ \A c \in DOMAIN P : P[c] \in Picture /\ Keeps(q[c], P[c])
          /\ Throws(q[b]) => P[b].exceptionThrownOut
      BY <1>4, <2>7, FinishedSame
    <2>10. SamePictures(pic, P) /\ \A c \in Buffers : P[c] \in Picture /\ Keeps(pic[c], P[c])
      BY <1>6, <2>8, <2>9 DEF SamePictures, Keeps
    <2>11. Throws(q[b]) => ~pic[b].exceptionThrownOut
      BY <2>3, <2>5, <2>7 DEF Throws
    <2> QED
      BY <1>5, <1>7, <2>2, <2>9, <2>10, <2>11 DEF Finishing
  <1> QED
    BY <1>5, <1>7

\* decode gives a picture up, and throws its exception if that was not done.
LEMMA HandleErrorFinishes ==
  ASSUME Inv, HandleErrorPicture
  PROVE  \E b, P : Finishing(b, P)
  <1>1. PICK b : b = main.cur
    OBVIOUS
  <1>2. PICK h : h = main.hasException
    OBVIOUS
  <1>3. main.pc = "error"
    BY DEF HandleErrorPicture
  <1>4. /\ Types /\ PicturesOK /\ pic \in Seq(Picture) /\ DOMAIN pic = Buffers
        /\ main \in MainState /\ MainOK /\ RetakeOK
    BY <1>3, MainTypes DEF Inv, Types, Buffers
  <1>5. b \in Buffers /\ h \in BOOLEAN
    BY <1>1, <1>2, <1>3, <1>4, MainTypes DEF MainOK, MainState
  <1>6. PICK p \in Picture : p = pic[b] /\ LocalOK(p) /\ p.progress \in {parsing, parsed}
    <2>1. b \in Current
      BY <1>1, <1>3 DEF Current
    <2> QED
      BY <1>4, <1>5, <2>1, Buffered DEF Inv, ParsedOK, PicturesOK
  <1>7. PICK e : e = (p.error \/ h)
    OBVIOUS
  <1>8. PICK d : d = [p.parseDone EXCEPT !.exception = @ /\ ~h]
    OBVIOUS
  <1>9. PICK u : u = Unlocked
    OBVIOUS
  <1>10. PICK grey : grey = [p EXCEPT !.error = e, !.parseDone = d, !.progress = reconstructed,
                                      !.reconDone = u]
    OBVIOUS
  <1>11. PICK q : q = [pic EXCEPT ![b] = grey]
    OBVIOUS
  <1>12. PICK P : P = FinishPicture(b, q)
    OBVIOUS
  <1>13. PICK Q : Q = [P EXCEPT ![b].exceptionThrownOut = TRUE]
    OBVIOUS
  <1>14. ~(h /\ p.exceptionThrownOut)
    BY <1>1, <1>2, <1>3, <1>4, <1>6 DEF RetakeOK
  <1>15. \/ (h \/ Throws(grey)) /\ ThrowOut(b, Q)
         \/ pic' = P /\ UNCHANGED appVars /\ main' = [main EXCEPT !.pc = "retake"]
    <2>1. ~(p.progress < parsing) /\ ~(p.progress >= reconstructing)
      BY <1>6 DEF parsing, parsed, reconstructing
    <2>2. grey = [p EXCEPT !.error = @ \/ h, !.parseDone.exception = @ /\ ~h,
                           !.progress = reconstructed, !.reconDone = Unlocked]
      BY <1>7, <1>8, <1>9, <1>10
    <2> QED
      BY <1>1, <1>2, <1>6, <1>11, <1>12, <1>13, <1>14, <2>1, <2>2, Zenon
         DEF HandleErrorPicture, Goto
  <1>16. /\ grey \in Picture /\ Keeps(p, grey)
         /\ grey.exceptionThrownOut = p.exceptionThrownOut
    <2>1. p.parseDone \in Barrier /\ p.error \in BOOLEAN /\ reconstructed \in init .. finished
      BY States DEF Picture
    <2>2. e \in BOOLEAN /\ u \in Barrier
      BY <1>5, <1>7, <1>9, <2>1, Barriers
    <2>3. d \in Barrier
      BY <1>5, <1>8, <2>1 DEF Barrier
    <2> QED
      BY <1>10, <2>1, <2>2, <2>3 DEF Picture, Keeps
  <1>17. q \in Seq(Picture) /\ b \in DOMAIN q /\ q[b] = grey
    BY <1>4, <1>5, <1>11, <1>16
  <1>18. SamePictures(pic, q) /\ \A c \in Buffers : Keeps(pic[c], q[c])
    BY <1>4, <1>6, <1>11, <1>16 DEF SamePictures, Keeps
  <1>19. /\ SamePictures(pic, P) /\ DOMAIN P = Buffers
         /\ \A c \in Buffers : P[c] \in Picture /\ Keeps(pic[c], P[c])
    <2>1. SamePictures(q, P) /\ \A c \in DOMAIN P : P[c] \in Picture /\ Keeps(q[c], P[c])
      BY <1>12, <1>17, FinishedSame
    <2> QED
      BY <1>4, <1>18, <2>1 DEF SamePictures, Keeps
  <1>20. /\ SamePictures(pic, Q) /\ \A c \in Buffers : Q[c] \in Picture /\ Keeps(pic[c], Q[c])
         /\ Q[b].exceptionThrownOut
    <2>1. PICK x \in Picture : x = P[b]
      BY <1>5, <1>19
    <2>2. PICK y : y = [x EXCEPT !.exceptionThrownOut = TRUE]
      OBVIOUS
    <2>3. y \in Picture /\ y.exceptionThrownOut /\ Keeps(x, y)
      BY <2>2 DEF Picture, Keeps
    <2>4. Q = [P EXCEPT ![b] = y]
      BY <1>5, <1>13, <1>19, <2>1, <2>2
    <2> QED
      BY <1>4, <1>5, <1>19, <2>1, <2>3, <2>4 DEF SamePictures, Keeps
  <1>21. pic[b].content # 0
    BY <1>6 DEF LocalOK, parsing, parsed, reconstructed
  <1>22. (h \/ Throws(grey)) => ~pic[b].exceptionThrownOut
    BY <1>6, <1>14, <1>16 DEF Throws
  <1>23. main' = [main EXCEPT !.pc = "retake"] => main'.pc = "retake" /\ main'.out = main.out
    BY <1>4 DEF MainState
  <1> QED
    BY <1>5, <1>15, <1>19, <1>20, <1>21, <1>22, <1>23 DEF Finishing

\* The steps that finish a picture, or end the call.
LEMMA FinishOnce ==
  ASSUME Inv, OnceOK, FinishPrev \/ Drain \/ HandleErrorPicture
  PROVE  OnceOK'
  <1>1. nal' = nal /\ main.pc \in {"finish", "drain", "error"}
    BY DEF FinishPrev, Drain, HandleErrorPicture, parserVars
  <1>2. nal[2] = 1
    BY <1>1, MainTypes
  <1>3. CASE \E b, P : Finishing(b, P)
    <2>1. PICK b, P : Finishing(b, P)
      BY <1>3
    <2>2. CASE ThrowOut(b, P) /\ P[b].exceptionThrownOut /\ ~pic[b].exceptionThrownOut
      <3>1. /\ b \in Buffers /\ pic[b].content # 0 /\ SamePictures(pic, P)
            /\ \A c \in DOMAIN P : P[c] \in Picture
        BY <2>1 DEF Finishing, SamePictures, Buffers
      <3> QED
        BY <1>1, <1>2, <2>2, <3>1, ThrowOutOnce
    <2>3. CASE pic' = P /\ UNCHANGED appVars
      BY <1>1, <1>2, <2>1, <2>3, OnceQuiet DEF Finishing, appVars
    <2> QED
      BY <2>1, <2>2, <2>3 DEF Finishing
  <1>4. CASE pic' = pic /\ reported' = reported
    <2>1. SamePictures(pic, pic')
      BY <1>4 DEF SamePictures
    <2> QED
      BY <1>1, <1>2, <1>4, <2>1, OnceQuiet
  <1>5. \/ \E b, P : Finishing(b, P)
        \/ pic' = pic /\ reported' = reported
    <2>1. CASE FinishPrev /\ main.done = 0
      BY <2>1 DEF FinishPrev, appVars
    <2>2. CASE FinishPrev /\ main.done # 0
      BY <2>2, FinishPrevFinishes
    <2>3. CASE Drain
      BY <2>3, DrainFinishes DEF Return, appVars
    <2>4. CASE HandleErrorPicture
      BY <2>4, HandleErrorFinishes
    <2> QED
      BY <2>1, <2>2, <2>3, <2>4
  <1> QED
    BY <1>3, <1>4, <1>5

\* A lost picture gets a buffer, and only that buffer changes.
LostIn(f) ==
  /\ DOMAIN pic' = Buffers \cup {f} /\ (f \in Buffers => Reusable(pic[f]))
  /\ pic'[f].content = 0 /\ pic'[f].progress = reconstructed /\ ~pic'[f].neededForOutput
  /\ \A b \in Buffers : b # f => pic'[b] = pic[b]

LEMMA PrepareBuffer ==
  ASSUME Inv, PrepareUnavailablePicture
  PROVE  \E f : LostIn(f)
  <1>1. PICK n : n = GetNewPicBuffer(list, pic)
    OBVIOUS
  <1>2. PICK c : c = stream[nal[1]]
    OBVIOUS
  <1>3. PICK poc \in LostRefs(c) :
          pic' = [n.pic EXCEPT ![n.buf] =
                [@ EXCEPT !.poc = poc, !.nonRef = c.nonRef, !.wasLost = TRUE,
                          !.dpbReferenceMark = TRUE, !.stillReferenced = TRUE,
                          !.parseDone = Unlocked, !.reconDone = Unlocked,
                          !.progress = reconstructed]]
    BY <1>1, <1>2, Zenon DEF PrepareUnavailablePicture
  <1>4. /\ list \in Seq(Nat) /\ IsInjective(list) /\ ToSet(list) = DOMAIN pic
        /\ pic \in Seq(Picture) /\ DOMAIN pic = Buffers
        /\ \A b \in DOMAIN pic : LocalOK(pic[b])
    BY DEF Inv, Types, PicturesOK, Buffers
  <1>5. /\ n.pic \in Seq(Picture) /\ DOMAIN n.pic = Buffers \cup {n.buf}
        /\ n.buf \in Buffers => Reusable(pic[n.buf])
        /\ n.pic[n.buf] = NewPicture
        /\ \A b \in Buffers : b # n.buf => n.pic[b] = pic[b]
    BY <1>1, <1>4, NewBuffer
  <1>6. PICK x : x = [NewPicture EXCEPT
                        !.poc = poc, !.nonRef = c.nonRef, !.wasLost = TRUE,
                        !.dpbReferenceMark = TRUE, !.stillReferenced = TRUE,
                        !.parseDone = Unlocked, !.reconDone = Unlocked,
                        !.progress = reconstructed]
    OBVIOUS
  <1>7. pic' = [n.pic EXCEPT ![n.buf] = x]
    BY <1>3, <1>5, <1>6
  <1>8. x.content = 0 /\ x.progress = reconstructed /\ ~x.neededForOutput
    BY <1>6 DEF NewPicture
  <1> QED
    BY <1>5, <1>7, <1>8 DEF LostIn

\* So does the picture that arrives.  The marking of others changes.
ArrivesIn(f, q) ==
  /\ DOMAIN pic' = Buffers \cup {f} /\ parsePic' = f /\ (f \in Buffers => Reusable(q[f]))
  /\ pic'[f].content = nal[1] /\ pic'[f].progress = init /\ pic'[f].recon = "none"
  /\ pic'[f].parsedSlices = 0 /\ pic'[f].neededForOutput = stream[nal[1]].out
  /\ \A b \in Buffers : SameBut(pic[b], q[b], {"dpbReferenceMark"})
  /\ \A b \in Buffers : b # f => pic'[b] = q[b]

LEMMA ActivateBuffer ==
  ASSUME Inv, ActivatePicture
  PROVE  \E f, q : ArrivesIn(f, q)
  <1>1. PICK i : i = nal[1]
    OBVIOUS
  <1>2. PICK c : c = stream[i]
    OBVIOUS
  <1>3. PICK q : q = ApplyMarking(c)
    OBVIOUS
  <1>4. PICK n : n = GetNewPicBuffer(list, q)
    OBVIOUS
  <1>5. /\ parsePic' = n.buf
        /\ pic' = [n.pic EXCEPT ![n.buf] =
                  [@ EXCEPT !.content = i, !.poc = c.poc, !.idr = c.idr,
                            !.nonRef = c.nonRef,
                            !.dpbReferenceMark = ~c.nonRef,
                            !.stillReferenced = ~c.nonRef,
                            !.neededForOutput = c.out]]
    BY <1>1, <1>2, <1>3, <1>4, Zenon DEF ActivatePicture
  <1>6. /\ Types /\ PicturesOK /\ list \in Seq(Nat) /\ IsInjective(list)
        /\ ToSet(list) = Buffers
    BY DEF Inv, Types
  <1>7. /\ q \in Seq(Picture) /\ DOMAIN q = Buffers
        /\ \A b \in Buffers : LocalOK(q[b]) /\ SameBut(pic[b], q[b], {"dpbReferenceMark"})
    BY <1>3, <1>6, MarkingApplied
  <1>8. /\ n.pic \in Seq(Picture) /\ DOMAIN n.pic = Buffers \cup {n.buf}
        /\ n.buf \in Buffers => Reusable(q[n.buf])
        /\ n.pic[n.buf] = NewPicture
        /\ \A b \in Buffers : b # n.buf => n.pic[b] = q[b]
    BY <1>4, <1>6, <1>7, NewBuffer
  <1>9. PICK x : x = [NewPicture EXCEPT
                        !.content = i, !.poc = c.poc, !.idr = c.idr, !.nonRef = c.nonRef,
                        !.dpbReferenceMark = ~c.nonRef, !.stillReferenced = ~c.nonRef,
                        !.neededForOutput = c.out]
    OBVIOUS
  <1>10. pic' = [n.pic EXCEPT ![n.buf] = x]
    BY <1>5, <1>8, <1>9
  <1>11. /\ x.content = i /\ x.progress = init /\ x.recon = "none"
         /\ x.parsedSlices = 0 /\ x.neededForOutput = c.out
    BY <1>9 DEF NewPicture
  <1>12. ArrivesIn(n.buf, q)
    BY <1>1, <1>2, <1>5, <1>7, <1>8, <1>10, <1>11 DEF ArrivesIn
  <1> QED
    BY <1>12

\* A picture that was lost is none of the stream's.
LEMMA PrepareOnce ==
  ASSUME Inv, OnceOK, PrepareUnavailablePicture
  PROVE  OnceOK'
  <1>1. main.pc = "head" /\ UNCHANGED <<nal, reported>>
    BY DEF PrepareUnavailablePicture, appVars
  <1>2. PICK f : LostIn(f)
    BY PrepareBuffer
  <1> QED
    BY <1>1, <1>2, OnceBuffer DEF LostIn

\* The picture that arrives has no buffer yet.
LEMMA ActivateOnce ==
  ASSUME Inv, OnceOK, ActivatePicture
  PROVE  OnceOK'
  <1>1. main.pc = "head" /\ UNCHANGED <<nal, reported>> /\ main' = [main EXCEPT !.pc = "lists"]
    BY DEF ActivatePicture, Goto, appVars
  <1>2. main'.pc = "lists"
    BY <1>1, MainTypes DEF MainState
  <1>3. PICK f, q : ArrivesIn(f, q)
    BY ActivateBuffer
  <1>4. \A b \in Buffers : b # f =>
          /\ pic'[b].content = pic[b].content
          /\ pic'[b].exceptionThrownOut = pic[b].exceptionThrownOut
    BY <1>3 DEF ArrivesIn, SameBut, Fields
  <1> QED
    BY <1>1, <1>2, <1>3, <1>4, OnceBuffer DEF ArrivesIn

\* The first slice of the picture: if its lists cannot be constructed then it
\* stays in the state init.
LEMMA DecodeFirstSliceOnce ==
  ASSUME Inv, OnceOK, DecodeFirstSlice
  PROVE  OnceOK'
  <1>1. PICK c : c = stream[nal[1]]
    OBVIOUS
  <1>2. PICK q : q = ConstructRefPicLists(c)
    OBVIOUS
  <1>3. PICK f : f = parsePic
    OBVIOUS
  <1>4. /\ main.pc = "lists" /\ nal' = NextNal
        /\ UNCHANGED <<stream, parsePic, started, reported>>
        /\ \/ pic' = [q EXCEPT ![f] = MarkThrown(@)]
           \/ pic' = [q EXCEPT ![f].progress = parsing, ![f].slices = 1]
    BY <1>1, <1>2, <1>3 DEF DecodeFirstSlice, appVars
  <1>5. /\ Types /\ f \in Buffers /\ Fresh(pic[f]) /\ c \in CodedPicture
        /\ nal[1] \in DOMAIN stream
    <2>1. Types /\ f \in Buffers /\ Fresh(pic[f]) /\ nal[1] \in DOMAIN stream
      BY <1>3, <1>4 DEF Inv, Types, HeadOK, MainOK
    <2> QED
      BY <1>1, <2>1, Streaming
  <1>6. /\ q \in Seq(Picture) /\ DOMAIN q = Buffers
        /\ \A b \in Buffers : SameBut(pic[b], q[b], {"stillReferenced", "refs"})
    BY <1>2, <1>4, <1>5, Constructed
  <1>7. PICK p \in Picture : p = q[f]
    BY <1>5, <1>6
  <1>8. p.progress = init /\ ~p.exceptionThrownOut /\ p.content = pic[f].content
    BY <1>5, <1>6, <1>7 DEF Fresh, SameBut, Fields
  <1>9. PICK z : z = IF pic' = [q EXCEPT ![f] = MarkThrown(@)] THEN MarkThrown(p)
                     ELSE [p EXCEPT !.progress = parsing, !.slices = 1]
    OBVIOUS
  <1>10. pic' = [q EXCEPT ![f] = z]
    BY <1>4, <1>5, <1>6, <1>7, <1>9
  <1>11. /\ z.content = p.content
         /\ z.exceptionThrownOut => z.progress = init
    BY <1>8, <1>9 DEF MarkThrown, Picture
  <1>12. SamePictures(pic, pic')
    <2>1. \A b \in Buffers : /\ q[b].content = pic[b].content
                             /\ q[b].exceptionThrownOut = pic[b].exceptionThrownOut
      BY <1>6 DEF SameBut, Fields
    <2> QED
      BY <1>5, <1>6, <1>7, <1>8, <1>10, <1>11, <2>1 DEF SamePictures, Buffers
  <1>13. HeadOnce'
    <2>1. pic'[parsePic'] = z
      BY <1>3, <1>4, <1>5, <1>6, <1>10
    <2> QED
      BY <1>11, <2>1 DEF HeadOnce
  <1>14. \A i \in Nat : Begun(i, nal, main.pc) => Begun(i, nal', main'.pc)
    BY <1>4, <1>5, NextBegun
  <1> QED
    BY <1>4, <1>12, <1>13, <1>14, OnceKept

\* A later slice reports a picture whose parsing has failed.  It is the second
\* and last one, so the exception comes from this place first.
LEMMA DecodeOnce ==
  ASSUME Inv, OnceOK, TwoSlices, Decode
  PROVE  OnceOK'
  <1>1. PICK i, k : i = nal[1] /\ k = nal[2]
    OBVIOUS
  <1>2. PICK f : f = parsePic
    OBVIOUS
  <1>3. /\ main.pc = "idle" /\ ~EndOfStream /\ UNCHANGED <<stream, parsePic>>
        /\ started' = (started \/ stream[i].idr)
        /\ \/ ~started' /\ nal' = NextNal /\ UNCHANGED <<pic, reported>>
           \/ k = 1 /\ UNCHANGED <<nal, pic, reported>>
           \/ started' /\ k # 1 /\ DecodeNextSlice(i, k)
    BY <1>1 DEF Decode, SkipSlice
  <1>4. /\ Types /\ PicturesOK /\ DOMAIN pic = Buffers /\ pic \in Seq(Picture)
        /\ i \in Nat \ {0} /\ k \in Nat \ {0} /\ i \in DOMAIN stream
    <2>1. /\ Types /\ PicturesOK /\ DOMAIN pic = Buffers /\ pic \in Seq(Picture)
          /\ i \in Nat \ {0} /\ k \in Nat \ {0}
      BY <1>1 DEF Inv, Types, Buffers
    <2>2. Len(stream) \in Nat /\ DOMAIN stream = 1 .. Len(stream)
      BY <2>1, Streaming
    <2> QED
      BY <1>1, <1>3, <2>1, <2>2 DEF EndOfStream
  <1>5. nal' = NextNal =>
          /\ nal'[2] > 1 => nal'[1] = i /\ nal'[2] = k + 1
          /\ \A j \in Nat : Begun(j, nal, main.pc) => Begun(j, nal', main'.pc)
    BY <1>1, <1>4, NextSlice, NextBegun
  <1>6. CASE ~started' /\ nal' = NextNal /\ UNCHANGED <<pic, reported>>
    <2>1. SamePictures(pic, pic')
      BY <1>6 DEF SamePictures
    <2>2. HeadOnce'
      <3>1. nal'[2] = 2 => nal'[1] = i
        BY <1>5, <1>6
      <3> QED
        BY <1>3, <1>6, <3>1 DEF HeadOnce
    <2> QED
      BY <1>5, <1>6, <2>1, <2>2, OnceKept
  <1>7. CASE k = 1 /\ UNCHANGED <<nal, pic, reported>>
    <2>1. SamePictures(pic, pic')
      BY <1>7 DEF SamePictures
    <2> QED
      BY <1>1, <1>3, <1>7, <2>1, OnceQuiet
  <1>8. CASE started' /\ k # 1 /\ DecodeNextSlice(i, k)
    <2>1. /\ f \in Buffers /\ pic[f].content = i /\ k > 1 /\ k <= Arriving(i)
          /\ pic[f].progress \in {init, parsing, parsed}
      BY <1>1, <1>2, <1>3, <1>4, <1>8 DEF Inv, Types, HeadOK
    <2>2. PICK p \in Picture : p = pic[f] /\ LocalOK(p)
      BY <1>4, <2>1, Buffered DEF PicturesOK
    <2>3. /\ nal' = NextNal
          /\ \/ pic' = [pic EXCEPT ![f] = MarkThrown(@)]
             \/ /\ pic' = [pic EXCEPT ![f].slices = k, ![f].neededForOutput = stream[i].out]
                /\ ~p.divException
          /\ reported' = IF p.divException THEN Append(reported, i) ELSE reported
      BY <1>2, <1>8, <2>2 DEF DecodeNextSlice
    <2>4. /\ MarkThrown(p).content = p.content /\ MarkThrown(p).exceptionThrownOut
          /\ [p EXCEPT !.slices = k, !.neededForOutput = stream[i].out].content = p.content
          /\ [p EXCEPT !.slices = k, !.neededForOutput = stream[i].out].exceptionThrownOut
               = p.exceptionThrownOut
      BY DEF MarkThrown, Picture
    <2>5. \/ pic' = [pic EXCEPT ![f] = MarkThrown(p)]
          \/ /\ pic' = [pic EXCEPT ![f] = [p EXCEPT !.slices = k,
                                                    !.neededForOutput = stream[i].out]]
             /\ ~p.divException
      BY <1>4, <2>1, <2>2, <2>3
    <2>6. /\ SamePictures(pic, pic')
          /\ p.divException => pic'[f].exceptionThrownOut
      BY <1>4, <2>1, <2>2, <2>4, <2>5 DEF SamePictures
    <2>7. HeadOnce'
      <3>1. nal'[2] # 2
        BY <1>1, <1>4, <1>5, <2>1, <2>3
      <3> QED
        BY <3>1 DEF HeadOnce
    <2>8. CASE ~p.divException
      BY <1>5, <2>3, <2>6, <2>7, <2>8, OnceKept
    <2>9. CASE p.divException
      <3>1. p.progress \in {parsing, parsed} /\ stream[i].fault = "parse"
        BY <2>1, <2>2, <2>9 DEF LocalOK
      <3>2. k = 2
        <4>1. LastSlice(i) <= 2
          BY <1>4, <3>1 DEF TwoSlices, LastSlice
        <4>2. LastSlice(i) \in Nat /\ Arriving(i) \in Nat /\ Arriving(i) <= LastSlice(i)
          BY <1>4, Streaming
        <4> QED
          BY <1>4, <2>1, <4>1, <4>2
      <3>3. ~p.exceptionThrownOut
        <4>1. nal[2] = 2 /\ (started \/ stream[nal[1]].idr) /\ pic[parsePic] = p
          BY <1>1, <1>2, <1>3, <1>8, <2>2, <3>2
        <4>2. p.progress # init
          BY <3>1 DEF init, parsing, parsed
        <4> QED
          BY <4>1, <4>2 DEF OnceOK, HeadOnce
      <3>4. pic[f].content # 0 /\ reported' = Append(reported, pic[f].content)
        BY <1>4, <2>1, <2>3, <2>9
      <3> QED
        BY <1>5, <2>1, <2>2, <2>3, <2>6, <2>7, <2>9, <3>3, <3>4, OnceReported
    <2> QED
      BY <2>8, <2>9
  <1> QED
    BY <1>3, <1>6, <1>7, <1>8

\* Every step keeps it.
LEMMA NextOnce ==
  ASSUME Inv, OnceOK, TwoSlices, [Next]_vars
  PROVE  OnceOK'
  <1>1. CASE Decode
    BY <1>1, DecodeOnce
  <1>2. CASE PrepareUnavailablePicture
    BY <1>2, PrepareOnce
  <1>3. CASE ActivatePicture
    BY <1>3, ActivateOnce
  <1>4. CASE DecodeFirstSlice
    BY <1>4, DecodeFirstSliceOnce
  <1>5. CASE FinishPrev \/ Drain \/ HandleErrorPicture
    BY <1>5, FinishOnce
  <1>6. CASE \/ TakePicture \/ TakeNothing \/ RotateRecon \/ WaitForPrevDecompressedPic
             \/ DecompressPicture \/ StartTasks \/ DecodeOutput \/ FlushPic \/ Flushed
             \/ FlushLast
    BY <1>6, QuietOnce
  <1>7. CASE SomeTask
    <2>1. PICK b \in Buffers : Worker(b)
      BY <1>7 DEF SomeTask, Buffers
    <2> QED
      BY <2>1, TaskOnce
  <1>8. CASE \E h \in held : Unref(h)
    BY <1>8, UnrefOnce
  <1>9. CASE UNCHANGED vars
    <2>1. SamePictures(pic, pic') /\ UNCHANGED <<stream, nal, parsePic, started, main, pic, reported>>
      BY <1>9 DEF SamePictures, vars
    <2>2. HeadOnce'
      BY <2>1 DEF OnceOK, HeadOnce
    <2> QED
      BY <2>1, <2>2, OnceKept
  <1> QED
    BY <1>1, <1>2, <1>3, <1>4, <1>5, <1>6, <1>7, <1>8, <1>9
       DEF Next, MainStep, Ended

\* The stream is the one it was.
LEMMA StreamSame ==
  ASSUME [Next]_vars
  PROVE  TwoSlices' = TwoSlices
  <1>1. stream' = stream
    <2>1. CASE MainStep
      BY <2>1
         DEF MainStep, PrepareUnavailablePicture, ActivatePicture, DecodeFirstSlice, TakePicture,
             TakeNothing, HandleErrorPicture, RotateRecon, WaitForPrevDecompressedPic,
             DecompressPicture, StartTasks, FinishPrev, DecodeOutput, Flushed, Drain, FlushLast
    <2>2. CASE SomeTask
      BY <2>2
         DEF SomeTask, Worker, ParseSlice, ParseThrow, ParseThrown, Reconstruct, ReconDone,
             ReconThrow, Task
    <2>3. CASE Decode \/ FlushPic \/ (\E h \in held : Unref(h)) \/ Ended \/ UNCHANGED vars
      BY <2>3 DEF Decode, FlushPic, Unref, Ended, vars
    <2> QED
      BY <2>1, <2>2, <2>3, Zenon DEF Next
  <1> QED
    BY <1>1 DEF TwoSlices

\* Initially there is no picture, and nothing was reported.
LEMMA InitOnce ==
  ASSUME Init
  PROVE  OnceOK
  <1>1. reported = <<>> /\ pic = <<>> /\ nal = <<1, 1>>
    BY DEF Init
  <1>2. reported \in Seq(Nat) /\ IsInjective(reported) /\ ToSet(reported) = {} /\ Buffers = {}
    BY <1>1 DEF IsInjective, ToSet, Buffers
  <1>3. nal[2] = 1
    BY <1>1
  <1>4. HeadOnce
    BY <1>3 DEF HeadOnce
  <1> QED
    BY <1>2, <1>4 DEF OnceOK

\* So no picture was reported twice.
LEMMA OnceOnly ==
  ASSUME OnceOK
  PROVE  ReportedOnce
  <1>1. SUFFICES ASSUME NEW i \in DOMAIN stream
                 PROVE  TimesReported(i) <= 1
    BY DEF ReportedOnce
  <1>2. PICK K : K = {k \in DOMAIN reported : reported[k] = i}
    OBVIOUS
  <1>3. CASE K = {}
    BY <1>2, <1>3, FS_EmptySet DEF TimesReported
  <1>4. CASE K # {}
    <2>1. PICK k : k \in K
      BY <1>4
    <2>2. K = {k}
      BY <1>2, <2>1 DEF OnceOK, IsInjective
    <2>3. Cardinality({k}) = 1
      BY FS_Singleton
    <2> QED
      BY <1>2, <2>2, <2>3 DEF TimesReported
  <1> QED
    BY <1>3, <1>4

\* The exception of a task is not given to the application twice, whoever
\* meets it first: the parser, decode when it gives the picture up, or the
\* thread that waits for the picture's reconstruction.  Of a picture whose
\* parsing fails at most one more slice may arrive.
THEOREM ReportedAtMostOnce == Spec => [](TwoSlices => ReportedOnce)
  <1>1. Init => (TwoSlices => OnceOK)
    BY InitOnce
  <1>2. Inv /\ (TwoSlices => OnceOK) /\ [Next]_vars => (TwoSlices => OnceOK)'
    BY NextOnce, StreamSame
  <1>3. (TwoSlices => OnceOK) => (TwoSlices => ReportedOnce)
    BY OnceOnly
  <1> QED
    BY <1>1, <1>2, <1>3, InvHolds, PTL DEF Spec

-----------------------------------------------------------------------------
(***************************************************************************)
(* The exception of a picture's tasks is not lost either: until it leaves  *)
(* the library the picture is not finished, and flushPic does not end      *)
(* before every picture is.                                                *)
(***************************************************************************)
\* A task of picture i throws.
Failing(i) == i \in DOMAIN stream /\ stream[i].fault \in {"parse", "recon"}

\* The picture in p is never reconstructed by its tasks.  If it is filled in as
\* a reference then its exception is on parseDone, and stays there as there are
\* no more slices to be parsed.
FailingOK(p) ==
  Failing(p.content) =>
    /\ stream[p.content].fault = "parse" => p.parsedSlices = 0
    /\ p.recon # "finish"
    /\ p.progress = reconstructed =>
         /\ p.error /\ p.parseDone.exception /\ p.recon = "none"
         /\ p.parse = "ok" => p.parsedSlices >= p.slices

\* It is true of all of them.
FailuresOK == \A b \in Buffers : FailingOK(pic[b])

\* No picture is left alone: one in reconstruction is in an instance or was just
\* taken from it, and one with no reference lists was thrown out.
PlacesOK ==
  \A b \in Buffers :
    /\ pic[b].content # 0 /\ pic[b].progress \in {reconstructing, reconstructed} =>
         b \in Working \cup Done
    /\ pic[b].progress = init =>
         pic[b].exceptionThrownOut \/ (main.pc = "lists" /\ b = parsePic)

\* flushPic ends when the stream has ended and no list or instance has a
\* picture.  Nothing is parsed before the first IDR picture.
FlushOK ==
  /\ main.call = "flush" => EndOfStream
  /\ main.pc \in {"drain", "last", "ended"} => parseFrameList = <<>>
  /\ main.pc \in {"last", "ended"} => Working = {}
  /\ main.pc \in {"head", "lists"} => started
  /\ ~started => \/ main.pc = "ended"
                 \/ \A i \in DOMAIN stream : Begun(i, nal, main.pc) => ~stream[i].idr

\* What was thrown out was reported, and a picture that fails was reported or is
\* not finished.
ToldOK ==
  /\ reported \in Seq(Nat)
  /\ \A b \in Buffers :
       Failing(pic[b].content) /\ pic[b].progress # init /\ pic[b].exceptionThrownOut =>
         pic[b].content \in ToSet(reported)
  /\ \A i \in DOMAIN stream : Failing(i) /\ Arrived(i) /\ Begun(i, nal, main.pc) =>
       \/ i \in ToSet(reported)
       \/ \E b \in Buffers : pic[b].content = i /\ pic[b].progress # finished

\* All of it.
NoneLost == FailuresOK /\ PlacesOK /\ FlushOK /\ ToldOK

\* To the failures, q is the same picture as p.
Alike(p, q) ==
  /\ q.content = p.content /\ q.progress = p.progress
  /\ q.exceptionThrownOut = p.exceptionThrownOut /\ q.parseDone = p.parseDone
  /\ q.recon = p.recon /\ q.slices = p.slices /\ q.parsedSlices = p.parsedSlices
  /\ q.parse = p.parse
  /\ p.error => q.error

\* A step takes picture p to q; when it marks its exception as thrown out, or
\* finishes it, it reports it.
Onward(p, q) ==
  /\ q.content = p.content /\ FailingOK(q)
  /\ q.progress = init => p.progress = init /\ (p.exceptionThrownOut => q.exceptionThrownOut)
  /\ Failing(p.content) =>
       /\ q.exceptionThrownOut /\ q.progress # init =>
            (p.exceptionThrownOut /\ p.progress # init) \/ p.content \in ToSet(reported')
       /\ q.progress = finished => p.progress = finished \/ p.content \in ToSet(reported')

\* A picture that is left alike goes onward.
LEMMA AlikeOnward ==
  ASSUME NEW p, NEW q, Alike(p, q), FailingOK(p)
  PROVE  Onward(p, q)
  <1>1. FailingOK(q)
    BY DEF Alike, FailingOK
  <1> QED
    BY <1>1 DEF Alike, Onward

\* Where nothing changes but a field that the failures do not look at.
LEMMA SameAlike ==
  ASSUME NEW p, NEW q,
         SameBut(p, q, {"dpbReferenceMark", "stillReferenced", "neededForOutput",
                        "lockedByApplication", "skippedDecCount", "refs", "borderExtStarted"})
  PROVE  Alike(p, q)
  BY DEF SameBut, Fields, Alike

\* The pictures go onward, and no picture begins that has arrived.
LEMMA ToldKept ==
  ASSUME Inv, NoneLost, stream' = stream, Buffers' = Buffers,
         reported' \in Seq(Nat), \A i \in ToSet(reported) : i \in ToSet(reported'),
         \A b \in Buffers : Onward(pic[b], pic'[b]),
         \A i \in DOMAIN stream :
           Begun(i, nal', main'.pc) => Begun(i, nal, main.pc) \/ ~Arrived(i)
  PROVE  FailuresOK' /\ ToldOK'
  <1>1. /\ \A i : Failing(i)' <=> Failing(i)
        /\ \A i : Arrived(i)' <=> Arrived(i)
    BY DEF Failing, Arrived
  <1>2. FailuresOK'
    <2>1. \A b \in Buffers : FailingOK(pic'[b])
      BY DEF Onward
    <2> QED
      BY <2>1 DEF FailuresOK, FailingOK, Failing
  <1>3. ASSUME NEW b \in Buffers, Failing(pic'[b].content), pic'[b].progress # init,
               pic'[b].exceptionThrownOut
        PROVE  pic'[b].content \in ToSet(reported')
    BY <1>3 DEF NoneLost, ToldOK, Onward
  <1>4. ASSUME NEW i \in DOMAIN stream, Failing(i), Arrived(i), Begun(i, nal', main'.pc)
        PROVE  \/ i \in ToSet(reported')
               \/ \E b \in Buffers : pic'[b].content = i /\ pic'[b].progress # finished
    <2>1. CASE i \in ToSet(reported)
      BY <2>1
    <2>2. CASE i \notin ToSet(reported)
      <3>1. PICK b \in Buffers : pic[b].content = i /\ pic[b].progress # finished
        BY <1>4, <2>2 DEF NoneLost, ToldOK
      <3> QED
        BY <1>4, <3>1 DEF Onward
    <2> QED
      BY <2>1, <2>2
  <1>5. ToldOK'
    <2>1. \A b \in Buffers' :
            Failing(pic'[b].content) /\ pic'[b].progress # init /\ pic'[b].exceptionThrownOut =>
              pic'[b].content \in ToSet(reported')
      BY <1>3
    <2>2. \A i \in DOMAIN stream' : Failing(i) /\ Arrived(i) /\ Begun(i, nal', main'.pc) =>
            \/ i \in ToSet(reported')
            \/ \E b \in Buffers' : pic'[b].content = i /\ pic'[b].progress # finished
      BY <1>4
    <2> QED
      BY <2>1, <2>2 DEF ToldOK, Failing, Arrived
  <1> QED
    BY <1>2, <1>5

\* Most steps come between two slices.
LEMMA StepTold ==
  ASSUME Inv, NoneLost, main.pc \notin {"lists", "ended"}, UNCHANGED <<stream, nal>>,
         Buffers' = Buffers,
         reported' \in Seq(Nat), \A i \in ToSet(reported) : i \in ToSet(reported'),
         \A b \in Buffers : Onward(pic[b], pic'[b]),
         \A b \in Buffers :
           pic'[b].content # 0 /\ pic'[b].progress \in {reconstructing, reconstructed} =>
             b \in Working' \cup Done',
         started' = started \/ main'.pc = "ended",
         main'.pc \notin {"head", "lists"}, main'.call = "flush" => EndOfStream,
         main'.pc \in {"drain", "last", "ended"} => parseFrameList' = <<>>,
         main'.pc \in {"last", "ended"} => Working' = {}
  PROVE  NoneLost'
  <1>1. \A i \in Nat : Begun(i, nal', main'.pc) => Begun(i, nal, main.pc)
    BY DEF Begun
  <1>2. DOMAIN stream \subseteq Nat
    <2>1. Types
      BY DEF Inv
    <2> QED
      BY <2>1, Streaming
  <1>3. FailuresOK' /\ ToldOK'
    BY <1>1, <1>2, ToldKept
  <1>4. PlacesOK'
    <2>1. \A b \in Buffers : pic'[b].progress = init => pic'[b].exceptionThrownOut
      BY DEF NoneLost, PlacesOK, Onward
    <2> QED
      BY <2>1 DEF PlacesOK
  <1>5. FlushOK'
    <2>1. EndOfStream' = EndOfStream
      BY DEF EndOfStream
    <2>2. ~started' => \/ main'.pc = "ended"
                       \/ \A i \in DOMAIN stream : Begun(i, nal', main'.pc) => ~stream[i].idr
      BY <1>1, <1>2 DEF NoneLost, FlushOK
    <2> QED
      BY <2>1, <2>2 DEF FlushOK
  <1> QED
    BY <1>3, <1>4, <1>5 DEF NoneLost

\* Many leave the pictures alike.
LEMMA AlikeTold ==
  ASSUME Inv, NoneLost, main.pc \notin {"lists", "ended"}, UNCHANGED <<stream, nal, reported>>,
         Buffers' = Buffers, \A b \in Buffers : Alike(pic[b], pic'[b]),
         Working \cup Done \subseteq Working' \cup Done',
         started' = started \/ main'.pc = "ended",
         main'.pc \notin {"head", "lists"}, main'.call = "flush" => EndOfStream,
         main'.pc \in {"drain", "last", "ended"} => parseFrameList' = <<>>,
         main'.pc \in {"last", "ended"} => Working' = {}
  PROVE  NoneLost'
  <1>1. \A b \in Buffers : Onward(pic[b], pic'[b])
    BY AlikeOnward DEF NoneLost, FailuresOK
  <1>2. \A b \in Buffers :
          pic'[b].content # 0 /\ pic'[b].progress \in {reconstructing, reconstructed} =>
            b \in Working' \cup Done'
    BY DEF NoneLost, PlacesOK, Alike
  <1>3. reported' \in Seq(Nat)
    BY DEF NoneLost, ToldOK
  <1> QED
    BY <1>1, <1>2, <1>3, StepTold


\* The main thread does not move, and the pictures go onward.
LEMMA RestTold ==
  ASSUME Inv, NoneLost,
         UNCHANGED <<stream, nal, main, parsePic, started, recon, parseFrameList, reported>>,
         Buffers' = Buffers, \A b \in Buffers : Onward(pic[b], pic'[b]),
         \A b \in Buffers :
           pic'[b].content # 0 /\ pic'[b].progress \in {reconstructing, reconstructed} =>
             b \in Working \cup Done
  PROVE  NoneLost'
  <1>1. \A i \in DOMAIN stream : Begun(i, nal', main'.pc) => Begun(i, nal, main.pc)
    BY DEF Begun
  <1>2. FailuresOK' /\ ToldOK'
    <2>1. reported' \in Seq(Nat)
      BY DEF NoneLost, ToldOK
    <2> QED
      BY <1>1, <2>1, ToldKept
  <1>3. Working' = Working /\ Done' = Done
    BY DEF Working, Done
  <1>4. PlacesOK'
    <2>1. \A b \in Buffers :
            pic'[b].progress = init =>
              pic'[b].exceptionThrownOut \/ (main'.pc = "lists" /\ b = parsePic')
      BY DEF NoneLost, PlacesOK, Onward
    <2> QED
      BY <1>3, <2>1 DEF PlacesOK
  <1>5. FlushOK'
    BY <1>3 DEF NoneLost, FlushOK, EndOfStream, Begun
  <1> QED
    BY <1>2, <1>4, <1>5 DEF NoneLost

\* The tasks of a picture that fails do not reconstruct it, and keep its
\* exception.
LEMMA TaskFailing ==
  ASSUME Inv, NoneLost, NEW b \in Buffers, Worker(b), NEW q, pic'[b] = q,
         WorkerMove(pic[b], q)
  PROVE  FailingOK(q)
  <1>1. PICK p \in Picture : p = pic[b] /\ LocalOK(p) /\ FailingOK(p)
    BY Buffered DEF Inv, PicturesOK, NoneLost, FailuresOK
  <1>2. SUFFICES ASSUME Failing(p.content)
                 PROVE  FailingOK(q)
    BY <1>1 DEF WorkerMove, SameBut, Fields, FailingOK
  <1>3. /\ q.content = p.content /\ q.slices = p.slices
        /\ p.error => q.error
        /\ p.content \in DOMAIN stream /\ stream[p.content].fault \in {"parse", "recon"}
        /\ Fault(b) = stream[p.content].fault /\ stream[p.content].slices \in Nat \ {0}
    <2>1. p.content \in DOMAIN stream /\ stream[p.content].fault \in {"parse", "recon"}
      BY <1>2 DEF Failing
    <2>2. p.content # 0 /\ LastSlice(p.content) \in Nat \ {0}
      BY <2>1, Streaming DEF Inv
    <2> QED
      BY <1>1, <2>1, <2>2 DEF WorkerMove, SameBut, Fields, Fault, LastSlice
  <1>4. /\ stream[p.content].fault = "parse" => p.parsedSlices = 0
        /\ p.recon # "finish"
        /\ p.progress = reconstructed =>
             /\ p.error /\ p.parseDone.exception /\ p.recon = "none"
             /\ p.parse = "ok" => p.parsedSlices >= p.slices
    BY <1>1, <1>2 DEF FailingOK
  <1>5. p.slices \in Nat /\ p.parsedSlices \in Nat /\ p.parseDone \in Barrier
    BY DEF Picture
  <1>6. /\ reconstructed # parsing /\ reconstructed # parsed /\ reconstructed # reconstructing
    BY DEF parsing, parsed, reconstructing, reconstructed
  <1>7. CASE ParseSlice(b)
    <2>1. /\ p.parse = "ok" /\ p.parsedSlices < p.slices /\ Fault(b) # "parse"
          /\ \E last \in BOOLEAN : q = [p EXCEPT !.parsedSlices = @ + 1,
                                    !.progress  = IF last /\ @ = parsing THEN parsed ELSE @,
                                    !.parseDone = IF last THEN Unlocked ELSE @]
      BY <1>1, <1>7 DEF ParseSlice, Task, Buffers
    <2>2. p.progress # reconstructed
      BY <1>4, <1>5, <2>1
    <2>3. q.progress # reconstructed /\ q.recon = p.recon
      BY <1>6, <2>1, <2>2 DEF Picture
    <2> QED
      BY <1>3, <1>4, <2>1, <2>3 DEF FailingOK
  <1>8. CASE ParseThrow(b)
    <2>1. /\ Fault(b) = "parse" /\ p.parse = "ok" /\ p.slices > 0
          /\ q = [p EXCEPT !.error = TRUE, !.parse = "throwing"]
      BY <1>1, <1>8 DEF ParseThrow, Task, Buffers
    <2>2. /\ q.progress = p.progress /\ q.recon = p.recon /\ q.parsedSlices = p.parsedSlices
          /\ q.error /\ q.parseDone = p.parseDone /\ q.parse = "throwing"
      BY <2>1 DEF Picture
    <2> QED
      BY <1>3, <1>4, <2>2 DEF FailingOK
  <1>9. CASE ParseThrown(b)
    <2>1. q = [p EXCEPT !.parseDone = Raise(@), !.divException = TRUE, !.parse = "failed"]
      BY <1>1, <1>9 DEF ParseThrown, Task, Buffers
    <2>2. /\ q.progress = p.progress /\ q.recon = p.recon /\ q.parsedSlices = p.parsedSlices
          /\ q.error = p.error /\ q.parseDone = Raise(p.parseDone) /\ q.parse = "failed"
      BY <2>1 DEF Picture
    <2>3. q.parseDone.exception
      BY <1>5, <2>2, Barriers
    <2> QED
      BY <1>3, <1>4, <2>2, <2>3 DEF FailingOK
  <1>10. CASE Reconstruct(b)
    <2>1. AllParsed(b) /\ Fault(b) # "recon"
      BY <1>10 DEF Reconstruct
    <2> QED
      BY <1>1, <1>3, <1>4, <2>1 DEF AllParsed
  <1>11. CASE ReconDone(b)
    BY <1>1, <1>4, <1>11 DEF ReconDone
  <1>12. CASE ReconThrow(b)
    <2>1. /\ p.recon \in {"tasks", "ctus"}
          /\ \/ q = [p EXCEPT !.recon = "none", !.reconDone = Raise(@), !.divException = TRUE]
             \/ q = [p EXCEPT !.recon = "none"]
      BY <1>1, <1>12 DEF ReconThrow, Task, Buffers
    <2>2. p.progress # reconstructed
      BY <1>4, <2>1
    <2>3. q.progress = p.progress /\ q.recon = "none" /\ q.parsedSlices = p.parsedSlices
      BY <2>1 DEF Picture
    <2> QED
      BY <1>3, <1>4, <2>2, <2>3 DEF FailingOK
  <1> QED
    BY <1>7, <1>8, <1>9, <1>10, <1>11, <1>12 DEF Worker

\* So no task loses it.
LEMMA TaskTold ==
  ASSUME Inv, NoneLost, NEW b \in Buffers, Worker(b)
  PROVE  NoneLost'
  <1>1. PICK q : WorkerMove(pic[b], q) /\ Task(b, q)
    BY TaskMoves
  <1>2. /\ pic' = [pic EXCEPT ![b] = q]
        /\ UNCHANGED <<stream, nal, main, parsePic, started, recon, parseFrameList, reported>>
    BY <1>1 DEF Task, parserVars, appVars
  <1>3. Buffers' = Buffers /\ \A c \in Buffers : pic'[c] = IF c = b THEN q ELSE pic[c]
    BY <1>2 DEF Buffers
  <1>4. FailingOK(q)
    BY <1>1, <1>3, TaskFailing
  <1>5. /\ q.content = pic[b].content /\ q.exceptionThrownOut = pic[b].exceptionThrownOut
        /\ pic[b].progress # init
        /\ \/ q.progress = pic[b].progress
           \/ q.progress = parsed
           \/ pic[b].progress = reconstructing /\ q.progress = reconstructed
    BY <1>1 DEF WorkerMove, SameBut, Fields
  <1>6. /\ parsed \notin {init, reconstructing, reconstructed, finished}
        /\ reconstructed \notin {init, finished}
    BY DEF init, parsed, reconstructing, reconstructed, finished
  <1>7. Onward(pic[b], q)
    BY <1>4, <1>5, <1>6 DEF Onward
  <1>8. \A c \in Buffers : Onward(pic[c], pic'[c])
    <2>1. \A c \in Buffers : FailingOK(pic[c])
      BY DEF NoneLost, FailuresOK
    <2>2. \A c \in Buffers : c # b => Onward(pic[c], pic'[c])
      BY <1>3, <2>1, AlikeOnward DEF Alike
    <2> QED
      BY <1>3, <1>7, <2>2
  <1>9. \A c \in Buffers :
          pic'[c].content # 0 /\ pic'[c].progress \in {reconstructing, reconstructed} =>
            c \in Working \cup Done
    BY <1>3, <1>5, <1>6 DEF NoneLost, PlacesOK
  <1> QED
    BY <1>2, <1>3, <1>8, <1>9, RestTold

\* Nor the application when it gives a frame back.
LEMMA UnrefTold ==
  ASSUME Inv, NoneLost, NEW h \in held, Unref(h)
  PROVE  NoneLost'
  <1>1. /\ h.buf \in Buffers
        /\ pic' = [pic EXCEPT ![h.buf] = Release(pic[h.buf])]
        /\ UNCHANGED <<stream, nal, main, parsePic, started, recon, parseFrameList, reported>>
    BY DEF Unref, parserVars, Inv, FramesOK, Buffers
  <1>2. Alike(pic[h.buf], Release(pic[h.buf]))
    <2>1. pic[h.buf] \in Picture
      BY <1>1, Buffered DEF Inv
    <2>2. SameBut(pic[h.buf], Release(pic[h.buf]), {"lockedByApplication"})
      BY <1>1, <2>1, ReleaseLocal DEF Inv, PicturesOK
    <2> QED
      BY <2>2 DEF SameBut, Fields, Alike
  <1>3. Buffers' = Buffers /\ \A c \in Buffers : Alike(pic[c], pic'[c])
    BY <1>1, <1>2 DEF Buffers, Alike
  <1>4. \A c \in Buffers : Onward(pic[c], pic'[c])
    BY <1>3, AlikeOnward DEF NoneLost, FailuresOK
  <1>5. \A c \in Buffers :
          pic'[c].content # 0 /\ pic'[c].progress \in {reconstructing, reconstructed} =>
            c \in Working \cup Done
    BY <1>3 DEF Alike, NoneLost, PlacesOK
  <1> QED
    BY <1>1, <1>3, <1>4, <1>5, RestTold

\* When a frame is chosen for the application the pictures stay alike.
LEMMA LockAlike ==
  ASSUME Inv, NEW b, b # 0 => b \in Buffers, pic' = LockPic(b)
  PROVE  Buffers' = Buffers /\ \A c \in Buffers : Alike(pic[c], pic'[c])
  <1>1. \A p \in Picture : Alike(p, Lock(p))
    BY DEF Lock, Picture, Alike
  <1>2. \A c \in Buffers : pic[c] \in Picture /\ Alike(pic[c], pic[c])
    BY Buffered DEF Inv, Alike
  <1>3. CASE b = 0
    BY <1>2, <1>3 DEF LockPic, Buffers
  <1>4. CASE b # 0
    <2>1. pic' = [pic EXCEPT ![b] = Lock(pic[b])] /\ b \in Buffers
      BY <1>4 DEF LockPic, Buffers
    <2> QED
      BY <1>1, <1>2, <2>1 DEF Buffers
  <1> QED
    BY <1>3, <1>4

\* The steps that choose a frame, or return one.
LEMMA OutputTold ==
  ASSUME Inv, NoneLost, DecodeOutput \/ FlushPic \/ Flushed \/ FlushLast
  PROVE  NoneLost'
  <1>1. /\ UNCHANGED <<stream, nal, reported, recon, parseFrameList>>
        /\ main.pc \in {"output", "idle", "flushed", "last"}
    BY DEF DecodeOutput, FlushPic, Flushed, FlushLast, Return, parserVars, appVars
  <1>2. Buffers' = Buffers /\ \A c \in Buffers : Alike(pic[c], pic'[c])
    <2>1. CASE pic' = pic
      BY <2>1 DEF Buffers, Alike
    <2>2. ASSUME NEW t \in 0 .. NumReorderPics + ParallelDecInst + 2, NEW first \in BOOLEAN,
                 NEW flush \in BOOLEAN, NEW o, o = GetNextOutputPic(list, pic, t, first, flush),
                 pic' = LockPic(o.buf)
          PROVE  Buffers' = Buffers /\ \A c \in Buffers : Alike(pic[c], pic'[c])
      BY <2>2, Chosen, LockAlike
    <2>3. PICK o1 : o1 = NextOutput(FALSE)
      OBVIOUS
    <2>4. /\ o1 = GetNextOutputPic(list, pic, tuneInDelay, firstOutputPic, FALSE)
          /\ tuneInDelay \in 0 .. NumReorderPics + ParallelDecInst + 2
          /\ firstOutputPic \in BOOLEAN
      BY <2>3, MainTypes DEF NextOutput
    <2>5. /\ o1.tuneIn \in 0 .. NumReorderPics + ParallelDecInst + 2
          /\ o1.first \in BOOLEAN
      BY <2>4, Chosen
    <2>6. \/ pic' = pic \/ pic' = LockPic(o1.buf)
          \/ pic' = LockPic(GetNextOutputPic(list, pic, o1.tuneIn, o1.first, TRUE).buf)
      BY <2>3 DEF DecodeOutput, FlushPic, Flushed, FlushLast
    <2> QED
      BY <2>1, <2>2, <2>4, <2>5, <2>6
  <1>3. \/ main' = Idle /\ started' = started
        \/ main' = [Idle EXCEPT !.pc = "take", !.call = "flush", !.out = main'.out] /\ EndOfStream
           /\ started' = started
        \/ main' = [main EXCEPT !.pc = "take"] /\ main.pc = "flushed" /\ started' = started
        \/ main' = [main EXCEPT !.pc = "ended"] /\ main.pc = "last"
    BY DEF DecodeOutput, FlushPic, Flushed, FlushLast, Return, Goto, parserVars, Idle
  <1>4. main \in MainState /\ MainOK
    BY DEF Inv, Types
  <1>5. /\ main'.pc \in {"idle", "take", "ended"}
        /\ main'.pc = "ended" => main.pc = "last"
        /\ main'.call = "flush" => EndOfStream
        /\ started' = started \/ main'.pc = "ended"
    <2>1. CASE main' = Idle /\ started' = started
      BY <2>1, MainStates
    <2>2. CASE /\ main' = [Idle EXCEPT !.pc = "take", !.call = "flush", !.out = main'.out]
               /\ EndOfStream /\ started' = started
      BY <2>2 DEF Idle
    <2>3. CASE main' = [main EXCEPT !.pc = "take"] /\ main.pc = "flushed" /\ started' = started
      BY <1>4, <2>3 DEF MainState, MainOK, NoneLost, FlushOK
    <2>4. CASE main' = [main EXCEPT !.pc = "ended"] /\ main.pc = "last"
      BY <1>4, <2>4 DEF MainState, MainOK, NoneLost, FlushOK
    <2> QED
      BY <1>3, <2>1, <2>2, <2>3, <2>4
  <1>6. Working' = Working /\ Done = {}
    BY <1>1 DEF Working, Done
  <1>7. /\ main'.pc \in {"drain", "last", "ended"} => parseFrameList' = <<>>
        /\ main'.pc \in {"last", "ended"} => Working' = {}
    BY <1>1, <1>5, <1>6 DEF NoneLost, FlushOK
  <1> QED
    BY <1>1, <1>2, <1>5, <1>6, <1>7, AlikeTold

\* A picture is taken from the list, or there is none.
LEMMA TakeTold ==
  ASSUME Inv, NoneLost, TakePicture \/ TakeNothing
  PROVE  NoneLost'
  <1>1. /\ UNCHANGED <<stream, nal, reported, recon, started>>
        /\ main.pc \in {"take", "retake"}
    BY DEF TakePicture, TakeNothing, parserVars, appVars
  <1>2. main \in MainState /\ MainOK /\ (main.call = "flush" => EndOfStream)
    BY DEF Inv, Types, NoneLost, FlushOK
  <1>3. Buffers' = Buffers /\ \A c \in Buffers : Alike(pic[c], pic'[c])
    <2>1. CASE TakeNothing
      BY <2>1 DEF TakeNothing, Buffers, Alike
    <2>2. CASE TakePicture
      <3>1. \A p \in Picture : Alike(p, p) /\ Alike(p, [p EXCEPT !.skippedDecCount = @ + 1])
        BY DEF Alike, Picture
      <3>2. \A c \in Buffers : pic[c] \in Picture
        BY Buffered DEF Inv
      <3>3. /\ DOMAIN pic' = DOMAIN pic
            /\ \A c \in DOMAIN pic : pic'[c] \in {pic[c], [pic[c] EXCEPT !.skippedDecCount = @ + 1]}
        BY <2>2 DEF TakePicture
      <3> QED
        BY <3>1, <3>2, <3>3 DEF Buffers
    <2> QED
      BY <2>1, <2>2
  <1>4. /\ main'.pc \in {"error", "recon", "drain", "output", "fatal"}
        /\ main'.call = main.call
        /\ main'.pc = "drain" => parseFrameList' = <<>>
    BY <1>1, <1>2 DEF TakePicture, TakeNothing, Goto, MainState
  <1>5. Working' = Working /\ Done = {}
    BY <1>1 DEF Working, Done
  <1> QED
    BY <1>1, <1>2, <1>3, <1>4, <1>5, AlikeTold

\* The instances are rotated, and the first one gives its picture away.
LEMMA RotateTold ==
  ASSUME Inv, NoneLost, RotateRecon
  PROVE  NoneLost'
  <1>1. /\ UNCHANGED <<stream, nal, reported, started, pic, parseFrameList>>
        /\ main.pc = "recon"
        /\ recon' = recon \/ recon' = Rotate(recon)
        /\ main' \in {[main EXCEPT !.pc = "wait"], [main EXCEPT !.pc = "fatal"]}
    BY DEF RotateRecon, Rotate, Goto, parserVars, appVars
  <1>2. main \in MainState /\ MainOK /\ (main.call = "flush" => EndOfStream)
    BY DEF Inv, Types, NoneLost, FlushOK
  <1>3. main'.pc \in {"wait", "fatal"} /\ main'.call = main.call
    BY <1>1, <1>2 DEF MainState
  <1>4. Working \subseteq Working' /\ Done = {}
    <2>1. PICK S, N : S = Buffers \cup {0} /\ N = NumRecon
      OBVIOUS
    <2>2. N \in Nat \ {0} /\ recon \in Seq(S) /\ N = Len(recon)
      <3>1. recon \in [1 .. N -> S] /\ N \in Nat \ {0}
        BY <2>1, DecLibAssumption DEF Inv, Types
      <3> QED
        BY <3>1, SeqDef
    <2>3. CASE recon' = Rotate(recon)
      <3>1. recon'[N] = recon[1] /\ \A i \in 1 .. N : i # N => recon'[i] = recon[i + 1]
        BY <2>2, <2>3, Rotated
      <3>2. ASSUME NEW i \in 1 .. N PROVE \E j \in 1 .. N : recon'[j] = recon[i]
        <4>1. CASE i = 1
          BY <2>2, <3>1, <4>1
        <4>2. CASE i # 1
          <5>1. i - 1 \in 1 .. N /\ i - 1 # N /\ (i - 1) + 1 = i
            BY <2>2, <4>2
          <5> QED
            BY <3>1, <5>1
        <4> QED
          BY <4>1, <4>2
      <3> QED
        BY <1>1, <2>1, <3>2 DEF Working, Done
    <2> QED
      BY <1>1, <2>3 DEF Working, Done
  <1>5. Buffers' = Buffers /\ \A c \in Buffers : Alike(pic[c], pic'[c])
    BY <1>1 DEF Buffers, Alike
  <1> QED
    BY <1>1, <1>2, <1>3, <1>4, <1>5, AlikeTold

\* It is still known where the picture is.
LEMMA WaitTold ==
  ASSUME Inv, NoneLost, WaitForPrevDecompressedPic
  PROVE  NoneLost'
  <1>1. PICK b : b = recon[NumRecon]
    OBVIOUS
  <1>2. /\ main.pc = "wait"
        /\ pic' = IF b = 0 THEN pic ELSE [pic EXCEPT ![b] = AfterWait(@)]
        /\ main' = [main EXCEPT !.pc = "decompress", !.done = b]
        /\ recon' = [recon EXCEPT ![NumRecon] = 0]
        /\ UNCHANGED <<stream, nal, reported, started, parseFrameList>>
    BY <1>1 DEF WaitForPrevDecompressedPic, ClearRecon, parserVars, outputVars, appVars
  <1>3. /\ main \in MainState /\ recon \in [1 .. NumRecon -> Buffers \cup {0}]
        /\ NumRecon \in 1 .. NumRecon /\ (main.call = "flush" => EndOfStream)
    BY DecLibAssumption DEF Inv, Types, NoneLost, FlushOK
  <1>4. main'.pc = "decompress" /\ main'.done = b /\ main'.call = main.call
    BY <1>2, <1>3 DEF MainState
  <1>5. Buffers' = Buffers /\ \A c \in Buffers : Alike(pic[c], pic'[c])
    <2>1. \A p \in Picture : Alike(p, p) /\ Alike(p, AfterWait(p))
      BY DEF Alike, AfterWait, Picture
    <2>2. \A c \in Buffers : pic[c] \in Picture
      BY Buffered DEF Inv
    <2> QED
      BY <1>2, <2>1, <2>2 DEF Buffers
  <1>6. Working \cup Done \subseteq Working' \cup Done'
    <2>1. \A i \in 1 .. NumRecon : recon'[i] = recon[i] \/ recon[i] = b
      BY <1>1, <1>2, <1>3
    <2>2. Done' = {b} \ {0} /\ Done = {}
      BY <1>2, <1>4 DEF Done
    <2> QED
      BY <2>1, <2>2 DEF Working
  <1> QED
    BY <1>2, <1>3, <1>4, <1>5, <1>6, AlikeTold

\* The picture that was taken goes into its instance.
LEMMA DecompressTold ==
  ASSUME Inv, NoneLost, DecompressPicture
  PROVE  NoneLost'
  <1>1. PICK b : b = main.cur
    OBVIOUS
  <1>2. /\ main.pc = "decompress"
        /\ recon' = [recon EXCEPT ![NumRecon] = b]
        /\ pic' = [pic EXCEPT ![b].progress = reconstructing]
        /\ main' = [main EXCEPT !.pc = "refs"]
        /\ UNCHANGED <<stream, nal, started, parseFrameList, reported>>
    BY <1>1 DEF DecompressPicture, Goto, parserVars, outputVars, appVars
  <1>3. /\ main \in MainState /\ recon \in [1 .. NumRecon -> Buffers \cup {0}]
        /\ NumRecon \in 1 .. NumRecon /\ (main.call = "flush" => EndOfStream)
        /\ recon[NumRecon] = 0 /\ reported \in Seq(Nat)
    BY <1>2, DecLibAssumption DEF Inv, Types, WorkOK, NoneLost, FlushOK, ToldOK
  <1>4. b \in Buffers /\ b # 0
    BY <1>1, <1>2, MainTypes DEF Inv, MainOK
  <1>5. PICK p \in Picture : p = pic[b] /\ p.progress \in {parsing, parsed} /\ FailingOK(p)
    <2>1. b \in Current
      BY <1>1, <1>2 DEF Current
    <2> QED
      BY <1>4, <2>1, Buffered DEF Inv, ParsedOK, NoneLost, FailuresOK
  <1>6. PICK q : q = [p EXCEPT !.progress = reconstructing]
    OBVIOUS
  <1>7. reconstructing \notin {init, reconstructed, finished}
    BY DEF init, reconstructing, reconstructed, finished
  <1>8. /\ q.content = p.content /\ q.progress = reconstructing /\ q.recon = p.recon
        /\ q.exceptionThrownOut = p.exceptionThrownOut /\ q.parsedSlices = p.parsedSlices
        /\ p.progress # init
    BY <1>5, <1>6 DEF Picture, init, parsing, parsed
  <1>9. Onward(p, q)
    BY <1>5, <1>7, <1>8 DEF Onward, FailingOK
  <1>10. Buffers' = Buffers /\ \A c \in Buffers : pic'[c] = IF c = b THEN q ELSE pic[c]
    BY <1>2, <1>4, <1>5, <1>6 DEF Buffers
  <1>11. \A c \in Buffers : Onward(pic[c], pic'[c])
    <2>1. \A c \in Buffers : c # b => Onward(pic[c], pic'[c])
      BY <1>10, AlikeOnward DEF Alike, NoneLost, FailuresOK
    <2> QED
      BY <1>5, <1>9, <1>10, <2>1
  <1>12. main'.pc = "refs" /\ main'.done = main.done /\ main'.call = main.call
    BY <1>2, <1>3 DEF MainState
  <1>13. Working' = Working \cup {b} /\ Done' = Done
    <2>1. \A i \in 1 .. NumRecon : recon'[i] = IF i = NumRecon THEN b ELSE recon[i]
      BY <1>2, <1>3
    <2>2. Working' = Working \cup {b}
      BY <1>3, <1>4, <2>1 DEF Working
    <2> QED
      BY <1>2, <1>12, <2>2 DEF Done
  <1>14. \A c \in Buffers :
           pic'[c].content # 0 /\ pic'[c].progress \in {reconstructing, reconstructed} =>
             c \in Working' \cup Done'
    BY <1>10, <1>13 DEF NoneLost, PlacesOK
  <1> QED
    BY <1>2, <1>3, <1>10, <1>11, <1>12, <1>14, StepTold

\* A reference that failed is filled in, and its exception is on parseDone.
LEMMA ExtendFailing ==
  ASSUME NEW p \in Picture, FailingOK(p), p.recon = "none", ~Busy(p),
         p.progress < reconstructed => p.progress = reconstructing
  PROVE  Onward(p, ExtendBorder(p))
  <1>1. PICK q : q = ExtendBorder(p)
    OBVIOUS
  <1>2. p.parse = "ok" => p.parsedSlices >= p.slices
    <2>1. p.slices \in Nat /\ p.parsedSlices \in Nat
      BY DEF Picture
    <2> QED
      BY <2>1 DEF Busy
  <1>3. CASE q = [p EXCEPT !.borderExtStarted = TRUE]
    BY <1>1, <1>3, AlikeOnward DEF Alike, Picture
  <1>4. CASE p.progress = reconstructing /\
             q = [p EXCEPT !.error = TRUE, !.parseDone = Raise(@), !.reconDone = Unlocked,
                           !.progress = reconstructed, !.borderExtStarted = TRUE]
    <2>1. PICK d : d = Raise(p.parseDone)
      OBVIOUS
    <2>2. d.exception
      BY <2>1, Barriers DEF Picture
    <2>3. /\ q.content = p.content /\ q.exceptionThrownOut = p.exceptionThrownOut
          /\ q.error /\ q.parseDone = d /\ q.progress = reconstructed
          /\ q.recon = p.recon /\ q.parse = p.parse /\ q.parsedSlices = p.parsedSlices
          /\ q.slices = p.slices
      BY <1>4, <2>1 DEF Picture
    <2>4. /\ p.progress # init /\ p.progress # finished
          /\ reconstructed # init /\ reconstructed # finished
      BY <1>4 DEF init, reconstructing, reconstructed, finished
    <2>5. FailingOK(q)
      BY <1>2, <2>2, <2>3 DEF FailingOK
    <2> QED
      BY <1>1, <2>3, <2>4, <2>5 DEF Onward
  <1> QED
    BY <1>1, <1>3, <1>4 DEF ExtendBorder

\* Its tasks are added.
LEMMA StartTold ==
  ASSUME Inv, NoneLost, StartTasks
  PROVE  NoneLost'
  <1>1. PICK b : b = main.cur
    OBVIOUS
  <1>2. PICK toExtend : toExtend = {r.buf : r \in pic[b].refs} \cap
                                   {c \in DOMAIN pic : ~pic[c].borderExtStarted}
    OBVIOUS
  <1>3. PICK q : /\ q \in {[pic[b] EXCEPT !.reconDone = Raise(@), !.error = TRUE],
                           [pic[b] EXCEPT !.reconDone = Raise(Locked), !.error = TRUE,
                                          !.recon = "ctus"],
                           [pic[b] EXCEPT !.reconDone = Locked, !.recon = "tasks"]}
                 /\ pic' = [c \in DOMAIN pic |->
                              IF c = b THEN q
                              ELSE IF c \in toExtend /\ pic[c].progress >= parsing
                              THEN ExtendBorder(pic[c]) ELSE pic[c]]
    <2>1. PICK q : q = IF \E c \in toExtend : pic[c].progress < parsing
                       THEN [pic[b] EXCEPT !.reconDone = Raise(@), !.error = TRUE]
                       ELSE IF pic[b].divException
                       THEN [pic[b] EXCEPT !.reconDone = Raise(Locked), !.error = TRUE,
                                           !.recon = "ctus"]
                       ELSE [pic[b] EXCEPT !.reconDone = Locked, !.recon = "tasks"]
      OBVIOUS
    <2>2. pic' = [c \in DOMAIN pic |->
                    IF c = b THEN q
                    ELSE IF c \in toExtend /\ pic[c].progress >= parsing
                    THEN ExtendBorder(pic[c]) ELSE pic[c]]
      BY <1>1, <1>2, <2>1, Zenon DEF StartTasks
    <2> QED
      BY <2>1, <2>2
  <1>4. /\ main.pc = "refs" /\ \A c \in toExtend : ~Busy(pic[c])
        /\ main' = [main EXCEPT !.pc = "finish"]
        /\ UNCHANGED <<stream, nal, started, parseFrameList, recon, reported>>
    BY <1>1, <1>2, Zenon DEF StartTasks, Goto, parserVars, appVars
  <1>5. /\ main \in MainState /\ (main.call = "flush" => EndOfStream)
        /\ PicturesOK /\ Types /\ reported' \in Seq(Nat)
    BY <1>4 DEF Inv, Types, NoneLost, FlushOK, ToldOK
  <1>6. /\ b \in Buffers /\ b # 0 /\ Current = {} /\ pic[b].progress = reconstructing
        /\ pic[b].recon = "none"
    BY <1>1, <1>4, MainTypes DEF Inv, MainOK, WorkOK, Current
  <1>7. PICK p \in Picture : p = pic[b] /\ FailingOK(p)
    BY <1>5, <1>6, Buffered DEF NoneLost, FailuresOK
  <1>8. Onward(p, q) /\ q.progress = reconstructing /\ q.content = p.content
    <2>1. /\ q.content = p.content /\ q.progress = p.progress
          /\ q.exceptionThrownOut = p.exceptionThrownOut
          /\ q.parsedSlices = p.parsedSlices /\ q.recon # "finish"
      BY <1>3, <1>6, <1>7 DEF Picture
    <2>2. reconstructing \notin {init, reconstructed, finished}
      BY DEF init, reconstructing, reconstructed, finished
    <2> QED
      BY <1>6, <1>7, <2>1, <2>2 DEF Onward, FailingOK
  <1>9. ASSUME NEW c \in toExtend, pic[c].progress >= parsing
        PROVE  /\ c \in Buffers /\ pic[c].recon = "none"
               /\ pic[c].progress < reconstructed => pic[c].progress = reconstructing
    <2>1. InUse(b)
      BY <1>6 DEF InUse, reconstructing, reconstructed
    <2>2. c \in Buffers /\ c \notin Listed
      BY <1>1, <1>2, <1>4, <1>6, <2>1 DEF Inv, RefsHeld, RefsTaken
    <2>3. pic[c].recon = "none"
      BY <1>4 DEF Busy
    <2>4. pic[c].progress \notin {parsing, parsed} /\ pic[c].progress \in init .. finished
      BY <1>5, <1>6, <2>2, Buffered DEF Inv, ParsedOK
    <2> QED
      BY <1>9, <2>2, <2>3, <2>4
         DEF init, parsing, parsed, reconstructing, reconstructed, finished
  <1>10. ASSUME NEW c \in Buffers
         PROVE  /\ Onward(pic[c], pic'[c])
                /\ pic'[c].content = pic[c].content
                /\ pic'[c].progress \in {reconstructing, reconstructed} =>
                     pic[c].progress \in {reconstructing, reconstructed}
    <2>1. pic[c] \in Picture /\ FailingOK(pic[c]) /\ pic[c].progress \in init .. finished
      BY <1>5, Buffered DEF NoneLost, FailuresOK
    <2>2. CASE c = b
      BY <1>3, <1>6, <1>7, <1>8, <2>2 DEF Buffers
    <2>3. CASE c # b /\ c \in toExtend /\ pic[c].progress >= parsing
      <3>1. pic'[c] = ExtendBorder(pic[c])
        BY <1>3, <2>3 DEF Buffers
      <3>2. /\ pic[c].recon = "none" /\ ~Busy(pic[c])
            /\ pic[c].progress < reconstructed => pic[c].progress = reconstructing
        BY <1>4, <1>9, <2>3
      <3>3. Onward(pic[c], pic'[c])
        BY <2>1, <3>1, <3>2, ExtendFailing
      <3>4. CASE pic[c].progress < reconstructed
        BY <3>2, <3>3, <3>4 DEF Onward
      <3>5. CASE ~(pic[c].progress < reconstructed)
        <4>1. pic'[c].progress = pic[c].progress
          BY <2>1, <3>1, <3>5 DEF ExtendBorder, Picture
        <4> QED
          BY <3>3, <4>1 DEF Onward
      <3> QED
        BY <3>4, <3>5
    <2>4. CASE c # b /\ ~(c \in toExtend /\ pic[c].progress >= parsing)
      <3>1. pic'[c] = pic[c]
        BY <1>3, <2>4 DEF Buffers
      <3> QED
        BY <2>1, <3>1, AlikeOnward DEF Alike
    <2> QED
      BY <2>2, <2>3, <2>4
  <1>11. /\ main'.pc = "finish" /\ main'.done = main.done /\ main'.call = main.call
    BY <1>4, <1>5 DEF MainState
  <1>12. Working' = Working /\ Done' = Done /\ Buffers' = Buffers
    BY <1>3, <1>4, <1>11 DEF Working, Done, Buffers
  <1>13. \A c \in Buffers :
           pic'[c].content # 0 /\ pic'[c].progress \in {reconstructing, reconstructed} =>
             c \in Working' \cup Done'
    BY <1>10, <1>12 DEF NoneLost, PlacesOK
  <1> QED
    BY <1>4, <1>5, <1>10, <1>11, <1>12, <1>13, StepTold

\* finishPicture leaves the others alike.
LEMMA FinishedAlike ==
  ASSUME NEW q \in Seq(Picture), NEW b \in DOMAIN q, NEW P, P = FinishPicture(b, q)
  PROVE  /\ DOMAIN P = DOMAIN q /\ \A c \in DOMAIN q : P[c] \in Picture
         /\ \A c \in DOMAIN q : c # b => Alike(q[c], P[c])
         /\ P[b].progress = finished /\ P[b].content = q[b].content
         /\ P[b].recon = q[b].recon /\ P[b].parsedSlices = q[b].parsedSlices
  <1>1. /\ \A c \in DOMAIN q : q[c] \in Picture
        /\ \A p \in Picture : Alike(p, p)
    BY ElementOfSeq, LenProperties DEF Alike
  <1>2. finished \in init .. finished /\ Unlocked \in Barrier
    BY States, Barriers
  <1>3. CASE HasError(q[b])
    <2>1. PICK p : p \in Picture /\ p = q[b]
      BY <1>1
    <2>2. PICK x : x = IF p.parseDone.exception \/ p.reconDone.exception
                       THEN [p EXCEPT !.progress = finished, !.reconDone = Unlocked,
                                      !.error = TRUE, !.exceptionThrownOut = TRUE]
                       ELSE [p EXCEPT !.progress = finished]
      OBVIOUS
    <2>3. P = [q EXCEPT ![b] = x]
      BY <1>3, <2>1, <2>2 DEF FinishPicture
    <2>4. /\ x \in Picture /\ x.progress = finished /\ x.content = p.content
          /\ x.recon = p.recon /\ x.parsedSlices = p.parsedSlices
      BY <1>2, <2>1, <2>2 DEF Picture
    <2> QED
      BY <1>1, <2>1, <2>3, <2>4
  <1>4. CASE ~HasError(q[b])
    <2>1. PICK M : M = MarkUnusedPicturesReusable(list, q)
      OBVIOUS
    <2>2. /\ DOMAIN M = DOMAIN q
          /\ \A c \in DOMAIN q : M[c] \in {q[c], [q[c] EXCEPT !.stillReferenced = FALSE]}
      BY <2>1 DEF MarkUnusedPicturesReusable
    <2>3. P = [M EXCEPT ![b].progress = finished]
      BY <1>4, <2>1 DEF FinishPicture
    <2>4. \A c \in DOMAIN q : M[c] \in Picture /\ Alike(q[c], M[c])
      <3>1. ASSUME NEW p \in Picture, NEW x, x = [p EXCEPT !.stillReferenced = FALSE]
            PROVE  x \in Picture /\ Alike(p, x)
        BY <3>1 DEF Picture, Alike
      <3> QED
        BY <1>1, <2>2, <3>1
    <2>5. PICK p : p \in Picture /\ p = M[b]
      BY <2>4
    <2>6. PICK x : x = [p EXCEPT !.progress = finished]
      OBVIOUS
    <2>7. /\ x \in Picture /\ x.progress = finished /\ x.content = p.content
          /\ x.recon = p.recon /\ x.parsedSlices = p.parsedSlices
      BY <1>2, <2>5, <2>6 DEF Picture
    <2>8. P = [M EXCEPT ![b] = x]
      BY <2>2, <2>3, <2>5, <2>6
    <2>9. Alike(q[b], p)
      BY <2>4, <2>5
    <2> QED
      BY <2>2, <2>4, <2>7, <2>8, <2>9 DEF Alike
  <1> QED
    BY <1>3, <1>4

\* A picture that fails and leaves its instance has an exception.
LEMMA FailureThrows ==
  ASSUME NEW p, FailingOK(p), Failing(p.content),
         p.progress \in {reconstructing, reconstructed},
         p.progress = reconstructing => p.reconDone.exception
  PROVE  HasError(p) /\ (p.parseDone.exception \/ p.reconDone.exception)
  BY DEF FailingOK, HasError

\* Another report.
LEMMA ReportedToo ==
  ASSUME NEW s \in Seq(Nat), NEW e \in Nat
  PROVE  Append(s, e) \in Seq(Nat) /\ ToSet(Append(s, e)) = ToSet(s) \cup {e}
  <1>1. PICK n, t : n = Len(s) /\ t = Append(s, e)
    OBVIOUS
  <1>2. /\ t \in Seq(Nat) /\ Len(t) = n + 1 /\ t[n + 1] = e /\ \A i \in 1 .. n : t[i] = s[i]
        /\ n \in Nat /\ DOMAIN s = 1 .. n
    BY <1>1, AppendProperties, LenProperties
  <1>3. DOMAIN t = 1 .. n + 1
    BY <1>2, LenProperties
  <1>4. \A i \in 1 .. n + 1 : i = n + 1 \/ i \in 1 .. n
    BY <1>2
  <1>5. n + 1 \in 1 .. n + 1 /\ \A i \in 1 .. n : i \in 1 .. n + 1
    BY <1>2
  <1> QED
    BY <1>1, <1>2, <1>3, <1>4, <1>5 DEF ToSet

\* A step that finishes picture b: its exception is thrown now, or was.
LEMMA FinishTold ==
  ASSUME Inv, NoneLost, main.pc \in {"error", "finish", "drain"}, NEW b \in Buffers,
         Done \subseteq {b}, Working \subseteq Working' \cup {b},
         UNCHANGED <<stream, nal, started, parseFrameList>>,
         NEW P, DOMAIN P = Buffers, \A c \in Buffers : P[c] \in Picture,
         \A c \in Buffers : c # b => Alike(pic[c], P[c]),
         P[b].progress = finished, P[b].content = pic[b].content,
         P[b].recon = pic[b].recon, P[b].parsedSlices = pic[b].parsedSlices,
         \/ ThrowOut(b, P)
         \/ /\ pic' = P /\ reported' = reported
            /\ Failing(pic[b].content) => pic[b].content \in ToSet(reported)
            /\ main'.pc \in {"retake", "output", "flushed", main.pc}
            /\ main'.pc = "drain" => main.pc = "drain"
            /\ main'.call = main.call
  PROVE  NoneLost'
  <1>1. /\ main'.pc \notin {"head", "lists", "last", "ended"}
        /\ main'.pc = "drain" => main.pc = "drain"
        /\ main'.call = "flush" => EndOfStream
    BY MainStates DEF ThrowOut, NoneLost, FlushOK
  <1>3. /\ DOMAIN pic' = Buffers
        /\ \A c \in Buffers : Alike(P[c], pic'[c])
    <2>1. \A p \in Picture : Alike(p, p) /\ Alike(p, Release(p))
      BY DEF Alike, Release, Picture
    <2>2. pic' \in {P, [P EXCEPT ![main.out] = Release(P[main.out])]}
      BY DEF ThrowOut
    <2> QED
      BY <2>1, <2>2
  <1>4. /\ reported' \in Seq(Nat) /\ \A i \in ToSet(reported) : i \in ToSet(reported')
        /\ Failing(pic[b].content) => pic[b].content \in ToSet(reported')
    <2>1. reported \in Seq(Nat) /\ pic[b].content \in Nat
      BY Buffered DEF NoneLost, ToldOK, Inv
    <2>2. CASE ThrowOut(b, P)
      BY <2>1, <2>2, ReportedToo DEF ThrowOut
    <2> QED
      BY <2>1, <2>2
  <1>5. Onward(pic[b], pic'[b]) /\ pic'[b].progress = finished
    <2>1. /\ pic'[b].progress = finished /\ pic'[b].content = pic[b].content
          /\ pic'[b].recon = pic[b].recon /\ pic'[b].parsedSlices = pic[b].parsedSlices
      BY <1>3 DEF Alike
    <2>2. finished # init /\ finished # reconstructed
      BY DEF init, reconstructed, finished
    <2>3. FailingOK(pic[b])
      BY DEF NoneLost, FailuresOK
    <2> QED
      BY <1>4, <2>1, <2>2, <2>3 DEF Onward, FailingOK
  <1>6. \A c \in Buffers : c # b => Alike(pic[c], pic'[c])
    BY <1>3 DEF Alike
  <1>7. \A c \in Buffers : Onward(pic[c], pic'[c])
    BY <1>5, <1>6, AlikeOnward DEF NoneLost, FailuresOK
  <1>8. \A c \in Buffers :
          pic'[c].content # 0 /\ pic'[c].progress \in {reconstructing, reconstructed} =>
            c \in Working' \cup Done'
    <2>1. finished \notin {reconstructing, reconstructed}
      BY DEF reconstructing, reconstructed, finished
    <2> QED
      BY <1>5, <1>6, <2>1 DEF Alike, NoneLost, PlacesOK
  <1>9. main'.pc \in {"drain", "last", "ended"} => parseFrameList' = <<>>
    BY <1>1 DEF NoneLost, FlushOK
  <1> QED
    BY <1>1, <1>3, <1>4, <1>7, <1>8, <1>9, StepTold DEF Buffers

\* reconPicture finishes the picture it waited for.
LEMMA FinishPrevTold ==
  ASSUME Inv, NoneLost, FinishPrev
  PROVE  NoneLost'
  <1>1. PICK b : b = main.done
    OBVIOUS
  <1>2. PICK P : P = FinishPicture(b, pic)
    OBVIOUS
  <1>3. PICK x \in {"output", "flushed"} :
          x = IF main.call = "decode" THEN "output" ELSE "flushed"
    OBVIOUS
  <1>4. /\ main.pc = "finish" /\ UNCHANGED <<stream, nal, started, parseFrameList, recon>>
        /\ \/ b # 0 /\ ThrowOut(b, P)
           \/ /\ ~(b # 0 /\ Throws(pic[b]))
              /\ pic' = IF b = 0 THEN pic ELSE P
              /\ main' = [main EXCEPT !.pc = x] /\ reported' = reported
    BY <1>1, <1>2, <1>3 DEF FinishPrev, Goto, parserVars, appVars
  <1>5. /\ main \in MainState /\ pic \in Seq(Picture) /\ DOMAIN pic = Buffers
        /\ b \in Buffers \cup {0} /\ Done = {b} \ {0}
        /\ (main.call = "flush" => EndOfStream) /\ reported \in Seq(Nat)
    BY <1>1, <1>4, MainTypes DEF Inv, Types, Buffers, Done, NoneLost, FlushOK, ToldOK
  <1>6. main' = [main EXCEPT !.pc = x] =>
          main'.pc \in {"output", "flushed"} /\ main'.call = main.call
    BY <1>3, <1>5 DEF MainState
  <1>7. Working' = Working
    BY <1>4 DEF Working
  <1>8. CASE b = 0
    <2>1. pic' = pic /\ main' = [main EXCEPT !.pc = x] /\ reported' = reported
      BY <1>4, <1>8
    <2>2. Buffers' = Buffers /\ \A c \in Buffers : Alike(pic[c], pic'[c])
      BY <2>1 DEF Buffers, Alike
    <2> QED
      BY <1>4, <1>5, <1>6, <1>7, <1>8, <2>1, <2>2, AlikeTold
  <1>9. CASE b # 0
    <2>1. b \in Buffers /\ b \in Done
      BY <1>5, <1>9
    <2>2. /\ DOMAIN P = Buffers /\ \A c \in Buffers : P[c] \in Picture
          /\ \A c \in Buffers : c # b => Alike(pic[c], P[c])
          /\ P[b].progress = finished /\ P[b].content = pic[b].content
          /\ P[b].recon = pic[b].recon /\ P[b].parsedSlices = pic[b].parsedSlices
      BY <1>2, <1>5, <2>1, FinishedAlike
    <2>3. ASSUME ~Throws(pic[b]), Failing(pic[b].content)
          PROVE  pic[b].content \in ToSet(reported)
      <3>1. /\ pic[b].progress \in {reconstructing, reconstructed}
            /\ pic[b].progress = reconstructing => pic[b].reconDone.exception
        BY <2>1 DEF Inv, WorkOK
      <3>2. pic[b].exceptionThrownOut
        BY <2>1, <2>3, <3>1, FailureThrows DEF Throws, NoneLost, FailuresOK
      <3>3. pic[b].progress # init
        BY <3>1 DEF init, reconstructing, reconstructed
      <3> QED
        BY <2>1, <2>3, <3>2, <3>3 DEF NoneLost, ToldOK
    <2>4. \/ ThrowOut(b, P)
          \/ /\ pic' = P /\ reported' = reported
             /\ Failing(pic[b].content) => pic[b].content \in ToSet(reported)
             /\ main'.pc \in {"retake", "output", "flushed", main.pc}
             /\ main'.pc = "drain" => main.pc = "drain"
             /\ main'.call = main.call
      BY <1>4, <1>6, <1>9, <2>3
    <2>5. Done \subseteq {b} /\ Working \subseteq Working' \cup {b}
      BY <1>5, <1>7
    <2> QED
      BY <1>4, <2>1, <2>2, <2>4, <2>5, FinishTold
  <1> QED
    BY <1>8, <1>9

\* flushPic finishes the pictures that are in the instances still.
LEMMA DrainTold ==
  ASSUME Inv, NoneLost, Drain
  PROVE  NoneLost'
  <1>1. PICK i : i = SelectInSeq(recon, LAMBDA b : b # 0)
    OBVIOUS
  <1>2. PICK b : b = recon[i]
    OBVIOUS
  <1>3. PICK q : q = [pic EXCEPT ![b] = AfterWait(@)]
    OBVIOUS
  <1>4. PICK P : P = FinishPicture(b, q)
    OBVIOUS
  <1>5. /\ main.pc = "drain" /\ UNCHANGED <<stream, nal, started, parseFrameList>>
        /\ \/ Return(main.out) /\ UNCHANGED <<pic, recon>>
           \/ i = 0 /\ main' = [main EXCEPT !.pc = "last"] /\ UNCHANGED <<pic, recon, reported>>
           \/ /\ i # 0 /\ CanReturn(pic[b]) /\ recon' = [recon EXCEPT ![i] = 0]
              /\ \/ ThrowOut(b, P)
                 \/ ~Throws(q[b]) /\ pic' = P /\ main' = main /\ reported' = reported
    BY <1>1, <1>2, <1>3, <1>4, Zenon DEF Drain, ClearRecon, Goto, parserVars, appVars
  <1>6. /\ Types /\ PicturesOK /\ main \in MainState /\ pic \in Seq(Picture)
        /\ DOMAIN pic = Buffers /\ recon \in [1 .. NumRecon -> Buffers \cup {0}] /\ Done = {}
        /\ (main.call = "flush" => EndOfStream) /\ parseFrameList = <<>>
    BY <1>5 DEF Inv, Types, Buffers, Done, NoneLost, FlushOK
  <1>7. ASSUME UNCHANGED <<pic, recon>>
        PROVE  /\ Working' = Working
               /\ Buffers' = Buffers /\ \A c \in Buffers : Alike(pic[c], pic'[c])
    BY <1>7 DEF Working, Buffers, Alike
  <1>8. CASE Return(main.out) /\ UNCHANGED <<pic, recon>>
    <2>1. main'.pc = "idle" /\ main'.call = "decode" /\ reported' = reported
      BY <1>8, MainStates DEF Return
    <2> QED
      BY <1>5, <1>6, <1>7, <1>8, <2>1, AlikeTold
  <1>9. /\ i # 0 => i \in 1 .. NumRecon /\ b # 0
        /\ i = 0 => Working = {}
    <2> DEFINE I == {j \in 1 .. Len(recon) : recon[j] # 0}
    <2>1. i = IF I # {} THEN Min(I) ELSE 0
      BY <1>1 DEF SelectInSeq
    <2>2. Len(recon) = NumRecon /\ recon \in Seq(Buffers \cup {0})
      BY <1>6, DecLibAssumption, SeqDef, LenProperties
    <2>3. I \in SUBSET Nat
      OBVIOUS
    <2>4. I # {} => i \in I
      BY <2>1, <2>3, LeastMember
    <2>5. i # 0 <=> I # {}
      BY <2>1, <2>4
    <2> QED
      BY <1>2, <2>2, <2>4, <2>5 DEF Working
  <1>10. CASE /\ i = 0 /\ main' = [main EXCEPT !.pc = "last"]
              /\ UNCHANGED <<pic, recon, reported>>
    <2>1. main'.pc = "last" /\ main'.call = main.call
      BY <1>6, <1>10 DEF MainState
    <2> QED
      BY <1>5, <1>6, <1>7, <1>9, <1>10, <2>1, AlikeTold
  <1>11. CASE /\ i # 0 /\ CanReturn(pic[b]) /\ recon' = [recon EXCEPT ![i] = 0]
              /\ \/ ThrowOut(b, P)
                 \/ ~Throws(q[b]) /\ pic' = P /\ main' = main /\ reported' = reported
    <2>1. b \in Buffers /\ b \in Working
      BY <1>2, <1>6, <1>9, <1>11 DEF Working
    <2>2. PICK p \in Picture : p = pic[b] /\ LocalOK(p) /\ FailingOK(p)
      BY <1>6, <2>1, Buffered DEF PicturesOK, NoneLost, FailuresOK
    <2>3. PICK a : a = AfterWait(p)
      OBVIOUS
    <2>4. /\ a \in Picture /\ Alike(p, a) /\ a.wasLost = p.wasLost
          /\ a.reconDone = p.reconDone
      <3>1. p.reconDone.exception \in BOOLEAN
        BY DEF Picture, Barrier
      <3> QED
        BY <2>3, <3>1 DEF AfterWait, Alike, Picture
    <2>5. /\ q \in Seq(Picture) /\ DOMAIN q = Buffers
          /\ \A c \in Buffers : q[c] = IF c = b THEN a ELSE pic[c]
      <3>1. q = [pic EXCEPT ![b] = a]
        BY <1>3, <2>1, <2>2, <2>3 DEF Buffers
      <3> QED
        BY <1>6, <2>1, <2>4, <3>1
    <2>6. /\ DOMAIN P = Buffers /\ \A c \in Buffers : P[c] \in Picture
          /\ \A c \in Buffers : c # b => Alike(pic[c], P[c])
          /\ P[b].progress = finished /\ P[b].content = pic[b].content
          /\ P[b].recon = pic[b].recon /\ P[b].parsedSlices = pic[b].parsedSlices
      <3>1. /\ DOMAIN P = Buffers /\ \A c \in Buffers : P[c] \in Picture
            /\ \A c \in Buffers : c # b => Alike(q[c], P[c])
            /\ P[b].progress = finished /\ P[b].content = q[b].content
            /\ P[b].recon = q[b].recon /\ P[b].parsedSlices = q[b].parsedSlices
        BY <1>4, <2>1, <2>5, FinishedAlike
      <3> QED
        BY <2>1, <2>2, <2>4, <2>5, <3>1 DEF Alike
    <2>7. ASSUME ~Throws(q[b]), Failing(pic[b].content)
          PROVE  pic[b].content \in ToSet(reported)
      <3>1. /\ p.progress \in {reconstructing, reconstructed}
            /\ p.progress = reconstructing => p.reconDone.exception
        BY <1>11, <2>1, <2>2, Returned DEF Inv, WorkOK
      <3>2. HasError(p) /\ (p.parseDone.exception \/ p.reconDone.exception)
        BY <2>2, <2>7, <3>1, FailureThrows
      <3>3. HasError(a) /\ (a.parseDone.exception \/ a.reconDone.exception)
        BY <2>4, <3>2 DEF HasError, Alike
      <3>4. p.exceptionThrownOut
        BY <2>1, <2>4, <2>5, <2>7, <3>3 DEF Throws, Alike
      <3>5. p.progress # init
        BY <3>1 DEF init, reconstructing, reconstructed
      <3> QED
        BY <2>1, <2>2, <2>7, <3>4, <3>5 DEF NoneLost, ToldOK
    <2>8. \/ ThrowOut(b, P)
          \/ /\ pic' = P /\ reported' = reported
             /\ Failing(pic[b].content) => pic[b].content \in ToSet(reported)
             /\ main'.pc \in {"retake", "output", "flushed", main.pc}
             /\ main'.pc = "drain" => main.pc = "drain"
             /\ main'.call = main.call
      BY <1>5, <1>11, <2>7
    <2>9. Working \subseteq Working' \cup {b}
      <3>1. \A j \in 1 .. NumRecon : recon'[j] = recon[j] \/ recon[j] = b
        BY <1>2, <1>6, <1>9, <1>11
      <3> QED
        BY <3>1 DEF Working
    <2> QED
      BY <1>5, <1>6, <2>1, <2>6, <2>8, <2>9, FinishTold
  <1> QED
    BY <1>5, <1>8, <1>10, <1>11

\* decode gives a picture up: it throws its exception, if that was not done.
LEMMA HandleErrorTold ==
  ASSUME Inv, NoneLost, HandleErrorPicture
  PROVE  NoneLost'
  <1>1. PICK b : b = main.cur
    OBVIOUS
  <1>2. PICK h : h = main.hasException
    OBVIOUS
  <1>3. /\ main.pc = "error" /\ ~Busy(pic[b])
        /\ UNCHANGED <<stream, nal, started, parseFrameList, recon>>
    BY <1>1 DEF HandleErrorPicture, parserVars
  <1>4. /\ Types /\ PicturesOK /\ pic \in Seq(Picture) /\ DOMAIN pic = Buffers
        /\ main \in MainState /\ MainOK /\ RetakeOK
    BY DEF Inv, Types, Buffers
  <1>5. b \in Buffers /\ h \in BOOLEAN
    BY <1>1, <1>2, <1>3, <1>4, MainTypes DEF MainOK, MainState
  <1>6. PICK p \in Picture : p = pic[b] /\ LocalOK(p) /\ p.progress \in {parsing, parsed}
    <2>1. b \in Current
      BY <1>1, <1>3 DEF Current
    <2> QED
      BY <1>4, <1>5, <2>1, Buffered DEF Inv, ParsedOK, PicturesOK
  <1>7. PICK e : e = (p.error \/ h)
    OBVIOUS
  <1>8. PICK d : d = [p.parseDone EXCEPT !.exception = @ /\ ~h]
    OBVIOUS
  <1>9. PICK u : u = Unlocked
    OBVIOUS
  <1>10. PICK grey : grey = [p EXCEPT !.error = e, !.parseDone = d, !.progress = reconstructed,
                                      !.reconDone = u]
    OBVIOUS
  <1>11. PICK q : q = [pic EXCEPT ![b] = grey]
    OBVIOUS
  <1>12. PICK P : P = FinishPicture(b, q)
    OBVIOUS
  <1>13. PICK Q : Q = [P EXCEPT ![b].exceptionThrownOut = TRUE]
    OBVIOUS
  <1>14. \/ ThrowOut(b, Q)
         \/ /\ ~h /\ ~Throws(grey) /\ pic' = P /\ reported' = reported
            /\ main' = [main EXCEPT !.pc = "retake"]
    <2>1. ~(p.progress < parsing) /\ ~(p.progress >= reconstructing)
      BY <1>6 DEF parsing, parsed, reconstructing
    <2>2. grey = [p EXCEPT !.error = @ \/ h, !.parseDone.exception = @ /\ ~h,
                           !.progress = reconstructed, !.reconDone = Unlocked]
      BY <1>7, <1>8, <1>9, <1>10
    <2>3. ~(h /\ p.exceptionThrownOut)
      BY <1>1, <1>2, <1>3, <1>4, <1>6 DEF RetakeOK
    <2> QED
      BY <1>1, <1>2, <1>6, <1>11, <1>12, <1>13, <2>1, <2>2, <2>3, Zenon
         DEF HandleErrorPicture, Goto, appVars
  <1>15. /\ grey \in Picture /\ grey.content = p.content /\ grey.error = e
         /\ grey.exceptionThrownOut = p.exceptionThrownOut
         /\ grey.recon = p.recon /\ grey.parsedSlices = p.parsedSlices
         /\ ~h => grey.parseDone.exception = p.parseDone.exception
    <2>1. p.parseDone \in Barrier /\ p.error \in BOOLEAN /\ reconstructed \in init .. finished
      BY States DEF Picture
    <2>2. e \in BOOLEAN /\ u \in Barrier
      BY <1>5, <1>7, <1>9, <2>1, Barriers
    <2>3. d \in Barrier /\ (~h => d.exception = p.parseDone.exception)
      BY <1>5, <1>8, <2>1 DEF Barrier
    <2> QED
      BY <1>10, <2>1, <2>2, <2>3 DEF Picture
  <1>16. /\ q \in Seq(Picture) /\ DOMAIN q = Buffers
         /\ \A c \in Buffers : q[c] = IF c = b THEN grey ELSE pic[c]
    BY <1>4, <1>5, <1>11, <1>15
  <1>17. /\ DOMAIN P = Buffers /\ \A c \in Buffers : P[c] \in Picture
         /\ \A c \in Buffers : c # b => Alike(pic[c], P[c])
         /\ P[b].progress = finished /\ P[b].content = pic[b].content
         /\ P[b].recon = pic[b].recon /\ P[b].parsedSlices = pic[b].parsedSlices
    <2>1. /\ DOMAIN P = Buffers /\ \A c \in Buffers : P[c] \in Picture
          /\ \A c \in Buffers : c # b => Alike(q[c], P[c])
          /\ P[b].progress = finished /\ P[b].content = q[b].content
          /\ P[b].recon = q[b].recon /\ P[b].parsedSlices = q[b].parsedSlices
      BY <1>5, <1>12, <1>16, FinishedAlike
    <2> QED
      BY <1>5, <1>6, <1>15, <1>16, <2>1
  <1>18. /\ DOMAIN Q = Buffers /\ \A c \in Buffers : Q[c] \in Picture
         /\ \A c \in Buffers : c # b => Alike(pic[c], Q[c])
         /\ Q[b].progress = finished /\ Q[b].content = pic[b].content
         /\ Q[b].recon = pic[b].recon /\ Q[b].parsedSlices = pic[b].parsedSlices
    <2>1. PICK x \in Picture : x = P[b]
      BY <1>5, <1>17
    <2>2. PICK y : y = [x EXCEPT !.exceptionThrownOut = TRUE]
      OBVIOUS
    <2>3. /\ y \in Picture /\ y.progress = x.progress /\ y.content = x.content
          /\ y.recon = x.recon /\ y.parsedSlices = x.parsedSlices
      BY <2>2 DEF Picture
    <2>4. Q = [P EXCEPT ![b] = y]
      BY <1>5, <1>13, <1>17, <2>1, <2>2
    <2> QED
      BY <1>5, <1>17, <2>1, <2>3, <2>4
  <1>19. Done \subseteq {b} /\ Working \subseteq Working' \cup {b}
    BY <1>3 DEF Done, Working
  <1>20. CASE ThrowOut(b, Q)
    BY <1>3, <1>5, <1>18, <1>19, <1>20, FinishTold
  <1>21. CASE /\ ~h /\ ~Throws(grey) /\ pic' = P /\ reported' = reported
              /\ main' = [main EXCEPT !.pc = "retake"]
    <2>1. main'.pc = "retake" /\ main'.call = main.call
      BY <1>4, <1>21 DEF MainState
    <2>2. ASSUME Failing(pic[b].content)
          PROVE  pic[b].content \in ToSet(reported)
      <3>1. p.error /\ grey.error
        BY <1>1, <1>2, <1>3, <1>4, <1>6, <1>7, <1>15, <1>21 DEF RetakeOK
      <3>2. p.exceptionThrownOut
        <4> SUFFICES ASSUME ~p.exceptionThrownOut PROVE FALSE
          OBVIOUS
        <4>1. p.parse \in {"throwing", "failed"}
          BY <1>6, <3>1 DEF LocalOK
        <4>2. p.parse = "failed"
          BY <1>3, <1>6, <4>1 DEF Busy
        <4>3. p.parseDone.exception
          BY <1>6, <4>2 DEF LocalOK
        <4> QED
          BY <1>15, <1>21, <3>1, <4>3 DEF Throws, HasError
      <3>3. p.progress # init
        BY <1>6 DEF init, parsing, parsed
      <3> QED
        BY <1>5, <1>6, <2>2, <3>2, <3>3 DEF NoneLost, ToldOK
    <2> QED
      BY <1>3, <1>5, <1>17, <1>19, <1>21, <2>1, <2>2, FinishTold
  <1> QED
    BY <1>14, <1>20, <1>21

\* A buffer is given to another picture when the one in it is finished, or was
\* lost.
LEMMA ReusedFinished ==
  ASSUME Inv, NEW f \in Buffers, NEW p, SameBut(pic[f], p, {"dpbReferenceMark"}), Reusable(p)
  PROVE  pic[f].content = 0 \/ pic[f].progress = finished
  <1>1. /\ pic[f].progress >= reconstructed /\ ~pic[f].stillReferenced
        /\ ~pic[f].neededForOutput
    BY DEF SameBut, Fields, Reusable
  <1>2. LocalOK(pic[f]) /\ pic[f].progress \in init .. finished
    BY Buffered DEF Inv, PicturesOK
  <1>3. CASE pic[f].progress < finished
    BY <1>1, <1>2, <1>3 DEF LocalOK
  <1>4. CASE ~(pic[f].progress < finished)
    BY <1>2, <1>4 DEF init, finished
  <1> QED
    BY <1>3, <1>4

\* A buffer is taken, for a lost picture or for the one that arrives.
LEMMA BufferTold ==
  ASSUME Inv, NoneLost, main.pc = "head",
         UNCHANGED <<stream, nal, started, recon, reported, parseFrameList>>,
         NEW f, DOMAIN pic' = Buffers \cup {f},
         f \in Buffers => pic[f].content = 0 \/ pic[f].progress = finished,
         \A c \in Buffers : c # f => Alike(pic[c], pic'[c]),
         main'.call = main.call,
         \/ /\ pic'[f].content = 0 /\ pic'[f].progress = reconstructed /\ main'.pc = "head"
         \/ /\ pic'[f].content = nal[1] /\ pic'[f].progress = init
            /\ pic'[f].recon = "none" /\ pic'[f].parsedSlices = 0
            /\ main'.pc = "lists" /\ parsePic' = f
  PROVE  NoneLost'
  <1>1. /\ main.call = "decode" /\ started /\ Types /\ nal[1] \in Nat \ {0}
        /\ reported \in Seq(Nat)
    BY DEF Inv, Types, MainOK, NoneLost, FlushOK, ToldOK
  <1>2. init \notin {reconstructing, reconstructed, finished} /\ reconstructed # finished
    BY DEF init, reconstructing, reconstructed, finished
  <1>3. ~Failing(0)
    BY <1>1, Streaming DEF Failing
  <1>4. \A c \in Buffers : c # f => FailingOK(pic'[c])
    BY AlikeOnward DEF Onward, NoneLost, FailuresOK
  <1>5. FailingOK(pic'[f])
    BY <1>2, <1>3 DEF FailingOK
  <1>6. FailuresOK'
    <2>1. \A c \in DOMAIN pic' : FailingOK(pic'[c])
      BY <1>4, <1>5
    <2> QED
      BY <2>1 DEF FailuresOK, FailingOK, Failing, Buffers
  <1>7. Working' = Working /\ Done = {}
    BY DEF Working, Done
  <1>8. PlacesOK'
    <2>1. ASSUME NEW c \in Buffers, c # f
          PROVE  /\ pic'[c].content # 0 /\ pic'[c].progress \in {reconstructing, reconstructed} =>
                      c \in Working'
                 /\ pic'[c].progress = init => pic'[c].exceptionThrownOut
      BY <1>7, <2>1 DEF NoneLost, PlacesOK, Alike
    <2>2. /\ pic'[f].content # 0 => pic'[f].progress \notin {reconstructing, reconstructed}
          /\ pic'[f].progress = init => main'.pc = "lists" /\ f = parsePic'
      BY <1>2
    <2> QED
      BY <2>1, <2>2 DEF PlacesOK, Buffers
  <1>9. FlushOK'
    BY <1>1 DEF FlushOK
  <1>10. \A c \in DOMAIN pic' :
           Failing(pic'[c].content) /\ pic'[c].progress # init /\ pic'[c].exceptionThrownOut =>
             pic'[c].content \in ToSet(reported)
    <2>1. \A c \in Buffers : c # f =>
            (Failing(pic'[c].content) /\ pic'[c].progress # init /\ pic'[c].exceptionThrownOut =>
               pic'[c].content \in ToSet(reported))
      BY DEF NoneLost, ToldOK, Alike
    <2> QED
      BY <1>3, <2>1
  <1>11. ASSUME NEW i \in DOMAIN stream, Failing(i), Arrived(i), Begun(i, nal, main'.pc)
         PROVE  \/ i \in ToSet(reported)
                \/ \E c \in DOMAIN pic' : pic'[c].content = i /\ pic'[c].progress # finished
    <2>1. CASE Begun(i, nal, main.pc)
      <3>1. CASE i \in ToSet(reported)
        BY <3>1
      <3>2. CASE i \notin ToSet(reported)
        <4>1. PICK c \in Buffers : pic[c].content = i /\ pic[c].progress # finished
          BY <1>11, <2>1, <3>2 DEF NoneLost, ToldOK
        <4>2. c # f
          BY <1>3, <1>11, <4>1
        <4> QED
          BY <4>1, <4>2 DEF Alike
      <3> QED
        BY <3>1, <3>2
    <2>2. CASE ~Begun(i, nal, main.pc)
      <3>1. i = nal[1] /\ main'.pc = "lists"
        BY <1>11, <2>2 DEF Begun
      <3> QED
        BY <1>2, <3>1
    <2> QED
      BY <2>1, <2>2
  <1>12. ToldOK'
    BY <1>1, <1>10, <1>11 DEF ToldOK, Failing, Arrived, Buffers
  <1> QED
    BY <1>6, <1>8, <1>9, <1>12 DEF NoneLost

\* A picture that was lost has no exception.
LEMMA PrepareTold ==
  ASSUME Inv, NoneLost, PrepareUnavailablePicture
  PROVE  NoneLost'
  <1>1. /\ main.pc = "head" /\ main' = main
        /\ UNCHANGED <<stream, nal, started, recon, reported, parseFrameList>>
    BY DEF PrepareUnavailablePicture, appVars
  <1>2. PICK f : LostIn(f)
    BY PrepareBuffer
  <1>3. \A b \in Buffers : b # f => Alike(pic[b], pic'[b])
    BY <1>2 DEF LostIn, Alike
  <1>4. f \in Buffers => pic[f].content = 0 \/ pic[f].progress = finished
    BY <1>2, ReusedFinished DEF LostIn, SameBut
  <1> QED
    BY <1>1, <1>2, <1>3, <1>4, BufferTold DEF LostIn

\* The picture that arrives is not finished.
LEMMA ActivateTold ==
  ASSUME Inv, NoneLost, ActivatePicture
  PROVE  NoneLost'
  <1>1. /\ main.pc = "head" /\ main' = [main EXCEPT !.pc = "lists"]
        /\ UNCHANGED <<stream, nal, started, recon, reported, parseFrameList>>
    BY DEF ActivatePicture, Goto, appVars
  <1>2. PICK f, q : ArrivesIn(f, q)
    BY ActivateBuffer
  <1>3. \A b \in Buffers : b # f => Alike(pic[b], pic'[b])
    BY <1>2 DEF ArrivesIn, SameBut, Fields, Alike
  <1>4. f \in Buffers => pic[f].content = 0 \/ pic[f].progress = finished
    BY <1>2, ReusedFinished DEF ArrivesIn
  <1>5. main'.pc = "lists" /\ main'.call = main.call
    BY <1>1, MainTypes DEF MainState
  <1> QED
    BY <1>1, <1>2, <1>3, <1>4, <1>5, BufferTold DEF ArrivesIn

\* The step of a slice.
LEMMA SliceTold ==
  ASSUME Inv, NoneLost, main.pc \in {"idle", "lists"}, UNCHANGED <<stream, recon>>,
         Buffers' = Buffers, reported' \in Seq(Nat),
         \A i \in ToSet(reported) : i \in ToSet(reported'),
         \A b \in Buffers : Onward(pic[b], pic'[b]),
         \A b \in Buffers :
           pic'[b].progress \in {reconstructing, reconstructed} =>
             pic'[b].progress = pic[b].progress,
         \A b \in Buffers : pic'[b].progress = init => pic'[b].exceptionThrownOut,
         \A i \in DOMAIN stream :
           Begun(i, nal', main'.pc) => Begun(i, nal, main.pc) \/ ~Arrived(i),
         main'.pc \in {"idle", "head", "take"}, main'.call = "decode",
         main'.pc = "head" => started',
         ~started' => \A i \in DOMAIN stream : Begun(i, nal', main'.pc) => ~stream[i].idr
  PROVE  NoneLost'
  <1>1. FailuresOK' /\ ToldOK'
    BY ToldKept
  <1>2. Working' = Working /\ Done = {}
    BY DEF Working, Done
  <1>3. PlacesOK'
    BY <1>2 DEF NoneLost, PlacesOK, Onward
  <1>4. FlushOK'
    BY DEF FlushOK
  <1> QED
    BY <1>1, <1>3, <1>4 DEF NoneLost

\* What has begun after a slice is the slice's picture, or was before it.
LEMMA BegunBefore ==
  ASSUME Types, nal' = NextNal, main'.pc \in {"idle", "take"}
  PROVE  \A i \in DOMAIN stream : Begun(i, nal', main'.pc) => i < nal[1] \/ i = nal[1]
  <1>1. PICK n, k : n \in Nat \ {0} /\ k \in Nat \ {0} /\ nal = <<n, k>>
    BY DEF Types
  <1>2. nal[1] = n /\ nal[2] = k
    BY <1>1
  <1>3. \A i \in DOMAIN stream : i \in Nat
    BY Streaming
  <1>4. CASE nal' = <<n, k + 1>>
    <2>1. nal'[1] = n
      BY <1>4
    <2> QED
      BY <1>2, <2>1 DEF Begun
  <1>5. CASE nal' = <<n + 1, 1>>
    <2>1. nal'[1] = n + 1 /\ nal'[2] = 1
      BY <1>5
    <2> QED
      BY <1>1, <1>2, <1>3, <2>1 DEF Begun
  <1> QED
    BY <1>2, <1>4, <1>5 DEF NextNal

\* The first slice of the picture.
LEMMA DecodeFirstSliceTold ==
  ASSUME Inv, NoneLost, DecodeFirstSlice
  PROVE  NoneLost'
  <1>1. PICK c : c = stream[nal[1]]
    OBVIOUS
  <1>2. PICK q : q = ConstructRefPicLists(c)
    OBVIOUS
  <1>3. PICK f : f = parsePic
    OBVIOUS
  <1>4. /\ main.pc = "lists" /\ nal' = NextNal
        /\ UNCHANGED <<stream, recon, started, reported>>
        /\ main' \in {Idle, [Idle EXCEPT !.pc = "take"]}
        /\ \/ pic' = [q EXCEPT ![f] = MarkThrown(@)]
           \/ pic' = [q EXCEPT ![f].progress = parsing, ![f].slices = 1]
    BY <1>1, <1>2, <1>3 DEF DecodeFirstSlice, appVars
  <1>5. /\ Types /\ f \in Buffers /\ Fresh(pic[f]) /\ c \in CodedPicture
        /\ nal[1] \in DOMAIN stream
    <2>1. Types /\ f \in Buffers /\ Fresh(pic[f]) /\ nal[1] \in DOMAIN stream
      BY <1>3, <1>4 DEF Inv, Types, HeadOK, MainOK
    <2> QED
      BY <1>1, <2>1, Streaming
  <1>6. /\ q \in Seq(Picture) /\ DOMAIN q = Buffers
        /\ \A b \in Buffers : SameBut(pic[b], q[b], {"stillReferenced", "refs"})
    BY <1>2, <1>4, <1>5, Constructed
  <1>7. \A b \in Buffers : Alike(pic[b], q[b])
    BY <1>6 DEF SameBut, Fields, Alike
  <1>8. PICK p \in Picture : p = q[f]
    BY <1>5, <1>6
  <1>9. /\ p.progress = init /\ ~p.exceptionThrownOut /\ FailingOK(p)
        /\ p.content = pic[f].content /\ pic[f].progress = init
    <2>1. FailingOK(p)
      BY <1>5, <1>7, <1>8, AlikeOnward DEF NoneLost, FailuresOK, Onward
    <2> QED
      BY <1>5, <1>7, <1>8, <2>1 DEF Fresh, Alike
  <1>10. PICK z : z = IF pic' = [q EXCEPT ![f] = MarkThrown(@)] THEN MarkThrown(p)
                      ELSE [p EXCEPT !.progress = parsing, !.slices = 1]
    OBVIOUS
  <1>11. pic' = [q EXCEPT ![f] = z]
    BY <1>4, <1>5, <1>6, <1>8, <1>10
  <1>12. /\ z.content = p.content /\ z.recon = p.recon /\ z.parsedSlices = p.parsedSlices
         /\ \/ z.progress = init /\ z.exceptionThrownOut
            \/ z.progress = parsing /\ ~z.exceptionThrownOut
    BY <1>9, <1>10 DEF MarkThrown, Picture
  <1>13. parsing \notin {init, reconstructing, reconstructed, finished}
         /\ init \notin {reconstructing, reconstructed, finished}
    BY DEF init, parsing, reconstructing, reconstructed, finished
  <1>14. Onward(pic[f], z)
    <2>1. FailingOK(z)
      BY <1>9, <1>12, <1>13 DEF FailingOK
    <2> QED
      BY <1>5, <1>9, <1>12, <1>13, <2>1 DEF Onward, Fresh
  <1>15. Buffers' = Buffers /\ \A b \in Buffers : pic'[b] = IF b = f THEN z ELSE q[b]
    BY <1>5, <1>6, <1>11 DEF Buffers
  <1>16. \A b \in Buffers : Onward(pic[b], pic'[b])
    <2>1. \A b \in Buffers : b # f => Onward(pic[b], pic'[b])
      BY <1>7, <1>15, AlikeOnward DEF NoneLost, FailuresOK
    <2> QED
      BY <1>5, <1>14, <1>15, <2>1
  <1>17. \A b \in Buffers :
           /\ pic'[b].progress \in {reconstructing, reconstructed} =>
                pic'[b].progress = pic[b].progress
           /\ pic'[b].progress = init => pic'[b].exceptionThrownOut
    <2>1. \A b \in Buffers : b # f => Alike(pic[b], pic'[b])
      BY <1>7, <1>15
    <2> QED
      BY <1>3, <1>12, <1>13, <1>15, <2>1 DEF Alike, NoneLost, PlacesOK
  <1>18. main'.pc \in {"idle", "take"} /\ main'.call = "decode"
    BY <1>4, MainStates, Calls
  <1>19. \A i \in DOMAIN stream : Begun(i, nal', main'.pc) => Begun(i, nal, main.pc)
    BY <1>4, <1>5, <1>18, BegunBefore DEF Begun
  <1>20. started /\ reported \in Seq(Nat)
    BY <1>4 DEF NoneLost, FlushOK, ToldOK
  <1> QED
    BY <1>4, <1>15, <1>16, <1>17, <1>18, <1>19, <1>20, SliceTold

\* A later slice.
LEMMA NextSliceTold ==
  ASSUME Inv, NoneLost, Decode, NEW i, i = nal[1], NEW k, k = nal[2], k # 1, started',
         DecodeNextSlice(i, k)
  PROVE  NoneLost'
  <1>1. PICK f : f = parsePic
    OBVIOUS
  <1>2. /\ main.pc = "idle" /\ UNCHANGED <<stream, recon>>
        /\ started' = (started \/ stream[i].idr)
    BY DEF Decode
  <1>3. /\ Types /\ PicturesOK /\ DOMAIN pic = Buffers /\ pic \in Seq(Picture)
        /\ i \in Nat \ {0} /\ k \in Nat \ {0} /\ reported \in Seq(Nat)
    BY DEF Inv, Types, Buffers, NoneLost, ToldOK
  <1>4. /\ f \in Buffers /\ pic[f].content = i /\ k > 1
        /\ pic[f].progress \in {init, parsing, parsed}
    <2>1. nal[1] = i /\ nal[2] = k
      OBVIOUS
    <2>2. k > 1
      BY <1>3
    <2>3. started \/ stream[nal[1]].idr
      BY <1>2, <2>1
    <2>4. /\ parsePic # 0 /\ pic[parsePic].content = nal[1]
          /\ pic[parsePic].progress \in {init, parsing, parsed}
      BY <2>1, <2>2, <2>3 DEF Inv, HeadOK
    <2> QED
      BY <1>1, <1>3, <2>1, <2>2, <2>4 DEF Types
  <1>5. PICK p \in Picture : p = pic[f] /\ LocalOK(p) /\ FailingOK(p)
    BY <1>3, <1>4, Buffered DEF PicturesOK, NoneLost, FailuresOK
  <1>6. PICK out : out = stream[i].out
    OBVIOUS
  <1>7. /\ nal' = NextNal /\ main' \in {Idle, [Idle EXCEPT !.pc = "take"]}
        /\ \/ /\ pic' = [pic EXCEPT ![f] = MarkThrown(@)]
              /\ stream[i].fault = "head" \/ p.progress = init \/ p.divException
           \/ /\ pic' = [pic EXCEPT ![f].slices = k, ![f].neededForOutput = out]
              /\ ~p.divException /\ p.progress # init
        /\ reported' = IF p.divException THEN Append(reported, i) ELSE reported
    BY <1>1, <1>5, <1>6 DEF DecodeNextSlice
  <1>8. PICK z : z = IF /\ pic' = [pic EXCEPT ![f] = MarkThrown(@)]
                        /\ stream[i].fault = "head" \/ p.progress = init \/ p.divException
                     THEN MarkThrown(p)
                     ELSE [p EXCEPT !.slices = k, !.neededForOutput = out]
    OBVIOUS
  <1>9. pic' = [pic EXCEPT ![f] = z]
    BY <1>3, <1>4, <1>5, <1>7, <1>8
  <1>10. /\ z.content = p.content /\ z.progress = p.progress
         /\ z.recon = p.recon /\ z.parsedSlices = p.parsedSlices
         /\ \/ /\ z.exceptionThrownOut
               /\ stream[i].fault = "head" \/ p.progress = init \/ p.divException
            \/ z.exceptionThrownOut = p.exceptionThrownOut /\ p.progress # init
    <2>1. CASE z = MarkThrown(p)
      <3>1. /\ MarkThrown(p).content = p.content /\ MarkThrown(p).progress = p.progress
            /\ MarkThrown(p).exceptionThrownOut /\ MarkThrown(p).recon = p.recon
            /\ MarkThrown(p).parsedSlices = p.parsedSlices
        BY <1>5 DEF MarkThrown, Picture
      <3>2. [p EXCEPT !.slices = k, !.neededForOutput = out].exceptionThrownOut
              = p.exceptionThrownOut
        BY <1>5 DEF Picture
      <3> QED
        BY <1>7, <1>8, <2>1, <3>1, <3>2
    <2>2. CASE z # MarkThrown(p)
      <3>1. z = [p EXCEPT !.slices = k, !.neededForOutput = out] /\ p.progress # init
        BY <1>7, <1>8, <2>2
      <3> QED
        BY <1>5, <3>1 DEF Picture
    <2> QED
      BY <2>1, <2>2
  <1>11. /\ reported' \in Seq(Nat) /\ \A j \in ToSet(reported) : j \in ToSet(reported')
         /\ p.divException => i \in ToSet(reported')
    BY <1>3, <1>7, ReportedToo
  <1>12. p.progress \notin {reconstructing, reconstructed, finished}
    BY <1>4, <1>5 DEF init, parsing, parsed, reconstructing, reconstructed, finished
  <1>13. Onward(p, z)
    <2>1. FailingOK(z)
      BY <1>5, <1>10, <1>12 DEF FailingOK
    <2>2. Failing(p.content) => stream[i].fault # "head"
      BY <1>4, <1>5 DEF Failing
    <2> QED
      BY <1>4, <1>5, <1>10, <1>11, <1>12, <2>1, <2>2 DEF Onward
  <1>14. Buffers' = Buffers /\ \A b \in Buffers : pic'[b] = IF b = f THEN z ELSE pic[b]
    BY <1>3, <1>4, <1>9 DEF Buffers
  <1>15. \A b \in Buffers : Onward(pic[b], pic'[b])
    <2>1. \A b \in Buffers : b # f => Onward(pic[b], pic'[b])
      BY <1>14, AlikeOnward DEF Alike, NoneLost, FailuresOK
    <2> QED
      BY <1>4, <1>5, <1>13, <1>14, <2>1
  <1>16. \A b \in Buffers :
           /\ pic'[b].progress = pic[b].progress
           /\ pic'[b].progress = init => pic'[b].exceptionThrownOut
    BY <1>2, <1>5, <1>10, <1>14 DEF NoneLost, PlacesOK
  <1>17. main'.pc \in {"idle", "take"} /\ main'.call = "decode"
    BY <1>7, MainStates, Calls
  <1>18. \A j \in DOMAIN stream : Begun(j, nal', main'.pc) => Begun(j, nal, main.pc)
    BY <1>3, <1>4, <1>7, <1>17, BegunBefore DEF Begun
  <1> QED
    BY <1>2, <1>11, <1>14, <1>15, <1>16, <1>17, <1>18, SliceTold

\* The pictures before the first IDR picture are skipped: none of them arrives.
LEMMA SkippedBefore ==
  ASSUME Inv, NoneLost, Decode, ~started'
  PROVE  \A j \in DOMAIN stream : Begun(j, nal', main'.pc) => ~Arrived(j) /\ ~stream[j].idr
  <1>1. PICK i : i = nal[1]
    OBVIOUS
  <1>2. /\ Types /\ i \in Nat \ {0} /\ Len(stream) \in Nat /\ DOMAIN stream = 1 .. Len(stream)
        /\ i \in 1 .. Len(stream) /\ started \in BOOLEAN
    <2>1. Types /\ i \in Nat \ {0} /\ started \in BOOLEAN
      BY <1>1 DEF Inv, Types
    <2> QED
      BY <1>1, <2>1, Streaming DEF Decode, EndOfStream
  <1>3. main' = Idle /\ nal' = NextNal /\ ~started /\ ~stream[i].idr
    BY <1>1, <1>2 DEF Decode, SkipSlice
  <1>4. \A j \in DOMAIN stream : Begun(j, nal', main'.pc) => j < i \/ j = i
    BY <1>1, <1>2, <1>3, MainStates, BegunBefore
  <1>5. \A j \in 1 .. i : ~stream[j].idr
    <2>1. \A j \in DOMAIN stream : Begun(j, nal, main.pc) => ~stream[j].idr
      BY <1>3 DEF NoneLost, FlushOK, Decode
    <2>2. \A j \in 1 .. i : j \in DOMAIN stream /\ (j < i \/ j = i)
      BY <1>2
    <2> QED
      BY <1>1, <1>3, <2>1, <2>2 DEF Begun
  <1>6. \A j \in DOMAIN stream :
          Begun(j, nal', main'.pc) => j \in 1 .. i /\ \A m \in 1 .. j : m \in 1 .. i
    BY <1>2, <1>4
  <1> QED
    BY <1>5, <1>6 DEF Arrived

\* The slice that comes next.
LEMMA DecodeTold ==
  ASSUME Inv, NoneLost, Decode
  PROVE  NoneLost'
  <1>1. PICK i, k : i = nal[1] /\ k = nal[2]
    OBVIOUS
  <1>2. /\ main.pc = "idle" /\ ~EndOfStream /\ UNCHANGED <<stream, recon, parsePic>>
        /\ started' = (started \/ stream[i].idr)
        /\ \/ ~started' /\ main' = Idle /\ nal' = NextNal /\ UNCHANGED <<pic, reported>>
           \/ started' /\ k = 1 /\ main' = [Idle EXCEPT !.pc = "head"]
              /\ UNCHANGED <<nal, pic, reported>>
           \/ started' /\ k # 1 /\ DecodeNextSlice(i, k)
    BY <1>1 DEF Decode, SkipSlice
  <1>3. /\ Types /\ i \in Nat \ {0} /\ k \in Nat \ {0} /\ reported \in Seq(Nat)
        /\ Len(stream) \in Nat /\ DOMAIN stream = 1 .. Len(stream)
        /\ started \in BOOLEAN
    <2>1. /\ Types /\ i \in Nat \ {0} /\ k \in Nat \ {0} /\ reported \in Seq(Nat)
          /\ started \in BOOLEAN
      BY <1>1 DEF Inv, Types, NoneLost, ToldOK
    <2> QED
      BY <2>1, Streaming
  <1>4. i \in 1 .. Len(stream)
    BY <1>1, <1>2, <1>3 DEF EndOfStream
  <1>5. ASSUME pic' = pic
        PROVE  /\ Buffers' = Buffers /\ \A b \in Buffers : Onward(pic[b], pic'[b])
               /\ \A b \in Buffers : pic'[b].progress = init => pic'[b].exceptionThrownOut
    BY <1>2, <1>5, AlikeOnward DEF Buffers, Alike, NoneLost, FailuresOK, PlacesOK
  <1>6. CASE ~started' /\ main' = Idle /\ nal' = NextNal /\ UNCHANGED <<pic, reported>>
    <2>1. main'.pc = "idle" /\ main'.call = "decode"
      BY <1>6, MainStates
    <2> QED
      BY <1>2, <1>3, <1>5, <1>6, <2>1, SkippedBefore, SliceTold
  <1>7. CASE /\ started' /\ k = 1 /\ main' = [Idle EXCEPT !.pc = "head"]
             /\ UNCHANGED <<nal, pic, reported>>
    <2>1. main'.pc = "head" /\ main'.call = "decode"
      BY <1>7, Calls
    <2>2. \A j \in DOMAIN stream : Begun(j, nal', main'.pc) => Begun(j, nal, main.pc)
      BY <1>7, <2>1 DEF Begun
    <2> QED
      BY <1>2, <1>3, <1>5, <1>7, <2>1, <2>2, SliceTold
  <1>8. CASE started' /\ k # 1 /\ DecodeNextSlice(i, k)
    BY <1>1, <1>8, NextSliceTold
  <1> QED
    BY <1>2, <1>6, <1>7, <1>8

\* Every step keeps it.
LEMMA NextTold ==
  ASSUME Inv, NoneLost, [Next]_vars
  PROVE  NoneLost'
  <1>1. CASE MainStep
    BY <1>1, PrepareTold, ActivateTold, DecodeFirstSliceTold, TakeTold, HandleErrorTold,
       RotateTold, WaitTold, DecompressTold, StartTold, FinishPrevTold, OutputTold, DrainTold
       DEF MainStep
  <1>2. CASE Decode
    BY <1>2, DecodeTold
  <1>3. CASE FlushPic
    BY <1>3, OutputTold
  <1>4. CASE SomeTask
    <2>1. PICK b \in Buffers : Worker(b)
      BY <1>4 DEF SomeTask, Buffers
    <2> QED
      BY <2>1, TaskTold
  <1>5. CASE \E h \in held : Unref(h)
    BY <1>5, UnrefTold
  <1>6. CASE UNCHANGED vars
    <2>1. /\ UNCHANGED <<stream, nal, main, parsePic, started, recon, parseFrameList, reported,
                         pic>>
          /\ Buffers' = Buffers
      BY <1>6 DEF vars, Buffers
    <2>2. \A b \in Buffers : Onward(pic[b], pic'[b])
      BY <2>1, AlikeOnward DEF Alike, NoneLost, FailuresOK
    <2>3. \A b \in Buffers :
            pic'[b].content # 0 /\ pic'[b].progress \in {reconstructing, reconstructed} =>
              b \in Working \cup Done
      BY <2>1 DEF NoneLost, PlacesOK
    <2> QED
      BY <2>1, <2>2, <2>3, RestTold
  <1> QED
    BY <1>1, <1>2, <1>3, <1>4, <1>5, <1>6 DEF Next, Ended

\* Initially there is no picture, and no slice has arrived.
LEMMA InitTold ==
  ASSUME Init
  PROVE  NoneLost
  <1>1. /\ reported = <<>> /\ pic = <<>> /\ nal = <<1, 1>> /\ main = Idle /\ ~started
    BY DEF Init
  <1>2. /\ Buffers = {} /\ reported \in Seq(Nat) /\ nal[1] = 1 /\ nal[2] = 1
        /\ main.pc = "idle" /\ main.call = "decode"
    BY <1>1 DEF Buffers, Idle
  <1>3. \A i \in DOMAIN stream : ~Begun(i, nal, main.pc)
    <2>1. \A i \in DOMAIN stream : i \in Nat \ {0}
      <3>1. stream \in Streams
        BY DEF Init
      <3>2. Len(stream) \in Nat /\ DOMAIN stream = 1 .. Len(stream)
        BY <3>1, DecLibAssumption
      <3> QED
        BY <3>2
    <2> QED
      BY <1>2, <2>1 DEF Begun
  <1>4. FailuresOK /\ PlacesOK
    BY <1>2 DEF FailuresOK, PlacesOK
  <1>5. FlushOK
    BY <1>2, <1>3 DEF FlushOK
  <1>6. ToldOK
    BY <1>2, <1>3 DEF ToldOK
  <1> QED
    BY <1>4, <1>5, <1>6 DEF NoneLost

\* At the end of the stream no list and no instance has a picture: one that is
\* not finished was left behind.
LEMMA LeftBehind ==
  ASSUME Inv, NoneLost, main.pc \in {"last", "ended"}, NEW b \in Buffers, pic[b].content # 0,
         pic[b].progress # finished
  PROVE  b \in Orphans
  <1>1. Listed = {} /\ Current = {} /\ Working = {} /\ Done = {}
    BY DEF NoneLost, FlushOK, Listed, Current, Done, ToSet
  <1>2. pic[b].progress \notin {parsing, parsed}
    BY <1>1 DEF Inv, ParsedOK
  <1>3. pic[b].progress \notin {reconstructing, reconstructed}
    BY <1>1 DEF NoneLost, PlacesOK
  <1>4. pic[b].progress \in init .. finished
    BY Progress DEF Inv, Types, Buffers
  <1>5. pic[b].progress = init
    BY <1>2, <1>3, <1>4 DEF init, parsing, parsed, reconstructing, reconstructed, finished
  <1> QED
    BY <1>5 DEF NoneLost, PlacesOK, Orphans

\* When flushPic says that the stream has ended, the exception of each picture
\* whose tasks threw has left the library, unless no task was added for it.
NoErrorLost ==
  main.pc = "ended" =>
    \A i \in DOMAIN stream : Failing(i) /\ Arrived(i) =>
      i \in ToSet(reported) \/ \E b \in Orphans : pic[b].content = i

\* At the end of the stream all pictures have begun.
LEMMA AllBegun ==
  ASSUME Inv, NoneLost, main.pc = "ended", NEW i \in DOMAIN stream
  PROVE  i # 0 /\ Begun(i, nal, main.pc)
  <1>1. Types /\ nal[1] \in Nat
    BY DEF Inv, Types
  <1>2. i \in Nat \ {0} /\ i <= Len(stream) /\ Len(stream) \in Nat
    BY <1>1, Streaming
  <1>3. nal[1] > Len(stream)
    BY DEF Inv, MainOK, NoneLost, FlushOK, EndOfStream
  <1> QED
    BY <1>1, <1>2, <1>3 DEF Begun

\* So no exception is lost.
LEMMA ToldAtEnd ==
  ASSUME Inv, NoneLost
  PROVE  NoErrorLost
  <1>1. SUFFICES ASSUME main.pc = "ended", NEW i \in DOMAIN stream, Failing(i), Arrived(i),
                        i \notin ToSet(reported)
                 PROVE  \E b \in Orphans : pic[b].content = i
    BY DEF NoErrorLost
  <1>2. i # 0 /\ Begun(i, nal, main.pc)
    BY <1>1, AllBegun
  <1>3. PICK b \in Buffers : pic[b].content = i /\ pic[b].progress # finished
    BY <1>1, <1>2 DEF NoneLost, ToldOK
  <1>4. b \in Orphans
    BY <1>1, <1>2, <1>3, LeftBehind
  <1> QED
    BY <1>3, <1>4

\* The exception of a task is not lost: decode and flushPic hand it to the
\* application before the end of the stream, whatever the order in which the
\* tasks throw and the main thread looks.  Only a picture that parse() gave up
\* before its first task was added has none to hand out.
THEOREM NoErrorIsLost == Spec => []NoErrorLost
  <1>1. Init => NoneLost
    BY InitTold
  <1>2. Inv /\ NoneLost /\ [Next]_vars => NoneLost'
    BY NextTold
  <1>3. Inv /\ NoneLost => NoErrorLost
    BY ToldAtEnd
  <1> QED
    BY <1>1, <1>2, <1>3, InvHolds, PTL DEF Spec

\* The pictures that were left behind had no task that throws.
OrphansIntact == \A b \in Orphans : ~Failing(pic[b].content)

\* Once and not never.
LEMMA OnceAndTold ==
  ASSUME OnceOK, NoErrorLost, OrphansIntact
  PROVE  ErrorsReportedOnce
  <1>1. SUFFICES ASSUME main.pc = "ended", NEW i \in DOMAIN stream,
                        stream[i].fault \in {"parse", "recon"}, Arrived(i)
                 PROVE  TimesReported(i) = 1
    BY OnceOnly DEF ErrorsReportedOnce
  <1>2. i \in ToSet(reported)
    BY <1>1 DEF NoErrorLost, OrphansIntact, Failing
  <1>3. PICK K : K = {k \in DOMAIN reported : reported[k] = i}
    OBVIOUS
  <1>4. PICK k \in DOMAIN reported : reported[k] = i
    BY <1>2 DEF ToSet
  <1>5. K = {k}
    BY <1>3, <1>4 DEF OnceOK, IsInjective
  <1>6. Cardinality({k}) = 1
    BY FS_Singleton
  <1> QED
    BY <1>3, <1>5, <1>6 DEF TimesReported

\* The exception of a task is given to the application once and, by the end of
\* the stream, not never: but for a picture that parse() gave up, because its
\* lists could not be constructed, before its tasks could throw.
THEOREM ErrorsAreReported == Spec => [](TwoSlices /\ OrphansIntact => ErrorsReportedOnce)
  <1>1. Init => (TwoSlices => OnceOK)
    BY InitOnce
  <1>2. Inv /\ (TwoSlices => OnceOK) /\ [Next]_vars => (TwoSlices => OnceOK)'
    BY NextOnce, StreamSame
  <1>3. (TwoSlices => OnceOK) /\ NoErrorLost =>
          (TwoSlices /\ OrphansIntact => ErrorsReportedOnce)
    BY OnceAndTold
  <1> QED
    BY <1>1, <1>2, <1>3, InvHolds, NoErrorIsLost, PTL DEF Spec

-----------------------------------------------------------------------------
(***************************************************************************)
(* No picture is lost on the way to the application.                       *)
(***************************************************************************)
\* Picture i waits for output, or flushPic holds it for the application.
Waiting(i) ==
  \E b \in Buffers : pic[b].content = i /\ (pic[b].neededForOutput \/ b = main.out)

\* A picture that is to be output waits for it from its first slice on, until
\* the application is given it or flushPic takes it back.
ShownOK ==
  /\ shown \in Seq(Nat)
  /\ \A b \in Buffers : pic[b].content = 0 => ~pic[b].neededForOutput
  /\ \A i \in DOMAIN stream : stream[i].out /\ Arrived(i) /\ Begun(i, nal, main.pc) =>
       i \in ToSet(shown) \cup dropped \/ Waiting(i)

\* At the end of the stream it holds none, and those that wait are behind one
\* that was left behind.
EndOK ==
  /\ main.pc \in {"last", "ended"} => main.out = 0
  /\ main.pc = "ended" =>
       \A k \in DOMAIN list : pic[list[k]].neededForOutput =>
         \E j \in DOMAIN list : j <= k /\ list[j] \in Orphans

\* Both.
OutputOK == ShownOK /\ EndOK

\* A step leaves the picture in buffer b to wait, or gives it away.
WaitsOn(b) ==
  /\ pic'[b].content = pic[b].content
  /\ pic[b].content = 0 /\ pic'[b].neededForOutput => pic[b].neededForOutput
  /\ pic[b].content \in DOMAIN stream /\ stream[pic[b].content].out
       /\ (pic[b].neededForOutput \/ b = main.out) =>
         \/ pic'[b].neededForOutput \/ b = main'.out
         \/ pic[b].content \in ToSet(shown') \cup dropped'

\* All pictures do so, and no picture begins that has arrived.
LEMMA ShownKept ==
  ASSUME ShownOK, stream' = stream, Buffers' = Buffers, \A b \in Buffers : WaitsOn(b),
         shown' \in Seq(Nat), \A i \in ToSet(shown) \cup dropped : i \in ToSet(shown') \cup dropped',
         \A i \in DOMAIN stream :
           Begun(i, nal', main'.pc) => Begun(i, nal, main.pc) \/ ~Arrived(i)
  PROVE  ShownOK'
  <1>1. ASSUME NEW i \in DOMAIN stream, stream[i].out, Arrived(i), Begun(i, nal', main'.pc)
        PROVE  \/ i \in ToSet(shown') \cup dropped'
               \/ \E b \in Buffers : pic'[b].content = i /\ (pic'[b].neededForOutput \/ b = main'.out)
    <2>1. CASE i \in ToSet(shown) \cup dropped
      BY <2>1
    <2>2. CASE i \notin ToSet(shown) \cup dropped
      <3>1. PICK b \in Buffers : pic[b].content = i /\ (pic[b].neededForOutput \/ b = main.out)
        BY <1>1, <2>2 DEF ShownOK, Waiting
      <3> QED
        BY <1>1, <3>1 DEF WaitsOn
    <2> QED
      BY <2>1, <2>2
  <1>2. \A b \in Buffers' : pic'[b].content = 0 => ~pic'[b].neededForOutput
    BY DEF ShownOK, WaitsOn
  <1> QED
    BY <1>1, <1>2 DEF ShownOK, Waiting, Arrived

\* Most steps come between two slices, and before the end.
LEMMA ShownStep ==
  ASSUME OutputOK, UNCHANGED <<stream, nal>>, Buffers' = Buffers, \A b \in Buffers : WaitsOn(b),
         shown' \in Seq(Nat), \A i \in ToSet(shown) \cup dropped : i \in ToSet(shown') \cup dropped',
         main'.pc \notin {"lists", "last", "ended"}
  PROVE  OutputOK'
  <1>1. \A i \in DOMAIN stream : Begun(i, nal', main'.pc) => Begun(i, nal, main.pc)
    BY DEF Begun
  <1>2. ShownOK'
    BY <1>1, ShownKept DEF OutputOK
  <1> QED
    BY <1>2 DEF OutputOK, EndOK

\* Many keep the pictures and what flushPic holds.
LEMMA ShownQuiet ==
  ASSUME OutputOK, UNCHANGED <<stream, nal, shown, dropped>>, Buffers' = Buffers,
         \A b \in Buffers : Keeps(pic[b], pic'[b]), main'.out = main.out,
         main'.pc \notin {"lists", "last", "ended"}
  PROVE  OutputOK'
  <1>1. \A b \in Buffers : WaitsOn(b)
    BY DEF Keeps, WaitsOn
  <1>2. shown' \in Seq(Nat)
    BY DEF OutputOK, ShownOK
  <1> QED
    BY <1>1, <1>2, ShownStep

\* The main thread does not move.
LEMMA ShownRest ==
  ASSUME Types, OutputOK, UNCHANGED <<stream, nal, shown, dropped, main, list>>,
         Buffers' = Buffers,
         \A b \in Buffers : /\ Keeps(pic[b], pic'[b])
                            /\ b \in Orphans => pic'[b].progress = init /\ pic'[b].exceptionThrownOut
  PROVE  OutputOK'
  <1>1. \A b \in Buffers : WaitsOn(b)
    BY DEF Keeps, WaitsOn
  <1>2. ShownOK'
    BY <1>1, ShownKept DEF OutputOK, ShownOK
  <1>3. \A b \in Orphans : b \in Orphans'
    BY DEF Orphans
  <1>4. \A b : pic'[b].neededForOutput /\ b \in Buffers => pic[b].neededForOutput
    BY DEF Keeps
  <1>5. EndOK'
    <2>1. ASSUME main.pc = "ended", NEW k \in DOMAIN list, pic'[list[k]].neededForOutput
          PROVE  \E j \in DOMAIN list : j <= k /\ list[j] \in Orphans'
      <3>1. list[k] \in Buffers
        BY DEF Types, ToSet
      <3> QED
        BY <1>3, <1>4, <2>1, <3>1 DEF OutputOK, EndOK
    <2> QED
      BY <2>1 DEF OutputOK, EndOK
  <1> QED
    BY <1>2, <1>5 DEF OutputOK

\* The tasks do not look at it.
LEMMA TaskShown ==
  ASSUME Inv, OutputOK, NEW b \in Buffers, Worker(b)
  PROVE  OutputOK'
  <1>1. PICK q : WorkerMove(pic[b], q) /\ Task(b, q)
    BY TaskMoves
  <1>2. Keeps(pic[b], q) /\ pic[b].progress # init
    BY <1>1 DEF WorkerMove, SameBut, Fields, Keeps
  <1>3. /\ pic' = [pic EXCEPT ![b] = q]
        /\ UNCHANGED <<stream, nal, shown, dropped, main, list>>
    BY <1>1 DEF Task, parserVars, appVars
  <1>4. Buffers' = Buffers /\ \A c \in Buffers : pic'[c] = IF c = b THEN q ELSE pic[c]
    BY <1>3 DEF Buffers
  <1>5. \A c \in Buffers : Keeps(pic[c], pic[c])
    BY DEF Keeps
  <1> QED
    BY <1>2, <1>3, <1>4, <1>5, ShownRest DEF Orphans, Inv

\* Nor does the application when it gives a frame back.
LEMMA UnrefShown ==
  ASSUME Inv, OutputOK, NEW h \in held, Unref(h)
  PROVE  OutputOK'
  <1>1. /\ h.buf \in Buffers
        /\ pic' = [pic EXCEPT ![h.buf] = Release(pic[h.buf])]
        /\ UNCHANGED <<stream, nal, shown, dropped, main, list>>
    BY DEF Unref, parserVars, Inv, FramesOK, Buffers
  <1>2. \A p \in Picture :
          /\ Keeps(p, p) /\ Keeps(p, Release(p)) /\ Release(p).progress = p.progress
          /\ Release(p).exceptionThrownOut = p.exceptionThrownOut
    BY DEF Release, Picture, Keeps
  <1>3. /\ Buffers' = Buffers /\ \A c \in Buffers : pic[c] \in Picture
        /\ \A c \in Buffers : pic'[c] = IF c = h.buf THEN Release(pic[c]) ELSE pic[c]
    BY <1>1, Buffered DEF Buffers, Inv
  <1> QED
    BY <1>1, <1>2, <1>3, ShownRest DEF Orphans, Inv

\* The main thread's steps between two slices, but for those that finish a
\* picture or return one.
LEMMA QuietShown ==
  ASSUME Inv, OutputOK,
         \/ TakePicture \/ TakeNothing \/ RotateRecon \/ WaitForPrevDecompressedPic
         \/ DecompressPicture \/ StartTasks
  PROVE  OutputOK'
  <1>1. UNCHANGED <<stream, nal, shown, dropped>>
    BY DEF TakePicture, TakeNothing, RotateRecon, WaitForPrevDecompressedPic, DecompressPicture,
           StartTasks, parserVars, appVars
  <1>2. main \in MainState
    BY MainTypes
  <1>3. /\ main'.out = main.out
        /\ main'.pc \in {"error", "recon", "drain", "output", "fatal", "wait", "decompress", "refs",
                         "finish"}
    BY <1>2
       DEF TakePicture, TakeNothing, RotateRecon, WaitForPrevDecompressedPic, DecompressPicture,
           StartTasks, Goto, MainState
  <1>4. \A b \in Buffers : pic[b] \in Picture /\ b \in DOMAIN pic
    BY Buffered DEF Inv, Buffers
  <1>5. DOMAIN pic' = DOMAIN pic /\ \A b \in Buffers : Keeps(pic[b], pic'[b])
    <2>1. CASE TakePicture
      BY <1>4, <2>1 DEF TakePicture, Keeps, Picture, Buffers
    <2>2. CASE TakeNothing \/ RotateRecon
      BY <2>2 DEF TakeNothing, RotateRecon, Keeps
    <2>3. CASE WaitForPrevDecompressedPic
      <3>1. \A p \in Picture : Keeps(p, p) /\ Keeps(p, AfterWait(p))
        BY DEF AfterWait, Picture, Keeps
      <3>2. /\ DOMAIN pic' = DOMAIN pic
            /\ \A b \in Buffers : pic'[b] \in {pic[b], AfterWait(pic[b])}
        BY <1>4, <2>3 DEF WaitForPrevDecompressedPic
      <3> QED
        BY <1>4, <3>1, <3>2
    <2>4. CASE DecompressPicture
      BY <1>4, <2>4 DEF DecompressPicture, Keeps, Picture, Buffers
    <2>5. CASE StartTasks
      BY <2>5, StartKeeps DEF SamePictures
    <2> QED
      BY <2>1, <2>2, <2>3, <2>4, <2>5
  <1>6. Buffers' = Buffers
    BY <1>5 DEF Buffers
  <1> QED
    BY <1>1, <1>3, <1>5, <1>6, ShownQuiet

\* A picture is finished.  If it throws then flushPic takes back what it holds.
LEMMA FinishingShown ==
  ASSUME Inv, OutputOK, UNCHANGED <<stream, nal>>, NEW b, NEW P, Finishing(b, P)
  PROVE  OutputOK'
  <1>1. /\ \A c \in Buffers : P[c] \in Picture /\ Keeps(pic[c], P[c])
        /\ DOMAIN P = Buffers /\ shown \in Seq(Nat)
    BY DEF Finishing, SamePictures, OutputOK, ShownOK, Buffers
  <1>2. CASE pic' = P /\ UNCHANGED appVars /\ main'.out = main.out
             /\ main'.pc \in {"retake", "output", "flushed", "drain"}
    BY <1>1, <1>2, ShownQuiet DEF appVars, Buffers
  <1>3. CASE ThrowOut(b, P)
    <2>1. main'.out = 0 /\ main'.pc = "idle" /\ shown' = shown
      BY <1>3, MainStates DEF ThrowOut
    <2>2. CASE main.out = 0
      BY <1>1, <1>3, <2>1, <2>2, ShownQuiet DEF ThrowOut, Buffers
    <2>3. CASE main.out # 0
      <3>1. PICK f \in Buffers : f = main.out
        BY <2>3, MainTypes
      <3>2. /\ pic' = [P EXCEPT ![f] = Release(P[f])]
            /\ dropped' = dropped \cup {pic[f].content}
        BY <1>3, <2>3, <3>1 DEF ThrowOut
      <3>3. /\ Buffers' = Buffers
            /\ \A c \in Buffers : pic'[c] = IF c = f THEN Release(P[c]) ELSE P[c]
        BY <1>1, <3>2 DEF Buffers
      <3>4. \A p \in Picture : Keeps(p, Release(p))
        BY DEF Release, Picture, Keeps
      <3>5. \A c \in Buffers : WaitsOn(c)
        BY <1>1, <2>1, <3>1, <3>2, <3>3, <3>4 DEF WaitsOn, Keeps
      <3> QED
        BY <1>1, <2>1, <3>2, <3>3, <3>5, ShownStep
    <2> QED
      BY <2>2, <2>3
  <1> QED
    BY <1>2, <1>3 DEF Finishing

\* The picture that flushPic holds is returned.
LEMMA ReturnShown ==
  ASSUME Inv, OutputOK, UNCHANGED <<stream, nal, pic>>, main.out # 0, Return(main.out)
  PROVE  OutputOK'
  <1>1. PICK f \in Buffers : f = main.out
    BY MainTypes
  <1>2. pic[f].content \in Nat /\ shown \in Seq(Nat)
    BY Buffered DEF Inv, OutputOK, ShownOK
  <1>3. /\ main'.out = 0 /\ main'.pc = "idle" /\ dropped' = dropped
        /\ shown' = Append(shown, pic[f].content)
    BY <1>1, MainStates DEF Return
  <1>4. shown' \in Seq(Nat) /\ ToSet(shown') = ToSet(shown) \cup {pic[f].content}
    BY <1>2, <1>3, ReportedToo
  <1>5. \A b \in Buffers : WaitsOn(b)
    BY <1>1, <1>4 DEF WaitsOn
  <1> QED
    BY <1>3, <1>4, <1>5, ShownStep DEF Buffers

\* Three actions finish a picture, or return one.
LEMMA FinishShown ==
  ASSUME Inv, OutputOK, FinishPrev \/ Drain \/ HandleErrorPicture
  PROVE  OutputOK'
  <1>1. UNCHANGED <<stream, nal>>
    BY DEF FinishPrev, Drain, HandleErrorPicture, parserVars
  <1>2. shown \in Seq(Nat) /\ main \in MainState
    BY MainTypes DEF OutputOK, ShownOK
  <1>3. CASE \E b, P : Finishing(b, P)
    BY <1>1, <1>3, FinishingShown
  <1>4. CASE FinishPrev /\ main.done = 0
    <2>1. /\ pic' = pic /\ UNCHANGED appVars
          /\ main' \in {[main EXCEPT !.pc = "output"], [main EXCEPT !.pc = "flushed"]}
      BY <1>4 DEF FinishPrev, Goto
    <2>2. main'.out = main.out /\ main'.pc \in {"output", "flushed"}
      BY <1>2, <2>1 DEF MainState
    <2> QED
      BY <1>1, <2>1, <2>2, ShownQuiet DEF appVars, Buffers, Keeps
  <1>5. CASE pic' = pic /\ main.out # 0 /\ Return(main.out)
    BY <1>1, <1>5, ReturnShown
  <1>6. CASE pic' = pic /\ UNCHANGED appVars /\ main.out = 0 /\ main' = [main EXCEPT !.pc = "last"]
    <2>1. main'.out = 0 /\ main'.pc = "last"
      BY <1>2, <1>6 DEF MainState
    <2>2. \A b \in Buffers : WaitsOn(b)
      BY <1>6, <2>1 DEF WaitsOn
    <2>3. ShownOK'
      BY <1>1, <1>2, <1>6, <2>1, <2>2, ShownKept DEF appVars, Buffers, Begun, OutputOK
    <2> QED
      BY <2>1, <2>3 DEF OutputOK, EndOK
  <1> QED
    BY <1>3, <1>4, <1>5, <1>6, FinishPrevFinishes, DrainFinishes, HandleErrorFinishes

\* A picture is chosen to be output: it is returned, or flushPic holds it.
LEMMA LockShown ==
  ASSUME Inv, OutputOK, UNCHANGED <<stream, nal, dropped>>, main.out = 0,
         NEW b, b # 0 => b \in Buffers, pic' = LockPic(b),
         \/ shown' = shown /\ main'.out = b
         \/ b # 0 /\ shown' = Append(shown, pic[b].content),
         main'.pc \notin {"lists", "last", "ended"}
  PROVE  OutputOK'
  <1>1. \A c \in Buffers : pic[c] \in Picture /\ pic[c].content \in Nat
    BY Buffered DEF Inv
  <1>2. /\ shown' \in Seq(Nat) /\ \A i \in ToSet(shown) : i \in ToSet(shown')
        /\ b # 0 => main'.out = b \/ pic[b].content \in ToSet(shown')
    <2>1. shown \in Seq(Nat)
      BY DEF OutputOK, ShownOK
    <2>2. CASE shown' = shown /\ main'.out = b
      BY <2>1, <2>2
    <2>3. CASE b # 0 /\ shown' = Append(shown, pic[b].content)
      <3>1. pic[b].content \in Nat
        BY <1>1, <2>3
      <3> QED
        BY <2>1, <2>3, <3>1, ReportedToo
    <2> QED
      BY <2>2, <2>3
  <1>3. \A p \in Picture : Lock(p).content = p.content /\ ~Lock(p).neededForOutput
    BY DEF Lock, Picture
  <1>4. /\ Buffers' = Buffers
        /\ \A c \in Buffers : pic'[c] = IF c = b THEN Lock(pic[c]) ELSE pic[c]
    <2>1. CASE b = 0
      BY <2>1, Buffered DEF LockPic, Buffers, Inv
    <2>2. CASE b # 0
      BY <2>2 DEF LockPic, Buffers
    <2> QED
      BY <2>1, <2>2
  <1>5. \A c \in Buffers : WaitsOn(c)
    <2>1. 0 \notin Buffers
      BY Buffered DEF Inv
    <2> QED
      BY <1>1, <1>2, <1>3, <1>4, <2>1 DEF WaitsOn
  <1> QED
    BY <1>2, <1>4, <1>5, ShownStep

\* The stream ends when the choice finds nothing: the pictures that wait are
\* behind one that was left behind.
LEMMA EndShown ==
  ASSUME Inv, NoneLost, OutputOK, main.pc = "last", main' = [main EXCEPT !.pc = "ended"],
         UNCHANGED <<stream, nal, pic, list, shown, dropped>>, OutputRange(list, pic) = {}
  PROVE  OutputOK'
  <1>1. /\ Types /\ list \in Seq(Nat) /\ ToSet(list) = Buffers /\ Len(list) \in Nat
        /\ \A k \in DOMAIN list : k \in Nat /\ list[k] \in Buffers
    <2>1. Types /\ list \in Seq(Nat) /\ ToSet(list) = Buffers
      BY DEF Inv, Types
    <2> QED
      BY <2>1, LenProperties DEF ToSet
  <1>2. main'.pc = "ended" /\ main'.out = 0
    BY MainTypes DEF MainState, OutputOK, EndOK
  <1>3. ShownOK'
    <2>1. \A b \in Buffers : WaitsOn(b)
      BY <1>2 DEF WaitsOn, OutputOK, EndOK
    <2>2. shown \in Seq(Nat)
      BY DEF OutputOK, ShownOK
    <2> QED
      BY <1>2, <2>1, <2>2, ShownKept DEF Buffers, Begun, OutputOK
  <1>4. PICK e \in 0 .. Len(list) : Bounds(list, pic, e)
    BY <1>1, RangeBounds
  <1>5. \A b \in Buffers : pic[b].progress \in init .. finished
    BY <1>1, Buffered
  <1>6. \A k \in DOMAIN list : e = 0 \/ k < e => ~WaitsForOutput(pic[list[k]])
    BY <1>4 DEF Bounds
  <1>7. ASSUME NEW k \in DOMAIN list, pic[list[k]].neededForOutput
        PROVE  e # 0 /\ e <= k
    <2>1. CASE e = 0 \/ k < e
      <3>1. ~StopsAt(list, pic, k) /\ pic[list[k]].progress # finished
        BY <1>4, <1>6, <1>7, <2>1 DEF Bounds, WaitsForOutput
      <3>2. pic[list[k]].progress \in init .. finished
        BY <1>1, <1>5
      <3>3. pic[list[k]].progress < finished
        BY <3>1, <3>2 DEF init, finished
      <3> QED
        BY <1>7, <3>1, <3>3 DEF StopsAt
    <2> QED
      BY <1>1, <2>1
  <1>8. e # 0 => e \in DOMAIN list /\ list[e] \in Orphans
    <2>1. SUFFICES ASSUME e # 0
                   PROVE  e \in DOMAIN list /\ list[e] \in Orphans
      OBVIOUS
    <2>2. e \in DOMAIN list
      BY <1>1, <2>1
    <2>3. \A j \in 1 .. e - 1 : j \in DOMAIN list /\ j < e
      BY <1>1, <2>2
    <2>4. /\ pic[list[e]].progress < finished
          /\ pic[list[e]].neededForOutput \/ pic[list[e]].progress < reconstructed
      BY <1>4, <1>6, <2>1, <2>3 DEF Bounds, StopsAt
    <2>5. pic[list[e]].content # 0
      <3>1. LocalOK(pic[list[e]])
        BY <1>1, <2>2 DEF Inv, PicturesOK
      <3>2. ~(reconstructed < reconstructed)
        BY DEF reconstructed
      <3> QED
        BY <1>1, <2>2, <2>4, <3>1, <3>2 DEF LocalOK, OutputOK, ShownOK
    <2>6. pic[list[e]].progress # finished
      BY <2>4 DEF finished
    <2> QED
      BY <1>1, <2>2, <2>5, <2>6, LeftBehind
  <1>9. EndOK'
    BY <1>2, <1>7, <1>8 DEF EndOK, Orphans, Buffers
  <1> QED
    BY <1>3, <1>9 DEF OutputOK

\* The steps that choose a frame, or return one.
LEMMA ChooseShown ==
  ASSUME Inv, NoneLost, OutputOK, DecodeOutput \/ FlushPic \/ Flushed \/ FlushLast
  PROVE  OutputOK'
  <1>1. /\ UNCHANGED <<stream, nal, dropped, list>> /\ main \in MainState
        /\ ~(main.pc = "flushed" /\ main.out # 0) => main.out = 0
    BY MainTypes
       DEF DecodeOutput, FlushPic, Flushed, FlushLast, Return, parserVars, appVars, Inv, MainOK,
           OutputOK, EndOK
  <1>2. PICK o1, o2 : /\ o1 = NextOutput(FALSE)
                      /\ o2 = GetNextOutputPic(list, pic, o1.tuneIn, o1.first, TRUE)
    OBVIOUS
  <1>3. /\ \A o \in {o1, o2} : o.buf # 0 => o.buf \in Buffers
        /\ o2.buf = 0 => OutputRange(list, pic) = {}
    <2>1. o1 = GetNextOutputPic(list, pic, tuneInDelay, firstOutputPic, FALSE)
      BY <1>2 DEF NextOutput
    <2>2. /\ o1.tuneIn \in 0 .. NumReorderPics + ParallelDecInst + 2 /\ o1.first \in BOOLEAN
          /\ o1.buf # 0 => o1.buf \in Buffers
      BY <2>1, MainTypes, Chosen
    <2> QED
      BY <1>2, <2>2, Chosen
  <1>4. ASSUME NEW b \in {o1.buf, o2.buf}, pic' = LockPic(b), main.out = 0,
               \/ Return(b)
               \/ UNCHANGED appVars
                  /\ main' \in {[Idle EXCEPT !.pc = "take", !.call = "flush", !.out = b],
                                [main EXCEPT !.pc = "take", !.out = b]}
        PROVE  OutputOK'
    <2>1. CASE Return(b)
      <3>1. main'.pc = "idle" /\ (b = 0 => main'.out = 0)
        BY <2>1, MainStates DEF Return
      <3> QED
        BY <1>1, <1>3, <1>4, <2>1, <3>1, LockShown DEF Return
    <2>2. CASE UNCHANGED appVars /\ main' = [Idle EXCEPT !.pc = "take", !.call = "flush", !.out = b]
      <3>1. main'.pc = "take" /\ main'.out = b
        BY <2>2 DEF Idle
      <3> QED
        BY <1>1, <1>3, <1>4, <2>2, <3>1, LockShown DEF appVars
    <2>3. CASE UNCHANGED appVars /\ main' = [main EXCEPT !.pc = "take", !.out = b]
      <3>1. main'.pc = "take" /\ main'.out = b
        BY <1>1, <2>3 DEF MainState
      <3> QED
        BY <1>1, <1>3, <1>4, <2>3, <3>1, LockShown DEF appVars
    <2> QED
      BY <1>4, <2>1, <2>2, <2>3
  <1>5. CASE main.pc = "flushed" /\ main.out # 0 /\ Return(main.out) /\ pic' = pic
    BY <1>1, <1>5, ReturnShown
  <1>6. CASE /\ main.pc = "last" /\ main' = [main EXCEPT !.pc = "ended"] /\ o2.buf = 0
             /\ UNCHANGED <<pic, appVars>>
    BY <1>1, <1>3, <1>6, EndShown DEF appVars
  <1>7. CASE DecodeOutput
    BY <1>1, <1>2, <1>4, <1>7 DEF DecodeOutput
  <1>8. CASE FlushPic
    BY <1>1, <1>2, <1>4, <1>8 DEF FlushPic
  <1>9. CASE Flushed
    <2>1. CASE main.out # 0
      BY <1>5, <1>9, <2>1 DEF Flushed
    <2>2. CASE main.out = 0
      <3>1. pic' = LockPic(o1.buf)
            /\ (IF o1.buf # 0 THEN Return(o1.buf) ELSE Goto("take") /\ UNCHANGED appVars)
        BY <1>2, <1>9, <2>2 DEF Flushed
      <3>2. main.out = o1.buf => [main EXCEPT !.pc = "take"] = [main EXCEPT !.pc = "take", !.out = o1.buf]
        BY <1>1 DEF MainState
      <3> QED
        BY <1>4, <2>2, <3>1, <3>2 DEF Goto
    <2> QED
      BY <2>1, <2>2
  <1>10. CASE FlushLast
    BY <1>1, <1>2, <1>4, <1>6, <1>10 DEF FlushLast, Goto
  <1> QED
    BY <1>7, <1>8, <1>9, <1>10

\* A buffer is taken, for a lost picture or for the one that arrives, and no
\* picture waited in it.
LEMMA BufferShown ==
  ASSUME Inv, OutputOK, main.pc = "head", UNCHANGED <<stream, nal, shown, dropped>>,
         main'.out = main.out,
         NEW f, DOMAIN pic' = Buffers \cup {f}, f \in Buffers => ~pic[f].neededForOutput,
         \A b \in Buffers : b # f => Keeps(pic[b], pic'[b]),
         \/ main'.pc = "head" /\ pic'[f].content = 0 /\ ~pic'[f].neededForOutput
         \/ /\ main'.pc = "lists" /\ pic'[f].content = nal[1]
            /\ pic'[f].neededForOutput = stream[nal[1]].out
  PROVE  OutputOK'
  <1>1. nal[1] # 0 /\ main.out = 0 /\ 0 \notin Buffers
    BY Buffered DEF Inv, Types, MainOK
  <1>2. ASSUME NEW i \in DOMAIN stream, stream[i].out, Arrived(i), Begun(i, nal, main'.pc)
        PROVE  \/ i \in ToSet(shown) \cup dropped
               \/ \E b \in Buffers' : pic'[b].content = i /\ pic'[b].neededForOutput
    <2>1. CASE Begun(i, nal, main.pc) /\ i \notin ToSet(shown) \cup dropped
      <3>1. PICK b \in Buffers : pic[b].content = i /\ pic[b].neededForOutput
        BY <1>1, <1>2, <2>1 DEF OutputOK, ShownOK, Waiting
      <3> QED
        BY <3>1 DEF Keeps, Buffers
    <2>2. CASE ~Begun(i, nal, main.pc)
      <3>1. i = nal[1] /\ main'.pc = "lists"
        BY <1>2, <2>2 DEF Begun
      <3> QED
        BY <1>2, <3>1 DEF Buffers
    <2> QED
      BY <2>1, <2>2
  <1>3. \A b \in Buffers' : pic'[b].content = 0 => ~pic'[b].neededForOutput
    BY <1>1 DEF OutputOK, ShownOK, Keeps, Buffers
  <1>4. ShownOK'
    BY <1>2, <1>3 DEF OutputOK, ShownOK, Waiting, Arrived
  <1> QED
    BY <1>4 DEF OutputOK, EndOK

\* Both use it.
LEMMA HeadShown ==
  ASSUME Inv, OutputOK, PrepareUnavailablePicture \/ ActivatePicture
  PROVE  OutputOK'
  <1>1. UNCHANGED <<stream, nal, shown, dropped>> /\ main.pc = "head" /\ main \in MainState
    BY MainTypes DEF PrepareUnavailablePicture, ActivatePicture, appVars
  <1>2. CASE PrepareUnavailablePicture
    <2>1. main' = main
      BY <1>2 DEF PrepareUnavailablePicture
    <2>2. PICK f : LostIn(f)
      BY <1>2, PrepareBuffer
    <2> QED
      BY <1>1, <2>1, <2>2, BufferShown DEF LostIn, Reusable, Keeps
  <1>3. CASE ActivatePicture
    <2>1. main'.pc = "lists" /\ main'.out = main.out
      BY <1>1, <1>3 DEF ActivatePicture, Goto, MainState
    <2>2. PICK f, q : ArrivesIn(f, q)
      BY <1>3, ActivateBuffer
    <2>3. /\ \A b \in Buffers : b # f => Keeps(pic[b], pic'[b])
          /\ f \in Buffers => ~pic[f].neededForOutput
      BY <2>2 DEF ArrivesIn, SameBut, Fields, Reusable, Keeps
    <2> QED
      BY <1>1, <2>1, <2>2, <2>3, BufferShown DEF ArrivesIn
  <1> QED
    BY <1>2, <1>3, Zenon

\* The step of a slice.
LEMMA SliceShown ==
  ASSUME Inv, OutputOK, main.pc \in {"idle", "lists"}, UNCHANGED <<stream, shown, dropped>>,
         Buffers' = Buffers, main'.pc \in {"idle", "head", "take"},
         \A b \in Buffers :
           /\ pic'[b].content = pic[b].content
           /\ \/ pic'[b].neededForOutput = pic[b].neededForOutput
              \/ pic[b].content # 0 /\ pic'[b].neededForOutput = stream[pic[b].content].out,
         \A i \in DOMAIN stream :
           Begun(i, nal', main'.pc) => Begun(i, nal, main.pc) \/ ~Arrived(i)
  PROVE  OutputOK'
  <1>1. main.out = 0 /\ 0 \notin Buffers
    BY Buffered DEF Inv, MainOK
  <1>2. \A b \in Buffers : WaitsOn(b)
    BY <1>1 DEF WaitsOn
  <1>3. ShownOK'
    BY <1>2, ShownKept DEF OutputOK, ShownOK
  <1> QED
    BY <1>3 DEF OutputOK, EndOK

\* The first slice of the picture.
LEMMA DecodeFirstSliceShown ==
  ASSUME Inv, OutputOK, DecodeFirstSlice
  PROVE  OutputOK'
  <1>1. PICK c, q, f : c = stream[nal[1]] /\ q = ConstructRefPicLists(c) /\ f = parsePic
    OBVIOUS
  <1>2. /\ main.pc = "lists" /\ nal' = NextNal /\ UNCHANGED <<stream, shown, dropped>>
        /\ main' \in {Idle, [Idle EXCEPT !.pc = "take"]}
        /\ \/ pic' = [q EXCEPT ![f] = MarkThrown(@)]
           \/ pic' = [q EXCEPT ![f].progress = parsing, ![f].slices = 1]
    BY <1>1 DEF DecodeFirstSlice, appVars
  <1>3. Types /\ f \in Buffers /\ pic[f].content = nal[1] /\ nal[1] \in DOMAIN stream
    BY <1>1, <1>2 DEF Inv, Types, HeadOK, MainOK
  <1>4. c \in CodedPicture
    BY <1>1, <1>3, Streaming
  <1>5. /\ DOMAIN q = Buffers /\ \A b \in Buffers : q[b] \in Picture /\ Keeps(pic[b], q[b])
    BY <1>1, <1>2, <1>4, Constructed DEF SameBut, Fields, Keeps
  <1>6. Buffers' = Buffers /\ \A b \in Buffers : Keeps(q[b], pic'[b])
    <2>1. \A p \in Picture : /\ Keeps(p, p) /\ Keeps(p, MarkThrown(p))
                             /\ Keeps(p, [p EXCEPT !.progress = parsing, !.slices = 1])
      BY DEF MarkThrown, Picture, Keeps
    <2>2. /\ DOMAIN pic' = Buffers
          /\ \A b \in Buffers : pic'[b] \in {q[b], MarkThrown(q[b]),
                                           [q[b] EXCEPT !.progress = parsing, !.slices = 1]}
      BY <1>2, <1>3, <1>5
    <2> QED
      BY <1>5, <2>1, <2>2 DEF Buffers
  <1>7. main'.pc \in {"idle", "take"}
    BY <1>2, MainStates, Calls
  <1>8. \A i \in DOMAIN stream : Begun(i, nal', main'.pc) => Begun(i, nal, main.pc)
    BY <1>2, <1>3, <1>7, BegunBefore DEF Begun
  <1> QED
    BY <1>2, <1>5, <1>6, <1>7, <1>8, SliceShown DEF Keeps

\* The slice that comes next.
LEMMA DecodeShown ==
  ASSUME Inv, NoneLost, OutputOK, Decode
  PROVE  OutputOK'
  <1>1. PICK i, k : i = nal[1] /\ k = nal[2]
    OBVIOUS
  <1>2. /\ main.pc = "idle" /\ UNCHANGED <<stream, parsePic, shown, dropped>>
        /\ started' = (started \/ stream[i].idr)
        /\ \/ ~started' /\ main' = Idle /\ UNCHANGED pic
           \/ started' /\ main' = [Idle EXCEPT !.pc = "head"] /\ UNCHANGED <<nal, pic>>
           \/ started' /\ k # 1 /\ DecodeNextSlice(i, k)
    BY <1>1 DEF Decode, SkipSlice
  <1>3. CASE ~started' /\ main' = Idle /\ UNCHANGED pic
    BY <1>2, <1>3, MainStates, SkippedBefore, SliceShown DEF Buffers
  <1>4. CASE main' = [Idle EXCEPT !.pc = "head"] /\ UNCHANGED <<nal, pic>>
    <2>1. main'.pc = "head"
      BY <1>4, Calls
    <2> QED
      BY <1>2, <1>4, <2>1, SliceShown DEF Buffers, Begun
  <1>5. CASE started' /\ k # 1 /\ DecodeNextSlice(i, k)
    <2>1. PICK f, out : f = parsePic /\ out = stream[i].out
      OBVIOUS
    <2>2. /\ nal' = NextNal /\ main' \in {Idle, [Idle EXCEPT !.pc = "take"]}
          /\ \/ pic' = [pic EXCEPT ![f] = MarkThrown(@)]
             \/ pic' = [pic EXCEPT ![f].slices = k, ![f].neededForOutput = out]
      BY <1>5, <2>1 DEF DecodeNextSlice
    <2>3. Types /\ nal[2] > 1
      BY <1>1, <1>5 DEF Inv, Types
    <2>4. f \in Buffers /\ pic[f].content = i /\ i # 0
      BY <1>1, <1>2, <1>5, <2>1, <2>3 DEF Inv, HeadOK, Types
    <2>5. \A b \in Buffers : pic[b] \in Picture
      BY <2>3, Buffered
    <2>6. /\ Buffers' = Buffers
          /\ \A b \in Buffers :
               /\ pic'[b].content = pic[b].content
               /\ \/ pic'[b].neededForOutput = pic[b].neededForOutput
                  \/ b = f /\ pic'[b].neededForOutput = out
      <3>1. \A p \in Picture :
              /\ Keeps(p, MarkThrown(p))
              /\ [p EXCEPT !.slices = k, !.neededForOutput = out].content = p.content
              /\ [p EXCEPT !.slices = k, !.neededForOutput = out].neededForOutput = out
        BY DEF MarkThrown, Picture, Keeps
      <3>2. /\ DOMAIN pic' = DOMAIN pic /\ \A b \in Buffers : b # f => pic'[b] = pic[b]
            /\ pic'[f] \in {MarkThrown(pic[f]),
                           [pic[f] EXCEPT !.slices = k, !.neededForOutput = out]}
        BY <2>2, <2>4 DEF Buffers
      <3>3. /\ pic'[f].content = pic[f].content
            /\ pic'[f].neededForOutput \in {pic[f].neededForOutput, out}
        BY <2>4, <2>5, <3>1, <3>2 DEF Keeps
      <3> QED
        BY <3>2, <3>3 DEF Buffers
    <2>7. main'.pc \in {"idle", "take"}
      BY <2>2, MainStates, Calls
    <2>8. \A j \in DOMAIN stream : Begun(j, nal', main'.pc) => Begun(j, nal, main.pc)
      BY <1>1, <2>2, <2>3, <2>7, BegunBefore DEF Begun
    <2> QED
      BY <1>2, <2>1, <2>4, <2>6, <2>7, <2>8, SliceShown
  <1> QED
    BY <1>2, <1>3, <1>4, <1>5

\* Every step keeps it.
LEMMA NextShown ==
  ASSUME Inv, NoneLost, OutputOK, [Next]_vars
  PROVE  OutputOK'
  <1>1. CASE MainStep
    BY <1>1, HeadShown, DecodeFirstSliceShown, QuietShown, FinishShown, ChooseShown DEF MainStep
  <1>2. CASE Decode \/ FlushPic
    BY <1>2, DecodeShown, ChooseShown
  <1>3. CASE SomeTask
    BY <1>3, TaskShown DEF SomeTask, Buffers
  <1>4. CASE \E h \in held : Unref(h)
    BY <1>4, UnrefShown
  <1>5. CASE UNCHANGED vars
    BY <1>5, ShownRest DEF vars, Buffers, Keeps, Orphans, Inv
  <1> QED
    BY <1>1, <1>2, <1>3, <1>4, <1>5 DEF Next, Ended

\* Initially there is no picture.
LEMMA InitShown ==
  ASSUME Init
  PROVE  OutputOK
  <1>1. stream \in Streams /\ shown = <<>> /\ pic = <<>> /\ nal = <<1, 1>> /\ main.pc = "idle"
    BY MainStates DEF Init
  <1>2. \A i \in DOMAIN stream : i \in Nat \ {0}
    BY <1>1, DecLibAssumption
  <1>3. \A i \in DOMAIN stream : ~Begun(i, nal, main.pc)
    BY <1>1, <1>2 DEF Begun
  <1> QED
    BY <1>1, <1>3 DEF OutputOK, ShownOK, EndOK, Buffers

\* At the end of the stream every picture has begun.
LEMMA ShownAtEnd ==
  ASSUME Inv, NoneLost, OutputOK
  PROVE  AllShown
  <1>1. SUFFICES ASSUME main.pc = "ended", NEW i \in DOMAIN stream, stream[i].out, Arrived(i),
                        i \notin ToSet(shown) \cup dropped
                 PROVE  BehindOrphan(i)
    BY DEF AllShown
  <1>2. Begun(i, nal, main.pc)
    BY <1>1, AllBegun
  <1>3. PICK b \in Buffers : pic[b].content = i /\ pic[b].neededForOutput
    BY <1>1, <1>2, Buffered DEF OutputOK, ShownOK, EndOK, Waiting, Inv
  <1>4. PICK k \in DOMAIN list : list[k] = b
    BY DEF Inv, Types, ToSet
  <1> QED
    BY <1>1, <1>3, <1>4 DEF OutputOK, EndOK, BehindOrphan

\* Whatever the order in which the tasks end, and whatever throws: when
\* flushPic says that the stream has ended the application was given every
\* picture that is to be output, but for those flushPic took back and those
\* behind a picture that parse() left behind.
THEOREM EveryPictureIsShown == Spec => []AllShown
  <1>1. Init => NoneLost /\ OutputOK
    BY InitTold, InitShown
  <1>2. Inv /\ NoneLost /\ OutputOK /\ [Next]_vars => (NoneLost /\ OutputOK)'
    BY NextTold, NextShown
  <1>3. Inv /\ NoneLost /\ OutputOK => AllShown
    BY ShownAtEnd
  <1> QED
    BY <1>1, <1>2, <1>3, InvHolds, PTL DEF Spec

=============================================================================
