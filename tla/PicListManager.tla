--------------------------- MODULE PicListManager ---------------------------
(***************************************************************************)
(* The picture buffers of the decoder: class PicListManager and the fields *)
(* of class Picture that decide when a buffer is output and reused.        *)
(*                                                                         *)
(* A buffer is a number, list is the order of m_cPicList (the order the    *)
(* buffers were taken in), and pic[b] is the picture in buffer b.  The     *)
(* operators are the functions of the class: they take the list and the    *)
(* pictures and return what they have become.                              *)
(***************************************************************************)
EXTENDS Naturals, Sequences, FiniteSets, SequencesExt

CONSTANTS MaxDecPicBuffering,  \* the SPS: pictures the stream needs
          NumReorderPics,      \* the SPS: pictures that may wait for output
          ParseFrameDelay,     \* m_parseFrameDelay
          MaxOutOfOrderPics,   \* MAX_OUT_OF_ORDER_PICS
          ParallelDecInst      \* m_parallelDecInst

ASSUME PicListAssumption ==
  /\ MaxDecPicBuffering \in Nat \ {0}
  /\ NumReorderPics \in Nat
  /\ ParseFrameDelay \in Nat
  /\ MaxOutOfOrderPics \in Nat
  /\ ParallelDecInst \in Nat

(***************************************************************************)
(* enum Picture::PicStateEnum.                                             *)
(***************************************************************************)
init           == 0
parsing        == 1
parsed         == 2
reconstructing == 3
reconstructed  == 4
finished       == 5

\* A BlockingBarrier: setException leaves the lock as it is.
Locked   == [locked |-> TRUE, exception |-> FALSE]
Unlocked == [locked |-> FALSE, exception |-> FALSE]
Raise(b) == [b EXCEPT !.exception = TRUE]

\* A picture after Picture::resetForUse, with no content yet.  content is
\* the coded picture whose samples the buffer holds (0: none was received)
\* and refs the buffers its active reference entries point to, with the
\* content they had when the lists were constructed.
NewPicture ==
  [content |-> 0, poc |-> 0, idr |-> FALSE, nonRef |-> FALSE, refs |-> {},
   progress |-> init, dpbReferenceMark |-> FALSE, stillReferenced |-> FALSE,
   neededForOutput |-> FALSE, lockedByApplication |-> FALSE,
   wasLost |-> FALSE, error |-> FALSE, exceptionThrownOut |-> FALSE,
   skippedDecCount |-> 0, borderExtStarted |-> FALSE,
   parseDone |-> Locked, reconDone |-> Locked, divException |-> FALSE,
   slices |-> 0, parsedSlices |-> 0, parse |-> "ok", recon |-> "none"]

\* Faulty variant: the element stays where it was, too.
CopyToEnd(s, i) == Append(s, s[i])

MoveToEnd(s, i) == Append(RemoveAt(s, i), s[i])

(***************************************************************************)
(* getNewPicBuffer.  The tasks that are still inside a reused buffer know  *)
(* nothing of its reset.                                                   *)
(***************************************************************************)
\* Faulty variants: a picture that is not in the DPB any more is taken to be
\* unreferenced; a picture that was output is taken to be free.
ReusableIfUnmarked(p) ==
  /\ p.progress >= reconstructed
  /\ ~p.dpbReferenceMark
  /\ ~p.neededForOutput
  /\ ~p.lockedByApplication
ReusableIfOutput(p) ==
  /\ p.progress >= reconstructed
  /\ ~p.stillReferenced
  /\ ~p.dpbReferenceMark
  /\ ~p.neededForOutput

Reusable(p) ==
  /\ p.progress >= reconstructed
  /\ ~p.stillReferenced
  /\ ~p.dpbReferenceMark
  /\ ~p.neededForOutput
  /\ ~p.lockedByApplication

GetNewPicBuffer(list, pic) ==
  LET i == SelectInSeq(list, LAMBDA b : Reusable(pic[b]))
      b == Len(pic) + 1
  IN  IF Len(list) < MaxDecPicBuffering + 1 + ParseFrameDelay \/ i = 0
      THEN [buf |-> b, list |-> Append(list, b), pic |-> Append(pic, NewPicture)]
      ELSE [buf  |-> list[i], list |-> MoveToEnd(list, i),
            pic  |-> [pic EXCEPT ![list[i]] =
                        [NewPicture EXCEPT !.recon = pic[list[i]].recon]]]

(***************************************************************************)
(* markUnusedPicturesReusable: which pictures may lose stillReferenced.    *)
(***************************************************************************)
ReferencedInProgress(list, pic) ==
  {r.buf : r \in UNION {pic[b].refs :
                          b \in {c \in ToSet(list) : pic[c].progress < reconstructed}}}

UnfinishedInList(p) ==
  p.progress < finished /\ ~(p.progress = reconstructed /\ p.wasLost)

MarkUnusedPicturesReusable(list, pic) ==
  LET first == SelectInSeq(list, LAMBDA b : UnfinishedInList(pic[b]))
      upTo  == IF first = 0 THEN list ELSE SubSeq(list, 1, first - 1)
      used  == ReferencedInProgress(list, pic)
  IN  [b \in DOMAIN pic |->
         IF b \in ToSet(upTo) \ used /\ ~pic[b].dpbReferenceMark
         THEN [pic[b] EXCEPT !.stillReferenced = FALSE] ELSE pic[b]]

(***************************************************************************)
(* getNextOutputPic.  The pictures looked at end at the first one that is  *)
(* not finished and before the first IDR picture that follows a picture    *)
(* waiting for output, but a picture that is reconstructed and not needed  *)
(* for output is passed over whatever it is.                               *)
(***************************************************************************)
WaitsForOutput(p) == p.neededForOutput /\ p.progress = finished

\* Faulty variant: the pictures that are not finished are passed over, too.
EndAtIDR(list, pic) ==
  LET ends == {i \in DOMAIN list :
                 /\ WaitsForOutput(pic[list[i]]) /\ pic[list[i]].idr
                 /\ \E j \in 1 .. i - 1 : WaitsForOutput(pic[list[j]])}
  IN  IF ends = {} THEN 0 ELSE CHOOSE i \in ends : \A j \in ends : i <= j

EndOfRange(list, pic) ==
  LET Ends(i) == LET p == pic[list[i]] IN
        /\ p.neededForOutput \/ p.progress < reconstructed
        /\ \/ p.progress < finished
           \/ p.idr /\ \E j \in 1 .. i - 1 : WaitsForOutput(pic[list[j]])
      ends == {i \in DOMAIN list : Ends(i)}
  IN  IF ends = {} THEN 0 ELSE CHOOSE i \in ends : \A j \in ends : i <= j

OutputRange(list, pic) ==
  LET e == EndOfRange(list, pic)
  IN  {b \in ToSet(IF e = 0 THEN list ELSE SubSeq(list, 1, e - 1)) :
         WaitsForOutput(pic[b])}

\* The picture to output, 0 if there is none, and the two members that the
\* call changes.
GetNextOutputPic(list, pic, tuneIn, first, flush) ==
  LET range  == OutputRange(list, pic)
      e      == EndOfRange(list, pic)
      emptied == flush \/ (e # 0 /\ pic[list[e]].idr)
      limit  == NumReorderPics + (IF first THEN MaxOutOfOrderPics ELSE 0)
      None   == [buf |-> 0, tuneIn |-> tuneIn, first |-> first]
      lowest == CHOOSE b \in range :
                  \A c \in range : pic[b].poc <= pic[c].poc
  IN  IF range = {} THEN None
      ELSE IF tuneIn <= NumReorderPics + ParallelDecInst + 1 /\ ~flush
      THEN [None EXCEPT !.tuneIn = tuneIn + 1]
      ELSE IF Cardinality(range) > limit \/ emptied
      THEN [buf |-> lowest, tuneIn |-> tuneIn, first |-> FALSE]
      ELSE None

\* The picture that is output belongs to the application until it is released.
Lock(p)    == [p EXCEPT !.lockedByApplication = TRUE, !.neededForOutput = FALSE]
Release(p) == [p EXCEPT !.lockedByApplication = FALSE]
=============================================================================
