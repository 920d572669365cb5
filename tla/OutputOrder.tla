---------------------------- MODULE OutputOrder ----------------------------
(***************************************************************************)
(* What the decoder promises the application: the pictures it is given are *)
(* in output order, the order of the coded video sequences and within one  *)
(* of them that of the picture order count, and none is given twice.       *)
(* Pictures may be left out: some are not for output, errors lose others.  *)
(***************************************************************************)
EXTENDS Naturals, Sequences

VARIABLE shown   \* where the pictures the application was given belong

\* A place in the output: the sequence and the picture order count.
Before(p, q) == p.cvs < q.cvs \/ (p.cvs = q.cvs /\ p.poc < q.poc)

Init == shown = <<>>

\* One more picture, behind all that were shown.
Show ==
  /\ Len(shown') = Len(shown) + 1
  /\ SubSeq(shown', 1, Len(shown)) = shown
  /\ \A i \in DOMAIN shown : Before(shown[i], shown'[Len(shown')])

Spec == Init /\ [][Show]_shown
=============================================================================
