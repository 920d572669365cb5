----------------------------- MODULE AccessUnits -----------------------------
(***************************************************************************)
(* What the encoder promises its caller, whatever its stages do inside:    *)
(* frames go in one by one, an access unit of every frame that is to be    *)
(* encoded comes out, once, in coding order, and the encoder reports that  *)
(* it is done when nothing is left.                                        *)
(***************************************************************************)
EXTENDS Integers, Sequences

VARIABLES
  coding,  \* the coding number of every frame that is to be encoded
  in,      \* the frames given to the encoder, a set of picture order counts
  out,     \* the access units delivered, as their frames' order counts
  done     \* the encoder has reported the end

vars == <<coding, in, out, done>>

Init ==
  /\ coding \in [DOMAIN coding -> Int]
  /\ in = {} /\ out = <<>> /\ done = FALSE

GiveFrame ==
  /\ in' # in /\ in \subseteq in'
  /\ UNCHANGED <<out, done>>

\* A call returns an access unit or none.
TakeUnit ==
  \/ UNCHANGED out
  \/ \E p \in in \cap DOMAIN coding :
       /\ \A i \in 1..Len(out) : coding[out[i]] < coding[p]
       /\ out' = Append(out, p)

\* It may report the end with the last one.
Return ==
  /\ TakeUnit
  /\ done' => in \cap DOMAIN coding \subseteq {out'[i] : i \in 1..Len(out')}
  /\ UNCHANGED in

Next == ~done /\ UNCHANGED coding /\ (GiveFrame \/ Return)

Spec == Init /\ [][Next]_vars
=============================================================================
