----------------------------- MODULE MCEncSlice -----------------------------
(***************************************************************************)
(* Model checking of EncSlice: a picture and one that refers to it, of     *)
(* three by three CTUs.                                                    *)
(***************************************************************************)
EXTENDS EncSlice

\* The second picture refers to the first.
ChainRefs == [p \in 0 .. 1 |-> 0 .. p - 1]

OneCol   == [x \in 0 .. 2 |-> 2]
TwoCols  == [x \in 0 .. 2 |-> IF x = 0 THEN 0 ELSE 2]
TwoRows  == [y \in 0 .. 2 |-> IF y <= 1 THEN 1 ELSE 2]

Config(ifp, asu, wpp, parallel, across, delays, cols, rows) ==
  [ifpLines |-> ifp, asuHeight |-> asu, wpp |-> wpp, tileParallel |-> parallel,
   acrossTiles |-> across, encDelays |-> delays, lastCol |-> cols, lastRow |-> rows]

\* Inter-frame parallel processing with one tile and with two, and two by two
\* tiles that are coded in parallel, filtered across their boundaries or not.
EncoderConfigs ==
  {Config(1, 1, FALSE, TRUE, TRUE, {1, 3}, OneCol, OneCol),
   Config(1, 1, TRUE, TRUE, TRUE, {1}, TwoCols, OneCol),
   Config(0, 2, FALSE, TRUE, TRUE, {3}, TwoCols, TwoRows),
   Config(0, 1, FALSE, FALSE, FALSE, {1}, TwoCols, TwoRows)}
=============================================================================
