----------------------------- MODULE MCEncStages -----------------------------
(***************************************************************************)
(* Model checking of EncStages: the configurations.                        *)
(***************************************************************************)
EXTENDS EncStages

\* A hierarchical group of four, the last of a group coded first (no POC 0
\* IDR): coding order 3, 1, 0, 2, 7, 5, 4, 6, ...
Place == <<2, 1, 3, 0>>
Dyadic(frames) ==
  [size |-> 4, reorder |-> 2,
   codingNum |-> [p \in 0..frames |-> 4 * (p \div 4) + Place[(p % 4) + 1]],
   group |-> [p \in 0..frames |-> p \div 4],
   refs  |-> [p \in 0..frames |-> {q \in 0..frames :
                CASE p % 4 = 3 -> q = p - 4
                  [] p % 4 = 1 -> q \in {p - 2, p + 2}
                  [] p % 4 = 0 -> q \in {p - 1, p + 1}
                  [] p % 4 = 2 -> q \in {p - 1, p + 1}}],
   rpl   |-> [p \in 0..frames |-> {q \in 0..frames :
                CASE p % 4 = 3 -> q = p - 4
                  [] p % 4 = 1 -> q \in {p - 2, p + 2}
                  [] p % 4 = 0 -> q \in {p - 1, p + 1, p + 3}
                  [] p % 4 = 2 -> q \in {p - 1, p + 1}}]]

\* No reordering: the frame before and the last key frame.
LowDelay(size, frames) ==
  [size |-> size, reorder |-> 0,
   codingNum |-> [p \in 0..frames |-> p],
   group |-> [p \in 0..frames |-> IF p = 0 THEN 0 ELSE (p - 1) \div size],
   refs  |-> [p \in 0..frames |-> {q \in 0..frames : q = p - 1 \/ q = size * ((p - 1) \div size)}],
   rpl   |-> [p \in 0..frames |-> {q \in 0..frames : q = p - 1 \/ q = size * ((p - 1) \div size)}]]

AllIntra(frames) == [LowDelay(1, frames) EXCEPT !.refs = [p \in 0..frames |-> {}],
                                                !.rpl  = [p \in 0..frames |-> {}]]

Input(threads, parallel, stops) ==
  [threads |-> threads, parallel |-> parallel, stops |-> stops, lead |-> 0, toEncode |-> 0,
   rec |-> FALSE, range |-> 6, extra |-> 3, delay |-> 4]

\* Serial with lead and trail frames and reconstructed pictures for the caller;
\* threads without frame parallelism; frame-parallel, at the limit of units and
\* with a shorter filter.
Serial   == LowDelay(2, 24) @@
  [Input(FALSE, 0, 1..20) EXCEPT !.lead = 6, !.toEncode = 9, !.rec = TRUE]
Blocking == Dyadic(18) @@ [Input(TRUE, 0, 1..15) EXCEPT !.rec = TRUE]
Parallel == Dyadic(20) @@
  [Input(TRUE, 2, {2, 9}) EXCEPT !.range = 1, !.delay = 1, !.extra = 0]
Limited  == AllIntra(20) @@ [Input(TRUE, 1, {7, 8}) EXCEPT !.range = 1, !.extra = 1]

EncoderConfigs == {Serial, Blocking, Parallel, Limited}

\* The caller flushes first and then encodes after all.
EarlyFlush == {AllIntra(4) @@ Input(FALSE, 0, 0..2)}
=============================================================================
