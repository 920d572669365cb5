------------------------------ MODULE MCDecLib ------------------------------
(***************************************************************************)
(* Model checking of DecLib: the streams.                                  *)
(***************************************************************************)
EXTENDS DecLib

\* A picture with one slice, its active and its inactive references.
P(poc, refs, kept) ==
  [poc |-> poc, idr |-> FALSE, refs |-> refs, kept |-> kept, nonRef |-> FALSE,
   out |-> TRUE, slices |-> 1, fault |-> "none"]
I(poc)      == [P(poc, {}, {}) EXCEPT !.idr = TRUE]
N(p)        == [p EXCEPT !.nonRef = TRUE]
Hidden(p)   == [p EXCEPT !.out = FALSE]
Faulty(p, fault) == [p EXCEPT !.fault = fault, !.slices = 2]

\* Two groups of pictures with reordering, then a new sequence.
Reordered ==
  <<I(0), P(4, {0}, {}), P(2, {0, 4}, {}), N(P(1, {0, 2}, {4})), P(8, {4}, {2}),
    P(6, {4, 8}, {}), I(0), P(1, {0}, {})>>

\* More pictures than buffers.  One that is a reference, though not shown, is
\* forgotten by the next picture but one; one fails when flushPic has chosen
\* another for output.
Chain ==
  <<I(0), P(1, {0}, {}), P(2, {1}, {}), Hidden(P(4, {2}, {})), P(3, {2, 4}, {}),
    P(5, {3}, {}), P(6, {5}, {}), P(7, {6}, {}), P(8, {7}, {}), P(9, {8}, {}),
    [P(10, {9}, {}) EXCEPT !.fault = "recon"], P(11, {10}, {}), P(12, {11}, {})>>
\* Starts within a sequence; then a picture whose slices are parsed with an
\* exception and one reconstructed with one, both of them references.
ParseFault ==
  <<P(6, {5}, {}), I(0), Faulty(P(2, {0}, {}), "parse"), P(1, {0, 2}, {}),
    P(4, {2}, {}), P(3, {2, 4}, {})>>
ReconFault ==
  <<I(0), Faulty(P(2, {0}, {}), "recon"), P(1, {0, 2}, {}),
    [Faulty(P(4, {2}, {}), "parse") EXCEPT !.slices = 1], P(3, {2, 4}, {})>>

\* The exception of a slice's task is noticed when the next slice arrives, and
\* flushPic comes to the picture.
LastFault == <<I(0), P(2, {0}, {}), Faulty(P(1, {0, 2}, {}), "parse")>>

\* The header of a last slice cannot be parsed, early enough for decode to
\* come to the picture; then references of a picture are lost.
HeadFault ==
  <<I(0), Faulty(P(2, {0}, {}), "head"), P(1, {0, 2}, {}), P(4, {2}, {}), P(8, {6}, {})>>

\* The lost picture is only kept by the lists, or is referenced by a
\* non-reference picture.
Orphan ==
  <<I(0), P(2, {0}, {}), P(4, {2}, {3}), P(5, {2}, {}), N(P(7, {6}, {}))>>

PictureStreams ==
  {Reordered, Chain, ParseFault, ReconFault, LastFault, HeadFault, Orphan}

\* The last slice of the last picture is lost.
LastSliceLost == <<I(0), Faulty(P(1, {0}, {}), "lost")>>
LossyStreams  == {LastSliceLost}
=============================================================================
