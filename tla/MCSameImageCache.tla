------------------------- MODULE MCSameImageCache -------------------------
(***************************************************************************)
(* Four images: the second looks like the first and the third, which do    *)
(* not look alike; then the third becomes an exact copy of the first.      *)
(***************************************************************************)
EXTENDS SameImageCache

CONSTANTS r1, w1, w2

MCAssets  == 1 .. 4
MCExactOf == << <<1, 2, 3, 4>>, <<1, 2, 1, 4>> >>
MCNearOf  == << <<{2}, {1, 3}, {2}, {}>>, <<{}, {}, {}, {}>> >>
MCReaders == {r1}
MCWorkers == {w1, w2}
MCCandidates == <<1, 3>>
=============================================================================
