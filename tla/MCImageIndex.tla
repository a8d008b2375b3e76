---------------------------- MODULE MCImageIndex ----------------------------
(***************************************************************************)
(* The builds of the image index and the cache of same images              *)
(* (MCSameImageCache).  The cache sees a manifest of its own, so each part *)
(* is explored with the other at rest.                                     *)
(***************************************************************************)
EXTENDS IndexBuild, TLC, MCSameImageCache

\* IndexBuild: two files that can become copies of each other.  A serial scan
\* is a parallel one that waits for each answer.  Embeddings may be imported
\* after both builds, and the second can have room for one file only.
CONSTANTS f1, f2, c1, c2

MCPaths == {f1, f2}
MCGoods == {c1, c2}
MCKinds == {"sscd"}
MCLimits == <<{2}, {1, 2}>>
MCForces == <<{FALSE}, {FALSE, TRUE}>>
MCSymmetry == Permutations(MCPaths) \cup Permutations(MCGoods) \cup Permutations(MCWorkers)

VARIABLE part  \* what is explored

imageIndexVars == <<buildVars, sameVars, part>>

ImageIndexInit ==
  /\ part \in {"build", "same"}
  /\ BuildInit /\ SameInit
  /\ part # "build" => \A p \in Paths : disk[p].content = Gone

ImageIndexNext ==
  /\ \/ part = "build" /\ BuildNext /\ UNCHANGED sameVars
     \/ part = "same" /\ SameNext /\ UNCHANGED buildVars
  /\ UNCHANGED part

ImageIndexSpec == ImageIndexInit /\ [][ImageIndexNext]_imageIndexVars
=============================================================================
