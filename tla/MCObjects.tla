----------------------------- MODULE MCObjects -----------------------------
(* Two handlers, never on one key at a time, over two keys of a bucket     *)
(* whose limit is above its owner's.                                       *)
EXTENDS Objects, TLC

CONSTANTS b1, u1, r1, r2, k1, k2

MCOwner == b1 :> u1
MCBucketMax == b1 :> 4
MCUserMax == u1 :> 3
MCNoCap == -1
MCBytes == Sizes
MCDeltas == {-n : n \in Sizes}

\* The hypothesis of the theorems of Accounting_proofs holds of this instance.
ASSUME AmountsAssumption == AmountsCovered

MCSymmetry == Permutations({r1, r2}) \cup Permutations({k1, k2})
=============================================================================
