---------------------------- MODULE MCMultipart ----------------------------
(* One multipart upload of up to two parts, beside copies and deletes, on a *)
(* key of a bucket whose limit is above its owner's.                       *)
EXTENDS Multipart, TLC

CONSTANTS b1, u1, r1, r2, k1, m1

MCOwner == b1 :> u1
MCBucketMax == b1 :> 3
MCUserMax == u1 :> 2
MCNoCap == -1
MCSymmetry == Permutations({r1, r2})
=============================================================================
