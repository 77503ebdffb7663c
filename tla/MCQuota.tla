------------------------------ MODULE MCQuota ------------------------------
(* quota.rs alone, called in any order by two requests: together they can *)
(* fill the bucket, and its owner refuses before it does.                  *)
EXTENDS Quota, TLC

CONSTANTS b1, u1, r1, r2

MCOwner == b1 :> u1
MCBucketMax == b1 :> 3
MCUserMax == u1 :> 2
MCDeltas == {-1, 0}
=============================================================================
