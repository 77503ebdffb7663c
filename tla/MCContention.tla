---------------------------- MODULE MCContention ----------------------------
(* Handlers that race on one key of a bucket whose limit is above its      *)
(* owner's, and may fail.                                                  *)
EXTENDS Objects, TLC

CONSTANTS b1, u1, r1, r2, k1

MCOwner == b1 :> u1
MCBucketMax == b1 :> 2
MCUserMax == u1 :> 1

\* No limit at either level, and clients that only put.
MCUnlimitedBucket == b1 :> 0
MCUnlimitedUser == u1 :> 0
PutsOnly == \A r \in Requests : req[r].op \in {"none", "put"}
=============================================================================
