---------------------------- MODULE MCReconcile ----------------------------
(* The reconcile task, run over and over beside a handler that may be at   *)
(* any point of its request; the handler or the task may be lost.          *)
EXTENDS Reconcile, TLC

CONSTANTS b1, u1, r1, k1

MCOwner == b1 :> u1
MCBucketMax == b1 :> 2
MCUserMax == u1 :> 1
=============================================================================
