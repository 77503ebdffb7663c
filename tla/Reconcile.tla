----------------------------- MODULE Reconcile -----------------------------
(***************************************************************************)
(* The reconcile task (src/tasks/reconcile_quota.rs, quota::reconcile)     *)
(* beside the object verbs: it recomputes every counter from the object    *)
(* rows and clears every hold, in one transaction.                         *)
(*                                                                         *)
(* The transaction runs at READ COMMITTED, PostgreSQL's default, which the *)
(* code does not change: each of its reads sees what has been committed by *)
(* then, plus its own writes; a row it wrote is locked until it commits,   *)
(* so another request's UPDATE that would change that row waits, and its   *)
(* guard is evaluated on what the task committed.                          *)
(***************************************************************************)
EXTENDS Objects

VARIABLE rec   \* the pass in progress

vars == <<gatewayVars, rec>>

NoTotals == [bytes |-> 0, count |-> 0]

NoPass ==
  [pc |-> "idle",
   bucket |-> <<>>,      \* the bucket rows as first read
   account |-> <<>>,     \* the user rows as read after the buckets
   todo |-> {},          \* buckets, then accounts, not yet looked at
   at |-> {},            \* the one being looked at
   totals |-> NoTotals,  \* what its object rows, or its buckets, add up to
   buckets |-> <<>>,     \* the totals written so far, by bucket
   accounts |-> <<>>]    \* and by account

Pass(pc) == rec.pc = pc

SizesIn(b) == [bytes |-> SizeIn(row, b),
               count |-> Cardinality({o \in ObjectsOf(b) : row[o] # Absent})]

\* An account's total, as the transaction sees it.
BytesOf(u) ==
  MapThenSumSet(
    LAMBDA b : IF b \in DOMAIN rec.buckets THEN rec.buckets[b].bytes ELSE bucket[b].used,
    BucketsOf(u) \cap live)

RecBegin ==
  /\ Pass("idle")
  /\ rec' = [NoPass EXCEPT !.pc = "buckets", !.bucket = bucket, !.todo = live]
  /\ UNCHANGED gatewayVars

\* Mutant of RecScan: a bucket whose totals agree keeps its dead holds.
RecScanIgnoringHolds(b) ==
  LET seen == rec.bucket[b]
      agrees == seen.used = SizesIn(b).bytes /\ seen.count = SizesIn(b).count IN
  /\ Pass("buckets") /\ rec.at = {} /\ b \in rec.todo
  /\ rec' = IF agrees
              THEN [rec EXCEPT !.todo = @ \ {b}]
              ELSE [rec EXCEPT !.todo = @ \ {b}, !.at = {b}, !.totals = SizesIn(b)]
  /\ UNCHANGED gatewayVars

\* The object rows of one bucket are read; a bucket that agrees is skipped.
RecScan(b) ==
  LET seen == rec.bucket[b]
      agrees == /\ seen.used = SizesIn(b).bytes
                /\ seen.count = SizesIn(b).count
                /\ seen.reserved = 0 IN
  /\ Pass("buckets") /\ rec.at = {} /\ b \in rec.todo
  /\ rec' = IF agrees
              THEN [rec EXCEPT !.todo = @ \ {b}]
              ELSE [rec EXCEPT !.todo = @ \ {b}, !.at = {b}, !.totals = SizesIn(b)]
  /\ UNCHANGED gatewayVars

\* Its row is updated, and stays locked.
RecFix ==
  /\ Pass("buckets") /\ rec.at # {}
  /\ rec' = [rec EXCEPT !.at = {}, !.totals = NoTotals,
       !.buckets = [b \in DOMAIN @ \cup rec.at |->
                     IF b \in rec.at THEN rec.totals ELSE @[b]]]
  /\ UNCHANGED gatewayVars

RecAccounts ==
  /\ Pass("buckets") /\ rec.at = {} /\ rec.todo = {}
  /\ rec' = [rec EXCEPT !.pc = "accounts", !.bucket = <<>>, !.account = account,
                        !.todo = Users]
  /\ UNCHANGED gatewayVars

RecSum(u) ==
  LET seen == rec.account[u] IN
  /\ Pass("accounts") /\ rec.at = {} /\ u \in rec.todo
  /\ rec' = IF seen.used = BytesOf(u) /\ seen.reserved = 0
              THEN [rec EXCEPT !.todo = @ \ {u}]
              ELSE [rec EXCEPT !.todo = @ \ {u}, !.at = {u},
                               !.totals = [bytes |-> BytesOf(u), count |-> 0]]
  /\ UNCHANGED gatewayVars

RecCharge ==
  /\ Pass("accounts") /\ rec.at # {}
  /\ rec' = [rec EXCEPT !.at = {}, !.totals = NoTotals,
       !.accounts = [u \in DOMAIN @ \cup rec.at |->
                      IF u \in rec.at THEN rec.totals ELSE @[u]]]
  /\ UNCHANGED gatewayVars

RecCommit ==
  LET B == DOMAIN rec.buckets
      U == DOMAIN rec.accounts IN
  /\ Pass("accounts") /\ rec.at = {} /\ rec.todo = {}
  /\ Recompute(B, [b \in B |-> rec.buckets[b].bytes], [b \in B |-> rec.buckets[b].count],
               U, [u \in U |-> rec.accounts[u].bytes])
  /\ rec' = NoPass
  /\ UNCHANGED ovars

\* The task dies or a statement of it fails: the transaction is rolled back.
RecRollback ==
  /\ ~Pass("idle")
  /\ Fault
  /\ rec' = NoPass
  /\ UNCHANGED <<row, blob, req, qvars>>

RecStep ==
  \/ \E b \in Buckets : RecScan(b)
  \/ \E u \in Users : RecSum(u)
  \/ RecBegin \/ RecFix \/ RecAccounts \/ RecCharge \/ RecCommit

\* A request's UPDATE that would change a row the task has locked waits.
Unlocked ==
  /\ \A b \in DOMAIN rec.buckets : bucket'[b] = bucket[b]
  /\ \A u \in DOMAIN rec.accounts : account'[u] = account[u]

Init == ObjectsInit /\ rec = NoPass

Next ==
  \/ ObjectsNext /\ Unlocked /\ UNCHANGED rec
  \/ RecStep \/ RecRollback

\* The task is run on a schedule, again and again.
Fairness ==
  /\ WF_vars(RecStep)
  /\ \A r \in Requests : /\ WF_vars(Proceed(r) /\ Unlocked /\ UNCHANGED rec)
                         /\ WF_vars(SendCopy(r) /\ UNCHANGED rec)

Spec == Init /\ [][Next]_vars /\ Fairness

----------------------------------------------------------------------------
(* Properties. *)

Exact ==
  /\ Charged
  /\ \A b \in Buckets : bucket[b].reserved = 0
  /\ \A u \in Users : account[u].reserved = 0

\* Whatever was lost, whoever raced, and however often the task itself was interrupted or
\* ran over live uploads: once clients stop, the counters end up exact and stay so.
DriftRepaired == <>[]Quiet => <>[]Exact
=============================================================================
