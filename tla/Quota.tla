------------------------------- MODULE Quota -------------------------------
(***************************************************************************)
(* Quota accounting (src/models/quota.rs).                                 *)
(*                                                                         *)
(* A bucket row and its owner's row each keep a limit, the bytes charged   *)
(* for stored objects (used) and the bytes held for uploads in flight      *)
(* (reserved).  The code takes no lock: every change is one UPDATE whose   *)
(* WHERE clause is its guard, so a step of this module is one statement.   *)
(* A procedure of quota.rs is two or three statements, first the bucket's, *)
(* then the owner's, and anything may happen between them, the loss of the *)
(* caller included (Drop).                                                 *)
(*                                                                         *)
(* The callers are left open: a request may call any procedure with any    *)
(* amount.  The modules that extend this one say who calls what.           *)
(***************************************************************************)
EXTENDS Integers

CONSTANTS
  Buckets,     \* bucket ids
  Users,       \* account ids
  Owner,       \* Owner[b] is the account a bucket charges
  BucketMax,   \* max_bytes of each bucket, 0 for no limit
  UserMax,     \* max_bytes of each account
  Requests,    \* handlers and task items that may call quota.rs
  Bytes,       \* amounts a caller reserves, releases, commits or credits
  Deltas,      \* byte deltas a caller settles without a reservation
  CountCap,    \* bounds the objects the open callers add to a bucket; negative: no bound
  NoBucket

ASSUME OwnerAssumption == Owner \in [Buckets -> Users]
ASSUME MaxAssumption == BucketMax \in [Buckets -> Nat] /\ UserMax \in [Users -> Nat]
ASSUME BytesAssumption == Bytes \subseteq Nat
ASSUME DeltasAssumption == Deltas \subseteq Int
ASSUME CountCapAssumption == CountCap \in Int
ASSUME NoBucketAssumption == NoBucket \notin Buckets

VARIABLES
  live,        \* the buckets whose row exists
  bucket,      \* the quota columns of a bucket row
  account,     \* the quota columns of a user row
  call         \* the quota procedure each request is executing

qvars == <<live, bucket, account, call>>

----------------------------------------------------------------------------
(* One row's columns, and the UPDATE statements on them. *)

AccountColumns == [max : Nat, used : Int, reserved : Int]
BucketColumns == [max : Nat, used : Int, reserved : Int, count : Int]

Load(c) == c.used + c.reserved

\* Mutant of HasRoom: uploads in flight are not counted.
HasRoomForUsed(c, n) == c.max = 0 \/ c.used + n <= c.max

HasRoom(c, n) == c.max = 0 \/ Load(c) + n <= c.max

Hold(c, n) == [c EXCEPT !.reserved = @ + n]

\* Mutant of Unhold: the guard of the release is dropped.
UnholdUnguarded(c, n) == [c EXCEPT !.reserved = @ - n]

Unhold(c, n) == IF c.reserved >= n THEN [c EXCEPT !.reserved = @ - n] ELSE c

Adjust(c, n) == IF c.used + n >= 0 THEN [c EXCEPT !.used = @ + n] ELSE c

Spend(c, n) ==
  IF c.reserved >= n
    THEN [max |-> c.max, used |-> c.used + n, reserved |-> c.reserved - n]
    ELSE c

CommitColumns(c, n, d) ==
  IF c.reserved >= n
    THEN [max |-> c.max, used |-> c.used + n, reserved |-> c.reserved - n,
          count |-> c.count + d]
    ELSE c

\* Mutant of SettleColumns: the guard of the settle is dropped.
SettleColumnsUnguarded(c, n, d) == [c EXCEPT !.used = @ + n, !.count = @ + d]

SettleColumns(c, n, d) ==
  IF c.used + n >= 0
    THEN [max |-> c.max, used |-> c.used + n, reserved |-> c.reserved,
          count |-> c.count + d]
    ELSE c

\* Mutant of CreditColumns: the guards of account_for_delete are dropped.
CreditColumnsUnguarded(c, n) == [c EXCEPT !.used = @ - n, !.count = @ - 1]

CreditColumns(c, n) ==
  IF c.used >= n /\ c.count >= 1
    THEN [max |-> c.max, used |-> c.used - n, reserved |-> c.reserved,
          count |-> c.count - 1]
    ELSE c

Recomputed(c, n, k) == [max |-> c.max, used |-> n, reserved |-> 0, count |-> k]

RecomputedUser(c, n) == [max |-> c.max, used |-> n, reserved |-> 0]

----------------------------------------------------------------------------
(* A procedure in progress: the next statement it will issue, or how it    *)
(* ended, and its arguments.                                               *)

Pending == {"reserve_user", "unreserve", "release_user", "commit_user",
            "settle_bucket", "settle_user", "credit_bucket", "credit_user"}
Ended == {"none", "ok", "failed"}

Call == [at : Pending \cup Ended, bucket : Buckets \cup {NoBucket},
         bytes : Int, objects : {0, 1}]

NoCall == [at |-> "none", bucket |-> NoBucket, bytes |-> 0, objects |-> 0]

Frame(at, b, n, d) == [at |-> at, bucket |-> b, bytes |-> n, objects |-> d]

----------------------------------------------------------------------------
(* The statements.  An UPDATE whose row is gone changes nothing. *)

UpdateBucket(b, c) ==
  bucket' = IF b \in live THEN [bucket EXCEPT ![b] = c] ELSE bucket

UpdateOwner(b, c) == account' = [account EXCEPT ![Owner[b]] = c]

Goto(r, at) == call' = [call EXCEPT ![r].at = at]

AtStatement(r, at) == call[r].at = at

Free(r) == call[r].at \in Ended

\* reserve(): the bucket is read and its row updated if it has room.  A bucket
\* deleted between the two refuses like a full one, so they are one step.
Reserve(r, b, n) ==
  /\ Free(r)
  /\ IF b \in live /\ HasRoom(bucket[b], n)
       THEN /\ UpdateBucket(b, Hold(bucket[b], n))
            /\ call' = [call EXCEPT ![r] = Frame("reserve_user", b, n, 0)]
       ELSE /\ call' = [call EXCEPT ![r] = Frame("failed", b, n, 0)]
            /\ UNCHANGED bucket
  /\ UNCHANGED <<live, account>>

\* reserve(), the owner's half.
ReserveUser(r) ==
  LET c == call[r] IN
  /\ AtStatement(r, "reserve_user")
  /\ IF HasRoom(account[Owner[c.bucket]], c.bytes)
       THEN /\ UpdateOwner(c.bucket, Hold(account[Owner[c.bucket]], c.bytes))
            /\ Goto(r, "ok")
       ELSE /\ Goto(r, "unreserve")
            /\ UNCHANGED account
  /\ UNCHANGED <<live, bucket>>

\* reserve(): the account refused, so the bucket's hold is given back.
Unreserve(r) ==
  LET c == call[r] IN
  /\ AtStatement(r, "unreserve")
  /\ UpdateBucket(c.bucket, Unhold(bucket[c.bucket], c.bytes))
  /\ Goto(r, "failed")
  /\ UNCHANGED <<live, account>>

Release(r, b, n) ==
  /\ Free(r)
  /\ UpdateBucket(b, Unhold(bucket[b], n))
  /\ call' = [call EXCEPT ![r] = Frame("release_user", b, n, 0)]
  /\ UNCHANGED <<live, account>>

ReleaseUser(r) ==
  LET c == call[r] IN
  /\ AtStatement(r, "release_user")
  /\ UpdateOwner(c.bucket, Unhold(account[Owner[c.bucket]], c.bytes))
  /\ Goto(r, "ok")
  /\ UNCHANGED <<live, bucket>>

\* commit(): the held bytes become stored bytes.  Nothing looks at the number of
\* rows the UPDATE changed: a hold that is gone commits nothing, and says so to nobody.
Commit(r, b, n, d) ==
  /\ Free(r)
  /\ UpdateBucket(b, CommitColumns(bucket[b], n, d))
  /\ call' = [call EXCEPT ![r] = Frame("commit_user", b, n, d)]
  /\ UNCHANGED <<live, account>>

CommitUser(r) ==
  LET c == call[r] IN
  /\ AtStatement(r, "commit_user")
  /\ UpdateOwner(c.bucket, Spend(account[Owner[c.bucket]], c.bytes))
  /\ Goto(r, "ok")
  /\ UNCHANGED <<live, bucket>>

\* settle(): an early return when there is nothing to do, then the read of the bucket.
Settle(r, b, n, d) ==
  LET at == IF n = 0 /\ d = 0 THEN "ok"
            ELSE IF b \in live THEN "settle_bucket" ELSE "failed" IN
  /\ Free(r)
  /\ call' = [call EXCEPT ![r] = Frame(at, b, n, d)]
  /\ UNCHANGED <<live, bucket, account>>

SettleBucket(r) ==
  LET c == call[r] IN
  /\ AtStatement(r, "settle_bucket")
  /\ UpdateBucket(c.bucket, SettleColumns(bucket[c.bucket], c.bytes, c.objects))
  /\ Goto(r, "settle_user")
  /\ UNCHANGED <<live, account>>

SettleUser(r) ==
  LET c == call[r] IN
  /\ AtStatement(r, "settle_user")
  /\ UpdateOwner(c.bucket, Adjust(account[Owner[c.bucket]], c.bytes))
  /\ Goto(r, "ok")
  /\ UNCHANGED <<live, bucket>>

\* account_for_delete(): the read of the bucket, then its row, then the owner's.
Credit(r, b, n) ==
  /\ Free(r)
  /\ call' = [call EXCEPT ![r] =
       Frame(IF b \in live THEN "credit_bucket" ELSE "failed", b, n, 0)]
  /\ UNCHANGED <<live, bucket, account>>

CreditBucket(r) ==
  LET c == call[r] IN
  /\ AtStatement(r, "credit_bucket")
  /\ UpdateBucket(c.bucket, CreditColumns(bucket[c.bucket], c.bytes))
  /\ Goto(r, "credit_user")
  /\ UNCHANGED <<live, account>>

CreditUser(r) ==
  LET c == call[r] IN
  /\ AtStatement(r, "credit_user")
  /\ UpdateOwner(c.bucket, Adjust(account[Owner[c.bucket]], -c.bytes))
  /\ Goto(r, "ok")
  /\ UNCHANGED <<live, bucket>>

\* The next statement of the procedure a request is in.
Continue(r) ==
  \/ ReserveUser(r) \/ Unreserve(r) \/ ReleaseUser(r) \/ CommitUser(r)
  \/ SettleBucket(r) \/ SettleUser(r) \/ CreditBucket(r) \/ CreditUser(r)

\* The caller is gone (its process died, its client hung up and the handler's
\* future was dropped, or it simply went on), wherever it was.
Drop(r) ==
  /\ call[r] # NoCall
  /\ call' = [call EXCEPT ![r] = NoCall]
  /\ UNCHANGED <<live, bucket, account>>

\* The bucket's row is deleted; its owner's counters stay as they are.
DropBucket(b) ==
  /\ b \in live
  /\ live' = live \ {b}
  /\ UNCHANGED <<bucket, account, call>>

\* reconcile() commits: the buckets of B get their recomputed totals, the
\* accounts of U theirs, and every hold on them is cleared.
Recompute(B, used, count, U, usedUser) ==
  /\ bucket' = [b \in Buckets |->
       IF b \in B \cap live
         THEN Recomputed(bucket[b], used[b], count[b])
         ELSE bucket[b]]
  /\ account' = [u \in Users |->
       IF u \in U THEN RecomputedUser(account[u], usedUser[u]) ELSE account[u]]
  /\ UNCHANGED <<live, call>>

----------------------------------------------------------------------------
(* The open protocol: any request calls anything, in any order.            *)

QuotaInit ==
  /\ live = Buckets
  /\ bucket = [b \in Buckets |->
       [max |-> BucketMax[b], used |-> 0, reserved |-> 0, count |-> 0]]
  /\ account = [u \in Users |-> [max |-> UserMax[u], used |-> 0, reserved |-> 0]]
  /\ call = [r \in Requests |-> NoCall]

Countable(b) == CountCap < 0 \/ bucket[b].count < CountCap

CallQuota(r) ==
  \E b \in Buckets :
    \/ \E n \in Bytes : Reserve(r, b, n) \/ Release(r, b, n) \/ Credit(r, b, n)
    \/ \E n \in Bytes, d \in {0, 1} :
         /\ d = 1 => Countable(b)
         /\ Commit(r, b, n, d)
    \/ \E n \in Deltas, d \in {0, 1} :
         /\ d = 1 => Countable(b)
         /\ Settle(r, b, n, d)

\* Everything but the reconcile task.
RequestNext ==
  \/ \E r \in Requests : CallQuota(r) \/ Continue(r) \/ Drop(r)
  \/ \E b \in Buckets : DropBucket(b)

ReconcileNext ==
  \E B \in SUBSET Buckets, U \in SUBSET Users :
    \E used, count \in [B -> Bytes], usedUser \in [U -> Bytes] :
      Recompute(B, used, count, U, usedUser)

QuotaNext == RequestNext \/ ReconcileNext

QuotaSpec == QuotaInit /\ [][QuotaNext]_qvars

\* The same without the reconcile task.
AdmissionSpec == QuotaInit /\ [][RequestNext]_qvars

----------------------------------------------------------------------------
(* What quota.rs promises, whoever calls it. *)

\* The type of the tables and the calls; part of the type invariant of every module
\* whose handlers call quota.rs.
QuotaTypeOK ==
  /\ live \subseteq Buckets
  /\ bucket \in [Buckets -> BucketColumns]
  /\ account \in [Users -> AccountColumns]
  /\ call \in [Requests -> Call]

\* No counter of any row is ever negative: a release, a commit or a credit that
\* is repeated, is for too much, or comes after a reconcile cleared the hold,
\* changes nothing.  The CHECK constraints of the migrations are never needed.
NonNegative ==
  /\ \A b \in Buckets : /\ bucket[b].used >= 0
                        /\ bucket[b].reserved >= 0
                        /\ bucket[b].count >= 0
  /\ \A u \in Users : account[u].used >= 0 /\ account[u].reserved >= 0

Within(c) == c.max = 0 \/ Load(c) <= c.max

\* Stored and held bytes together stay within the limit, at both levels, in every
\* interleaving of the statements, while settling only shrinks and no reconcile runs.
WithinQuota ==
  /\ \A b \in Buckets : Within(bucket[b])
  /\ \A u \in Users : Within(account[u])

AdmittedGrowth(c, d) == Load(d) > Load(c) => Within(d)

\* A reconcile may find more than the limit allows and write it down; even then, and in
\* whatever state it left the holds, no statement of a request takes a row's load up to
\* anything above its limit.  (A request's statement moves its call on; a reconcile
\* leaves the calls alone.)
GrowthAdmitted ==
  [][call' # call => /\ \A b \in Buckets : AdmittedGrowth(bucket[b], bucket'[b])
                     /\ \A u \in Users : AdmittedGrowth(account[u], account'[u])]_qvars
=============================================================================
