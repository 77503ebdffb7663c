---------------------------- MODULE Quota_proofs ----------------------------
(* What quota.rs guarantees to every caller, for every set of buckets,     *)
(* accounts and requests, every limit and every amount.                    *)
EXTENDS Quota, TLAPS

----------------------------------------------------------------------------
(* The UPDATE statements: each keeps a row's columns integers, none takes a *)
(* counter below zero, and only Hold and Adjust can raise the load.         *)

NonNegativeColumns(c) == c.used >= 0 /\ c.reserved >= 0

\* The statements on an account row.
LEMMA AccountStatements ==
  ASSUME NEW c \in AccountColumns, NEW n \in Int
  PROVE  /\ Hold(c, n) \in AccountColumns
         /\ Unhold(c, n) \in AccountColumns
         /\ Spend(c, n) \in AccountColumns
         /\ Adjust(c, n) \in AccountColumns
<1>1. Hold(c, n) \in AccountColumns
  BY DEF AccountColumns, Hold
<1>2. Unhold(c, n) \in AccountColumns
  BY DEF AccountColumns, Unhold
<1>3. Spend(c, n) \in AccountColumns
  BY DEF AccountColumns, Spend
<1>4. Adjust(c, n) \in AccountColumns
  BY DEF AccountColumns, Adjust
<1> QED
  BY <1>1, <1>2, <1>3, <1>4

\* The statements on a bucket row.
LEMMA BucketStatements ==
  ASSUME NEW c \in BucketColumns, NEW n \in Int, NEW d \in {0, 1}
  PROVE  /\ Hold(c, n) \in BucketColumns
         /\ Unhold(c, n) \in BucketColumns
         /\ CommitColumns(c, n, d) \in BucketColumns
         /\ SettleColumns(c, n, d) \in BucketColumns
         /\ CreditColumns(c, n) \in BucketColumns
<1>1. Hold(c, n) \in BucketColumns
  BY DEF BucketColumns, Hold
<1>2. Unhold(c, n) \in BucketColumns
  BY DEF BucketColumns, Unhold
<1>3. CommitColumns(c, n, d) \in BucketColumns
  BY DEF BucketColumns, CommitColumns
<1>4. SettleColumns(c, n, d) \in BucketColumns
  BY DEF BucketColumns, SettleColumns
<1>5. CreditColumns(c, n) \in BucketColumns
  BY DEF BucketColumns, CreditColumns
<1> QED
  BY <1>1, <1>2, <1>3, <1>4, <1>5

\* No statement on an account row takes a counter below zero.
LEMMA AccountNonNegative ==
  ASSUME NEW c \in AccountColumns, NonNegativeColumns(c), NEW n \in Int
  PROVE  /\ n >= 0 => NonNegativeColumns(Hold(c, n))
         /\ n >= 0 => NonNegativeColumns(Unhold(c, n))
         /\ n >= 0 => NonNegativeColumns(Spend(c, n))
         /\ NonNegativeColumns(Adjust(c, n))
<1> USE DEF AccountColumns, NonNegativeColumns
<1>1. n >= 0 => NonNegativeColumns(Hold(c, n))
  BY DEF Hold
<1>2. n >= 0 => NonNegativeColumns(Unhold(c, n))
  BY DEF Unhold
<1>3. n >= 0 => NonNegativeColumns(Spend(c, n))
  BY DEF Spend
<1>4. NonNegativeColumns(Adjust(c, n))
  BY DEF Adjust
<1> QED
  BY <1>1, <1>2, <1>3, <1>4

NonNegativeRow(c) == NonNegativeColumns(c) /\ c.count >= 0

\* The same for a bucket row, whose object count stays non-negative too.
LEMMA BucketNonNegative ==
  ASSUME NEW c \in BucketColumns, NonNegativeRow(c), NEW n \in Int, NEW d \in {0, 1}
  PROVE  /\ n >= 0 => NonNegativeRow(Hold(c, n))
         /\ n >= 0 => NonNegativeRow(Unhold(c, n))
         /\ n >= 0 => NonNegativeRow(CommitColumns(c, n, d))
         /\ n >= 0 => NonNegativeRow(CreditColumns(c, n))
         /\ NonNegativeRow(SettleColumns(c, n, d))
<1> USE DEF BucketColumns, NonNegativeColumns, NonNegativeRow
<1>1. n >= 0 => NonNegativeRow(Hold(c, n))
  BY DEF Hold
<1>2. n >= 0 => NonNegativeRow(Unhold(c, n))
  BY DEF Unhold
<1>3. n >= 0 => NonNegativeRow(CommitColumns(c, n, d))
  BY DEF CommitColumns
<1>4. n >= 0 => NonNegativeRow(CreditColumns(c, n))
  BY DEF CreditColumns
<1>5. NonNegativeRow(SettleColumns(c, n, d))
  BY DEF SettleColumns
<1> QED
  BY <1>1, <1>2, <1>3, <1>4, <1>5

----------------------------------------------------------------------------
(* The invariant that makes the statements' guards enough: a procedure in  *)
(* progress has a bucket, and an amount its caller gave it.                *)

Settling == {"settle_bucket", "settle_user"}

Arguments ==
  \A r \in Requests : call[r].at \in Pending =>
    /\ call[r].bucket \in Buckets
    /\ call[r].bytes \in IF call[r].at \in Settling THEN Deltas ELSE Nat

IInv == QuotaTypeOK /\ Arguments

\* What a statement may make of a bucket row, and of an account row.
BucketStatement(c, d) ==
  \/ d = c
  \/ \E n \in Nat, k \in {0, 1} : \/ HasRoom(c, n) /\ d = Hold(c, n)
                                  \/ d = Unhold(c, n)
                                  \/ d = CommitColumns(c, n, k)
                                  \/ d = CreditColumns(c, n)
  \/ \E n \in Deltas, k \in {0, 1} : d = SettleColumns(c, n, k)

AccountStatement(c, d) ==
  \/ d = c
  \/ \E n \in Nat : \/ HasRoom(c, n) /\ d = Hold(c, n)
                    \/ d = Unhold(c, n)
                    \/ d = Spend(c, n)
                    \/ d = Adjust(c, -n)
  \/ \E n \in Deltas : d = Adjust(c, n)

\* A step of a request, seen from the tables: each row undergoes one statement, and a
\* procedure in progress keeps the arguments it was called with.
TablesStep ==
  /\ live' \subseteq Buckets
  /\ bucket' = [b \in Buckets |-> bucket'[b]]
  /\ account' = [u \in Users |-> account'[u]]
  /\ \A b \in Buckets : BucketStatement(bucket[b], bucket'[b])
  /\ \A u \in Users : AccountStatement(account[u], account'[u])

CallsStep == call' \in [Requests -> Call] /\ Arguments'

\* Any change of one call to a well-formed one keeps the calls well formed.
LEMMA CallUpdate ==
  ASSUME IInv, NEW r \in Requests, NEW c \in Call,
         c.at \in Pending =>
           /\ c.bucket \in Buckets
           /\ c.bytes \in IF c.at \in Settling THEN Deltas ELSE Nat,
         call' = [call EXCEPT ![r] = c]
  PROVE  CallsStep
  BY DEF IInv, QuotaTypeOK, Arguments, CallsStep

\* The same when only the statement it is at changes: to the end of the procedure, or to
\* another statement that takes the same argument.
LEMMA CallAdvance ==
  ASSUME IInv, NEW r \in Requests, NEW at \in Pending \cup Ended,
         call[r].at \in Pending,
         at \in Pending => (at \in Settling <=> call[r].at \in Settling),
         Goto(r, at)
  PROVE  CallsStep
<1> DEFINE c == [call[r] EXCEPT !.at = at]
<1>1. call[r] \in Call
  BY DEF IInv, QuotaTypeOK
<1>2. /\ c \in Call
      /\ c.at = at /\ c.bucket = call[r].bucket /\ c.bytes = call[r].bytes
  BY <1>1 DEF Call
<1>3. call' = [call EXCEPT ![r] = c]
  BY DEF Goto
<1>4. c.at \in Pending =>
        /\ c.bucket \in Buckets
        /\ c.bytes \in IF c.at \in Settling THEN Deltas ELSE Nat
  BY <1>2 DEF IInv, Arguments
<1> HIDE DEF c
<1> QED
  BY <1>2, <1>3, <1>4, CallUpdate

\* Starting a procedure with an amount its caller may give it.
LEMMA CallBegins ==
  ASSUME IInv, NEW r \in Requests, NEW at \in Pending \cup Ended,
         NEW b \in Buckets, NEW n \in Int, NEW d \in {0, 1},
         at \in Pending => n \in IF at \in Settling THEN Deltas ELSE Nat,
         call' = [call EXCEPT ![r] = Frame(at, b, n, d)]
  PROVE  CallsStep
<1> DEFINE c == Frame(at, b, n, d)
<1>1. c \in Call /\ c.at = at /\ c.bucket = b /\ c.bytes = n
  BY DEF Frame, Call
<1>2. call' = [call EXCEPT ![r] = c]
  OBVIOUS
<1> HIDE DEF c
<1> QED
  BY <1>1, <1>2, CallUpdate

\* Dropping a call keeps the others as they are.
LEMMA CallDropped ==
  ASSUME IInv, NEW r \in Requests, call' = [call EXCEPT ![r] = NoCall]
  PROVE  CallsStep
<1>1. NoCall \in Call /\ NoCall.at \notin Pending
  BY DEF NoCall, Call, Pending, Ended
<1> QED
  BY <1>1, CallUpdate

\* One UPDATE of a bucket row is a step of the tables.
LEMMA BucketUpdate ==
  ASSUME IInv, NEW b \in Buckets, NEW c, BucketStatement(bucket[b], c),
         UpdateBucket(b, c), UNCHANGED <<live, account>>
  PROVE  TablesStep
<1>1. bucket \in [Buckets -> BucketColumns] /\ account \in [Users -> AccountColumns]
  BY DEF IInv, QuotaTypeOK
<1>2. \A x \in Buckets : bucket'[x] = bucket[x] \/ (x = b /\ bucket'[x] = c)
  BY <1>1 DEF UpdateBucket
<1>3. \A x \in Buckets : BucketStatement(bucket[x], bucket'[x])
  BY <1>2 DEF BucketStatement
<1>4. bucket' = [x \in Buckets |-> bucket'[x]]
  BY <1>1 DEF UpdateBucket
<1>5. \A u \in Users : AccountStatement(account[u], account'[u])
  BY DEF AccountStatement
<1>6. account' = [u \in Users |-> account'[u]] /\ live' \subseteq Buckets
  BY <1>1 DEF IInv, QuotaTypeOK
<1> QED
  BY <1>3, <1>4, <1>5, <1>6 DEF TablesStep

\* One UPDATE of an account row is a step of the tables.
LEMMA OwnerUpdate ==
  ASSUME IInv, NEW b \in Buckets, NEW c, AccountStatement(account[Owner[b]], c),
         UpdateOwner(b, c), UNCHANGED <<live, bucket>>
  PROVE  TablesStep
<1>1. bucket \in [Buckets -> BucketColumns] /\ account \in [Users -> AccountColumns]
  BY DEF IInv, QuotaTypeOK
<1>2. \A u \in Users : account'[u] = account[u] \/ (u = Owner[b] /\ account'[u] = c)
  BY <1>1 DEF UpdateOwner
<1>3. \A u \in Users : AccountStatement(account[u], account'[u])
  BY <1>2 DEF AccountStatement
<1>4. account' = [u \in Users |-> account'[u]]
  BY <1>1 DEF UpdateOwner
<1>5. \A x \in Buckets : BucketStatement(bucket[x], bucket'[x])
  BY DEF BucketStatement
<1>6. bucket' = [x \in Buckets |-> bucket'[x]] /\ live' \subseteq Buckets
  BY <1>1 DEF IInv, QuotaTypeOK
<1> QED
  BY <1>3, <1>4, <1>5, <1>6 DEF TablesStep

\* No UPDATE at all is one too, and so is the deletion of a bucket's row.
LEMMA NoUpdate ==
  ASSUME IInv, live' \subseteq live, UNCHANGED <<bucket, account>>
  PROVE  TablesStep
<1>1. bucket \in [Buckets -> BucketColumns] /\ account \in [Users -> AccountColumns]
  BY DEF IInv, QuotaTypeOK
<1>2. /\ bucket' = [x \in Buckets |-> bucket'[x]]
      /\ account' = [u \in Users |-> account'[u]]
      /\ live' \subseteq Buckets
  BY <1>1 DEF IInv, QuotaTypeOK
<1> QED
  BY <1>2 DEF TablesStep, BucketStatement, AccountStatement

\* No statement on any call.
LEMMA NoCallChange ==
  ASSUME IInv, UNCHANGED call
  PROVE  CallsStep
  BY DEF IInv, QuotaTypeOK, Arguments, CallsStep

----------------------------------------------------------------------------
(* Every action of a request is one statement on the tables.               *)

\* The facts about a procedure in progress that each second statement rests on.
LEMMA InProgress ==
  ASSUME IInv, NEW r \in Requests, NEW at \in Pending, AtStatement(r, at)
  PROVE  /\ call[r].bucket \in Buckets
         /\ call[r].objects \in {0, 1}
         /\ call[r].bytes \in IF at \in Settling THEN Deltas ELSE Nat
  BY DEF IInv, QuotaTypeOK, Arguments, AtStatement, Call

\* A first statement, with arguments its caller may give it.
LEMMA CallQuotaStep ==
  ASSUME IInv, NEW r \in Requests, CallQuota(r)
  PROVE  TablesStep /\ CallsStep
<1> USE DEF Pending, Ended, Settling
<1>1. PICK b \in Buckets :
        \/ \E n \in Bytes : Reserve(r, b, n) \/ Release(r, b, n) \/ Credit(r, b, n)
        \/ \E n \in Bytes, d \in {0, 1} : Commit(r, b, n, d)
        \/ \E n \in Deltas, d \in {0, 1} : Settle(r, b, n, d)
  BY DEF CallQuota
<1>2. ASSUME NEW n \in Bytes, Reserve(r, b, n)
      PROVE  TablesStep /\ CallsStep
  <2>1. n \in Nat /\ n \in Int
    BY BytesAssumption
  <2>2. CASE b \in live /\ HasRoom(bucket[b], n)
    <3>1. BucketStatement(bucket[b], Hold(bucket[b], n))
      BY <2>1, <2>2 DEF BucketStatement
    <3>2. call' = [call EXCEPT ![r] = Frame("reserve_user", b, n, 0)]
      BY <1>2, <2>2 DEF Reserve
    <3>3. CallsStep
      BY <2>1, <3>2, CallBegins
    <3> QED
      BY <1>2, <2>2, <3>1, <3>3, BucketUpdate DEF Reserve
  <2>3. CASE ~(b \in live /\ HasRoom(bucket[b], n))
    <3>1. call' = [call EXCEPT ![r] = Frame("failed", b, n, 0)]
      BY <1>2, <2>3 DEF Reserve
    <3>2. CallsStep
      BY <2>1, <3>1, CallBegins
    <3> QED
      BY <1>2, <2>3, <3>2, NoUpdate DEF Reserve
  <2> QED
    BY <2>2, <2>3
<1>3. ASSUME NEW n \in Bytes, Release(r, b, n)
      PROVE  TablesStep /\ CallsStep
  <2>1. n \in Nat /\ n \in Int
    BY BytesAssumption
  <2>2. BucketStatement(bucket[b], Unhold(bucket[b], n))
    BY <2>1 DEF BucketStatement
  <2>3. call' = [call EXCEPT ![r] = Frame("release_user", b, n, 0)]
    BY <1>3 DEF Release
  <2>4. CallsStep
    BY <2>1, <2>3, CallBegins
  <2> QED
    BY <1>3, <2>2, <2>4, BucketUpdate DEF Release
<1>4. ASSUME NEW n \in Bytes, Credit(r, b, n)
      PROVE  TablesStep /\ CallsStep
  <2>1. n \in Nat /\ n \in Int
    BY BytesAssumption
  <2>2. PICK at \in {"credit_bucket", "failed"} :
          call' = [call EXCEPT ![r] = Frame(at, b, n, 0)]
    BY <1>4 DEF Credit
  <2>3. CallsStep
    BY <2>1, <2>2, CallBegins
  <2> QED
    BY <1>4, <2>3, NoUpdate DEF Credit
<1>5. ASSUME NEW n \in Bytes, NEW d \in {0, 1}, Commit(r, b, n, d)
      PROVE  TablesStep /\ CallsStep
  <2>1. n \in Nat /\ n \in Int
    BY BytesAssumption
  <2>2. BucketStatement(bucket[b], CommitColumns(bucket[b], n, d))
    BY <2>1 DEF BucketStatement
  <2>3. call' = [call EXCEPT ![r] = Frame("commit_user", b, n, d)]
    BY <1>5 DEF Commit
  <2>4. CallsStep
    BY <2>1, <2>3, CallBegins
  <2> QED
    BY <1>5, <2>2, <2>4, BucketUpdate DEF Commit
<1>6. ASSUME NEW n \in Deltas, NEW d \in {0, 1}, Settle(r, b, n, d)
      PROVE  TablesStep /\ CallsStep
  <2>1. n \in Int
    BY DeltasAssumption
  <2>2. PICK at \in {"ok", "settle_bucket", "failed"} :
          call' = [call EXCEPT ![r] = Frame(at, b, n, d)]
    BY <1>6 DEF Settle
  <2>3. CallsStep
    BY <2>1, <2>2, CallBegins
  <2> QED
    BY <1>6, <2>3, NoUpdate DEF Settle
<1> QED
  BY <1>1, <1>2, <1>3, <1>4, <1>5, <1>6

\* A later statement, with the arguments the procedure was called with.
LEMMA ContinueStep ==
  ASSUME IInv, NEW r \in Requests, Continue(r)
  PROVE  TablesStep /\ CallsStep
<1> USE DEF Pending, Ended, Settling
<1> DEFINE b == call[r].bucket
           n == call[r].bytes
<1>1. CASE ReserveUser(r)
  <2>1. b \in Buckets /\ n \in Nat
    BY <1>1, InProgress DEF ReserveUser
  <2>2. CASE HasRoom(account[Owner[b]], n)
    <3>1. AccountStatement(account[Owner[b]], Hold(account[Owner[b]], n))
      BY <2>1, <2>2 DEF AccountStatement
    <3>2. CallsStep
      BY <1>1, <2>2, CallAdvance DEF ReserveUser, AtStatement
    <3> QED
      BY <1>1, <2>1, <2>2, <3>1, <3>2, OwnerUpdate DEF ReserveUser
  <2>3. CASE ~HasRoom(account[Owner[b]], n)
    <3>1. CallsStep
      BY <1>1, <2>3, CallAdvance DEF ReserveUser, AtStatement
    <3> QED
      BY <1>1, <2>3, <3>1, NoUpdate DEF ReserveUser
  <2> QED
    BY <2>2, <2>3
<1>2. CASE Unreserve(r)
  <2>1. b \in Buckets /\ n \in Nat
    BY <1>2, InProgress DEF Unreserve
  <2>2. BucketStatement(bucket[b], Unhold(bucket[b], n))
    BY <2>1 DEF BucketStatement
  <2>3. CallsStep
    BY <1>2, CallAdvance DEF Unreserve, AtStatement
  <2> QED
    BY <1>2, <2>1, <2>2, <2>3, BucketUpdate DEF Unreserve
<1>3. CASE ReleaseUser(r)
  <2>1. b \in Buckets /\ n \in Nat
    BY <1>3, InProgress DEF ReleaseUser
  <2>2. AccountStatement(account[Owner[b]], Unhold(account[Owner[b]], n))
    BY <2>1 DEF AccountStatement
  <2>3. CallsStep
    BY <1>3, CallAdvance DEF ReleaseUser, AtStatement
  <2> QED
    BY <1>3, <2>1, <2>2, <2>3, OwnerUpdate DEF ReleaseUser
<1>4. CASE CommitUser(r)
  <2>1. b \in Buckets /\ n \in Nat
    BY <1>4, InProgress DEF CommitUser
  <2>2. AccountStatement(account[Owner[b]], Spend(account[Owner[b]], n))
    BY <2>1 DEF AccountStatement
  <2>3. CallsStep
    BY <1>4, CallAdvance DEF CommitUser, AtStatement
  <2> QED
    BY <1>4, <2>1, <2>2, <2>3, OwnerUpdate DEF CommitUser
<1>5. CASE SettleBucket(r)
  <2>1. b \in Buckets /\ n \in Deltas /\ call[r].objects \in {0, 1}
    BY <1>5, InProgress DEF SettleBucket
  <2>2. BucketStatement(bucket[b], SettleColumns(bucket[b], n, call[r].objects))
    BY <2>1 DEF BucketStatement
  <2>3. CallsStep
    BY <1>5, CallAdvance DEF SettleBucket, AtStatement
  <2> QED
    BY <1>5, <2>1, <2>2, <2>3, BucketUpdate DEF SettleBucket
<1>6. CASE SettleUser(r)
  <2>1. b \in Buckets /\ n \in Deltas
    BY <1>6, InProgress DEF SettleUser
  <2>2. AccountStatement(account[Owner[b]], Adjust(account[Owner[b]], n))
    BY <2>1 DEF AccountStatement
  <2>3. CallsStep
    BY <1>6, CallAdvance DEF SettleUser, AtStatement
  <2> QED
    BY <1>6, <2>1, <2>2, <2>3, OwnerUpdate DEF SettleUser
<1>7. CASE CreditBucket(r)
  <2>1. b \in Buckets /\ n \in Nat
    BY <1>7, InProgress DEF CreditBucket
  <2>2. BucketStatement(bucket[b], CreditColumns(bucket[b], n))
    BY <2>1 DEF BucketStatement
  <2>3. CallsStep
    BY <1>7, CallAdvance DEF CreditBucket, AtStatement
  <2> QED
    BY <1>7, <2>1, <2>2, <2>3, BucketUpdate DEF CreditBucket
<1>8. CASE CreditUser(r)
  <2>1. b \in Buckets /\ n \in Nat
    BY <1>8, InProgress DEF CreditUser
  <2>2. AccountStatement(account[Owner[b]], Adjust(account[Owner[b]], -n))
    BY <2>1 DEF AccountStatement
  <2>3. CallsStep
    BY <1>8, CallAdvance DEF CreditUser, AtStatement
  <2> QED
    BY <1>8, <2>1, <2>2, <2>3, OwnerUpdate DEF CreditUser
<1> QED
  BY <1>1, <1>2, <1>3, <1>4, <1>5, <1>6, <1>7, <1>8 DEF Continue

\* Any step of the open protocol but the reconcile task's.
LEMMA RequestStep ==
  ASSUME IInv, RequestNext
  PROVE  TablesStep /\ CallsStep
<1>1. ASSUME NEW r \in Requests, CallQuota(r) \/ Continue(r) \/ Drop(r)
      PROVE  TablesStep /\ CallsStep
  <2>1. CASE CallQuota(r)
    BY <2>1, CallQuotaStep
  <2>2. CASE Continue(r)
    BY <2>2, ContinueStep
  <2>3. CASE Drop(r)
    BY <2>3, CallDropped, NoUpdate DEF Drop
  <2> QED
    BY <1>1, <2>1, <2>2, <2>3
<1>2. ASSUME NEW b \in Buckets, DropBucket(b)
      PROVE  TablesStep /\ CallsStep
  BY <1>2, NoUpdate, NoCallChange DEF DropBucket
<1> QED
  BY <1>1, <1>2 DEF RequestNext

----------------------------------------------------------------------------
(* What a statement keeps of a row.                                        *)

\* A statement makes a row of a row, and takes no counter below zero.
LEMMA BucketRowKept ==
  ASSUME NEW c \in BucketColumns, NEW d, BucketStatement(c, d)
  PROVE  /\ d \in BucketColumns
         /\ NonNegativeRow(c) => NonNegativeRow(d)
<1>1. CASE d = c
  BY <1>1
<1>2. ASSUME NEW n \in Nat, NEW k \in {0, 1},
             \/ d = Hold(c, n) \/ d = Unhold(c, n)
             \/ d = CommitColumns(c, n, k) \/ d = CreditColumns(c, n)
      PROVE  d \in BucketColumns /\ (NonNegativeRow(c) => NonNegativeRow(d))
  <2>1. n \in Int /\ n >= 0
    OBVIOUS
  <2>2. CASE d = Hold(c, n)
    BY <2>1, <2>2, BucketStatements, BucketNonNegative
  <2>3. CASE d = Unhold(c, n)
    BY <2>1, <2>3, BucketStatements, BucketNonNegative
  <2>4. CASE d = CommitColumns(c, n, k)
    BY <2>1, <2>4, BucketStatements, BucketNonNegative
  <2>5. CASE d = CreditColumns(c, n)
    BY <2>1, <2>5, BucketStatements, BucketNonNegative
  <2> QED
    BY <1>2, <2>2, <2>3, <2>4, <2>5
<1>3. ASSUME NEW n \in Deltas, NEW k \in {0, 1}, d = SettleColumns(c, n, k)
      PROVE  d \in BucketColumns /\ (NonNegativeRow(c) => NonNegativeRow(d))
  <2>1. n \in Int
    BY DeltasAssumption
  <2> QED
    BY <1>3, <2>1, BucketStatements, BucketNonNegative
<1> QED
  BY <1>1, <1>2, <1>3 DEF BucketStatement

\* The same for an account.
LEMMA AccountRowKept ==
  ASSUME NEW c \in AccountColumns, NEW d, AccountStatement(c, d)
  PROVE  /\ d \in AccountColumns
         /\ NonNegativeColumns(c) => NonNegativeColumns(d)
<1>1. CASE d = c
  BY <1>1
<1>2. ASSUME NEW n \in Nat, d = Hold(c, n) \/ d = Unhold(c, n) \/ d = Spend(c, n)
      PROVE  d \in AccountColumns /\ (NonNegativeColumns(c) => NonNegativeColumns(d))
  BY <1>2, AccountStatements, AccountNonNegative
<1>3. ASSUME NEW n \in Int, d = Adjust(c, n)
      PROVE  d \in AccountColumns /\ (NonNegativeColumns(c) => NonNegativeColumns(d))
  BY <1>3, AccountStatements, AccountNonNegative
<1>4. \A n \in Nat : -n \in Int
  OBVIOUS
<1> QED
  BY <1>1, <1>2, <1>3, <1>4, DeltasAssumption DEF AccountStatement

Shrinking == \A n \in Deltas : n <= 0

\* While settling only shrinks, a statement takes a bucket row no further over its limit.
LEMMA BucketGrowth ==
  ASSUME NEW c \in BucketColumns, NEW d, BucketStatement(c, d), Shrinking
  PROVE  d.max = c.max /\ Load(d) \in Int /\ AdmittedGrowth(c, d)
<1> DEFINE Kept(e) == e.max = c.max /\ Load(e) \in Int /\ AdmittedGrowth(c, e)
<1> USE DEF AdmittedGrowth, Within, Load, BucketColumns
<1>1. CASE d = c
  BY <1>1
<1>2. ASSUME NEW n \in Nat, NEW k \in {0, 1}
      PROVE  /\ HasRoom(c, n) /\ d = Hold(c, n) => Kept(d)
             /\ d = Unhold(c, n) => Kept(d)
             /\ d = CommitColumns(c, n, k) => Kept(d)
             /\ d = CreditColumns(c, n) => Kept(d)
  <2>1. HasRoom(c, n) /\ d = Hold(c, n) => Kept(d)
    BY DEF HasRoom, Hold
  <2>2. d = Unhold(c, n) => Kept(d)
    BY DEF Unhold
  <2>3. d = CommitColumns(c, n, k) => Kept(d)
    BY DEF CommitColumns
  <2>4. d = CreditColumns(c, n) => Kept(d)
    BY DEF CreditColumns
  <2> QED
    BY <2>1, <2>2, <2>3, <2>4
<1>3. ASSUME NEW n \in Deltas, NEW k \in {0, 1}, d = SettleColumns(c, n, k)
      PROVE  Kept(d)
  <2>1. n \in Int /\ n <= 0
    BY DeltasAssumption DEF Shrinking
  <2> QED
    BY <1>3, <2>1 DEF SettleColumns
<1> QED
  BY <1>1, <1>2, <1>3 DEF BucketStatement

\* The same for an account.
LEMMA AccountGrowth ==
  ASSUME NEW c \in AccountColumns, NEW d, AccountStatement(c, d), Shrinking
  PROVE  d.max = c.max /\ Load(d) \in Int /\ AdmittedGrowth(c, d)
<1> DEFINE Kept(e) == e.max = c.max /\ Load(e) \in Int /\ AdmittedGrowth(c, e)
<1> USE DEF AdmittedGrowth, Within, Load, AccountColumns
<1>1. CASE d = c
  BY <1>1
<1>2. ASSUME NEW n \in Nat
      PROVE  /\ HasRoom(c, n) /\ d = Hold(c, n) => Kept(d)
             /\ d = Unhold(c, n) => Kept(d)
             /\ d = Spend(c, n) => Kept(d)
  <2>1. HasRoom(c, n) /\ d = Hold(c, n) => Kept(d)
    BY DEF HasRoom, Hold
  <2>2. d = Unhold(c, n) => Kept(d)
    BY DEF Unhold
  <2>3. d = Spend(c, n) => Kept(d)
    BY DEF Spend
  <2> QED
    BY <2>1, <2>2, <2>3
<1>3. ASSUME NEW n \in Int, n <= 0, d = Adjust(c, n)
      PROVE  Kept(d)
  BY <1>3 DEF Adjust
<1>4. \A n \in Nat : -n \in Int /\ -n <= 0
  OBVIOUS
<1>5. \A n \in Deltas : n \in Int /\ n <= 0
  BY DeltasAssumption DEF Shrinking
<1> QED
  BY <1>1, <1>2, <1>3, <1>4, <1>5 DEF AccountStatement

----------------------------------------------------------------------------
(* The theorems. *)

\* The initial rows are well formed, empty, and within their limits.
LEMMA InitRows ==
  ASSUME QuotaInit
  PROVE  IInv /\ NonNegative /\ WithinQuota
<1>1. NoCall \in Call /\ NoCall.at \notin Pending
  BY DEF NoCall, Call, Pending, Ended
<1>2. QuotaTypeOK
  BY <1>1, MaxAssumption DEF QuotaInit, QuotaTypeOK, BucketColumns, AccountColumns
<1>3. Arguments
  BY <1>1 DEF QuotaInit, Arguments
<1>4. NonNegative
  BY DEF QuotaInit, NonNegative
<1>5. WithinQuota
  BY MaxAssumption DEF QuotaInit, WithinQuota, Within, Load
<1> QED
  BY <1>2, <1>3, <1>4, <1>5 DEF IInv

\* A request's step keeps the rows well formed and non-negative.
LEMMA TablesKept ==
  ASSUME IInv, TablesStep, CallsStep
  PROVE  IInv' /\ (NonNegative => NonNegative')
<1>1. /\ \A b \in Buckets : bucket'[b] \in BucketColumns
      /\ \A u \in Users : account'[u] \in AccountColumns
  BY BucketRowKept, AccountRowKept DEF TablesStep, IInv, QuotaTypeOK
<1>2. bucket' \in [Buckets -> BucketColumns] /\ account' \in [Users -> AccountColumns]
  <2> DEFINE Bs == bucket'
             As == account'
  <2>1. Bs = [b \in Buckets |-> Bs[b]] /\ As = [u \in Users |-> As[u]]
    BY DEF TablesStep
  <2> QED
    BY <1>1, <2>1
<1>3. QuotaTypeOK'
  BY <1>2 DEF TablesStep, CallsStep, QuotaTypeOK
<1>4. NonNegative => NonNegative'
  <2> SUFFICES ASSUME NonNegative PROVE NonNegative'
    OBVIOUS
  <2>1. ASSUME NEW b \in Buckets PROVE NonNegativeRow(bucket'[b])
    <3>1. bucket[b] \in BucketColumns /\ NonNegativeRow(bucket[b])
      BY DEF IInv, QuotaTypeOK, NonNegative, NonNegativeRow, NonNegativeColumns
    <3> QED
      BY <3>1, BucketRowKept DEF TablesStep
  <2>2. ASSUME NEW u \in Users PROVE NonNegativeColumns(account'[u])
    <3>1. account[u] \in AccountColumns /\ NonNegativeColumns(account[u])
      BY DEF IInv, QuotaTypeOK, NonNegative, NonNegativeColumns
    <3> QED
      BY <3>1, AccountRowKept DEF TablesStep
  <2> QED
    BY <2>1, <2>2 DEF NonNegative, NonNegativeRow, NonNegativeColumns
<1> QED
  BY <1>3, <1>4 DEF IInv, CallsStep

\* A reconcile that commits keeps them so too: what it writes are sums of sizes.
LEMMA RecomputeKept ==
  ASSUME IInv, ReconcileNext
  PROVE  IInv' /\ (NonNegative => NonNegative')
<1>1. PICK B \in SUBSET Buckets, U \in SUBSET Users :
        \E used, count \in [B -> Bytes], usedUser \in [U -> Bytes] :
          Recompute(B, used, count, U, usedUser)
  BY DEF ReconcileNext
<1>2. PICK used \in [B -> Bytes], count \in [B -> Bytes], usedUser \in [U -> Bytes] :
        Recompute(B, used, count, U, usedUser)
  BY <1>1
<1>3. ASSUME NEW b \in Buckets
      PROVE  /\ bucket'[b] \in BucketColumns
             /\ NonNegative => NonNegativeRow(bucket'[b])
  <2>1. bucket[b] \in BucketColumns
    BY DEF IInv, QuotaTypeOK
  <2>2. CASE b \in B \cap live
    <3>1. used[b] \in Nat /\ count[b] \in Nat
      BY <2>2, BytesAssumption
    <3>2. bucket'[b] = Recomputed(bucket[b], used[b], count[b])
      BY <1>2, <2>2 DEF Recompute
    <3>3. /\ bucket'[b] \in BucketColumns
          /\ bucket'[b].used = used[b] /\ bucket'[b].count = count[b]
          /\ bucket'[b].reserved = 0
      BY <2>1, <3>1, <3>2 DEF BucketColumns, Recomputed
    <3> QED
      BY <3>1, <3>3 DEF NonNegativeRow, NonNegativeColumns
  <2>3. CASE b \notin B \cap live
    <3>1. bucket'[b] = bucket[b]
      BY <1>2, <2>3 DEF Recompute
    <3> QED
      BY <2>1, <3>1 DEF NonNegative, NonNegativeRow, NonNegativeColumns
  <2> QED
    BY <2>2, <2>3
<1>4. ASSUME NEW u \in Users
      PROVE  /\ account'[u] \in AccountColumns
             /\ NonNegative => NonNegativeColumns(account'[u])
  <2>1. account[u] \in AccountColumns
    BY DEF IInv, QuotaTypeOK
  <2>2. CASE u \in U
    <3>1. usedUser[u] \in Nat
      BY <2>2, BytesAssumption
    <3>2. account'[u] = RecomputedUser(account[u], usedUser[u])
      BY <1>2, <2>2 DEF Recompute
    <3>3. /\ account'[u] \in AccountColumns
          /\ account'[u].used = usedUser[u] /\ account'[u].reserved = 0
      BY <2>1, <3>1, <3>2 DEF AccountColumns, RecomputedUser
    <3> QED
      BY <3>1, <3>3 DEF NonNegativeColumns
  <2>3. CASE u \notin U
    <3>1. account'[u] = account[u]
      BY <1>2, <2>3 DEF Recompute
    <3> QED
      BY <2>1, <3>1 DEF NonNegative, NonNegativeColumns
  <2> QED
    BY <2>2, <2>3
<1>5. bucket' \in [Buckets -> BucketColumns] /\ account' \in [Users -> AccountColumns]
  BY <1>2, <1>3, <1>4 DEF Recompute
<1>6. live' = live /\ call' = call
  BY <1>2 DEF Recompute
<1>7. IInv'
  BY <1>5, <1>6 DEF IInv, QuotaTypeOK, Arguments
<1>8. NonNegative => NonNegative'
  BY <1>3, <1>4 DEF NonNegative, NonNegativeRow, NonNegativeColumns
<1> QED
  BY <1>7, <1>8

\* Every step of the open protocol keeps the inductive invariant and the signs.
LEMMA QuotaStep ==
  ASSUME IInv, [QuotaNext]_qvars
  PROVE  IInv' /\ (NonNegative => NonNegative')
<1>1. CASE RequestNext
  BY <1>1, RequestStep, TablesKept
<1>2. CASE ReconcileNext
  BY <1>2, RecomputeKept
<1>3. CASE UNCHANGED qvars
  BY <1>3 DEF qvars, IInv, QuotaTypeOK, Arguments, NonNegative
<1> QED
  BY <1>1, <1>2, <1>3 DEF QuotaNext

\* A request's step takes no row further over its limit, while settling only shrinks.
LEMMA GrowthStep ==
  ASSUME IInv, Shrinking, TablesStep
  PROVE  /\ \A b \in Buckets : AdmittedGrowth(bucket[b], bucket'[b])
         /\ \A u \in Users : AdmittedGrowth(account[u], account'[u])
         /\ WithinQuota => WithinQuota'
<1>1. ASSUME NEW b \in Buckets
      PROVE  /\ AdmittedGrowth(bucket[b], bucket'[b])
             /\ Within(bucket[b]) => Within(bucket'[b])
  <2>1. bucket[b] \in BucketColumns
    BY DEF IInv, QuotaTypeOK
  <2>2. /\ bucket'[b].max = bucket[b].max /\ Load(bucket'[b]) \in Int
        /\ AdmittedGrowth(bucket[b], bucket'[b])
    BY <2>1, BucketGrowth DEF TablesStep
  <2> QED
    BY <2>1, <2>2 DEF AdmittedGrowth, Within, Load, BucketColumns
<1>2. ASSUME NEW u \in Users
      PROVE  /\ AdmittedGrowth(account[u], account'[u])
             /\ Within(account[u]) => Within(account'[u])
  <2>1. account[u] \in AccountColumns
    BY DEF IInv, QuotaTypeOK
  <2>2. /\ account'[u].max = account[u].max /\ Load(account'[u]) \in Int
        /\ AdmittedGrowth(account[u], account'[u])
    BY <2>1, AccountGrowth DEF TablesStep
  <2> QED
    BY <2>1, <2>2 DEF AdmittedGrowth, Within, Load, AccountColumns
<1>3. WithinQuota => WithinQuota'
  BY <1>1, <1>2 DEF WithinQuota, Within, Load
<1> QED
  BY <1>1, <1>2, <1>3

\* The rows and the calls stay well formed, whoever calls the quota procedures, in
\* whatever order their statements interleave, with the reconcile task among them.
THEOREM TypeCorrect == QuotaSpec => []QuotaTypeOK
<1>1. QuotaInit => IInv
  BY InitRows
<1>2. IInv /\ [QuotaNext]_qvars => IInv'
  BY QuotaStep
<1>3. IInv => QuotaTypeOK
  BY DEF IInv
<1> QED
  BY <1>1, <1>2, <1>3, PTL DEF QuotaSpec

\* No counter of any bucket or account is ever negative: the guards in the WHERE clauses
\* of release, commit, settle and account_for_delete are enough without any lock.
THEOREM CountersNonNegative == QuotaSpec => []NonNegative
<1> DEFINE Inv == IInv /\ NonNegative
<1>1. QuotaInit => Inv
  BY InitRows
<1>2. Inv /\ [QuotaNext]_qvars => Inv'
  BY QuotaStep
<1>3. Inv => NonNegative
  OBVIOUS
<1> QED
  BY <1>1, <1>2, <1>3, PTL DEF QuotaSpec

\* Stored and held bytes never pass a limit, at either level, while settling only
\* shrinks and no reconcile runs: the guard of reserve admits against both at once.
THEOREM QuotaRespected == Shrinking => (AdmissionSpec => []WithinQuota)
<1> SUFFICES ASSUME Shrinking PROVE AdmissionSpec => []WithinQuota
  OBVIOUS
<1> DEFINE Inv == IInv /\ WithinQuota
<1>1. QuotaInit => Inv
  BY InitRows
<1>2. Inv /\ [RequestNext]_qvars => Inv'
  <2> SUFFICES ASSUME Inv, [RequestNext]_qvars PROVE Inv'
    OBVIOUS
  <2>1. CASE RequestNext
    BY <2>1, RequestStep, TablesKept, GrowthStep
  <2>2. CASE UNCHANGED qvars
    BY <2>2 DEF qvars, IInv, QuotaTypeOK, Arguments, WithinQuota
  <2> QED
    BY <2>1, <2>2
<1>3. Inv => WithinQuota
  OBVIOUS
<1> QED
  BY <1>1, <1>2, <1>3, PTL DEF AdmissionSpec

\* Even with the reconcile task, which may write a total that is over a limit and clears
\* live holds, no statement of a request takes a row up to anything above its limit.
THEOREM RequestsAdmitGrowth == Shrinking => (QuotaSpec => GrowthAdmitted)
<1> SUFFICES ASSUME Shrinking PROVE QuotaSpec => GrowthAdmitted
  OBVIOUS
<1> DEFINE Grows == /\ \A b \in Buckets : AdmittedGrowth(bucket[b], bucket'[b])
                    /\ \A u \in Users : AdmittedGrowth(account[u], account'[u])
<1>1. QuotaInit => IInv
  BY InitRows
<1>2. IInv /\ [QuotaNext]_qvars => IInv'
  BY QuotaStep
<1>3. IInv /\ [QuotaNext]_qvars => [call' # call => Grows]_qvars
  <2>1. RequestNext /\ IInv => Grows
    BY RequestStep, GrowthStep
  <2>2. ReconcileNext => call' = call
    BY DEF ReconcileNext, Recompute
  <2> QED
    BY <2>1, <2>2 DEF QuotaNext
<1> QED
  BY <1>1, <1>2, <1>3, PTL DEF QuotaSpec, GrowthAdmitted
=============================================================================
