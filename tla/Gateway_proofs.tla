--------------------------- MODULE Gateway_proofs ---------------------------
(***************************************************************************)
(* Proofs about S3 requests beside the console's calls (module Gateway):   *)
(* that what a request is served is within the policy of its key, what a   *)
(* bucket hangs on (its owner and its pool), what a signature vouches for, *)
(* what a bucket's counters cover while requests and removals of the bucket *)
(* run, what a removal takes with it, and the types of the whole plane.    *)
(***************************************************************************)
EXTENDS Console_proofs

----------------------------------------------------------------------------
(* Routing. *)

\* The first row that fits is a row.
LEMMA FirstRow ==
  ASSUME NEW S, S \subseteq 1..22, S # {}
  PROVE  \E i \in S : \A j \in S : i <= j
<1> SUFFICES ASSUME \A i \in S : \E j \in S : j < i
             PROVE  FALSE
  OBVIOUS
<1>1. \A i \in 1..5 : i \notin S
  OBVIOUS
<1>2. \A i \in 6..10 : i \notin S
  BY <1>1
<1>3. \A i \in 11..15 : i \notin S
  BY <1>1, <1>2
<1>4. \A i \in 16..20 : i \notin S
  BY <1>1, <1>2, <1>3
<1>5. \A i \in 21..22 : i \notin S
  BY <1>1, <1>2, <1>3, <1>4
<1>6. QED
  <2>1. PICK i \in S : i \in 1..22
    OBVIOUS
  <2>2. i \in 1..5 \/ i \in 6..10 \/ i \in 11..15 \/ i \in 16..20 \/ i \in 21..22
    BY <2>1
  <2>3. QED
    BY <1>1, <1>2, <1>3, <1>4, <1>5, <2>2

\* What is resolved for an account needs no action, and a copy is neither of an
\* account nor of a bucket.
LEMMA RouteFacts ==
  ASSUME NEW w \in Wires
  PROVE  /\ RouteOf(w).resolver = "account" => RouteOf(w).action = None
         /\ RouteOf(w).op \in Copies => RouteOf(w).resolver \notin {"account", "bucket"}
<1> DEFINE fit == {i \in DOMAIN Dispatch : Fits(w, Dispatch[i])}
<1>1. DOMAIN Dispatch = 1..22
  BY DEF Dispatch
<1>2. fit # {} /\ fit \subseteq 1..22
  BY <1>1, WiresAssumption
<1>3. \E i \in fit : RouteOf(w) = Dispatch[i]
  BY <1>2, FirstRow DEF RouteOf
<1>4. \A i \in 1..22 : /\ Dispatch[i].resolver = "account" => Dispatch[i].action = None
                       /\ Dispatch[i].op \in Copies => Dispatch[i].resolver \notin {"account", "bucket"}
  BY DEF Dispatch, Row, Copies
<1>5. QED
  BY <1>2, <1>3, <1>4

----------------------------------------------------------------------------
(* Buckets and their owners. *)

BucketRows0 == bucket \in [Buckets -> BucketRow \cup {None, Gone}]

\* What a call that writes a bucket has in hand.
BucketCall(c) ==
  LET d == call[c] IN
  /\ d.op = "create bucket" => d.me \in Users /\ d.on \in Pools
  /\ d.op = "set limit" => d.arg \in Limits

\* A bucket keeps its owner or loses it, and one that is gone stays gone.
OwnersStay ==
  \A b \in Buckets :
    /\ bucket[b] = Gone => bucket'[b] = Gone
    /\ bucket[b] \in BucketRow =>
         bucket'[b] = Gone \/ (bucket'[b] \in BucketRow /\ bucket'[b].owner \in {bucket[b].owner, None})

\* A bucket that is there was there before, with its owner and its pool.
AnchorsStay ==
  \A b \in Buckets : Exists(b)' => /\ Exists(b)
                                 /\ bucket'[b].owner = bucket[b].owner
                                 /\ bucket'[b].pool = bucket[b].pool

LEMMA SameBuckets ==
  ASSUME BucketRows0, UNCHANGED bucket
  PROVE  BucketRows0' /\ OwnersStay /\ AnchorsStay
BY DEF BucketRows0, OwnersStay, AnchorsStay, Exists

\* A row that is written.
LEMMA WriteBucket ==
  ASSUME BucketRows0, NEW b \in Buckets, NEW row \in BucketRow, bucket' = [bucket EXCEPT ![b] = row],
         bucket[b] = None \/ (bucket[b] \in BucketRow /\ row.owner = bucket[b].owner)
  PROVE  BucketRows0' /\ OwnersStay
BY BucketAssumption, RowsAssumption DEF BucketRows0, OwnersStay

\* An UPDATE of a row that is there, but not of its owner.
LEMMA UpdateBucket ==
  ASSUME BucketRows0, NEW b, Exists(b), NEW row, bucket' = [bucket EXCEPT ![b] = row],
         bucket[b] \in BucketRow => /\ row \in BucketRow
                                   /\ row.owner = bucket[b].owner /\ row.pool = bucket[b].pool
  PROVE  BucketRows0' /\ OwnersStay /\ AnchorsStay
<1>1. CASE b \in Buckets
  <2>1. bucket[b] \in BucketRow
    BY <1>1 DEF BucketRows0, Exists
  <2>2. AnchorsStay
    BY <1>1, <2>1 DEF BucketRows0, AnchorsStay, Exists
  <2>3. QED
    BY <1>1, <2>1, <2>2, WriteBucket
<1>2. CASE b \notin Buckets
  <2>1. bucket' = bucket
    BY <1>2 DEF BucketRows0
  <2>2. QED
    BY <2>1, SameBuckets
<1>3. QED
  BY <1>1, <1>2

LEMMA SetLimitBuckets ==
  ASSUME BucketRows0, NEW c \in Calls, BucketCall(c), SetLimitWrite(c)
  PROVE  BucketRows0' /\ OwnersStay /\ AnchorsStay
<1> DEFINE b == call[c].on
           row == [bucket[b] EXCEPT !.max = call[c].arg]
<1>1. call[c].arg \in Limits
  BY DEF SetLimitWrite, At, BucketCall
<1>2. CASE UNCHANGED bucket
  BY <1>2, SameBuckets
<1>3. CASE ~UNCHANGED bucket
  <2>1. Exists(b) /\ bucket' = [bucket EXCEPT ![b] = row]
    BY <1>3 DEF SetLimitWrite
  <2>2. bucket[b] \in BucketRow => row \in BucketRow /\ row.owner = bucket[b].owner /\ row.pool = bucket[b].pool
    BY <1>1 DEF BucketRow
  <2> HIDE DEF row
  <2>3. QED
    BY <2>1, <2>2, UpdateBucket
<1>4. QED
  BY <1>2, <1>3

LEMMA CreateBuckets ==
  ASSUME BucketRows0, NEW c \in Calls, BucketCall(c), CreateBucketInsert(c)
  PROVE  BucketRows0' /\ OwnersStay
<1>1. CASE UNCHANGED bucket
  BY <1>1, SameBuckets
<1>2. CASE ~UNCHANGED bucket
  <2>1. PICK b \in Buckets, max \in Limits :
          /\ bucket[b] = None
          /\ bucket' = [bucket EXCEPT ![b] = [owner |-> call[c].me, pool |-> call[c].on, max |-> max,
                                              used |-> 0, held |-> 0, count |-> 0]]
    BY <1>2 DEF CreateBucketInsert
  <2> DEFINE row == [owner |-> call[c].me, pool |-> call[c].on, max |-> max,
                     used |-> 0, held |-> 0, count |-> 0]
  <2>2. row \in BucketRow
    <3>1. call[c].me \in Users /\ call[c].on \in Pools
      BY DEF CreateBucketInsert, At, BucketCall
    <3>2. QED
      BY <3>1 DEF BucketRow
  <2> HIDE DEF row
  <2>3. bucket' = [bucket EXCEPT ![b] = row]
    BY <2>1 DEF row
  <2>4. QED
    BY <2>1, <2>2, <2>3, WriteBucket
<1>3. QED
  BY <1>1, <1>2

\* A removal leaves Gone behind.
LEMMA RemoveBuckets ==
  ASSUME BucketRows0, NEW bs, Remove(bs)
  PROVE  BucketRows0' /\ OwnersStay /\ AnchorsStay
BY DEF Remove, BucketRows0, OwnersStay, AnchorsStay, Exists

LEMMA CascadeBucketRows ==
  ASSUME BucketRows0, NEW c \in Calls, CascadeBuckets(c)
  PROVE  BucketRows0' /\ OwnersStay
<1> DEFINE taken == call[c].arg.taken
           left == Owned(call[c].on) \ taken
           free(b) == [bucket[b] EXCEPT !.owner = None]
<1>1. \A b \in Buckets : bucket'[b] = IF b \in taken THEN Gone
                                       ELSE IF b \in left THEN free(b) ELSE bucket[b]
  BY DEF CascadeBuckets
<1>2. \A b \in left : /\ b \in Buckets /\ bucket[b] \in BucketRow
                      /\ free(b) \in BucketRow /\ free(b).owner = None
  BY DEF Owned, Exists, BucketRows0, BucketRow
<1>3. bucket' = [b \in Buckets |-> bucket'[b]]
  BY DEF CascadeBuckets
<1> HIDE DEF taken, left, free
<1>4. BucketRows0'
  BY <1>1, <1>2, <1>3 DEF BucketRows0
<1>5. \A b \in left : bucket[b] # Gone
  BY <1>2, BucketAssumption
<1>6. OwnersStay
  BY <1>1, <1>2, <1>5 DEF OwnersStay
<1>7. QED
  BY <1>4, <1>6

\* What requests do to the counters.
LEMMA ReserveBuckets ==
  ASSUME BucketRows0, NEW r \in Requests, Reserve(r)
  PROVE  BucketRows0' /\ OwnersStay /\ AnchorsStay
<1> DEFINE b == req[r].bucket
           row == [bucket[b] EXCEPT !.held = bucket[b].held + 1]
<1>1. CASE UNCHANGED bucket
  BY <1>1, SameBuckets
<1>2. CASE ~UNCHANGED bucket
  <2>1. Exists(b) /\ bucket' = [bucket EXCEPT ![b] = row]
    BY <1>2 DEF Reserve
  <2>2. bucket[b] \in BucketRow => row \in BucketRow /\ row.owner = bucket[b].owner /\ row.pool = bucket[b].pool
    BY DEF BucketRow
  <2> HIDE DEF row
  <2>3. QED
    BY <2>1, <2>2, UpdateBucket
<1>3. QED
  BY <1>1, <1>2

LEMMA CommitBuckets ==
  ASSUME BucketRows0, NEW r \in Requests, Commit(r)
  PROVE  BucketRows0' /\ OwnersStay /\ AnchorsStay
<1> DEFINE b == req[r].bucket
           row == [bucket[b] EXCEPT !.held = bucket[b].held - 1, !.used = bucket[b].used + 1,
                                    !.count = bucket[b].count + 1]
<1>1. CASE UNCHANGED bucket
  BY <1>1, SameBuckets
<1>2. CASE ~UNCHANGED bucket
  <2>1. Exists(b)
    BY <1>2 DEF Commit
  <2>2. bucket' = [bucket EXCEPT ![b].held = @ - 1, ![b].used = @ + 1, ![b].count = @ + 1]
    BY <1>2 DEF Commit
  <2>3. bucket[b] \in BucketRow => row \in BucketRow /\ row.owner = bucket[b].owner /\ row.pool = bucket[b].pool
    <3> SUFFICES ASSUME bucket[b] \in BucketRow
                 PROVE  row \in BucketRow /\ row.owner = bucket[b].owner /\ row.pool = bucket[b].pool
      OBVIOUS
    <3>1. bucket[b].held \in Int /\ bucket[b].used \in Int /\ bucket[b].count \in Int
      BY DEF BucketRow
    <3> DEFINE held == bucket[b].held - 1
               used == bucket[b].used + 1
               count == bucket[b].count + 1
    <3>2. held \in Int /\ used \in Int /\ count \in Int
      BY <3>1
    <3> HIDE DEF held, used, count
    <3>3. /\ [bucket[b] EXCEPT !.held = held, !.used = used, !.count = count] \in BucketRow
          /\ [bucket[b] EXCEPT !.held = held, !.used = used, !.count = count].owner = bucket[b].owner
          /\ [bucket[b] EXCEPT !.held = held, !.used = used, !.count = count].pool = bucket[b].pool
      BY <3>2 DEF BucketRow
    <3>4. QED
      BY <3>3 DEF held, used, count
  <2>4. b \in Buckets => bucket' = [bucket EXCEPT ![b] = row]
    BY <2>2 DEF BucketRows0
  <2> HIDE DEF row
  <2>5. CASE b \in Buckets
    BY <2>1, <2>3, <2>4, <2>5, UpdateBucket
  <2>6. CASE b \notin Buckets
    BY <1>2, <2>2, <2>6 DEF BucketRows0
  <2>7. QED
    BY <2>5, <2>6
<1>3. QED
  BY <1>1, <1>2

LEMMA CreditBuckets ==
  ASSUME BucketRows0, NEW r \in Requests, Credit(r)
  PROVE  BucketRows0' /\ OwnersStay /\ AnchorsStay
<1> DEFINE b == req[r].bucket
           used == bucket[b].used - 1
           count == bucket[b].count - 1
           row == [bucket[b] EXCEPT !.used = used, !.count = count]
<1>1. CASE UNCHANGED bucket
  BY <1>1, SameBuckets
<1>2. CASE ~UNCHANGED bucket
  <2>1. Exists(b)
    BY <1>2 DEF Credit
  <2>2. bucket' = [bucket EXCEPT ![b].used = @ - 1, ![b].count = @ - 1]
    BY <1>2 DEF Credit
  <2>3. bucket[b] \in BucketRow => row \in BucketRow /\ row.owner = bucket[b].owner /\ row.pool = bucket[b].pool
    <3> SUFFICES ASSUME bucket[b] \in BucketRow
                 PROVE  row \in BucketRow /\ row.owner = bucket[b].owner /\ row.pool = bucket[b].pool
      OBVIOUS
    <3>0. bucket[b].used \in Int /\ bucket[b].count \in Int
      BY DEF BucketRow
    <3>1. used \in Int /\ count \in Int
      BY <3>0
    <3> HIDE DEF used, count
    <3>2. QED
      BY <3>1 DEF BucketRow
  <2>4. b \in Buckets => bucket' = [bucket EXCEPT ![b] = row]
    BY <2>2 DEF BucketRows0
  <2> HIDE DEF row
  <2>5. CASE b \in Buckets
    BY <2>1, <2>3, <2>4, <2>5, UpdateBucket
  <2>6. CASE b \notin Buckets
    BY <1>2, <2>2, <2>6 DEF BucketRows0
  <2>7. QED
    BY <2>5, <2>6
<1>3. QED
  BY <1>1, <1>2

\* The other steps of a request leave the buckets.
LEMMA RequestBuckets ==
  ASSUME BucketRows0, NEW r \in Requests, RequestStep(r)
  PROVE  BucketRows0' /\ OwnersStay /\ AnchorsStay
<1> USE DEF ConsoleRows, Reads
<1>1. CASE \E w \in Wires : Arrive(r, w)
  BY <1>1, SameBuckets DEF Arrive
<1>2. CASE Authenticate(r) \/ ReadOwner(r) \/ ReadBucket(r) \/ ReadPool(r) \/ ReadAction(r) \/ ReadScope(r)
  BY <1>2, SameBuckets DEF Authenticate, ReadOwner, ReadBucket, ReadPool, ReadAction, ReadScope
<1>3. CASE ReadSource(r) \/ ReadSourceAction(r) \/ ReadSourceScope(r) \/ ReadSourceRow(r)
  BY <1>3, SameBuckets DEF ReadSource, ReadSourceAction, ReadSourceScope, ReadSourceRow
<1>4. CASE (\E name \in Names : DecideKey(r, name)) \/ DecidedKeys(r) \/ Dispatched(r)
  BY <1>4, SameBuckets DEF DecideKey, DecidedKeys, Dispatched
<1>5. CASE Reserve(r) \/ Commit(r) \/ Credit(r)
  BY <1>5, ReserveBuckets, CommitBuckets, CreditBuckets
<1>6. CASE WriteRow(r) \/ (\E name \in Names : DeleteRow(r, name)) \/ DeletedAll(r) \/ RecordAudit(r)
  BY <1>6, SameBuckets DEF WriteRow, DeleteRow, DeletedAll, RecordAudit
<1>7. QED
  BY <1>1, <1>2, <1>3, <1>4, <1>5, <1>6 DEF RequestStep

----------------------------------------------------------------------------
(* The console's calls and the buckets. *)

LEMMA BeginBucketCall ==
  ASSUME CallsShaped, NEW c \in Calls, NEW me, NEW op, NEW pc, NEW on, NEW arg,
         BeginBucket(c, me, op, pc, on, arg),
         op = "create bucket" => me \in Users /\ on \in Pools,
         op = "set limit" => arg \in Limits
  PROVE  BucketCall(c)' /\ UNCHANGED bucket
<1>1. CASE ~Caller(me)
  BY <1>1 DEF BeginBucket, Begin, Idle, Ended, CallsShaped, BucketCall
<1>2. CASE Caller(me)
  <2> DEFINE new == [Idle EXCEPT !.op = op, !.pc = pc, !.me = me, !.on = on, !.arg = arg]
  <2>1. call' = [call EXCEPT ![c] = new] /\ UNCHANGED bucket
    BY <1>2 DEF BeginBucket, Begin
  <2>2. new.op = op /\ new.me = me /\ new.on = on /\ new.arg = arg
    BY DEF Idle
  <2> HIDE DEF new
  <2>3. call'[c] = new
    BY <2>1 DEF CallsShaped
  <2>4. QED
    BY <2>1, <2>2, <2>3 DEF BucketCall
<1>3. QED
  BY <1>1, <1>2

LEMMA EndBucketCall ==
  ASSUME CallsShaped, NEW c \in Calls, End(c)
  PROVE  BucketCall(c)'
BY DEF End, Ended, Idle, CallsShaped, BucketCall

LEMMA FindPoolCall ==
  ASSUME CallsShaped, NEW c \in Calls, BucketCall(c), NEW from, NEW to, FindPool(c, from, to)
  PROVE  BucketCall(c)' /\ UNCHANGED bucket
<1>1. UNCHANGED bucket
  BY DEF FindPool, Console
<1>2. CASE End(c)
  BY <1>1, <1>2, EndBucketCall
<1>3. CASE ~End(c)
  <2>1. call' = [call EXCEPT ![c].pc = to, ![c].seen = TRUE]
    BY <1>3 DEF FindPool
  <2>2. /\ call'[c].op = call[c].op /\ call'[c].me = call[c].me
        /\ call'[c].on = call[c].on /\ call'[c].arg = call[c].arg
    BY <2>1 DEF CallsShaped, Fields
  <2>3. QED
    BY <1>1, <2>2 DEF BucketCall
<1>4. QED
  BY <1>2, <1>3

LEMMA LoadBucketCall ==
  ASSUME CallsShaped, NEW c \in Calls, BucketCall(c), NEW op, NEW pc, LoadBucket(c, op, pc)
  PROVE  BucketCall(c)' /\ UNCHANGED bucket
<1>1. UNCHANGED bucket
  BY DEF LoadBucket, Console
<1>2. CASE End(c)
  BY <1>1, <1>2, EndBucketCall
<1>3. CASE ~End(c)
  <2> DEFINE row == bucket[call[c].on]
             seen == RowsOf({call[c].on}) \cap settled
  <2>1. call' = [call EXCEPT ![c].pc = pc, ![c].row = row, ![c].seen = seen]
    BY <1>3 DEF LoadBucket
  <2> HIDE DEF row, seen
  <2>2. /\ call'[c].op = call[c].op /\ call'[c].me = call[c].me
        /\ call'[c].on = call[c].on /\ call'[c].arg = call[c].arg
    BY <2>1 DEF CallsShaped, Fields
  <2>3. QED
    BY <1>1, <2>2 DEF BucketCall
<1>4. QED
  BY <1>2, <1>3

\* A step on pools leaves the buckets, and the call is none on a bucket.
PoolStep(c) ==
  \/ \E me \in Users : CreatePool(c, me)
  \/ \E me \in Users, p \in Pools : ConfigurePool(c, me, p) \/ RemovePool(c, me, p)
  \/ CreatePoolInsert(c)
  \/ LoadPool(c, "configure pool", "write") \/ ConfigurePoolWrite(c)
  \/ LoadPool(c, "remove pool", "count") \/ CountForPool(c) \/ DropPool(c)

LEMMA PoolCalls ==
  ASSUME CallsShaped, NEW c \in Calls, PoolStep(c)
  PROVE  UNCHANGED bucket /\ call'[c].op \in {"create pool", "configure pool", "remove pool", "none"}
<1>1. CASE \E me \in Users : CreatePool(c, me)
  BY <1>1, BeginAlone DEF CreatePool, BeginPool
<1>2. CASE \E me \in Users, p \in Pools : ConfigurePool(c, me, p) \/ RemovePool(c, me, p)
  BY <1>2, BeginAlone DEF ConfigurePool, RemovePool, BeginPool
<1>3. CASE CreatePoolInsert(c) \/ ConfigurePoolWrite(c) \/ DropPool(c)
  BY <1>3, EndAlone DEF CreatePoolInsert, ConfigurePoolWrite, DropPool
<1>4. CASE LoadPool(c, "configure pool", "write") \/ LoadPool(c, "remove pool", "count")
  BY <1>4, EndAlone, AdvanceAlone DEF LoadPool, At, Console
<1>5. CASE CountForPool(c)
  BY <1>5, CountForPoolCalls DEF CountForPool, Console
<1>6. QED
  BY <1>1, <1>2, <1>3, <1>4, <1>5 DEF PoolStep

LEMMA BucketStepKeeps ==
  ASSUME CallsShaped, BucketRows0, NEW c \in Calls, BucketCall(c), BucketStep(c)
  PROVE  BucketCall(c)' /\ BucketRows0' /\ OwnersStay /\ (AnchorsStay \/ CreateBucketInsert(c))
<1> DEFINE Fine == BucketCall(c)' /\ BucketRows0' /\ OwnersStay /\ (AnchorsStay \/ CreateBucketInsert(c))
<1>1. ASSUME BucketCall(c)', UNCHANGED bucket PROVE Fine
  BY <1>1, SameBuckets
<1>2. CASE PoolStep(c)
  BY <1>1, <1>2, PoolCalls DEF BucketCall
<1>3. CASE \E me \in Users, p \in Pools, b \in Buckets : CreateBucket(c, me, p, NameOf[b])
  BY <1>1, <1>3, BeginBucketCall DEF CreateBucket
<1>4. CASE (\E me \in Users, b \in Buckets, max \in Limits : SetLimit(c, me, b, max))
             \/ \E me \in Users, b \in Buckets : RemoveBucket(c, me, b)
  BY <1>1, <1>4, BeginBucketCall DEF SetLimit, RemoveBucket
<1>5. CASE FindPool(c, "find", "find again") \/ FindPool(c, "find again", "insert")
  BY <1>1, <1>5, FindPoolCall
<1>6. CASE LoadBucket(c, "set limit", "write") \/ LoadBucket(c, "remove bucket", "drop")
  BY <1>1, <1>6, LoadBucketCall
<1>7. CASE CreateBucketInsert(c)
  <2>1. End(c)
    BY <1>7 DEF CreateBucketInsert
  <2>2. QED
    BY <1>7, <2>1, EndBucketCall, CreateBuckets
<1>8. CASE SetLimitWrite(c)
  <2>1. End(c)
    BY <1>8 DEF SetLimitWrite
  <2>2. QED
    BY <1>8, <2>1, EndBucketCall, SetLimitBuckets
<1>9. CASE RemoveBucketDrop(c)
  <2>1. End(c) /\ \E bs : Remove(bs)
    BY <1>9 DEF RemoveBucketDrop
  <2>2. QED
    BY <2>1, EndBucketCall, RemoveBuckets
<1>10. CASE TakeBuckets(c)
  <2>1. call'[c].op = "remove user" /\ UNCHANGED bucket
    BY <1>10, TakeBucketsCalls DEF TakeBuckets, Console
  <2>2. QED
    BY <1>1, <2>1 DEF BucketCall
<1>11. QED
  BY <1>2, <1>3, <1>4, <1>5, <1>6, <1>7, <1>8, <1>9, <1>10 DEF BucketStep, PoolStep

BucketInv == BucketRows0 /\ \A c \in Calls : BucketCall(c)

\* A key that was issued stays issued until it is gone for good.
KeysStay ==
  \A k \in Keys : /\ key[k] # None => key'[k] # None
                  /\ key[k] = Gone => key'[k] = Gone

LEMMA NextKeys ==
  ASSUME KeyInv, GatewayNext
  PROVE  KeysStay
<1> key \in [Keys -> Key \cup {None, Gone}]
  BY DEF KeyInv, KeyRows0
<1>1. CASE UNCHANGED key
  BY <1>1 DEF KeysStay
<1>2. ASSUME NEW k \in Keys, NEW row \in Key, key' = [key EXCEPT ![k] = row], key[k] # Gone
      PROVE  KeysStay
  BY <1>2, KeyAssumption DEF KeysStay
<1>3. ASSUME NEW c \in Calls, CascadeKeys(call[c].on)
      PROVE  KeysStay
  BY <1>3, RowsAssumption DEF CascadeKeys, KeysStay
<1>4. ASSUME NEW c \in Calls, Inserts(c) PROVE KeysStay
  BY <1>2, <1>4, RowsAssumption DEF Inserts
<1>5. CASE Changes
  BY <1>2, <1>5, KeyAssumption DEF Changes
<1>6. ASSUME NEW c \in Calls, Confines(c) PROVE KeysStay
  BY <1>2, <1>6, KeyAssumption DEF Confines
<1>7. QED
  BY <1>1, <1>3, <1>4, <1>5, <1>6, NextMoves, KeyStepKeeps DEF KeyMove, Writes

LEMMA NextBuckets ==
  ASSUME KeyInv, BucketInv, GatewayNext
  PROVE  BucketInv' /\ OwnersStay
<1> CallsShaped /\ BucketRows0 /\ \A c \in Calls : BucketCall(c)
  BY DEF KeyInv, BucketInv
<1>1. ASSUME UNCHANGED call, BucketRows0', OwnersStay
      PROVE  BucketInv' /\ OwnersStay
  BY <1>1 DEF BucketInv, BucketCall
<1>2. CASE \E r \in Requests : RequestStep(r)
  BY <1>1, <1>2, RequestLeaves, RequestBuckets
<1>3. CASE WriteAudit
  BY <1>1, <1>3, SameBuckets DEF WriteAudit, ConsoleRows
<1>4. CASE Tick /\ UNCHANGED <<Data, req, audit>>
  BY <1>1, <1>4, SameBuckets DEF Tick, Data
<1>5. ASSUME NEW c \in Calls, ConsoleStep(c)
      PROVE  BucketInv' /\ OwnersStay
  <2>1. ASSUME Alone(c), BucketCall(c)', BucketRows0', OwnersStay
        PROVE  BucketInv' /\ OwnersStay
    <3>1. ASSUME NEW d \in Calls PROVE BucketCall(d)'
      BY <2>1 DEF Alone, BucketCall
    <3>2. QED
      BY <2>1, <3>1 DEF BucketInv
  <2>2. ASSUME call'[c].op \notin BucketOps PROVE BucketCall(c)'
    BY <2>2 DEF BucketCall, BucketOps
  <2>3. CASE AccountStep(c) /\ UNCHANGED <<Data, KeyRows>>
    BY <2>1, <2>2, <2>3, AccountCalls, SameBuckets DEF Data
  <2>4. CASE BucketStep(c)
    BY <2>1, <2>4, BucketCalls, BucketStepKeeps
  <2>5. CASE KeyStep(c) /\ UNCHANGED Data
    <3>1. Alone(c) /\ call'[c].op \notin BucketOps
      BY <2>5, KeyStepKeeps DEF Kept, KeyOp, KeyOps, BucketOps
    <3>2. UNCHANGED bucket
      BY <2>5 DEF Data
    <3>3. QED
      BY <2>1, <2>2, <3>1, <3>2, SameBuckets
  <2>6. CASE DropUser(c) /\ CascadeBuckets(c)
    <3>1. Alone(c) /\ End(c)
      BY <2>6, DropCalls DEF DropUser
    <3>2. QED
      BY <2>1, <2>6, <3>1, EndBucketCall, CascadeBucketRows
  <2>7. QED
    BY <1>5, <2>3, <2>4, <2>5, <2>6 DEF ConsoleStep
<1>6. QED
  BY <1>2, <1>3, <1>4, <1>5 DEF GatewayNext

----------------------------------------------------------------------------
(* The requests. *)

ReqFields == {"pc", "wire", "key", "bucket", "pool", "source", "allowed", "left", "new", "answer"}

ReqsShaped == DOMAIN req = Requests /\ \A r \in Requests : DOMAIN req[r] = ReqFields

\* The history has what the key is allowed now.
Covered(r) ==
  InFlight(r) =>
    LET now == AllowedNow(req[r].wire.auth.key) IN
    /\ now.live => past[r].live
    /\ now.acts \subseteq past[r].acts
    /\ now.scopes \subseteq past[r].scopes

InScope(r, name) ==
  key[req[r].wire.auth.key] # Gone => \E s \in past[r].scopes : Within(s, name)

Resolving == {"owner", "bucket", "pool", "action", "scope", "source", "source action",
              "source scope", "source row"}
Serving == {"resolved", "keys", "reserve", "write", "commit", "delete", "credit"}

\* Past its authentication and not refused.
Going(r) == req[r].pc \in Resolving \/ Served(r)

\* The parts of what a request has passed.
Known(r) ==
  LET w == req[r].wire IN
  w \in Wires /\ Signed(w) /\ w.auth.key \in Keys /\ key[w.auth.key] # None /\ past[r].live

Acted(r) == Route(r).action \in past[r].acts \cup {None}

Scoped(r) == \A name \in req[r].allowed : InScope(r, name)

Owns(r) ==
  \A b \in {req[r].bucket, req[r].source} \ {None} :
    b \in Buckets /\ (bucket[b] = Gone \/ (bucket[b] \in BucketRow
                                          /\ bucket[b].owner \in {req[r].key.owner, None}))

ReadToo(r) == "read" \in past[r].acts

SourceScoped(r) == InScope(r, req[r].wire.source[2])

ReqInv(r) ==
  /\ req[r].pc = "authenticate" =>
       /\ req[r].wire \in Wires
       /\ req[r].bucket = None /\ req[r].source = None /\ req[r].allowed = {}
  /\ Going(r) => Known(r) /\ Scoped(r) /\ Owns(r)
  /\ \/ req[r].pc \in {"scope", "source", "source action", "source scope", "source row"}
     \/ req[r].pc \in {"bucket", "pool"} /\ Route(r).resolver = "bucket"
     \/ Served(r)
     => Acted(r)
  /\ Route(r).op \in Copies =>
       /\ req[r].pc \in {"source scope", "source row"} \/ Served(r) => ReadToo(r)
       /\ req[r].pc = "source row" \/ Served(r) => SourceScoped(r)

\* A step that leaves what a request is about takes nothing of it back.
LEMMA PassedStays ==
  ASSUME NEW r \in Requests, KeysStay, OwnersStay, Watch, Known(r),
         req'[r].pc \notin {"waiting", "console", "over"},
         req'[r].wire = req[r].wire, req'[r].key = req[r].key
  PROVE  /\ Known(r)' /\ Covered(r)' /\ (Route(r).op = Route(r).op')
         /\ Acted(r) => Acted(r)'
         /\ \A name : InScope(r, name) => InScope(r, name)'
         /\ ReadToo(r) => ReadToo(r)'
         /\ SourceScoped(r) => SourceScoped(r)'
         /\ req'[r].bucket = req[r].bucket /\ req'[r].source = req[r].source /\ Owns(r) => Owns(r)'
<1> DEFINE k == req[r].wire.auth.key
           now == AllowedNow(req[r].wire.auth.key)'
<1>1. InFlight(r)'
  BY DEF InFlight, Known
<1>2. past'[r] = [live |-> past[r].live \/ now.live, acts |-> past[r].acts \cup now.acts,
                  scopes |-> past[r].scopes \cup now.scopes]
  BY <1>1 DEF Watch
<1>3. /\ past'[r].live = (past[r].live \/ now.live)
      /\ past'[r].acts = past[r].acts \cup now.acts
      /\ past'[r].scopes = past[r].scopes \cup now.scopes
  BY <1>2
<1>4. k \in Keys /\ req'[r].wire.auth.key = k
  BY DEF Known
<1>5. key'[k] # None /\ (key[k] = Gone => key'[k] = Gone)
  BY <1>4 DEF Known, KeysStay
<1>6. Known(r)'
  BY <1>3, <1>4, <1>5 DEF Known
<1>7. Covered(r)'
  BY <1>3 DEF Covered
<1>8. Acted(r) => Acted(r)'
  BY <1>3 DEF Acted, Route
<1>9. \A name : InScope(r, name) => InScope(r, name)'
  BY <1>3, <1>4, <1>5 DEF InScope
<1>10. SourceScoped(r) => SourceScoped(r)'
  BY <1>9 DEF SourceScoped
<1>11. ReadToo(r) => ReadToo(r)'
  BY <1>3 DEF ReadToo
<1>12. ASSUME req'[r].bucket = req[r].bucket, req'[r].source = req[r].source, Owns(r)
       PROVE  Owns(r)'
  BY <1>12 DEF Owns, OwnersStay
<1>13. QED
  BY <1>6, <1>7, <1>8, <1>9, <1>10, <1>11, <1>12 DEF Route

\* What the history has includes what the key is allowed after the step.
LEMMA CoveredAfter ==
  ASSUME NEW r \in Requests, Watch
  PROVE  Covered(r)'
BY DEF Watch, Covered

\* A request that takes no step has lost nothing by that of another.
LEMMA StillInv ==
  ASSUME NEW r \in Requests, ReqInv(r), KeysStay, OwnersStay, Watch, req'[r] = req[r]
  PROVE  ReqInv(r)'
<1>1. CASE Going(r)
  <2>1. Known(r) /\ Scoped(r) /\ Owns(r) /\ req[r].pc \notin {"waiting", "console", "over"}
    BY <1>1 DEF ReqInv, Going, Served, Resolving
  <2>2. /\ Known(r)' /\ (Acted(r) => Acted(r)') /\ (ReadToo(r) => ReadToo(r)')
        /\ (SourceScoped(r) => SourceScoped(r)') /\ Owns(r)'
        /\ \A name : InScope(r, name) => InScope(r, name)'
    BY <2>1, PassedStays
  <2>3. Scoped(r)'
    BY <2>1, <2>2 DEF Scoped
  <2>4. (Served(r)' <=> Served(r)) /\ (Route(r)' = Route(r))
    BY DEF Served, Route
  <2>5. QED
    BY <2>2, <2>3, <2>4 DEF ReqInv
<1>2. CASE ~Going(r)
  <2>1. (Served(r)' <=> Served(r)) /\ (Route(r)' = Route(r)) /\ ~Going(r)' /\ ~Served(r)
    BY <1>2 DEF Served, Route, Going
  <2>2. /\ req[r].pc \notin {"scope", "source", "source action", "source scope", "source row",
                             "bucket", "pool"}
    BY <1>2 DEF Going, Resolving
  <2>3. QED
    BY <2>1, <2>2 DEF ReqInv
<1>3. QED
  BY <1>1, <1>2

\* One that goes on has what it is to have.
LEMMA GoesOn ==
  ASSUME NEW r \in Requests, KeysStay, OwnersStay, Watch, Known(r),
         req'[r].wire = req[r].wire, req'[r].key = req[r].key,
         req'[r].pc \in Resolving \cup Serving \/ Served(r)',
         \A name \in req'[r].allowed : InScope(r, name),
         Owns(r)',
         \/ req'[r].pc \in {"scope", "source", "source action", "source scope", "source row"}
         \/ req'[r].pc \in {"bucket", "pool"} /\ Route(r).resolver = "bucket"
         \/ Served(r)'
         => Acted(r),
         Route(r).op \in Copies =>
           /\ req'[r].pc \in {"source scope", "source row"} \/ Served(r)' => ReadToo(r)
           /\ req'[r].pc = "source row" \/ Served(r)' => SourceScoped(r)
  PROVE  ReqInv(r)'
<1>1. req'[r].pc \notin {"waiting", "console", "over", "authenticate"}
  BY DEF Served, Resolving, Serving
<1>2. /\ Known(r)' /\ (Acted(r) => Acted(r)') /\ (ReadToo(r) => ReadToo(r)')
      /\ (SourceScoped(r) => SourceScoped(r)')
      /\ \A name : InScope(r, name) => InScope(r, name)'
  BY <1>1, PassedStays
<1>3. Scoped(r)'
  BY <1>2 DEF Scoped
<1>4. Route(r)' = Route(r)
  BY DEF Route
<1>5. QED
  BY <1>1, <1>2, <1>3, <1>4 DEF ReqInv

\* One that is refused, or over, has nothing to have.
LEMMA Stops ==
  ASSUME NEW r \in Requests, ~Going(r)', req'[r].pc # "authenticate"
  PROVE  ReqInv(r)'
<1>1. ~Served(r)'
  BY DEF Going
<1>2. req'[r].pc \notin {"scope", "source", "source action", "source scope", "source row",
                         "bucket", "pool"}
  BY DEF Going, Resolving
<1>3. QED
  BY <1>1, <1>2 DEF ReqInv

\* What a step does to the requests: only r's record changes.
Only(r) == ReqsShaped' /\ \A s \in Requests : s # r => req'[s] = req[s]

Same(r) ==
  /\ req'[r].wire = req[r].wire /\ req'[r].key = req[r].key
  /\ req'[r].bucket = req[r].bucket /\ req'[r].source = req[r].source

LEMMA StepReq ==
  ASSUME ReqsShaped, NEW r \in Requests, NEW pc, Step(r, pc)
  PROVE  /\ Only(r) /\ Same(r) /\ req'[r].pc = pc
         /\ req'[r].allowed = req[r].allowed /\ req'[r].answer = req[r].answer
BY DEF ReqsShaped, ReqFields, Step, Only, Same

LEMMA AnswerReq ==
  ASSUME ReqsShaped, NEW r \in Requests, NEW code, Answer(r, code)
  PROVE  /\ Only(r) /\ Same(r) /\ req'[r].pc = "answered" /\ req'[r].answer = code
         /\ req'[r].allowed = req[r].allowed
BY DEF ReqsShaped, ReqFields, Answer, Only, Same

LEMMA Refused ==
  ASSUME ReqsShaped, NEW r \in Requests, NEW code, code # "OK", Answer(r, code)
  PROVE  Only(r) /\ ReqInv(r)'
<1>1. Only(r) /\ req'[r].pc = "answered" /\ req'[r].answer # "OK"
  BY AnswerReq
<1>2. ~Going(r)'
  BY <1>1 DEF Going, Served, Resolving
<1>3. QED
  BY <1>1, <1>2, Stops

\* What a step of a request may count on.
Ctx(r) ==
  /\ ReqsShaped /\ ReqInv(r) /\ Covered(r)
  /\ BucketRows0
  /\ KeysStay /\ OwnersStay /\ Watch

LEMMA OwnsSame ==
  ASSUME NEW r \in Requests, OwnersStay, Owns(r), Same(r)
  PROVE  Owns(r)'
BY DEF OwnersStay, Owns, Same

\* A served request that goes on, or ends well.
LEMMA ServesOn ==
  ASSUME NEW r \in Requests, Ctx(r), Served(r), Only(r), Same(r),
         Served(r)', \A name \in req'[r].allowed : name \in req[r].allowed \/ InScope(r, name)
  PROVE  ReqInv(r)'
<1>1. Going(r)
  BY DEF Going
<1>2. Known(r) /\ Scoped(r) /\ Owns(r) /\ Acted(r)
  BY <1>1 DEF Ctx, ReqInv
<1>3. Route(r).op \in Copies => ReadToo(r) /\ SourceScoped(r)
  BY DEF Ctx, ReqInv
<1>4. Owns(r)'
  BY <1>2, OwnsSame DEF Ctx
<1>5. \A name \in req'[r].allowed : InScope(r, name)
  BY <1>2 DEF Scoped
<1>6. KeysStay /\ OwnersStay /\ Watch /\ req'[r].wire = req[r].wire /\ req'[r].key = req[r].key
  BY DEF Ctx, Same
<1>7. QED
  BY <1>2, <1>3, <1>4, <1>5, <1>6, GoesOn

\* A step on from one statement of a resolver to another.
LEMMA ResolvesOn ==
  ASSUME NEW r \in Requests, Ctx(r), req[r].pc \in Resolving, NEW pc, Step(r, pc), pc \in Resolving \cup Serving,
         \/ pc \in {"scope", "source", "source action", "source scope", "source row"} \cup Serving
         \/ pc \in {"bucket", "pool"} /\ Route(r).resolver = "bucket"
         => Acted(r),
         Route(r).op \in Copies =>
           /\ pc \in {"source scope", "source row"} \cup Serving => ReadToo(r)
           /\ pc \in {"source row"} \cup Serving => SourceScoped(r)
  PROVE  Only(r) /\ ReqInv(r)'
<1>1. Known(r) /\ Scoped(r) /\ Owns(r)
  BY DEF Ctx, ReqInv, Going
<1>2. /\ Only(r) /\ Same(r) /\ req'[r].pc = pc
      /\ req'[r].allowed = req[r].allowed
  BY StepReq DEF Ctx
<1>3. Owns(r)'
  BY <1>1, <1>2, OwnsSame DEF Ctx
<1>4. \A name \in req'[r].allowed : InScope(r, name)
  BY <1>1, <1>2 DEF Scoped
<1>5. Served(r)' => pc \in Serving
  BY <1>2 DEF Served, Serving, Resolving
<1>6. KeysStay /\ OwnersStay /\ Watch /\ req'[r].wire = req[r].wire /\ req'[r].key = req[r].key
  BY <1>2 DEF Ctx, Same
<1>7. QED
  BY <1>1, <1>2, <1>3, <1>4, <1>5, <1>6, GoesOn

\* What the key is allowed now has been in the history since.
LEMMA NowPast ==
  ASSUME NEW r \in Requests, Ctx(r), Known(r), req[r].pc \in Resolving \cup Serving,
         Issued(req[r].wire.auth.key)
  PROVE  /\ key[req[r].wire.auth.key].acts \subseteq past[r].acts
         /\ Scope(req[r].wire.auth.key) \in past[r].scopes
<1> DEFINE k == req[r].wire.auth.key
<1>1. InFlight(r)
  BY DEF InFlight, Known, Resolving, Serving
<1>2. AllowedNow(k).acts = key[k].acts /\ AllowedNow(k).scopes = {Scope(k)}
  BY DEF AllowedNow
<1>3. AllowedNow(k).acts \subseteq past[r].acts /\ AllowedNow(k).scopes \subseteq past[r].scopes
  BY <1>1 DEF Ctx, Covered
<1>4. QED
  BY <1>2, <1>3

\* A name the prefixes allow now is in a scope of the history, unless the key is
\* gone.
LEMMA WithinPast ==
  ASSUME NEW r \in Requests, Ctx(r), Known(r), req[r].pc \in Resolving \cup Serving, NEW name,
         Within(ScopeNow(req[r].wire.auth.key), name)
  PROVE  InScope(r, name)
<1> DEFINE k == req[r].wire.auth.key
<1> SUFFICES ASSUME key[k] # Gone PROVE \E s \in past[r].scopes : Within(s, name)
  BY DEF InScope
<1>1. Issued(k)
  BY DEF Issued, Known
<1>2. ScopeNow(k) = Scope(k) /\ Scope(k) \in past[r].scopes
  BY <1>1, NowPast DEF ScopeNow
<1>3. QED
  BY <1>2

LEMMA ArriveKeeps ==
  ASSUME NEW r \in Requests, Ctx(r), NEW w \in Wires, Arrive(r, w)
  PROVE  Only(r) /\ ReqInv(r)'
<1> DEFINE pc == IF ~IsS3Request(w) THEN "console"
                 ELSE IF RouteOf(w).resolver = "nothing" THEN "answered" ELSE "authenticate"
           code == IF IsS3Request(w) /\ RouteOf(w).resolver = "nothing" THEN "NotImplemented" ELSE None
<1>1. req[r] = Waiting /\ req' = [req EXCEPT ![r].wire = w, ![r].pc = pc, ![r].answer = code]
  BY DEF Arrive
<1>2. pc \in {"console", "answered", "authenticate"} /\ (pc = "answered" => code = "NotImplemented")
  OBVIOUS
<1> HIDE DEF pc, code
<1>3. /\ Only(r) /\ req'[r].wire = w /\ req'[r].pc = pc /\ req'[r].answer = code
      /\ req'[r].bucket = None /\ req'[r].source = None /\ req'[r].allowed = {}
  BY <1>1 DEF Ctx, ReqsShaped, ReqFields, Only, Waiting
<1>4. ~Going(r)'
  BY <1>2, <1>3 DEF Going, Served, Resolving
<1>5. CASE pc # "authenticate"
  BY <1>3, <1>4, <1>5, Stops
<1>6. CASE pc = "authenticate"
  BY <1>3, <1>4, <1>6 DEF ReqInv, Going
<1>7. QED
  BY <1>5, <1>6

LEMMA AuthenticateKeeps ==
  ASSUME NEW r \in Requests, Ctx(r), Authenticate(r)
  PROVE  Only(r) /\ ReqInv(r)'
<1> DEFINE w == req[r].wire
           k == w.auth.key
           row == key[k]
<1>1. CASE \E code : code # "OK" /\ Answer(r, code)
  BY <1>1, Refused DEF Ctx
<1>2. CASE ~\E code : code # "OK" /\ Answer(r, code)
  <2>1. Fault(w, k, clock) # None => Fault(w, k, clock) # "OK"
    BY DEF Fault
  <2>2. Signed(w) /\ Usable(k) /\ req' = [req EXCEPT ![r].pc = "owner", ![r].key = row]
    BY <1>2, <2>1 DEF Authenticate
  <2>3. /\ w \in Wires /\ req[r].bucket = None /\ req[r].source = None /\ req[r].allowed = {}
    BY DEF Ctx, ReqInv, Authenticate, Reads
  <2>4. UNCHANGED <<key, clock>>
    BY DEF Authenticate, Reads, ConsoleRows
  <2> HIDE DEF row
  <2>5. /\ Only(r) /\ req'[r].pc = "owner" /\ req'[r].wire = w
        /\ req'[r].bucket = None /\ req'[r].source = None /\ req'[r].allowed = {}
    BY <2>2, <2>3 DEF Ctx, ReqsShaped, ReqFields, Only
  <2>6. k \in Keys /\ key'[k] # None
    BY <2>2, <2>3, <2>4, SignersAssumption DEF Usable, Issued
  <2>7. past'[r].live
    <3>1. InFlight(r)'
      BY <2>2, <2>5 DEF InFlight
    <3>2. Usable(req[r].wire.auth.key)'
      BY <2>2, <2>4, <2>5 DEF Usable, Issued, Expired
    <3>3. AllowedNow(req[r].wire.auth.key)'.live
      BY <3>2 DEF AllowedNow
    <3>4. QED
      BY <3>1, <3>3 DEF Ctx, Watch
  <2>8. Known(r)' /\ Scoped(r)' /\ Owns(r)' /\ ~Served(r)'
    BY <2>2, <2>3, <2>5, <2>6, <2>7 DEF Known, Scoped, Owns, Served
  <2>9. QED
    BY <2>5, <2>8 DEF ReqInv
<1>3. QED
  BY <1>1, <1>2

\* A statement of a resolver starts with what the ones before it found.
LEMMA ResolvingKnows ==
  ASSUME NEW r \in Requests, Ctx(r), req[r].pc \in Resolving
  PROVE  Known(r) /\ Scoped(r) /\ Owns(r) /\ ~Served(r)
BY DEF Ctx, ReqInv, Going, Served, Resolving

LEMMA ReadOwnerKeeps ==
  ASSUME NEW r \in Requests, Ctx(r), ReadOwner(r)
  PROVE  Only(r) /\ ReqInv(r)'
<1>1. req[r].pc = "owner" /\ req[r].pc \in Resolving
  BY DEF ReadOwner, Reads, Resolving
<1>2. Known(r) /\ Scoped(r) /\ Owns(r)
  BY <1>1, ResolvingKnows
<1>3. CASE Answer(r, "InternalError")
  BY <1>3, Refused DEF Ctx
<1>4. CASE Route(r).resolver = "account" /\ Answer(r, "OK")
  <2>1. Acted(r) /\ Route(r).op \notin Copies
    BY <1>2, <1>4, RouteFacts DEF Route, Acted, Known
  <2>2. /\ Only(r) /\ Same(r) /\ req'[r].pc = "answered" /\ req'[r].answer = "OK"
        /\ req'[r].allowed = req[r].allowed
    BY <1>4, AnswerReq DEF Ctx
  <2>3. Owns(r)'
    BY <1>2, <2>2, OwnsSame DEF Ctx
  <2>4. Served(r)' /\ \A name \in req'[r].allowed : InScope(r, name)
    BY <1>2, <2>2 DEF Served, Scoped
  <2>5. KeysStay /\ OwnersStay /\ Watch /\ req'[r].wire = req[r].wire /\ req'[r].key = req[r].key
    BY <2>2 DEF Ctx, Same
  <2>6. QED
    BY <1>2, <2>1, <2>2, <2>3, <2>4, <2>5, GoesOn
<1>5. CASE Step(r, AfterAuthentication(r))
  <2>1. CASE Route(r).resolver = "bucket"
    <3>1. Step(r, "action")
      BY <1>5, <2>1 DEF AfterAuthentication
    <3>2. QED
      BY <1>1, <3>1, ResolvesOn DEF Resolving, Serving
  <2>2. CASE Route(r).resolver # "bucket"
    <3>1. Step(r, "bucket")
      BY <1>5, <2>2 DEF AfterAuthentication
    <3>2. QED
      BY <1>1, <2>2, <3>1, ResolvesOn DEF Resolving, Serving
  <2>3. QED
    BY <2>1, <2>2
<1>6. QED
  BY <1>3, <1>4, <1>5 DEF ReadOwner

\* What an owner's bucket is.
LEMMA FoundOwns ==
  ASSUME BucketRows0, NEW u, NEW name, NEW b \in Found(u, name)
  PROVE  b \in Buckets /\ bucket[b] \in BucketRow /\ bucket[b].owner = u
BY DEF Found, Owned, Exists, BucketRows0

LEMMA ReadBucketKeeps ==
  ASSUME NEW r \in Requests, Ctx(r), ReadBucket(r)
  PROVE  Only(r) /\ ReqInv(r)'
<1> DEFINE found == Found(req[r].key.owner, req[r].wire.bucket)
<1>1. req[r].pc = "bucket" /\ req[r].pc \in Resolving /\ UNCHANGED bucket
  BY DEF ReadBucket, Reads, Resolving, ConsoleRows
<1>2. Known(r) /\ Scoped(r) /\ Owns(r)
  BY <1>1, ResolvingKnows
<1>3. CASE Answer(r, "NoSuchBucket")
  BY <1>3, Refused DEF Ctx
<1>4. CASE ~Answer(r, "NoSuchBucket")
  <2>1. PICK b \in found :
          req' = [req EXCEPT ![r].pc = "pool", ![r].bucket = b, ![r].pool = bucket[b].pool]
    BY <1>4 DEF ReadBucket
  <2>2. b \in Buckets /\ bucket[b] \in BucketRow /\ bucket[b].owner = req[r].key.owner
    BY FoundOwns DEF Ctx
  <2> DEFINE p == bucket[b].pool
  <2> HIDE DEF found, p
  <2>3. req' = [req EXCEPT ![r].pc = "pool", ![r].bucket = b, ![r].pool = p]
    BY <2>1 DEF p
  <2>4. /\ Only(r) /\ req'[r].pc = "pool" /\ req'[r].wire = req[r].wire /\ req'[r].key = req[r].key
        /\ req'[r].bucket = b /\ req'[r].source = req[r].source /\ req'[r].allowed = req[r].allowed
    BY <2>3 DEF Ctx, ReqsShaped, ReqFields, Only
  <2>5. Owns(r)'
    BY <1>1, <1>2, <2>2, <2>4 DEF Owns
  <2>6. ~Served(r)' /\ \A name \in req'[r].allowed : InScope(r, name)
    BY <1>2, <2>4 DEF Served, Scoped
  <2>7. Route(r).resolver = "bucket" => Acted(r)
    BY <1>1 DEF Ctx, ReqInv
  <2>8. KeysStay /\ OwnersStay /\ Watch
    BY DEF Ctx
  <2>9. req'[r].pc \in Resolving
    BY <2>4 DEF Resolving
  <2>10. QED
    BY <1>2, <2>4, <2>5, <2>6, <2>7, <2>8, <2>9, GoesOn
<1>5. QED
  BY <1>3, <1>4

LEMMA ReadPoolKeeps ==
  ASSUME NEW r \in Requests, Ctx(r), ReadPool(r)
  PROVE  Only(r) /\ ReqInv(r)'
<1> DEFINE row == pool[req[r].pool]
           pc == IF Route(r).resolver = "bucket" THEN "resolved" ELSE "action"
<1>1. req[r].pc = "pool" /\ req[r].pc \in Resolving
  BY DEF ReadPool, Reads, Resolving
<1>2. Known(r) /\ Scoped(r) /\ Owns(r)
  BY <1>1, ResolvingKnows
<1>3. CASE Answer(r, "InternalError") \/ Answer(r, "InvalidArgument")
  BY <1>3, Refused DEF Ctx
<1>4. CASE req' = [req EXCEPT ![r].pool = row, ![r].pc = pc]
  <2>1. Route(r).resolver = "bucket" => pc = "resolved" /\ Acted(r) /\ Route(r).op \notin Copies
    BY <1>1, <1>2, RouteFacts DEF Ctx, ReqInv, Known, Route
  <2>2. Route(r).resolver # "bucket" => pc = "action"
    OBVIOUS
  <2> HIDE DEF row, pc
  <2>3. Only(r) /\ Same(r) /\ req'[r].pc = pc /\ req'[r].allowed = req[r].allowed
    BY <1>4 DEF Ctx, ReqsShaped, ReqFields, Only, Same
  <2>4. Owns(r)'
    BY <1>2, <2>3, OwnsSame DEF Ctx
  <2>5. \A name \in req'[r].allowed : InScope(r, name)
    BY <1>2, <2>3 DEF Scoped
  <2>6. KeysStay /\ OwnersStay /\ Watch /\ req'[r].wire = req[r].wire /\ req'[r].key = req[r].key
    BY <2>3 DEF Ctx, Same
  <2>7. CASE Route(r).resolver = "bucket"
    <3>1. req'[r].pc = "resolved" /\ req'[r].pc \in Serving
      BY <2>1, <2>3, <2>7 DEF Serving
    <3>2. QED
      BY <1>2, <2>1, <2>3, <2>4, <2>5, <2>6, <2>7, <3>1, GoesOn
  <2>8. CASE Route(r).resolver # "bucket"
    <3>1. req'[r].pc = "action" /\ req'[r].pc \in Resolving /\ ~Served(r)'
      BY <2>2, <2>3, <2>8 DEF Resolving, Served
    <3>2. QED
      BY <1>2, <2>3, <2>4, <2>5, <2>6, <2>8, <3>1, GoesOn
  <2>9. QED
    BY <2>7, <2>8
<1>5. QED
  BY <1>3, <1>4 DEF ReadPool

LEMMA ReadActionKeeps ==
  ASSUME NEW r \in Requests, Ctx(r), ReadAction(r)
  PROVE  Only(r) /\ ReqInv(r)'
<1> DEFINE k == req[r].wire.auth.key
<1>1. req[r].pc = "action" /\ req[r].pc \in Resolving
  BY DEF ReadAction, Reads, Resolving
<1>2. CASE Answer(r, "AccessDenied")
  BY <1>2, Refused DEF Ctx
<1>3. CASE ~Answer(r, "AccessDenied")
  <2>1. Issued(k) /\ Route(r).action \in key[k].acts
    BY <1>3 DEF ReadAction
  <2>2. Acted(r)
    BY <1>1, <2>1, ResolvingKnows, NowPast DEF Acted
  <2>3. Step(r, "bucket") \/ Step(r, "scope")
    BY <1>3 DEF ReadAction
  <2>4. QED
    BY <1>1, <2>2, <2>3, ResolvesOn DEF Resolving, Serving
<1>4. QED
  BY <1>2, <1>3

LEMMA ReadScopeKeeps ==
  ASSUME NEW r \in Requests, Ctx(r), ReadScope(r)
  PROVE  Only(r) /\ ReqInv(r)'
<1> DEFINE name == req[r].wire.name
           pc == IF Route(r).op \in Copies THEN "source" ELSE "resolved"
<1>1. req[r].pc = "scope" /\ req[r].pc \in Resolving
  BY DEF ReadScope, Reads, Resolving
<1>2. Known(r) /\ Scoped(r) /\ Owns(r)
  BY <1>1, ResolvingKnows
<1>3. CASE Answer(r, "AccessDenied")
  BY <1>3, Refused DEF Ctx
<1>4. CASE ~Answer(r, "AccessDenied")
  <2>1. /\ Within(ScopeNow(req[r].wire.auth.key), name)
        /\ req' = [req EXCEPT ![r].allowed = {name}, ![r].pc = pc]
    BY <1>4 DEF ReadScope
  <2>2. InScope(r, name) /\ Acted(r)
    BY <1>1, <1>2, <2>1, WithinPast DEF Ctx, ReqInv
  <2> DEFINE allowed == {name}
  <2>3. req' = [req EXCEPT ![r].allowed = allowed, ![r].pc = pc]
    BY <2>1
  <2>4. \A n \in allowed : n = name
    OBVIOUS
  <2>5. (pc = "source" /\ Route(r).op \in Copies) \/ (pc = "resolved" /\ Route(r).op \notin Copies)
    OBVIOUS
  <2> HIDE DEF name, pc, allowed
  <2>6. Only(r) /\ Same(r) /\ req'[r].pc = pc /\ req'[r].allowed = allowed
    BY <2>3 DEF Ctx, ReqsShaped, ReqFields, Only, Same
  <2>7. Owns(r)'
    BY <1>2, <2>6, OwnsSame DEF Ctx
  <2>8. \A n \in req'[r].allowed : InScope(r, n)
    BY <2>2, <2>4, <2>6
  <2>9. KeysStay /\ OwnersStay /\ Watch /\ req'[r].wire = req[r].wire /\ req'[r].key = req[r].key
    BY <2>6 DEF Ctx, Same
  <2>10. req'[r].pc \in Resolving \cup Serving /\ (pc = "source" => ~Served(r)')
    BY <2>5, <2>6 DEF Resolving, Serving, Served
  <2>11. QED
    BY <1>2, <2>2, <2>5, <2>6, <2>7, <2>8, <2>9, <2>10, GoesOn
<1>5. QED
  BY <1>3, <1>4

----------------------------------------------------------------------------
(* The other end of a copy. *)

LEMMA ReadSourceKeeps ==
  ASSUME NEW r \in Requests, Ctx(r), ReadSource(r)
  PROVE  Only(r) /\ ReqInv(r)'
<1> DEFINE found == Found(req[r].key.owner, req[r].wire.source[1])
<1>1. req[r].pc = "source" /\ req[r].pc \in Resolving /\ UNCHANGED bucket
  BY DEF ReadSource, Reads, Resolving, ConsoleRows
<1>2. Known(r) /\ Scoped(r) /\ Owns(r) /\ Acted(r)
  BY <1>1, ResolvingKnows DEF Ctx, ReqInv
<1>3. CASE Answer(r, "NoSuchBucket") \/ Answer(r, "InvalidArgument")
  BY <1>3, Refused DEF Ctx
<1>4. CASE ~(Answer(r, "NoSuchBucket") \/ Answer(r, "InvalidArgument"))
  <2>1. PICK b \in found : req' = [req EXCEPT ![r].pc = "source action", ![r].source = b]
    BY <1>4 DEF ReadSource
  <2>2. b \in Buckets /\ bucket[b] \in BucketRow /\ bucket[b].owner = req[r].key.owner
    BY FoundOwns DEF Ctx
  <2> HIDE DEF found
  <2>3. /\ Only(r) /\ req'[r].pc = "source action" /\ req'[r].wire = req[r].wire
        /\ req'[r].key = req[r].key /\ req'[r].source = b /\ req'[r].bucket = req[r].bucket
        /\ req'[r].allowed = req[r].allowed
    BY <2>1 DEF Ctx, ReqsShaped, ReqFields, Only
  <2>4. Owns(r)'
    BY <1>1, <1>2, <2>2, <2>3 DEF Owns
  <2>5. ~Served(r)' /\ \A name \in req'[r].allowed : InScope(r, name)
    BY <1>2, <2>3 DEF Served, Scoped
  <2>6. KeysStay /\ OwnersStay /\ Watch /\ req'[r].pc \in Resolving
    BY <2>3 DEF Ctx, Resolving
  <2>7. QED
    BY <1>2, <2>3, <2>4, <2>5, <2>6, GoesOn
<1>5. QED
  BY <1>3, <1>4

LEMMA ReadSourceActionKeeps ==
  ASSUME NEW r \in Requests, Ctx(r), ReadSourceAction(r)
  PROVE  Only(r) /\ ReqInv(r)'
<1> DEFINE k == req[r].wire.auth.key
<1>1. req[r].pc = "source action" /\ req[r].pc \in Resolving
  BY DEF ReadSourceAction, Reads, Resolving
<1>2. Acted(r)
  BY <1>1 DEF Ctx, ReqInv
<1>3. CASE Answer(r, "AccessDenied")
  BY <1>3, Refused DEF Ctx
<1>4. CASE ~Answer(r, "AccessDenied")
  <2>1. Issued(k) /\ "read" \in key[k].acts /\ Step(r, "source scope")
    BY <1>4 DEF ReadSourceAction
  <2>2. ReadToo(r)
    BY <1>1, <2>1, ResolvingKnows, NowPast DEF ReadToo
  <2>3. QED
    BY <1>1, <1>2, <2>1, <2>2, ResolvesOn DEF Resolving, Serving
<1>5. QED
  BY <1>3, <1>4

LEMMA ReadSourceScopeKeeps ==
  ASSUME NEW r \in Requests, Ctx(r), ReadSourceScope(r)
  PROVE  Only(r) /\ ReqInv(r)'
<1>1. req[r].pc = "source scope" /\ req[r].pc \in Resolving
  BY DEF ReadSourceScope, Reads, Resolving
<1>2. Acted(r) /\ (Route(r).op \in Copies => ReadToo(r))
  BY <1>1 DEF Ctx, ReqInv
<1>3. CASE Answer(r, "AccessDenied")
  BY <1>3, Refused DEF Ctx
<1>4. CASE ~Answer(r, "AccessDenied")
  <2>1. Within(ScopeNow(req[r].wire.auth.key), req[r].wire.source[2]) /\ Step(r, "source row")
    BY <1>4 DEF ReadSourceScope
  <2>2. SourceScoped(r)
    BY <1>1, <2>1, ResolvingKnows, WithinPast DEF SourceScoped
  <2>3. QED
    BY <1>1, <1>2, <2>1, <2>2, ResolvesOn DEF Resolving, Serving
<1>5. QED
  BY <1>3, <1>4

LEMMA ReadSourceRowKeeps ==
  ASSUME NEW r \in Requests, Ctx(r), ReadSourceRow(r)
  PROVE  Only(r) /\ ReqInv(r)'
<1>1. req[r].pc = "source row" /\ req[r].pc \in Resolving
  BY DEF ReadSourceRow, Reads, Resolving
<1>2. Acted(r) /\ (Route(r).op \in Copies => ReadToo(r) /\ SourceScoped(r))
  BY <1>1 DEF Ctx, ReqInv
<1>3. CASE Answer(r, "NoSuchKey")
  BY <1>3, Refused DEF Ctx
<1>4. CASE Step(r, "resolved")
  BY <1>1, <1>2, <1>4, ResolvesOn DEF Resolving, Serving
<1>5. QED
  BY <1>3, <1>4 DEF ReadSourceRow

----------------------------------------------------------------------------
(* A request that is served. *)

\* A served request that stays among the names it was allowed.
LEMMA StaysServed ==
  ASSUME NEW r \in Requests, Ctx(r), Served(r), Only(r), Same(r),
         req'[r].pc \in Serving \/ (req'[r].pc = "answered" /\ req'[r].answer = "OK"),
         req'[r].allowed = req[r].allowed
  PROVE  Only(r) /\ ReqInv(r)'
<1>1. Served(r)'
  BY DEF Served, Serving
<1>2. QED
  BY <1>1, ServesOn

LEMMA AnswersServed ==
  ASSUME NEW r \in Requests, Ctx(r), Served(r), NEW code, Answer(r, code)
  PROVE  Only(r) /\ ReqInv(r)'
<1>1. CASE code = "OK"
  BY <1>1, AnswerReq, StaysServed DEF Ctx
<1>2. CASE code # "OK"
  BY <1>2, Refused DEF Ctx
<1>3. QED
  BY <1>1, <1>2

LEMMA StepServed ==
  ASSUME NEW r \in Requests, Ctx(r), Served(r), NEW pc \in Serving, Step(r, pc)
  PROVE  Only(r) /\ ReqInv(r)'
BY StepReq, StaysServed DEF Ctx

\* One that goes on with names still to do.
LEMMA LeftServed ==
  ASSUME NEW r \in Requests, Ctx(r), Served(r), NEW pc \in Serving, NEW left,
         req' = [req EXCEPT ![r].pc = pc, ![r].left = left]
  PROVE  Only(r) /\ ReqInv(r)'
<1>1. Only(r) /\ Same(r) /\ req'[r].pc = pc /\ req'[r].allowed = req[r].allowed
  BY DEF Ctx, ReqsShaped, ReqFields, Only, Same
<1>2. QED
  BY <1>1, StaysServed

LEMMA DecideKeyKeeps ==
  ASSUME NEW r \in Requests, Ctx(r), NEW name, DecideKey(r, name)
  PROVE  Only(r) /\ ReqInv(r)'
<1> DEFINE fits == name \notin BadNames /\ Within(ScopeNow(req[r].wire.auth.key), name)
           allowed == IF fits THEN req[r].allowed \cup {name} ELSE req[r].allowed
           left == req[r].left \ {name}
<1>1. req[r].pc = "keys" /\ req[r].pc \in Serving /\ Served(r)
  BY DEF DecideKey, Reads, Serving, Served
<1>2. Known(r)
  BY <1>1 DEF Ctx, ReqInv, Going
<1>3. fits => InScope(r, name)
  BY <1>1, <1>2, WithinPast
<1>4. \A n \in allowed : n \in req[r].allowed \/ InScope(r, n)
  BY <1>3
<1>5. req' = [req EXCEPT ![r].left = left, ![r].allowed = allowed]
  BY DEF DecideKey
<1> HIDE DEF allowed, left
<1>6. Only(r) /\ Same(r) /\ req'[r].pc = "keys" /\ req'[r].allowed = allowed
  BY <1>1, <1>5 DEF Ctx, ReqsShaped, ReqFields, Only, Same
<1>7. Served(r)'
  BY <1>6 DEF Served
<1>8. QED
  BY <1>1, <1>4, <1>6, <1>7, ServesOn

LEMMA DecidedKeysKeeps ==
  ASSUME NEW r \in Requests, Ctx(r), DecidedKeys(r)
  PROVE  Only(r) /\ ReqInv(r)'
<1>1. Served(r) /\ "delete" \in Serving
  BY DEF DecidedKeys, Reads, Serving, Served
<1>2. CASE \E code : Answer(r, code)
  BY <1>1, <1>2, AnswersServed
<1>3. CASE ~\E code : Answer(r, code)
  <2>1. req' = [req EXCEPT ![r].pc = "delete", ![r].left = req[r].allowed]
    BY <1>3 DEF DecidedKeys
  <2>2. QED
    BY <1>1, <2>1, LeftServed
<1>4. QED
  BY <1>2, <1>3

LEMMA DispatchedKeeps ==
  ASSUME NEW r \in Requests, Ctx(r), Dispatched(r)
  PROVE  Only(r) /\ ReqInv(r)'
<1>1. Served(r) /\ {"delete", "keys", "reserve"} \subseteq Serving
  BY DEF Dispatched, Reads, Serving, Served
<1>2. CASE \E code : Answer(r, code)
  BY <1>1, <1>2, AnswersServed
<1>3. CASE Step(r, "reserve")
  BY <1>1, <1>3, StepServed
<1>4. CASE req' = [req EXCEPT ![r].pc = "keys", ![r].left = req[r].wire.body]
  BY <1>1, <1>4, LeftServed
<1>5. CASE req' = [req EXCEPT ![r].pc = "delete", ![r].left = req[r].allowed]
  BY <1>1, <1>5, LeftServed
<1>6. QED
  BY <1>2, <1>3, <1>4, <1>5 DEF Dispatched

LEMMA WritesKeep ==
  ASSUME NEW r \in Requests, Ctx(r), Reserve(r) \/ WriteRow(r) \/ Commit(r)
  PROVE  Only(r) /\ ReqInv(r)'
<1>1. Served(r) /\ {"write", "commit"} \subseteq Serving
  BY DEF Reserve, WriteRow, Commit, Serving, Served
<1>2. CASE \E code : Answer(r, code)
  BY <1>1, <1>2, AnswersServed
<1>3. CASE Step(r, "commit")
  BY <1>1, <1>3, StepServed
<1>4. CASE \E new : req' = [req EXCEPT ![r].pc = "write", ![r].new = new]
  <2>1. Only(r) /\ Same(r) /\ req'[r].pc = "write" /\ req'[r].allowed = req[r].allowed
    BY <1>4 DEF Ctx, ReqsShaped, ReqFields, Only, Same
  <2>2. QED
    BY <1>1, <2>1, StaysServed
<1>5. QED
  BY <1>2, <1>3, <1>4 DEF Reserve, WriteRow, Commit

LEMMA DeletesKeep ==
  ASSUME NEW r \in Requests, Ctx(r),
         (\E name \in Names : DeleteRow(r, name)) \/ Credit(r) \/ DeletedAll(r)
  PROVE  Only(r) /\ ReqInv(r)'
<1>1. Served(r) /\ {"delete", "credit"} \subseteq Serving
  BY DEF DeleteRow, Credit, DeletedAll, Reads, Serving, Served
<1>2. CASE \E name \in Names : DeleteRow(r, name)
  <2>1. PICK name \in Names : DeleteRow(r, name)
    BY <1>2
  <2> DEFINE left == req[r].left \ {name}
             pc == IF <<req[r].bucket, name>> \in rows THEN "credit" ELSE "delete"
  <2>2. req' = [req EXCEPT ![r].left = left, ![r].pc = pc] /\ pc \in Serving
    BY <1>1, <2>1 DEF DeleteRow
  <2> HIDE DEF left, pc
  <2>3. Only(r) /\ Same(r) /\ req'[r].pc = pc /\ req'[r].allowed = req[r].allowed
    BY <2>2 DEF Ctx, ReqsShaped, ReqFields, Only, Same
  <2>4. QED
    BY <1>1, <2>2, <2>3, StaysServed
<1>3. CASE Credit(r)
  BY <1>1, <1>3, StepServed, AnswersServed DEF Credit
<1>4. CASE DeletedAll(r)
  BY <1>1, <1>4, AnswersServed DEF DeletedAll
<1>5. QED
  BY <1>2, <1>3, <1>4

----------------------------------------------------------------------------
(* The invariant. *)

LEMMA RequestKeeps ==
  ASSUME NEW r \in Requests, Ctx(r), RequestStep(r)
  PROVE  Only(r) /\ ReqInv(r)'
<1>1. CASE \E w \in Wires : Arrive(r, w)
  BY <1>1, ArriveKeeps
<1>2. CASE Authenticate(r)
  BY <1>2, AuthenticateKeeps
<1>3. CASE ReadOwner(r) \/ ReadBucket(r) \/ ReadPool(r) \/ ReadAction(r) \/ ReadScope(r)
  BY <1>3, ReadOwnerKeeps, ReadBucketKeeps, ReadPoolKeeps, ReadActionKeeps, ReadScopeKeeps
<1>4. CASE ReadSource(r) \/ ReadSourceAction(r) \/ ReadSourceScope(r) \/ ReadSourceRow(r)
  BY <1>4, ReadSourceKeeps, ReadSourceActionKeeps, ReadSourceScopeKeeps, ReadSourceRowKeeps
<1>5. CASE (\E name \in Names : DecideKey(r, name)) \/ DecidedKeys(r) \/ Dispatched(r)
  BY <1>5, DecideKeyKeeps, DecidedKeysKeeps, DispatchedKeeps
<1>6. CASE Reserve(r) \/ WriteRow(r) \/ Commit(r)
  BY <1>6, WritesKeep
<1>7. CASE (\E name \in Names : DeleteRow(r, name)) \/ Credit(r) \/ DeletedAll(r)
  BY <1>7, DeletesKeep
<1>8. CASE RecordAudit(r)
  <2>1. Only(r) /\ req'[r].pc = "sent"
    BY <1>8, StepReq DEF RecordAudit, Ctx
  <2>2. ~Going(r)'
    BY <2>1 DEF Going, Served, Resolving
  <2>3. QED
    BY <2>1, <2>2, Stops
<1>9. QED
  BY <1>1, <1>2, <1>3, <1>4, <1>5, <1>6, <1>7, <1>8 DEF RequestStep

ReqsInv == ReqsShaped /\ \A r \in Requests : ReqInv(r) /\ Covered(r)

LEMMA NextRequests ==
  ASSUME PlaneInv, BucketInv, ReqsInv, GatewayNext
  PROVE  BucketInv' /\ ReqsInv'
<1>1. KeysStay /\ OwnersStay /\ BucketInv' /\ Watch
  BY NextKeys, NextBuckets DEF PlaneInv, GatewayNext
<1>2. \A r \in Requests : Ctx(r)
  BY <1>1 DEF Ctx, ReqsInv, BucketInv
<1>3. \A r \in Requests : Covered(r)'
  BY <1>1, CoveredAfter
<1>4. CASE UNCHANGED req
  <2>1. \A r \in Requests : ReqInv(r)'
    BY <1>1, <1>4, StillInv DEF ReqsInv
  <2>2. QED
    BY <1>1, <1>3, <1>4, <2>1 DEF ReqsInv, ReqsShaped
<1>5. ASSUME NEW r \in Requests, RequestStep(r)
      PROVE  ReqsInv'
  <2>1. Only(r) /\ ReqInv(r)'
    BY <1>2, <1>5, RequestKeeps
  <2>2. ASSUME NEW s \in Requests, s # r PROVE ReqInv(s)'
    <3>1. req'[s] = req[s] /\ ReqInv(s)
      BY <2>1, <2>2 DEF Only, ReqsInv
    <3>2. QED
      BY <1>1, <3>1, StillInv
  <2>3. QED
    BY <1>3, <2>1, <2>2 DEF ReqsInv, Only
<1>6. UNCHANGED req \/ \E r \in Requests : RequestStep(r)
  BY DEF GatewayNext, ConsoleStep, WriteAudit
<1>7. QED
  BY <1>1, <1>4, <1>5, <1>6 DEF ReqsInv

PolicyInv == PlaneInv /\ BucketInv /\ ReqsInv

\* Each statement of a request has what the ones before it found, whatever the
\* console changed in between: the invariant under the next theorem.
THEOREM RequestsHeld == GatewaySpec => []PolicyInv
<1>1. GatewayInit => BucketInv /\ ReqsInv
  <2> SUFFICES ASSUME GatewayInit PROVE BucketInv /\ ReqsInv
    OBVIOUS
  <2>1. BucketInv
    <3>1. BucketRows0
      BY DatabasesAssumption DEF GatewayInit, BucketRows0, Bucket
    <3>2. \A c \in Calls : call[c].op = "none"
      BY DEF GatewayInit, Idle, Ended
    <3>3. QED
      BY <3>1, <3>2 DEF BucketInv, BucketCall
  <2>2. req \in [Requests -> {Waiting, Over}]
    BY DEF GatewayInit
  <2>3. ReqsShaped
    BY <2>2 DEF ReqsShaped, ReqFields, Waiting, Over
  <2>4. \A r \in Requests : req[r].pc \in {"waiting", "over"}
    BY <2>2 DEF Waiting, Over
  <2>5. ASSUME NEW r \in Requests PROVE ReqInv(r) /\ Covered(r)
    <3>1. ~Going(r) /\ ~Served(r)
      BY <2>4 DEF Going, Served, Resolving
    <3>2. QED
      BY <2>4, <3>1 DEF ReqInv, Covered, InFlight
  <2>6. QED
    BY <2>1, <2>3, <2>5 DEF ReqsInv
<1>2. PlaneInv /\ BucketInv /\ ReqsInv /\ [GatewayNext]_gvars => BucketInv' /\ ReqsInv'
  <2> SUFFICES ASSUME PlaneInv, BucketInv, ReqsInv, [GatewayNext]_gvars
               PROVE  BucketInv' /\ ReqsInv'
    OBVIOUS
  <2>1. CASE GatewayNext
    BY <2>1, NextRequests
  <2>2. CASE UNCHANGED gvars
    <3>1. BucketInv'
      BY <2>2 DEF gvars, BucketInv, BucketRows0, BucketCall
    <3>2. KeysStay /\ OwnersStay
      BY <2>2 DEF gvars, KeysStay, OwnersStay, BucketInv, BucketRows0
    <3>3. ASSUME NEW r \in Requests PROVE ReqInv(r)' /\ Covered(r)'
      <4>1. ReqInv(r) /\ Covered(r)
        BY DEF ReqsInv
      <4>2. Covered(r)'
        BY <2>2, <4>1 DEF gvars, Covered, InFlight, AllowedNow, Usable, Issued, Expired, Scope
      <4>3. (Known(r)' <=> Known(r)) /\ (Acted(r)' <=> Acted(r)) /\ (Scoped(r)' <=> Scoped(r))
        BY <2>2 DEF gvars, Known, Acted, Scoped, InScope, Route
      <4>4. /\ (Owns(r)' <=> Owns(r)) /\ (ReadToo(r)' <=> ReadToo(r))
            /\ (SourceScoped(r)' <=> SourceScoped(r)) /\ (Served(r)' <=> Served(r))
        BY <2>2 DEF gvars, Owns, ReadToo, SourceScoped, InScope, Served
      <4>5. ReqInv(r)'
        BY <2>2, <4>1, <4>3, <4>4 DEF gvars, ReqInv, Going, Route
      <4>6. QED
        BY <4>2, <4>5
    <3>4. QED
      BY <2>2, <3>1, <3>3 DEF gvars, ReqsInv, ReqsShaped
  <2>3. QED
    BY <2>1, <2>2
<1>3. QED
  BY <1>1, <1>2, AdminsCounted, PTL DEF GatewaySpec, PolicyInv

\* What a request is served, its key was allowed: it was usable at some moment
\* since the request arrived, the action was granted at some moment, and so was
\* the scope of each name, at both ends of a copy (s3/request.rs, resolve and
\* resolve_copy_source; controllers/s3/objects.rs, delete_objects).
THEOREM ServedTheorem == GatewaySpec => []ServedWithinPolicy
<1>1. PolicyInv => ServedWithinPolicy
  <2> SUFFICES ASSUME PolicyInv, NEW r \in Requests, Served(r)
               PROVE  /\ past[r].live /\ Acted(r)
                      /\ \A name \in req[r].allowed : InScope(r, name)
                      /\ Route(r).op \in Copies => ReadToo(r) /\ SourceScoped(r)
                      /\ \A b \in {req[r].bucket, req[r].source} \ {None} :
                           Exists(b) => bucket[b].owner \in {req[r].key.owner, None}
    BY DEF ServedWithinPolicy, Acted, InScope, ReadToo, SourceScoped
  <2>1. ReqInv(r) /\ Known(r) /\ Scoped(r) /\ Owns(r) /\ Acted(r)
    BY DEF PolicyInv, ReqsInv, ReqInv, Going
  <2>2. Route(r).op \in Copies => ReadToo(r) /\ SourceScoped(r)
    BY <2>1 DEF ReqInv
  <2>3. \A b \in {req[r].bucket, req[r].source} \ {None} :
          Exists(b) => bucket[b].owner \in {req[r].key.owner, None}
    BY <2>1 DEF Owns, Exists
  <2>4. QED
    BY <2>1, <2>2, <2>3 DEF Known, Scoped
<1>2. QED
  BY <1>1, RequestsHeld, PTL

----------------------------------------------------------------------------
(* What a call that may leave a bucket without its owner or pool has in hand. *)

AnchorCall(c) ==
  LET d == call[c] IN
  /\ d.op = "remove user" /\ d.pc = "drop" => d.arg.taken = d.arg.there
  /\ d.op = "remove pool" /\ d.pc = "drop" => d.seen = {}
  /\ d.op = "create bucket" /\ d.pc = "insert" => d.seen = TRUE

AnchorInv == DOMAIN pool = Pools /\ \A c \in Calls : AnchorCall(c)

\* A call that ends, begins, loads or counts is where it says.
LEMMA EndsAt ==
  ASSUME CallsShaped, NEW c \in Calls, End(c)
  PROVE  call'[c].pc = "ended" /\ call'[c].op = "none"
BY DEF End, Ended, Idle, CallsShaped

LEMMA BeginsAt ==
  ASSUME CallsShaped, NEW c \in Calls, NEW admitted, NEW op, NEW pc, NEW me, NEW on, NEW arg,
         Begin(c, admitted, op, pc, me, on, arg)
  PROVE  \/ call'[c].op = op /\ call'[c].pc = pc
         \/ call'[c].op = "none" /\ call'[c].pc = "ended"
<1>1. CASE ~admitted
  BY <1>1 DEF Begin, Ended, Idle, CallsShaped
<1>2. CASE admitted
  <2> DEFINE new == [Idle EXCEPT !.op = op, !.pc = pc, !.me = me, !.on = on, !.arg = arg]
  <2>1. call' = [call EXCEPT ![c] = new]
    BY <1>2 DEF Begin
  <2>2. new.op = op /\ new.pc = pc
    BY DEF Idle
  <2> HIDE DEF new
  <2>3. QED
    BY <2>1, <2>2 DEF CallsShaped
<1>3. QED
  BY <1>1, <1>2

LEMMA AdvancesAt ==
  ASSUME CallsShaped, NEW c \in Calls, NEW pc, Advance(c, pc)
  PROVE  call'[c].pc = pc
BY DEF Advance, CallsShaped, Fields

LEMMA LoadsAt ==
  ASSUME CallsShaped, NEW c \in Calls, NEW op, NEW pc, Load(c, op, pc)
  PROVE  call'[c].pc = pc \/ call'[c].pc = "ended"
<1>1. CASE End(c)
  BY <1>1, EndsAt
<1>2. CASE ~End(c)
  <2> DEFINE row == user[call[c].on]
  <2>1. call' = [call EXCEPT ![c].pc = pc, ![c].row = row]
    BY <1>2 DEF Load
  <2> HIDE DEF row
  <2>2. QED
    BY <2>1 DEF CallsShaped, Fields
<1>3. QED
  BY <1>1, <1>2

LEMMA CountsAt ==
  ASSUME CallsShaped, NEW c \in Calls, NEW op, NEW pc, CountAdmins(c, op, pc)
  PROVE  call'[c].pc = pc \/ call'[c].pc = "ended"
<1>1. CASE End(c)
  BY <1>1, EndsAt
<1>2. CASE ~End(c)
  <2>1. call' = [call EXCEPT ![c].pc = pc, ![c].seen = Admins]
    BY <1>2 DEF CountAdmins
  <2>2. QED
    BY <2>1 DEF CallsShaped, Fields
<1>3. QED
  BY <1>1, <1>2

\* No call on accounts comes to the DELETE of one without the statement that
\* deletes its buckets.
LEMMA AccountAt ==
  ASSUME CallsShaped, NEW c \in Calls, AccountStep(c)
  PROVE  call'[c].pc # "drop"
<1>1. CASE (\E u \in Users : SetupAsk(c, u))
             \/ (\E me, u \in Users, role \in Roles : CreateUser(c, me, u, role))
  BY <1>1, BeginsAt DEF SetupAsk, CreateUser
<1>2. CASE (\E me, u \in Users, role \in Roles : SetRole(c, me, u, role))
             \/ (\E me, u \in Users : IssuePassword(c, me, u))
  BY <1>2, BeginsAt DEF SetRole, IssuePassword
<1>3. CASE (\E me, u \in Users : RemoveUser(c, me, u)) \/ (\E me \in Users : ChangePassword(c, me))
  BY <1>3, BeginsAt DEF RemoveUser, ChangePassword
<1>4. CASE SetupFind(c) \/ CreateUserFind(c)
  BY <1>4, EndsAt, AdvancesAt DEF SetupFind, CreateUserFind
<1>5. CASE SetupInsert(c) \/ CreateUserInsert(c)
  BY <1>5, EndsAt DEF SetupInsert, CreateUserInsert
<1>6. CASE SetRoleWrite(c) \/ IssuePasswordWrite(c) \/ ChangePasswordWrite(c)
  BY <1>6, EndsAt DEF SetRoleWrite, IssuePasswordWrite, ChangePasswordWrite, Update
<1>7. CASE SetRoleLoad(c) \/ Load(c, "issue password", "write")
  <2>1. PICK op, pc : Load(c, op, pc) /\ (pc = "count" \/ pc = "write")
    BY <1>7 DEF SetRoleLoad
  <2>2. QED
    BY <2>1, LoadsAt
<1>8. CASE CountAdmins(c, "set role", "write") \/ CountAdmins(c, "remove user", "take")
  BY <1>8, CountsAt
<1>9. CASE RemoveUserLoad(c)
  <2>1. CASE End(c)
    BY <2>1, EndsAt
  <2>2. CASE ~End(c)
    <3> DEFINE row == user[call[c].on]
               pc == IF row.role = "admin" THEN "count" ELSE "take"
    <3>1. call' = [call EXCEPT ![c].row = row, ![c].pc = pc] /\ pc # "drop"
      BY <1>9, <2>2 DEF RemoveUserLoad
    <3> HIDE DEF row, pc
    <3>2. QED
      BY <3>1 DEF CallsShaped, Fields
  <2>3. QED
    BY <2>1, <2>2
<1>10. QED
  BY <1>1, <1>2, <1>3, <1>4, <1>5, <1>6, <1>7, <1>8, <1>9 DEF AccountStep

\* A call on pools is none on a bucket, and one that is about to remove a pool
\* has counted no bucket in it.
LEMMA PoolAt ==
  ASSUME CallsShaped, NEW c \in Calls, PoolStep(c)
  PROVE  AnchorCall(c)'
<1>1. ASSUME call'[c].pc # "drop" \/ call'[c].seen = {}
      PROVE  AnchorCall(c)'
  <2>1. call'[c].op \in {"create pool", "configure pool", "remove pool", "none"}
    BY PoolCalls
  <2>2. QED
    BY <1>1, <2>1 DEF AnchorCall
<1>2. CASE \E me \in Users : CreatePool(c, me)
  BY <1>1, <1>2, BeginsAt DEF CreatePool, BeginPool
<1>3. CASE \E me \in Users, p \in Pools : ConfigurePool(c, me, p) \/ RemovePool(c, me, p)
  BY <1>1, <1>3, BeginsAt DEF ConfigurePool, RemovePool, BeginPool
<1>4. CASE CreatePoolInsert(c) \/ ConfigurePoolWrite(c) \/ DropPool(c)
  BY <1>1, <1>4, EndsAt DEF CreatePoolInsert, ConfigurePoolWrite, DropPool
<1>5. CASE LoadPool(c, "configure pool", "write") \/ LoadPool(c, "remove pool", "count")
  BY <1>1, <1>5, EndsAt, AdvancesAt DEF LoadPool
<1>6. CASE CountForPool(c)
  <2>1. CASE End(c)
    BY <1>1, <2>1, EndsAt
  <2>2. CASE ~End(c)
    <3>1. call' = [call EXCEPT ![c].pc = "drop", ![c].seen = {}]
      BY <1>6, <2>2 DEF CountForPool
    <3>2. call'[c].seen = {}
      BY <3>1 DEF CallsShaped, Fields
    <3>3. QED
      BY <1>1, <3>2
  <2>3. QED
    BY <2>1, <2>2
<1>7. QED
  BY <1>2, <1>3, <1>4, <1>5, <1>6 DEF PoolStep

\* Loading a bucket to change or to remove it.
LEMMA LoadBucketAt ==
  ASSUME CallsShaped, NEW c \in Calls, NEW op, NEW pc, LoadBucket(c, op, pc),
         op = "set limit" \/ op = "remove bucket"
  PROVE  AnchorCall(c)'
<1>1. CASE End(c)
  BY <1>1, EndsAt DEF AnchorCall
<1>2. CASE ~End(c)
  <2> DEFINE row == bucket[call[c].on]
             seen == RowsOf({call[c].on}) \cap settled
  <2>1. call[c].op = op /\ call' = [call EXCEPT ![c].pc = pc, ![c].row = row, ![c].seen = seen]
    BY <1>2 DEF LoadBucket, At
  <2> HIDE DEF row, seen
  <2>2. call'[c].op = op
    BY <2>1, PutRow
  <2>3. QED
    BY <2>2 DEF AnchorCall
<1>3. QED
  BY <1>1, <1>2

\* A call that is to insert a bucket has seen its pool.
LEMMA FindPoolAt ==
  ASSUME CallsShaped, NEW c \in Calls, NEW from, NEW to, FindPool(c, from, to)
  PROVE  AnchorCall(c)'
<1>1. CASE End(c)
  BY <1>1, EndsAt DEF AnchorCall
<1>2. CASE ~End(c)
  <2>1. /\ call[c].op = "create bucket"
        /\ call' = [call EXCEPT ![c].pc = to, ![c].seen = TRUE]
    BY <1>2 DEF FindPool, At
  <2>2. call'[c].op = "create bucket" /\ call'[c].seen = TRUE
    BY <2>1 DEF CallsShaped, Fields
  <2>3. QED
    BY <2>2 DEF AnchorCall
<1>3. QED
  BY <1>1, <1>2

\* The first statement of an account's removal takes every bucket there is.
LEMMA TakeBucketsAt ==
  ASSUME CallsShaped, NEW c \in Calls, TakeBuckets(c)
  PROVE  AnchorCall(c)'
<1> DEFINE bs == Owned(call[c].on)
<1>1. call' = [call EXCEPT ![c].pc = "drop", ![c].arg = [taken |-> bs, there |-> bs]]
  BY DEF TakeBuckets
<1> HIDE DEF bs
<1>2. call'[c].op = "remove user"
  BY TakeBucketsCalls
<1>3. call'[c].arg = [taken |-> bs, there |-> bs]
  BY <1>1 DEF CallsShaped, Fields
<1>4. call'[c].arg.taken = call'[c].arg.there
  BY <1>3
<1>5. QED
  BY <1>2, <1>4 DEF AnchorCall

LEMMA BucketStepAt ==
  ASSUME CallsShaped, NEW c \in Calls, BucketStep(c)
  PROVE  AnchorCall(c)'
<1>1. CASE PoolStep(c)
  BY <1>1, PoolAt
<1>2. CASE \E me \in Users, p \in Pools, b \in Buckets : CreateBucket(c, me, p, NameOf[b])
  BY <1>2, BeginsAt DEF CreateBucket, BeginBucket, AnchorCall
<1>3. CASE (\E me \in Users, b \in Buckets, max \in Limits : SetLimit(c, me, b, max))
             \/ \E me \in Users, b \in Buckets : RemoveBucket(c, me, b)
  BY <1>3, BeginsAt DEF SetLimit, RemoveBucket, BeginBucket, AnchorCall
<1>4. CASE FindPool(c, "find", "find again") \/ FindPool(c, "find again", "insert")
  BY <1>4, FindPoolAt
<1>5. CASE LoadBucket(c, "set limit", "write") \/ LoadBucket(c, "remove bucket", "drop")
  BY <1>5, LoadBucketAt
<1>6. CASE CreateBucketInsert(c) \/ SetLimitWrite(c) \/ RemoveBucketDrop(c)
  BY <1>6, EndsAt DEF CreateBucketInsert, SetLimitWrite, RemoveBucketDrop, AnchorCall
<1>7. CASE TakeBuckets(c)
  BY <1>7, TakeBucketsAt
<1>8. QED
  BY <1>1, <1>2, <1>3, <1>4, <1>5, <1>6, <1>7 DEF BucketStep, PoolStep

----------------------------------------------------------------------------
(* Pools. *)

\* A pool that is there stays, but for the one that is removed.
LEMMA PoolsStay ==
  ASSUME DOMAIN pool = Pools, NEW c \in Calls, PoolStep(c)
  PROVE  /\ DOMAIN pool' = Pools
         /\ \A p \in Pools : HasPool(p) => HasPool(p)' \/ (DropPool(c) /\ p = call[c].on)
<1>1. CASE UNCHANGED pool
  BY <1>1 DEF HasPool
<1>2. CASE CreatePoolInsert(c)
  BY <1>2, PoolRowsAssumption DEF CreatePoolInsert, HasPool
<1>3. CASE ConfigurePoolWrite(c) \/ DropPool(c)
  BY <1>3, PoolRowsAssumption DEF ConfigurePoolWrite, DropPool, HasPool
<1>4. CASE (\E me \in Users : CreatePool(c, me))
             \/ \E me \in Users, p \in Pools : ConfigurePool(c, me, p) \/ RemovePool(c, me, p)
  BY <1>1, <1>4 DEF CreatePool, ConfigurePool, RemovePool, BeginPool
<1>5. CASE LoadPool(c, "configure pool", "write") \/ LoadPool(c, "remove pool", "count") \/ CountForPool(c)
  BY <1>1, <1>5 DEF LoadPool, CountForPool, Console
<1>6. QED
  BY <1>2, <1>3, <1>4, <1>5 DEF PoolStep

\* The steps of buckets that are none of pools leave the pools.
LEMMA BucketsLeavePools ==
  ASSUME NEW c \in Calls, BucketStep(c), ~PoolStep(c)
  PROVE  UNCHANGED pool
<1> USE DEF Console
<1>1. CASE \E me \in Users, p \in Pools, b \in Buckets : CreateBucket(c, me, p, NameOf[b])
  BY <1>1 DEF CreateBucket, BeginBucket
<1>2. CASE (\E me \in Users, b \in Buckets, max \in Limits : SetLimit(c, me, b, max))
             \/ \E me \in Users, b \in Buckets : RemoveBucket(c, me, b)
  BY <1>2 DEF SetLimit, RemoveBucket, BeginBucket
<1>3. CASE FindPool(c, "find", "find again") \/ FindPool(c, "find again", "insert")
  BY <1>3 DEF FindPool
<1>4. CASE LoadBucket(c, "set limit", "write") \/ LoadBucket(c, "remove bucket", "drop")
  BY <1>4 DEF LoadBucket
<1>5. CASE CreateBucketInsert(c) \/ SetLimitWrite(c) \/ RemoveBucketDrop(c) \/ TakeBuckets(c)
  BY <1>5 DEF CreateBucketInsert, SetLimitWrite, RemoveBucketDrop, TakeBuckets
<1>6. QED
  BY <1>1, <1>2, <1>3, <1>4, <1>5 DEF BucketStep, PoolStep

----------------------------------------------------------------------------
(* The steps of the whole. *)

\* Only calls move calls, buckets' anchors and pools.
LEMMA OthersLeaveAnchors ==
  ASSUME KeyInv, BucketInv, GatewayNext, \A c \in Calls : ~ConsoleStep(c)
  PROVE  UNCHANGED <<call, pool>> /\ AnchorsStay
<1> BucketRows0
  BY DEF BucketInv
<1>1. CASE \E r \in Requests : RequestStep(r)
  BY <1>1, RequestLeaves, RequestBuckets
<1>2. CASE WriteAudit
  BY <1>2, SameBuckets DEF WriteAudit, ConsoleRows
<1>3. CASE Tick /\ UNCHANGED <<Data, req, audit>>
  BY <1>3, SameBuckets DEF Tick, Data
<1>4. QED
  BY <1>1, <1>2, <1>3 DEF GatewayNext

LEMMA ConsoleAnchors ==
  ASSUME KeyInv, AnchorInv, NEW c \in Calls, ConsoleStep(c)
  PROVE  AnchorInv'
<1> CallsShaped /\ DOMAIN pool = Pools
  BY DEF KeyInv, AnchorInv
<1>1. ASSUME Alone(c), AnchorCall(c)', DOMAIN pool' = Pools
      PROVE  AnchorInv'
  <2>1. ASSUME NEW d \in Calls PROVE AnchorCall(d)'
    BY <1>1 DEF Alone, AnchorInv, AnchorCall
  <2>2. QED
    BY <1>1, <2>1 DEF AnchorInv
<1>2. CASE AccountStep(c) /\ UNCHANGED <<Data, KeyRows>>
  <2>1. Alone(c) /\ call'[c].op \notin BucketOps /\ call'[c].pc # "drop"
    BY <1>2, AccountCalls, AccountAt
  <2>2. AnchorCall(c)'
    BY <2>1 DEF AnchorCall, BucketOps
  <2>3. QED
    BY <1>1, <1>2, <2>1, <2>2 DEF Data
<1>3. CASE BucketStep(c)
  <2>1. Alone(c) /\ AnchorCall(c)'
    BY <1>3, BucketCalls, BucketStepAt
  <2>2. DOMAIN pool' = Pools
    BY <1>3, PoolsStay, BucketsLeavePools
  <2>3. QED
    BY <1>1, <2>1, <2>2
<1>4. CASE KeyStep(c) /\ UNCHANGED Data
  <2>1. Alone(c) /\ call'[c].op \in KeyOps \cup {"none"}
    BY <1>4, KeyStepKeeps DEF Kept, KeyOp
  <2>2. AnchorCall(c)'
    BY <2>1 DEF AnchorCall, KeyOps
  <2>3. QED
    BY <1>1, <1>4, <2>1, <2>2 DEF Data
<1>5. CASE DropUser(c) /\ CascadeBuckets(c)
  <2>1. Alone(c) /\ call'[c].op = "none" /\ UNCHANGED pool
    BY <1>5, DropCalls, EndsAt DEF DropUser, CascadeBuckets
  <2>2. AnchorCall(c)'
    BY <2>1 DEF AnchorCall
  <2>3. QED
    BY <1>1, <2>1, <2>2
<1>6. QED
  BY <1>2, <1>3, <1>4, <1>5 DEF ConsoleStep

\* What calls have in hand that take a bucket's owner or pool away: the
\* invariant under the next theorem.
THEOREM AnchorsHeld == GatewaySpec => []AnchorInv
<1>1. GatewayInit => AnchorInv
  <2> SUFFICES ASSUME GatewayInit PROVE AnchorInv
    OBVIOUS
  <2>1. DOMAIN pool = Pools
    BY DatabasesAssumption DEF GatewayInit
  <2>2. \A c \in Calls : call[c].op = "none"
    BY DEF GatewayInit, Idle, Ended
  <2>3. QED
    BY <2>1, <2>2 DEF AnchorInv, AnchorCall
<1>2. KeyInv /\ BucketInv /\ AnchorInv /\ [GatewayNext]_gvars => AnchorInv'
  <2> SUFFICES ASSUME KeyInv, BucketInv, AnchorInv, [GatewayNext]_gvars PROVE AnchorInv'
    OBVIOUS
  <2>1. CASE UNCHANGED <<call, pool>>
    BY <2>1 DEF AnchorInv, AnchorCall
  <2>2. CASE \E c \in Calls : ConsoleStep(c)
    BY <2>2, ConsoleAnchors
  <2>3. QED
    BY <2>1, <2>2, OthersLeaveAnchors DEF gvars
<1>3. QED
  BY <1>1, <1>2, KeysTyped, RequestsHeld, PTL DEF GatewaySpec, PolicyInv

----------------------------------------------------------------------------
(* Which steps take a bucket's owner or pool away. *)

Raced(c, b) ==
  \/ At(c, "remove user", "drop") /\ b \notin call[c].arg.there
  \/ At(c, "remove pool", "drop") /\ call[c].seen # Using(call[c].on)
  \/ At(c, "create bucket", "insert") /\ call[c].seen = TRUE /\ ~HasPool(call[c].on)

\* One that keeps the buckets' anchors and the pools takes none away.
LEMMA StillAnchored ==
  ASSUME BucketRows0, AnchorsStay,
         \A p \in Pools : HasPool(p) => HasPool(p)',
         NEW b \in Unanchored'
  PROVE  b \in Unanchored
<1>1. /\ b \in Buckets /\ Exists(b) /\ bucket'[b].owner = bucket[b].owner
      /\ bucket'[b].pool = bucket[b].pool
  BY DEF Unanchored, AnchorsStay
<1>2. bucket[b].pool \in Pools
  BY <1>1 DEF BucketRows0, Exists, BucketRow
<1>3. bucket'[b].owner = None \/ ~HasPool(bucket[b].pool)'
  BY DEF Unanchored
<1>4. QED
  BY <1>1, <1>2, <1>3 DEF Unanchored

LEMMA SamePools ==
  ASSUME UNCHANGED pool
  PROVE  \A p \in Pools : HasPool(p) => HasPool(p)'
BY DEF HasPool

\* The pool of a bucket goes: the removal had counted none in it.
LEMMA DropPoolRaces ==
  ASSUME CallsShaped, BucketRows0, AnchorInv, NEW c \in Calls, PoolStep(c),
         NEW b \in Unanchored', b \notin Unanchored
  PROVE  Raced(c, b)
<1>1. UNCHANGED bucket
  BY PoolCalls
<1>2. b \in Buckets /\ Exists(b)
  BY <1>1 DEF Unanchored, Exists
<1>3. PICK p \in Pools : p = bucket[b].pool
  BY <1>2 DEF BucketRows0, Exists, BucketRow
<1>4. HasPool(p) /\ ~HasPool(p)'
  BY <1>1, <1>2, <1>3 DEF Unanchored, HasPool
<1>5. DropPool(c) /\ bucket[b].pool = call[c].on
  BY <1>3, <1>4, PoolsStay DEF AnchorInv
<1>6. b \in Using(call[c].on)
  BY <1>2, <1>5 DEF Using
<1>7. At(c, "remove pool", "drop") /\ call[c].seen = {}
  BY <1>5 DEF DropPool, At, AnchorInv, AnchorCall
<1>8. QED
  BY <1>6, <1>7 DEF Raced

\* A bucket is made: its owner is there, so it is its pool that is not.
LEMMA CreateRaces ==
  ASSUME CallsShaped, BucketRows0, AnchorInv, NEW c \in Calls, BucketCall(c), CreateBucketInsert(c),
         NEW b \in Unanchored', b \notin Unanchored
  PROVE  Raced(c, b)
<1>1. /\ At(c, "create bucket", "insert") /\ call[c].seen = TRUE
      /\ call[c].me \in Users /\ call[c].on \in Pools /\ UNCHANGED pool
  BY DEF CreateBucketInsert, At, AnchorInv, AnchorCall, BucketCall
<1>2. ~UNCHANGED bucket
  BY <1>1, SameBuckets, SamePools, StillAnchored
<1>3. PICK e \in Buckets, max \in Limits :
        bucket' = [bucket EXCEPT ![e] = [owner |-> call[c].me, pool |-> call[c].on, max |-> max,
                                         used |-> 0, held |-> 0, count |-> 0]]
  BY <1>2 DEF CreateBucketInsert
<1> DEFINE row == [owner |-> call[c].me, pool |-> call[c].on, max |-> max,
                   used |-> 0, held |-> 0, count |-> 0]
<1>4. row.owner = call[c].me /\ row.pool = call[c].on
  OBVIOUS
<1> HIDE DEF row
<1>5. bucket' = [bucket EXCEPT ![e] = row]
  BY <1>3 DEF row
<1>6. CASE b = e
  <2>1. bucket'[b] = row
    BY <1>5, <1>6 DEF BucketRows0
  <2>2. ~HasPool(call[c].on)
    BY <1>1, <1>4, <2>1, UsersAssumption DEF Unanchored, HasPool
  <2>3. QED
    BY <1>1, <2>2 DEF Raced
<1>7. CASE b # e
  <2>1. b \in Buckets /\ bucket'[b] = bucket[b]
    BY <1>5, <1>7 DEF BucketRows0, Unanchored
  <2>2. QED
    BY <1>1, <2>1 DEF Unanchored, Exists, HasPool
<1>8. QED
  BY <1>6, <1>7

\* An account goes: a bucket that stays behind was not there when the buckets
\* were deleted.
LEMMA DropUserRaces ==
  ASSUME AnchorInv, NEW c \in Calls, DropUser(c), CascadeBuckets(c),
         NEW b \in Unanchored', b \notin Unanchored
  PROVE  Raced(c, b)
<1> DEFINE taken == call[c].arg.taken
           left == Owned(call[c].on) \ taken
<1>1. At(c, "remove user", "drop") /\ taken = call[c].arg.there /\ UNCHANGED pool
  BY DEF DropUser, At, AnchorInv, AnchorCall, CascadeBuckets
<1>2. b \in Buckets /\ bucket'[b] # Gone
  BY DEF Unanchored, Exists
<1>3. b \notin taken
  BY <1>2 DEF CascadeBuckets
<1>4. QED
  BY <1>1, <1>3 DEF Raced

\* A bucket comes to be without an owner or a pool by a race of two calls, and
\* in no other way (models/users.rs, delete_with_owned_data; admin_pools.rs,
\* destroy; models/buckets.rs, create).
THEOREM AnchorsLostByRace == GatewaySpec => UnanchoredOnlyByRace
<1>1. KeyInv /\ BucketInv /\ AnchorInv /\ [GatewayNext]_gvars =>
        [\A b \in Unanchored' \ Unanchored : \E c \in Calls : Raced(c, b)]_<<call, bucket, pool>>
  <2> SUFFICES ASSUME KeyInv, BucketInv, AnchorInv, [GatewayNext]_gvars,
                      ~UNCHANGED <<call, bucket, pool>>, NEW b \in Unanchored', b \notin Unanchored
               PROVE  \E c \in Calls : Raced(c, b)
    OBVIOUS
  <2> CallsShaped /\ BucketRows0 /\ GatewayNext
    BY DEF KeyInv, BucketInv, gvars
  <2>1. ~(AnchorsStay /\ UNCHANGED pool)
    BY SamePools, StillAnchored
  <2>2. PICK c \in Calls : ConsoleStep(c)
    BY <2>1, OthersLeaveAnchors
  <2>3. CASE AccountStep(c) /\ UNCHANGED <<Data, KeyRows>>
    BY <2>1, <2>3, SameBuckets DEF Data
  <2>4. CASE KeyStep(c) /\ UNCHANGED Data
    BY <2>1, <2>4, SameBuckets DEF Data
  <2>5. CASE BucketStep(c)
    <3>1. BucketCall(c)
      BY DEF BucketInv
    <3>2. CASE PoolStep(c)
      BY <3>2, DropPoolRaces
    <3>3. CASE ~PoolStep(c)
      <4>1. CreateBucketInsert(c)
        BY <2>1, <2>5, <3>1, <3>3, BucketsLeavePools, BucketStepKeeps
      <4>2. QED
        BY <3>1, <4>1, CreateRaces
    <3>4. QED
      BY <3>2, <3>3
  <2>6. CASE DropUser(c) /\ CascadeBuckets(c)
    BY <2>6, DropUserRaces
  <2>7. QED
    BY <2>2, <2>3, <2>4, <2>5, <2>6 DEF ConsoleStep
<1>2. QED
  BY <1>1, KeysTyped, RequestsHeld, AnchorsHeld, PTL
     DEF GatewaySpec, PolicyInv, UnanchoredOnlyByRace, Raced

----------------------------------------------------------------------------
(* Signatures. *)

KeyStands(r) == req'[r].key = req[r].key

LEMMA StepStands ==
  ASSUME ReqsShaped, NEW r \in Requests, (\E pc : Step(r, pc)) \/ \E code : Answer(r, code)
  PROVE  KeyStands(r)
BY StepReq, AnswerReq DEF Same, KeyStands

\* Only authenticating gives a request its key.
LEMMA RequestStands ==
  ASSUME ReqsShaped, NEW r \in Requests, RequestStep(r), ~Authenticate(r)
  PROVE  KeyStands(r)
<1>1. CASE \E w \in Wires : Arrive(r, w)
  <2>1. PICK w \in Wires : Arrive(r, w)
    BY <1>1
  <2> DEFINE pc == IF ~IsS3Request(w) THEN "console"
                   ELSE IF RouteOf(w).resolver = "nothing" THEN "answered" ELSE "authenticate"
             answer == IF IsS3Request(w) /\ RouteOf(w).resolver = "nothing" THEN "NotImplemented" ELSE None
  <2>2. req' = [req EXCEPT ![r].wire = w, ![r].pc = pc, ![r].answer = answer]
    BY <2>1 DEF Arrive
  <2> HIDE DEF pc, answer
  <2>3. QED
    BY <2>2 DEF ReqsShaped, ReqFields, KeyStands
<1>2. CASE ReadOwner(r) \/ ReadAction(r) \/ ReadSourceAction(r) \/ ReadSourceScope(r) \/ ReadSourceRow(r)
  <2>1. (\E pc : Step(r, pc)) \/ \E code : Answer(r, code)
    BY <1>2 DEF ReadOwner, ReadAction, ReadSourceAction, ReadSourceScope, ReadSourceRow
  <2>2. QED
    BY <2>1, StepStands
<1>3. CASE ReadBucket(r)
  <2>1. (\E code : Answer(r, code))
          \/ \E pc, x, y : req' = [req EXCEPT ![r].pc = pc, ![r].bucket = x, ![r].pool = y]
    BY <1>3 DEF ReadBucket
  <2>2. CASE \E code : Answer(r, code)
    BY <2>2, StepStands
  <2>3. CASE \E pc, x, y : req' = [req EXCEPT ![r].pc = pc, ![r].bucket = x, ![r].pool = y]
    BY <2>3 DEF ReqsShaped, ReqFields, KeyStands
  <2>4. QED
    BY <2>1, <2>2, <2>3
<1>4. CASE ReadPool(r)
  <2>1. (\E code : Answer(r, code)) \/ \E x, pc : req' = [req EXCEPT ![r].pool = x, ![r].pc = pc]
    BY <1>4 DEF ReadPool
  <2>2. QED
    BY <2>1, StepStands DEF ReqsShaped, ReqFields, KeyStands
<1>5. CASE ReadScope(r)
  <2>1. (\E code : Answer(r, code)) \/ \E x, pc : req' = [req EXCEPT ![r].allowed = x, ![r].pc = pc]
    BY <1>5 DEF ReadScope
  <2>2. QED
    BY <2>1, StepStands DEF ReqsShaped, ReqFields, KeyStands
<1>6. CASE ReadSource(r)
  <2>1. (\E code : Answer(r, code)) \/ \E pc, x : req' = [req EXCEPT ![r].pc = pc, ![r].source = x]
    BY <1>6 DEF ReadSource
  <2>2. QED
    BY <2>1, StepStands DEF ReqsShaped, ReqFields, KeyStands
<1>7. CASE \E name \in Names : DecideKey(r, name)
  <2>1. \E x, y : req' = [req EXCEPT ![r].left = x, ![r].allowed = y]
    BY <1>7 DEF DecideKey
  <2>2. QED
    BY <2>1 DEF ReqsShaped, ReqFields, KeyStands
<1>8. CASE DecidedKeys(r) \/ Dispatched(r)
  <2>1. (\E pc : Step(r, pc)) \/ (\E code : Answer(r, code))
          \/ \E pc, x : req' = [req EXCEPT ![r].pc = pc, ![r].left = x]
    BY <1>8 DEF DecidedKeys, Dispatched
  <2>2. QED
    BY <2>1, StepStands DEF ReqsShaped, ReqFields, KeyStands
<1>9. CASE Reserve(r)
  <2>1. (\E code : Answer(r, code)) \/ \E pc, x : req' = [req EXCEPT ![r].pc = pc, ![r].new = x]
    BY <1>9 DEF Reserve
  <2>2. QED
    BY <2>1, StepStands DEF ReqsShaped, ReqFields, KeyStands
<1>10. CASE \E name \in Names : DeleteRow(r, name)
  <2>1. \E x, pc : req' = [req EXCEPT ![r].left = x, ![r].pc = pc]
    BY <1>10 DEF DeleteRow
  <2>2. QED
    BY <2>1 DEF ReqsShaped, ReqFields, KeyStands
<1>11. CASE WriteRow(r) \/ Commit(r) \/ Credit(r) \/ DeletedAll(r) \/ RecordAudit(r)
  BY <1>11, StepStands DEF WriteRow, Commit, Credit, DeletedAll, RecordAudit
<1>12. QED
  BY <1>1, <1>2, <1>3, <1>4, <1>5, <1>6, <1>7, <1>8, <1>9, <1>10, <1>11 DEF RequestStep

\* The clock is a number.
ClockInv == clock \in Int

LEMMA KeysLeaveClock ==
  ASSUME NEW c \in Calls, KeyStep(c)
  PROVE  UNCHANGED clock
<1> USE DEF KeyFrame, BeginKey
<1>1. CASE (\E me \in Users, acts \in Grants, scoping \in Scopings, expires \in Expiries :
               CreateKey(c, me, acts, scoping, expires)) \/ CreateKeyInsert(c)
  BY <1>1 DEF CreateKey, CreateKeyInsert
<1>2. CASE (\E me \in Users, k \in Keys : RevokeKey(c, me, k) \/ RotateKey(c, me, k))
             \/ \E me \in Users, k \in Keys, patch \in Patches : PatchKey(c, me, k, patch)
  BY <1>2 DEF RevokeKey, RotateKey, PatchKey
<1>3. CASE LoadKey(c, "revoke key", "write") \/ LoadKey(c, "rotate key", "permissions") \/ PatchKeyLoad(c)
  BY <1>3 DEF LoadKey, PatchKeyLoad
<1>4. CASE PatchPermissionsDelete(c) \/ PatchPermissions(c) \/ PatchPrefixesDelete(c) \/ PatchPrefixes(c)
  BY <1>4 DEF PatchPermissionsDelete, PatchPermissions, PatchPrefixesDelete, PatchPrefixes, PatchDelete
<1>5. CASE PatchLabel(c) \/ PatchExpires(c) \/ PatchStatus(c) \/ RevokeKeyWrite(c)
  BY <1>5 DEF PatchLabel, PatchExpires, PatchStatus, RevokeKeyWrite
<1>6. CASE RotatePermissions(c) \/ RotatePrefixes(c) \/ RotateDisable(c) \/ RotateInsert(c)
  BY <1>6 DEF RotatePermissions, RotatePrefixes, RotateDisable, RotateInsert
<1>7. QED
  BY <1>1, <1>2, <1>3, <1>4, <1>5, <1>6 DEF KeyStep

LEMMA NextClock ==
  ASSUME ClockInv, GatewayNext
  PROVE  ClockInv'
<1> USE DEF ClockInv
<1>1. CASE \E r \in Requests : RequestStep(r)
  BY <1>1, RequestLeaves
<1>2. CASE WriteAudit
  BY <1>2 DEF WriteAudit, ConsoleRows
<1>3. CASE Tick
  BY <1>3 DEF Tick
<1>4. CASE \E c \in Calls : ConsoleStep(c)
  BY <1>4, KeysLeaveClock DEF ConsoleStep, KeyRows, CascadeKeys
<1>5. QED
  BY <1>1, <1>2, <1>3, <1>4 DEF GatewayNext

\* A signature that fits vouches for what it covers, within its window.
LEMMA FaultlessAsMeant ==
  ASSUME NEW w \in Wires, Signed(w), NEW k, NEW now \in Int, Fault(w, k, now) = None
  PROVE  LET meant == w.auth.meant IN
         /\ <<w.method, w.bucket, w.name, w.params>>
              = <<meant.method, meant.bucket, meant.name, meant.params>>
         /\ "source" \in w.auth.covers => w.source = meant.source
         /\ meant.auth.form # "presigned" => now <= meant.auth.at + Skew
         /\ meant.auth.form = "presigned" =>
              \/ now <= meant.auth.at + meant.auth.expires /\ meant.auth.expires <= MaxWindow
              \/ w.auth.form = "header" /\ now <= meant.auth.at + Skew
<1> DEFINE meant == w.auth.meant
<1>1. InTime(w, now) /\ w.auth.signature = Signature(k, w)
  BY CodesAssumption DEF Fault, Statuses
<1>2. PICK s \in Keys : w.auth.signature = Signature(s, meant)
  BY SignaturesAssumption
<1>3. CanonicalRequest(w) = CanonicalRequest(meant)
  BY <1>1, <1>2 DEF Signature
<1> DEFINE c(v) == CanonicalRequest(v)
<1>4. /\ c(w).method = c(meant).method /\ c(w).bucket = c(meant).bucket /\ c(w).name = c(meant).name
      /\ c(w).params = c(meant).params /\ c(w).source = c(meant).source /\ c(w).covers = c(meant).covers
  BY <1>3
<1>5. /\ w.method = meant.method /\ w.bucket = meant.bucket /\ w.name = meant.name
      /\ w.params = meant.params /\ w.auth.covers = meant.auth.covers
  BY <1>4 DEF CanonicalRequest
<1>6. "source" \in w.auth.covers => w.source = meant.source
  BY <1>4, <1>5 DEF CanonicalRequest
\* The moment of signing and the lifetime are signed; a signature without a lifetime is not
\* accepted as a link's.
<1>7. meant.auth.at = w.auth.at /\ meant.auth.expires = w.auth.expires
  BY <1>1, <1>2 DEF Signature
<1>8. /\ w.auth.at \in Int /\ w.auth.expires \in Int \cup {None}
      /\ meant.auth.form = "presigned" <=> meant.auth.expires # None
  BY SignaturesAssumption
<1>9. CASE w.auth.form = "presigned"
  <2>1. /\ w.auth.expires # None /\ w.auth.expires <= MaxWindow
        /\ now - w.auth.at <= w.auth.expires
    BY <1>1, <1>9 DEF InTime
  <2>2. now <= meant.auth.at + meant.auth.expires
    BY <1>7, <1>8, <2>1
  <2>3. QED
    BY <1>5, <1>6, <1>7, <1>8, <2>1, <2>2
<1>10. CASE w.auth.form # "presigned"
  <2>1. now <= meant.auth.at + Skew
    BY <1>1, <1>7, <1>8, <1>10, WindowAssumption DEF InTime
  <2>2. w.auth.form = "header"
    BY <1>10, SignaturesAssumption DEF Signed
  <2>3. QED
    BY <1>5, <1>6, <2>1, <2>2
<1>11. QED
  BY <1>9, <1>10

\* What is authenticated is what the key's owner signed, for as long as its own rule allows:
\* the skew for what was signed for a header, its lifetime for a link, and the skew for a link
\* whose signature comes in the header (s3/request.rs, authenticate; s3/sigv4.rs, verify and
\* check_expiry).
THEOREM AuthenticTheorem == GatewaySpec => AuthenticatedAsSigned
<1> DEFINE Authentic(r) ==
      (req[r].key = None /\ req'[r].key # None) =>
        LET w == req[r].wire
            meant == w.auth.meant
        IN /\ <<w.method, w.bucket, w.name, w.params>>
                = <<meant.method, meant.bucket, meant.name, meant.params>>
           /\ "source" \in w.auth.covers => w.source = meant.source
           /\ meant.auth.form # "presigned" => clock <= meant.auth.at + Skew
           /\ meant.auth.form = "presigned" =>
                \/ clock <= meant.auth.at + meant.auth.expires /\ meant.auth.expires <= MaxWindow
                \/ w.auth.form = "header" /\ clock <= meant.auth.at + Skew
<1>1. GatewayInit => ClockInv
  BY DEF GatewayInit, ClockInv
<1>2. ClockInv /\ [GatewayNext]_gvars => ClockInv'
  BY NextClock DEF gvars, ClockInv
<1>3. PolicyInv /\ ClockInv /\ [GatewayNext]_gvars =>
        [\A r \in Requests : Authentic(r)]_<<req, clock>>
  <2> SUFFICES ASSUME PolicyInv, ClockInv, [GatewayNext]_gvars, ~UNCHANGED <<req, clock>>,
                      NEW r \in Requests, req[r].key = None, req'[r].key # None
               PROVE  Authentic(r)
    OBVIOUS
  <2> GatewayNext /\ PlaneInv /\ BucketInv /\ ReqsInv
    BY DEF gvars, PolicyInv
  <2>1. KeysStay /\ OwnersStay /\ Watch
    BY NextKeys, NextBuckets DEF PlaneInv, GatewayNext
  <2>2. \A s \in Requests : Ctx(s)
    BY <2>1 DEF Ctx, ReqsInv, BucketInv
  <2>3. PICK s \in Requests : RequestStep(s)
    BY DEF GatewayNext, ConsoleStep, WriteAudit
  <2>4. s = r
    BY <2>2, <2>3, RequestKeeps DEF Only
  <2>5. Authenticate(r)
    BY <2>2, <2>3, <2>4, RequestStands DEF Ctx, KeyStands
  <2> DEFINE w == req[r].wire
             k == w.auth.key
  <2>6. ~\E code : Answer(r, code)
    BY <2>2, StepStands DEF Ctx, KeyStands
  <2>7. Signed(w) /\ Fault(w, k, clock) = None
    BY <2>5, <2>6 DEF Authenticate
  <2>8. w \in Wires
    BY <2>2, <2>5 DEF Authenticate, Reads, Ctx, ReqInv
  <2>9. QED
    BY <2>7, <2>8, FaultlessAsMeant DEF ClockInv
<1>4. QED
  BY <1>1, <1>2, <1>3, RequestsHeld, PTL DEF GatewaySpec, AuthenticatedAsSigned

----------------------------------------------------------------------------
(* What a request has in hand is where it should be, and of the right type. *)

\* A route that goes through resolve names an object, and so does a write.
LEMMA RouteNames ==
  ASSUME NEW w \in Wires
  PROVE  /\ RouteOf(w).resolver \notin {"nothing", "account", "bucket"} => w.name \in Names
         /\ RouteOf(w).op \in {"PutObject", "CopyObject"} => w.name \in Names
<1> DEFINE fit == {i \in DOMAIN Dispatch : Fits(w, Dispatch[i])}
<1>1. DOMAIN Dispatch = 1..22
  BY DEF Dispatch
<1>2. fit # {} /\ fit \subseteq 1..22
  BY <1>1, WiresAssumption
<1>3. PICK i \in fit : RouteOf(w) = Dispatch[i]
  BY <1>2, FirstRow DEF RouteOf
<1>4. \A j \in 1..22 : \/ Dispatch[j].level = "object"
                       \/ /\ Dispatch[j].resolver \in {"nothing", "account", "bucket"}
                          /\ Dispatch[j].op \notin {"PutObject", "CopyObject"}
  BY DEF Dispatch, Row
<1>5. Dispatch[i].level = Level(w) /\ i \in 1..22
  BY <1>2, <1>3 DEF Fits
<1>6. Level(w) = "object" => w.name # None
  BY DEF Level
<1>7. QED
  BY <1>3, <1>4, <1>5, <1>6, WireNamesAssumption

\* What a request has at its next statement.
Place(q, pc) ==
  LET resolver == RouteOf(q.wire).resolver IN
  /\ pc \in {"authenticate"} \cup Resolving \cup Serving => q.wire \in Wires
  /\ pc \in {"authenticate"} \cup Resolving => resolver # "nothing"
  /\ pc \in Resolving \ {"owner"} => resolver # "account"
  /\ pc \in {"scope", "source", "source action", "source scope", "source row"} =>
       resolver # "bucket"
  /\ pc = "pool" => q.pool \in Pools
  /\ \/ pc \in Resolving \ {"owner", "bucket", "action"}
     \/ pc \in Serving
     \/ pc = "action" /\ resolver # "bucket"
     => q.bucket \in Buckets
  /\ pc \in {"reserve", "write", "commit"} => q.wire.name \in Names

Placed(r) == RequestType(req[r]) /\ Place(req[r], req[r].pc)

PoolRows == pool \in [Pools -> {None, Gone, "bare", "ready"}]

\* The types of the rows requests read.
RowTypes == KeyRows0 /\ BucketRows0 /\ PoolRows

LEMMA StepPlaced ==
  ASSUME ReqsShaped, NEW r \in Requests, Placed(r), NEW pc, Step(r, pc), Place(req[r], pc)
  PROVE  Placed(r)'
<1>1. /\ req'[r].pc = pc /\ DOMAIN req'[r] = ReqFields
      /\ req'[r].wire = req[r].wire /\ req'[r].key = req[r].key /\ req'[r].bucket = req[r].bucket
      /\ req'[r].source = req[r].source /\ req'[r].pool = req[r].pool
      /\ req'[r].allowed = req[r].allowed /\ req'[r].left = req[r].left
      /\ req'[r].new = req[r].new /\ req'[r].answer = req[r].answer
  BY DEF Step, ReqsShaped, ReqFields
<1>2. RequestType(req'[r])
  BY <1>1 DEF Placed, RequestType, ReqsShaped
<1>3. Place(req'[r], pc)
  BY <1>1 DEF Place
<1>4. QED
  BY <1>1, <1>2, <1>3 DEF Placed

LEMMA AnswerPlaced ==
  ASSUME ReqsShaped, NEW r \in Requests, Placed(r), NEW code \in DOMAIN Statuses, Answer(r, code)
  PROVE  Placed(r)'
<1>1. /\ req'[r].pc = "answered" /\ DOMAIN req'[r] = ReqFields
      /\ req'[r].wire = req[r].wire /\ req'[r].key = req[r].key /\ req'[r].bucket = req[r].bucket
      /\ req'[r].source = req[r].source /\ req'[r].pool = req[r].pool
      /\ req'[r].allowed = req[r].allowed /\ req'[r].left = req[r].left
      /\ req'[r].new = req[r].new /\ req'[r].answer = code
  BY DEF Answer, ReqsShaped, ReqFields
<1>2. RequestType(req'[r])
  BY <1>1 DEF Placed, RequestType, ReqsShaped
<1>3. Place(req'[r], "answered")
  BY DEF Place, Resolving, Serving
<1>4. QED
  BY <1>1, <1>2, <1>3 DEF Placed

LEMMA Codes ==
  {"OK", "NotImplemented", "AccessDenied", "InvalidAccessKeyId", "SignatureDoesNotMatch",
   "RequestTimeTooSkewed", "QuotaExceeded", "NoSuchBucket", "NoSuchKey", "NoSuchUpload",
   "InvalidArgument", "InternalError"} \subseteq DOMAIN Statuses
BY DEF Statuses

LEMMA ArrivePlaced ==
  ASSUME ReqsShaped, NEW r \in Requests, Placed(r), NEW w \in Wires, Arrive(r, w)
  PROVE  Placed(r)'
<1> DEFINE pc == IF ~IsS3Request(w) THEN "console"
                 ELSE IF RouteOf(w).resolver = "nothing" THEN "answered" ELSE "authenticate"
           code == IF IsS3Request(w) /\ RouteOf(w).resolver = "nothing" THEN "NotImplemented" ELSE None
<1>1. req[r] = Waiting /\ req' = [req EXCEPT ![r].wire = w, ![r].pc = pc, ![r].answer = code]
  BY DEF Arrive
<1>2. /\ pc \in {"console", "answered", "authenticate"} /\ code \in DOMAIN Statuses \cup {None}
      /\ pc = "authenticate" => RouteOf(w).resolver # "nothing"
  BY Codes
<1> HIDE DEF pc, code
<1>3. /\ req'[r].pc = pc /\ DOMAIN req'[r] = ReqFields
      /\ req'[r].wire = w /\ req'[r].key = req[r].key /\ req'[r].bucket = req[r].bucket
      /\ req'[r].source = req[r].source /\ req'[r].pool = req[r].pool
      /\ req'[r].allowed = req[r].allowed /\ req'[r].left = req[r].left
      /\ req'[r].new = req[r].new /\ req'[r].answer = code
  BY <1>1 DEF ReqsShaped, ReqFields
<1>4. RequestType(req'[r])
  BY <1>2, <1>3 DEF Placed, RequestType, ReqsShaped
<1>5. Place(req'[r], pc)
  BY <1>2, <1>3 DEF Place, Resolving, Serving
<1>6. QED
  BY <1>3, <1>4, <1>5 DEF Placed

LEMMA AuthenticatePlaced ==
  ASSUME ReqsShaped, RowTypes, NEW r \in Requests, Placed(r), Authenticate(r)
  PROVE  Placed(r)'
<1> DEFINE w == req[r].wire
           k == req[r].wire.auth.key
<1>1. req[r].pc = "authenticate" /\ w \in Wires /\ RouteOf(w).resolver # "nothing"
  BY DEF Authenticate, Reads, Placed, Place
<1>2. CASE \E code \in DOMAIN Statuses : Answer(r, code)
  BY <1>2, AnswerPlaced
<1>3. Fault(w, k, clock) # None => Fault(w, k, clock) \in DOMAIN Statuses
  BY Codes DEF Fault
<1>4. CASE ~\E code \in DOMAIN Statuses : Answer(r, code)
  <2>1. Signed(w) /\ Usable(k) /\ req' = [req EXCEPT ![r].pc = "owner", ![r].key = key[k]]
    BY <1>3, <1>4, Codes DEF Authenticate
  <2>2. key[k] \in Key
    BY <1>1, <2>1, SignersAssumption DEF Usable, Issued, RowTypes, KeyRows0
  <2>3. /\ req'[r].pc = "owner" /\ DOMAIN req'[r] = ReqFields
        /\ req'[r].wire = req[r].wire /\ req'[r].key = key[k] /\ req'[r].bucket = req[r].bucket
        /\ req'[r].source = req[r].source /\ req'[r].pool = req[r].pool
        /\ req'[r].allowed = req[r].allowed /\ req'[r].left = req[r].left
        /\ req'[r].new = req[r].new /\ req'[r].answer = req[r].answer
    BY <2>1 DEF ReqsShaped, ReqFields
  <2>4. RequestType(req'[r])
    BY <2>2, <2>3 DEF Placed, RequestType, ReqsShaped
  <2>5. Place(req'[r], "owner")
    BY <1>1, <2>3 DEF Place, Resolving, Serving
  <2>6. QED
    BY <2>3, <2>4, <2>5 DEF Placed
<1>5. QED
  BY <1>2, <1>4

\* A refusal or the end of a request, or else a step on.
LEMMA ReadOwnerPlaced ==
  ASSUME ReqsShaped, NEW r \in Requests, Placed(r), ReadOwner(r)
  PROVE  Placed(r)'
<1>1. CASE \E code \in DOMAIN Statuses : Answer(r, code)
  BY <1>1, AnswerPlaced
<1>2. CASE ~\E code \in DOMAIN Statuses : Answer(r, code)
  <2>1. Step(r, AfterAuthentication(r)) /\ Route(r).resolver # "account" /\ req[r].pc = "owner"
    BY <1>2, Codes DEF ReadOwner, Reads
  <2>2. req[r].wire \in Wires /\ Route(r).resolver # "nothing"
    BY <2>1 DEF Placed, Place, Resolving, Route
  <2>3. Place(req[r], AfterAuthentication(r))
    BY <2>1, <2>2 DEF AfterAuthentication, Place, Resolving, Serving, Route
  <2>4. QED
    BY <2>1, <2>3, StepPlaced
<1>3. QED
  BY <1>1, <1>2

LEMMA ReadBucketPlaced ==
  ASSUME ReqsShaped, RowTypes, NEW r \in Requests, Placed(r), ReadBucket(r)
  PROVE  Placed(r)'
<1>1. CASE \E code \in DOMAIN Statuses : Answer(r, code)
  BY <1>1, AnswerPlaced
<1>2. CASE ~\E code \in DOMAIN Statuses : Answer(r, code)
  <2>1. PICK b \in Found(req[r].key.owner, req[r].wire.bucket) :
          req' = [req EXCEPT ![r].pc = "pool", ![r].bucket = b, ![r].pool = bucket[b].pool]
    BY <1>2, Codes DEF ReadBucket
  <2>2. b \in Buckets /\ bucket[b].pool \in Pools
    BY DEF Found, Owned, Exists, RowTypes, BucketRows0, BucketRow
  <2>3. req[r].wire \in Wires /\ RouteOf(req[r].wire).resolver \notin {"nothing", "account"}
    BY DEF Placed, Place, Resolving, ReadBucket, Reads
  <2>4. /\ req'[r].pc = "pool" /\ DOMAIN req'[r] = ReqFields
        /\ req'[r].wire = req[r].wire /\ req'[r].key = req[r].key /\ req'[r].bucket = b
        /\ req'[r].source = req[r].source /\ req'[r].pool = bucket[b].pool
        /\ req'[r].allowed = req[r].allowed /\ req'[r].left = req[r].left
        /\ req'[r].new = req[r].new /\ req'[r].answer = req[r].answer
    BY <2>1 DEF ReqsShaped, ReqFields
  <2>5. RequestType(req'[r])
    BY <2>2, <2>4 DEF Placed, RequestType, ReqsShaped
  <2>6. Place(req'[r], "pool")
    BY <2>2, <2>3, <2>4 DEF Place, Resolving, Serving
  <2>7. QED
    BY <2>4, <2>5, <2>6 DEF Placed
<1>3. QED
  BY <1>1, <1>2

LEMMA ReadPoolPlaced ==
  ASSUME ReqsShaped, RowTypes, NEW r \in Requests, Placed(r), ReadPool(r)
  PROVE  Placed(r)'
<1>1. CASE \E code \in DOMAIN Statuses : Answer(r, code)
  BY <1>1, AnswerPlaced
<1>2. CASE ~\E code \in DOMAIN Statuses : Answer(r, code)
  <2> DEFINE next == IF Route(r).resolver = "bucket" THEN "resolved" ELSE "action"
             p == req[r].pool
  <2>1. HasPool(p) /\ req' = [req EXCEPT ![r].pool = pool[p], ![r].pc = next]
    BY <1>2, Codes DEF ReadPool
  <2>2. p \in Pools /\ req[r].bucket \in Buckets /\ req[r].wire \in Wires
          /\ RouteOf(req[r].wire).resolver \notin {"nothing", "account"}
    BY DEF Placed, Place, Resolving, ReadPool, Reads
  <2>3. pool[p] \in {"bare", "ready"}
    BY <2>1, <2>2 DEF HasPool, RowTypes, PoolRows
  <2>4. next \in {"resolved", "action"} /\ (next = "action" => RouteOf(req[r].wire).resolver # "bucket")
    BY DEF Route
  <2> HIDE DEF next
  <2>5. /\ req'[r].pc = next /\ DOMAIN req'[r] = ReqFields
        /\ req'[r].wire = req[r].wire /\ req'[r].key = req[r].key /\ req'[r].bucket = req[r].bucket
        /\ req'[r].source = req[r].source /\ req'[r].pool = pool[p]
        /\ req'[r].allowed = req[r].allowed /\ req'[r].left = req[r].left
        /\ req'[r].new = req[r].new /\ req'[r].answer = req[r].answer
    BY <2>1 DEF ReqsShaped, ReqFields
  <2>6. RequestType(req'[r])
    BY <2>3, <2>5 DEF Placed, RequestType, ReqsShaped
  <2>7. Place(req'[r], next)
    BY <2>2, <2>4, <2>5 DEF Place, Resolving, Serving
  <2>8. QED
    BY <2>5, <2>6, <2>7 DEF Placed
<1>3. QED
  BY <1>1, <1>2

LEMMA ReadActionPlaced ==
  ASSUME ReqsShaped, NEW r \in Requests, Placed(r), ReadAction(r)
  PROVE  Placed(r)'
<1>1. CASE \E code \in DOMAIN Statuses : Answer(r, code)
  BY <1>1, AnswerPlaced
<1>2. CASE ~\E code \in DOMAIN Statuses : Answer(r, code)
  <2> DEFINE next == IF Route(r).resolver = "bucket" THEN "bucket" ELSE "scope"
  <2>1. Step(r, next) /\ req[r].pc = "action"
    BY <1>2, Codes DEF ReadAction, Reads
  <2>2. /\ req[r].wire \in Wires /\ Route(r).resolver \notin {"nothing", "account"}
        /\ Route(r).resolver # "bucket" => req[r].bucket \in Buckets
    BY <2>1 DEF Placed, Place, Resolving, Route
  <2>3. Place(req[r], next)
    BY <2>2 DEF Place, Resolving, Serving, Route
  <2> HIDE DEF next
  <2>4. QED
    BY <2>1, <2>3, StepPlaced
<1>3. QED
  BY <1>1, <1>2

LEMMA ReadScopePlaced ==
  ASSUME ReqsShaped, NEW r \in Requests, Placed(r), ReadScope(r)
  PROVE  Placed(r)'
<1>1. CASE \E code \in DOMAIN Statuses : Answer(r, code)
  BY <1>1, AnswerPlaced
<1>2. CASE ~\E code \in DOMAIN Statuses : Answer(r, code)
  <2> DEFINE next == IF Route(r).op \in Copies THEN "source" ELSE "resolved"
             names == {req[r].wire.name}
  <2>1. req' = [req EXCEPT ![r].allowed = names, ![r].pc = next]
    BY <1>2, Codes DEF ReadScope
  <2>2. /\ req[r].bucket \in Buckets /\ req[r].wire \in Wires
        /\ RouteOf(req[r].wire).resolver \notin {"nothing", "account", "bucket"}
    BY DEF Placed, Place, Resolving, ReadScope, Reads
  <2>3. names \subseteq Names
    BY <2>2, RouteNames
  <2>4. next \in {"source", "resolved"}
    OBVIOUS
  <2> HIDE DEF next, names
  <2>5. /\ req'[r].pc = next /\ DOMAIN req'[r] = ReqFields
        /\ req'[r].wire = req[r].wire /\ req'[r].key = req[r].key /\ req'[r].bucket = req[r].bucket
        /\ req'[r].source = req[r].source /\ req'[r].pool = req[r].pool
        /\ req'[r].allowed = names /\ req'[r].left = req[r].left
        /\ req'[r].new = req[r].new /\ req'[r].answer = req[r].answer
    BY <2>1 DEF ReqsShaped, ReqFields
  <2>6. RequestType(req'[r])
    BY <2>3, <2>5 DEF Placed, RequestType, ReqsShaped
  <2>7. Place(req'[r], next)
    BY <2>2, <2>4, <2>5 DEF Place, Resolving, Serving
  <2>8. QED
    BY <2>5, <2>6, <2>7 DEF Placed
<1>3. QED
  BY <1>1, <1>2

LEMMA ReadSourcePlaced ==
  ASSUME ReqsShaped, NEW r \in Requests, Placed(r), ReadSource(r)
  PROVE  Placed(r)'
<1>1. CASE \E code \in DOMAIN Statuses : Answer(r, code)
  BY <1>1, AnswerPlaced
<1>2. CASE ~\E code \in DOMAIN Statuses : Answer(r, code)
  <2>1. PICK b \in Found(req[r].key.owner, req[r].wire.source[1]) :
          req' = [req EXCEPT ![r].pc = "source action", ![r].source = b]
    BY <1>2, Codes DEF ReadSource
  <2>2. b \in Buckets
    BY DEF Found, Owned
  <2>3. /\ req[r].bucket \in Buckets /\ req[r].wire \in Wires
        /\ RouteOf(req[r].wire).resolver \notin {"nothing", "account", "bucket"}
    BY DEF Placed, Place, Resolving, ReadSource, Reads
  <2>4. /\ req'[r].pc = "source action" /\ DOMAIN req'[r] = ReqFields
        /\ req'[r].wire = req[r].wire /\ req'[r].key = req[r].key /\ req'[r].bucket = req[r].bucket
        /\ req'[r].source = b /\ req'[r].pool = req[r].pool
        /\ req'[r].allowed = req[r].allowed /\ req'[r].left = req[r].left
        /\ req'[r].new = req[r].new /\ req'[r].answer = req[r].answer
    BY <2>1 DEF ReqsShaped, ReqFields
  <2>5. RequestType(req'[r])
    BY <2>2, <2>4 DEF Placed, RequestType, ReqsShaped
  <2>6. Place(req'[r], "source action")
    BY <2>3, <2>4 DEF Place, Resolving, Serving
  <2>7. QED
    BY <2>4, <2>5, <2>6 DEF Placed
<1>3. QED
  BY <1>1, <1>2

LEMMA ReadSourceRestPlaced ==
  ASSUME ReqsShaped, NEW r \in Requests, Placed(r),
         ReadSourceAction(r) \/ ReadSourceScope(r) \/ ReadSourceRow(r)
  PROVE  Placed(r)'
<1>1. CASE \E code \in DOMAIN Statuses : Answer(r, code)
  BY <1>1, AnswerPlaced
<1>2. CASE ~\E code \in DOMAIN Statuses : Answer(r, code)
  <2>1. PICK next \in {"source scope", "source row", "resolved"} : Step(r, next)
    BY <1>2, Codes DEF ReadSourceAction, ReadSourceScope, ReadSourceRow
  <2>2. req[r].pc \in {"source action", "source scope", "source row"}
    BY DEF ReadSourceAction, ReadSourceScope, ReadSourceRow, Reads
  <2>3. /\ req[r].bucket \in Buckets /\ req[r].wire \in Wires
        /\ RouteOf(req[r].wire).resolver \notin {"nothing", "account", "bucket"}
    BY <2>2 DEF Placed, Place, Resolving
  <2>4. Place(req[r], next)
    BY <2>3 DEF Place, Resolving, Serving
  <2>5. QED
    BY <2>1, <2>4, StepPlaced
<1>3. QED
  BY <1>1, <1>2

----------------------------------------------------------------------------

\* A request that is served goes on with names left, and names it was allowed.
LEMMA ServingPlaced ==
  ASSUME ReqsShaped, NEW r \in Requests, Placed(r), req[r].pc \in Serving, NEW pc \in Serving,
         DOMAIN req'[r] = ReqFields, req'[r].pc = pc,
         \A f \in {"wire", "key", "bucket", "source", "pool", "answer"} : req'[r][f] = req[r][f],
         req'[r].allowed \subseteq Names, req'[r].left \subseteq Names, req'[r].new \in BOOLEAN,
         pc \in {"reserve", "write", "commit"} =>
           req[r].pc \in {"reserve", "write", "commit"} \/ Route(r).op \in {"PutObject", "CopyObject"}
  PROVE  Placed(r)'
<1>1. req[r].wire \in Wires /\ req[r].bucket \in Buckets
  BY DEF Placed, Place
<1>2. pc \in {"reserve", "write", "commit"} => req[r].wire.name \in Names
  BY <1>1, RouteNames DEF Placed, Place, Route
<1>3. /\ req'[r].wire = req[r].wire /\ req'[r].key = req[r].key /\ req'[r].bucket = req[r].bucket
      /\ req'[r].source = req[r].source /\ req'[r].pool = req[r].pool /\ req'[r].answer = req[r].answer
  OBVIOUS
<1>4. RequestType(req'[r])
  BY <1>3 DEF Placed, RequestType, ReqsShaped
<1>5. Place(req'[r], pc)
  BY <1>1, <1>2, <1>3 DEF Place, Resolving, Serving
<1>6. QED
  BY <1>4, <1>5 DEF Placed

LEMMA DecideKeyPlaced ==
  ASSUME ReqsShaped, NEW r \in Requests, Placed(r), NEW name \in Names, DecideKey(r, name)
  PROVE  Placed(r)'
<1> DEFINE fits == name \notin BadNames /\ Within(ScopeNow(req[r].wire.auth.key), name)
           allowed == IF fits THEN req[r].allowed \cup {name} ELSE req[r].allowed
           left == req[r].left \ {name}
<1>1. req[r].pc = "keys" /\ req[r].pc \in Serving
  BY DEF DecideKey, Reads, Serving
<1>2. req' = [req EXCEPT ![r].left = left, ![r].allowed = allowed]
  BY DEF DecideKey
<1>3. allowed \subseteq Names /\ left \subseteq Names
  BY DEF Placed, RequestType
<1> HIDE DEF allowed, left
<1>4. /\ DOMAIN req'[r] = ReqFields /\ req'[r].pc = "keys"
      /\ \A f \in {"wire", "key", "bucket", "source", "pool", "answer"} : req'[r][f] = req[r][f]
      /\ req'[r].allowed = allowed /\ req'[r].left = left /\ req'[r].new = req[r].new
  BY <1>1, <1>2 DEF ReqsShaped, ReqFields
<1>5. req'[r].new \in BOOLEAN
  BY <1>4 DEF Placed, RequestType
<1>6. QED
  BY <1>1, <1>3, <1>4, <1>5, ServingPlaced

\* A step on to pc with names left.
LEMMA LeftPlaced ==
  ASSUME ReqsShaped, NEW r \in Requests, Placed(r), req[r].pc \in Serving,
         NEW pc \in {"keys", "delete", "credit"}, NEW left, left \subseteq Names,
         req' = [req EXCEPT ![r].pc = pc, ![r].left = left]
  PROVE  Placed(r)'
<1>1. /\ DOMAIN req'[r] = ReqFields /\ req'[r].pc = pc
      /\ \A f \in {"wire", "key", "bucket", "source", "pool", "answer"} : req'[r][f] = req[r][f]
      /\ req'[r].allowed = req[r].allowed /\ req'[r].left = left /\ req'[r].new = req[r].new
  BY DEF ReqsShaped, ReqFields
<1>2. req'[r].new \in BOOLEAN /\ req'[r].allowed \subseteq Names
  BY <1>1 DEF Placed, RequestType
<1>3. pc \in Serving
  BY DEF Serving
<1>4. QED
  BY <1>1, <1>2, <1>3, ServingPlaced

LEMMA ServingStepPlaced ==
  ASSUME ReqsShaped, NEW r \in Requests, Placed(r), req[r].pc \in Serving, NEW pc \in Serving, Step(r, pc),
         pc \in {"reserve", "write", "commit"} =>
           req[r].pc \in {"reserve", "write", "commit"} \/ Route(r).op \in {"PutObject", "CopyObject"}
  PROVE  Placed(r)'
<1>1. /\ DOMAIN req'[r] = ReqFields /\ req'[r].pc = pc
      /\ \A f \in {"wire", "key", "bucket", "source", "pool", "answer"} : req'[r][f] = req[r][f]
      /\ req'[r].allowed = req[r].allowed /\ req'[r].left = req[r].left /\ req'[r].new = req[r].new
  BY DEF Step, ReqsShaped, ReqFields
<1>2. req'[r].new \in BOOLEAN /\ req'[r].allowed \subseteq Names /\ req'[r].left \subseteq Names
  BY <1>1 DEF Placed, RequestType
<1>3. QED
  BY <1>1, <1>2, ServingPlaced

LEMMA DecidedKeysPlaced ==
  ASSUME ReqsShaped, NEW r \in Requests, Placed(r), DecidedKeys(r)
  PROVE  Placed(r)'
<1>1. req[r].pc \in Serving /\ req[r].allowed \subseteq Names
  BY DEF DecidedKeys, Reads, Serving, Placed, RequestType
<1>2. CASE \E code \in DOMAIN Statuses : Answer(r, code)
  BY <1>2, AnswerPlaced
<1>3. CASE ~\E code \in DOMAIN Statuses : Answer(r, code)
  <2>1. req' = [req EXCEPT ![r].pc = "delete", ![r].left = req[r].allowed]
    BY <1>3, Codes DEF DecidedKeys
  <2>2. QED
    BY <1>1, <2>1, LeftPlaced
<1>4. QED
  BY <1>2, <1>3

LEMMA DispatchedPlaced ==
  ASSUME ReqsShaped, NEW r \in Requests, Placed(r), Dispatched(r)
  PROVE  Placed(r)'
<1>1. req[r].pc \in Serving /\ req[r].allowed \subseteq Names /\ req[r].wire \in Wires
  BY DEF Dispatched, Reads, Serving, Placed, RequestType, Place
<1>2. CASE \E code \in DOMAIN Statuses : Answer(r, code)
  BY <1>2, AnswerPlaced
<1>3. CASE Step(r, "reserve") /\ Route(r).op \in {"PutObject", "CopyObject"}
  BY <1>1, <1>3, ServingStepPlaced DEF Serving
<1>4. CASE req' = [req EXCEPT ![r].pc = "keys", ![r].left = req[r].wire.body]
  BY <1>1, <1>4, WireNamesAssumption, LeftPlaced
<1>5. CASE req' = [req EXCEPT ![r].pc = "delete", ![r].left = req[r].allowed]
  BY <1>1, <1>5, LeftPlaced
<1>6. QED
  BY <1>2, <1>3, <1>4, <1>5, Codes DEF Dispatched

LEMMA WritesPlaced ==
  ASSUME ReqsShaped, NEW r \in Requests, Placed(r), Reserve(r) \/ WriteRow(r) \/ Commit(r)
  PROVE  Placed(r)'
<1>1. req[r].pc \in Serving /\ req[r].pc \in {"reserve", "write", "commit"}
  BY DEF Reserve, WriteRow, Commit, Serving
<1>2. CASE \E code \in DOMAIN Statuses : Answer(r, code)
  BY <1>2, AnswerPlaced
<1>3. CASE Step(r, "commit")
  BY <1>1, <1>3, ServingStepPlaced DEF Serving
<1>4. CASE \E new \in BOOLEAN : req' = [req EXCEPT ![r].pc = "write", ![r].new = new]
  <2>1. /\ DOMAIN req'[r] = ReqFields /\ req'[r].pc = "write"
        /\ \A f \in {"wire", "key", "bucket", "source", "pool", "answer"} : req'[r][f] = req[r][f]
        /\ req'[r].allowed = req[r].allowed /\ req'[r].left = req[r].left /\ req'[r].new \in BOOLEAN
    BY <1>4 DEF ReqsShaped, ReqFields
  <2>2. req'[r].allowed \subseteq Names /\ req'[r].left \subseteq Names
    BY <2>1 DEF Placed, RequestType
  <2>3. "write" \in Serving
    BY DEF Serving
  <2>4. QED
    BY <1>1, <2>1, <2>2, <2>3, ServingPlaced
<1>5. QED
  BY <1>2, <1>3, <1>4, Codes DEF Reserve, WriteRow, Commit

LEMMA DeletesPlaced ==
  ASSUME ReqsShaped, NEW r \in Requests, Placed(r),
         (\E name \in Names : DeleteRow(r, name)) \/ Credit(r) \/ DeletedAll(r)
  PROVE  Placed(r)'
<1>1. req[r].pc \in Serving
  BY DEF DeleteRow, Credit, DeletedAll, Reads, Serving
<1>2. CASE \E name \in Names : DeleteRow(r, name)
  <2>1. PICK name \in Names : DeleteRow(r, name)
    BY <1>2
  <2> DEFINE left == req[r].left \ {name}
             pc == IF <<req[r].bucket, name>> \in rows THEN "credit" ELSE "delete"
  <2>2. req' = [req EXCEPT ![r].pc = pc, ![r].left = left]
    <3>1. req' = [req EXCEPT ![r].left = left, ![r].pc = pc]
      BY <2>1 DEF DeleteRow
    <3> HIDE DEF left, pc
    <3>2. QED
      BY <3>1 DEF ReqsShaped
  <2>3. left \subseteq Names /\ pc \in {"keys", "delete", "credit"}
    BY DEF Placed, RequestType
  <2> HIDE DEF left, pc
  <2>4. QED
    BY <1>1, <2>2, <2>3, LeftPlaced
<1>3. CASE Credit(r)
  <2>1. CASE Step(r, "delete")
    BY <1>1, <2>1, ServingStepPlaced DEF Serving
  <2>2. CASE Answer(r, "InternalError")
    BY <2>2, Codes, AnswerPlaced
  <2>3. QED
    BY <1>3, <2>1, <2>2 DEF Credit
<1>4. CASE DeletedAll(r)
  BY <1>4, Codes, AnswerPlaced DEF DeletedAll
<1>5. QED
  BY <1>2, <1>3, <1>4

LEMMA RecordPlaced ==
  ASSUME ReqsShaped, NEW r \in Requests, Placed(r), RecordAudit(r)
  PROVE  Placed(r)'
<1>1. Step(r, "sent")
  BY DEF RecordAudit
<1>2. Place(req[r], "sent")
  BY DEF Place, Resolving, Serving
<1>3. QED
  BY <1>1, <1>2, StepPlaced

LEMMA RequestPlaced ==
  ASSUME ReqsShaped, RowTypes, NEW r \in Requests, Placed(r), RequestStep(r)
  PROVE  Placed(r)'
<1>1. CASE (\E w \in Wires : Arrive(r, w)) \/ Authenticate(r)
  BY <1>1, ArrivePlaced, AuthenticatePlaced
<1>2. CASE ReadOwner(r) \/ ReadBucket(r) \/ ReadPool(r) \/ ReadAction(r) \/ ReadScope(r)
  BY <1>2, ReadOwnerPlaced, ReadBucketPlaced, ReadPoolPlaced, ReadActionPlaced, ReadScopePlaced
<1>3. CASE ReadSource(r) \/ ReadSourceAction(r) \/ ReadSourceScope(r) \/ ReadSourceRow(r)
  BY <1>3, ReadSourcePlaced, ReadSourceRestPlaced
<1>4. CASE (\E name \in Names : DecideKey(r, name)) \/ DecidedKeys(r) \/ Dispatched(r)
  BY <1>4, DecideKeyPlaced, DecidedKeysPlaced, DispatchedPlaced
<1>5. CASE Reserve(r) \/ WriteRow(r) \/ Commit(r)
  BY <1>5, WritesPlaced
<1>6. CASE (\E name \in Names : DeleteRow(r, name)) \/ Credit(r) \/ DeletedAll(r)
  BY <1>6, DeletesPlaced
<1>7. CASE RecordAudit(r)
  BY <1>7, RecordPlaced
<1>8. QED
  BY <1>1, <1>2, <1>3, <1>4, <1>5, <1>6, <1>7 DEF RequestStep

----------------------------------------------------------------------------
(* The types of the calls. *)

Statements == {"idle", "ended", "find", "find again", "insert", "load", "count", "write", "take",
               "drop", "permissions", "prefixes", "label", "expires", "status", "disable"}

Subjects == Users \cup Pools \cup Buckets \cup Keys \cup {None}

CallTyped(c) == CallType(call[c])

\* A call that goes on, with its caller and its subject.
LEMMA GoesOnTyped ==
  ASSUME NEW c \in Calls, CallTyped(c), DOMAIN call'[c] = Fields,
         call'[c].me = call[c].me, call'[c].on = call[c].on, call'[c].pc \in Statements
  PROVE  CallTyped(c)'
BY DEF CallTyped, CallType, Idle, Fields, Statements

LEMMA EndTyped ==
  ASSUME CallsShaped, NEW c \in Calls, End(c)
  PROVE  CallTyped(c)'
<1>1. call'[c] = Ended
  BY DEF End, CallsShaped
<1>2. QED
  BY <1>1 DEF CallTyped, CallType, Ended, Idle

LEMMA BeginTyped ==
  ASSUME CallsShaped, NEW c \in Calls, NEW admitted, NEW op, NEW pc \in Statements,
         NEW me \in Users \cup {None}, NEW on \in Subjects, NEW arg,
         Begin(c, admitted, op, pc, me, on, arg)
  PROVE  CallTyped(c)'
<1>1. CASE ~admitted
  BY <1>1, EndTyped DEF Begin, End
<1>2. CASE admitted
  <2> DEFINE new == [Idle EXCEPT !.op = op, !.pc = pc, !.me = me, !.on = on, !.arg = arg]
  <2>1. call' = [call EXCEPT ![c] = new]
    BY <1>2 DEF Begin
  <2>2. DOMAIN new = DOMAIN Idle /\ new.me = me /\ new.on = on /\ new.pc = pc
    BY DEF Idle
  <2> HIDE DEF new
  <2>3. call'[c] = new
    BY <2>1 DEF CallsShaped
  <2>4. QED
    BY <2>2, <2>3 DEF CallTyped, CallType, Statements, Subjects
<1>3. QED
  BY <1>1, <1>2

LEMMA AdvanceTyped ==
  ASSUME CallsShaped, NEW c \in Calls, CallTyped(c), NEW pc \in Statements, Advance(c, pc)
  PROVE  CallTyped(c)'
<1>1. /\ DOMAIN call'[c] = Fields /\ call'[c].me = call[c].me /\ call'[c].on = call[c].on
      /\ call'[c].pc = pc
  BY DEF Advance, CallsShaped, Fields
<1>2. QED
  BY <1>1, GoesOnTyped

LEMMA PutTyped ==
  ASSUME CallsShaped, NEW c \in Calls, CallTyped(c), NEW pc \in Statements, NEW row, NEW seen,
         \/ call' = [call EXCEPT ![c].pc = pc, ![c].row = row]
         \/ call' = [call EXCEPT ![c].row = row, ![c].pc = pc]
         \/ call' = [call EXCEPT ![c].pc = pc, ![c].seen = seen]
         \/ call' = [call EXCEPT ![c].pc = pc, ![c].row = row, ![c].seen = seen]
  PROVE  CallTyped(c)'
<1>1. /\ DOMAIN call'[c] = Fields /\ call'[c].me = call[c].me /\ call'[c].on = call[c].on
      /\ call'[c].pc = pc
  BY DEF CallsShaped, Fields
<1>2. QED
  BY <1>1, GoesOnTyped

LEMMA SubjectsHave ==
  /\ \A u \in Users : u \in Subjects /\ u \in Users \cup {None}
  /\ \A p \in Pools : p \in Subjects
  /\ \A b \in Buckets : b \in Subjects
  /\ \A k \in Keys : k \in Subjects
  /\ None \in Subjects /\ None \in Users \cup {None}
  /\ "find" \in Statements /\ "find again" \in Statements /\ "insert" \in Statements
  /\ "load" \in Statements /\ "count" \in Statements /\ "write" \in Statements
  /\ "take" \in Statements /\ "drop" \in Statements /\ "permissions" \in Statements
  /\ "prefixes" \in Statements /\ "disable" \in Statements
BY DEF Subjects, Statements

LEMMA LoadTyped ==
  ASSUME CallsShaped, NEW c \in Calls, CallTyped(c), NEW op, NEW pc \in Statements, Load(c, op, pc)
  PROVE  CallTyped(c)'
<1>1. CASE End(c)
  BY <1>1, EndTyped
<1>2. CASE ~End(c)
  <2> DEFINE row == user[call[c].on]
  <2>1. call' = [call EXCEPT ![c].pc = pc, ![c].row = row]
    BY <1>2 DEF Load
  <2> HIDE DEF row
  <2>2. QED
    BY <2>1, PutTyped
<1>3. QED
  BY <1>1, <1>2

LEMMA CountTyped ==
  ASSUME CallsShaped, NEW c \in Calls, CallTyped(c), NEW op, NEW pc \in Statements, CountAdmins(c, op, pc)
  PROVE  CallTyped(c)'
<1>1. CASE End(c)
  BY <1>1, EndTyped
<1>2. CASE ~End(c)
  <2>1. \E seen : call' = [call EXCEPT ![c].pc = pc, ![c].seen = seen]
    BY <1>2 DEF CountAdmins
  <2>2. QED
    BY <2>1, PutTyped
<1>3. QED
  BY <1>1, <1>2

LEMMA AccountTyped ==
  ASSUME CallsShaped, NEW c \in Calls, CallTyped(c), AccountStep(c)
  PROVE  CallTyped(c)'
<1> USE SubjectsHave
<1>1. CASE \E u \in Users : SetupAsk(c, u)
  BY <1>1, BeginTyped DEF SetupAsk
<1>2. CASE SetupFind(c) \/ CreateUserFind(c)
  BY <1>2, EndTyped, AdvanceTyped DEF SetupFind, CreateUserFind
<1>3. CASE SetupInsert(c) \/ CreateUserInsert(c)
  BY <1>3, EndTyped DEF SetupInsert, CreateUserInsert
<1>4. CASE \E me, u \in Users, role \in Roles : CreateUser(c, me, u, role) \/ SetRole(c, me, u, role)
  BY <1>4, BeginTyped DEF CreateUser, SetRole
<1>5. CASE SetRoleLoad(c)
  <2>1. \E pc \in Statements : Load(c, "set role", pc)
    BY <1>5 DEF SetRoleLoad
  <2>2. QED
    BY <2>1, LoadTyped
<1>6. CASE CountAdmins(c, "set role", "write") \/ CountAdmins(c, "remove user", "take")
  BY <1>6, CountTyped
<1>7. CASE SetRoleWrite(c) \/ IssuePasswordWrite(c) \/ ChangePasswordWrite(c)
  BY <1>7, EndTyped DEF SetRoleWrite, IssuePasswordWrite, ChangePasswordWrite, Update
<1>8. CASE \E me, u \in Users : IssuePassword(c, me, u) \/ RemoveUser(c, me, u)
  BY <1>8, BeginTyped DEF IssuePassword, RemoveUser
<1>9. CASE Load(c, "issue password", "write")
  BY <1>9, LoadTyped
<1>10. CASE RemoveUserLoad(c)
  <2>1. CASE End(c)
    BY <2>1, EndTyped
  <2>2. CASE ~End(c)
    <3> DEFINE row == user[call[c].on]
               pc == IF row.role = "admin" THEN "count" ELSE "take"
    <3>1. pc \in Statements /\ call' = [call EXCEPT ![c].row = row, ![c].pc = pc]
      BY <1>10, <2>2 DEF RemoveUserLoad
    <3> HIDE DEF row, pc
    <3>2. QED
      BY <3>1, PutTyped
  <2>3. QED
    BY <2>1, <2>2
<1>11. CASE \E me \in Users : ChangePassword(c, me)
  BY <1>11, BeginTyped DEF ChangePassword
<1>12. QED
  BY <1>1, <1>2, <1>3, <1>4, <1>5, <1>6, <1>7, <1>8, <1>9, <1>10, <1>11 DEF AccountStep

LEMMA BucketTyped ==
  ASSUME CallsShaped, NEW c \in Calls, CallTyped(c), BucketStep(c)
  PROVE  CallTyped(c)'
<1> USE SubjectsHave
<1>1. CASE \E me \in Users : CreatePool(c, me)
  BY <1>1, BeginTyped DEF CreatePool, BeginPool
<1>2. CASE \E me \in Users, p \in Pools : ConfigurePool(c, me, p) \/ RemovePool(c, me, p)
  BY <1>2, BeginTyped DEF ConfigurePool, RemovePool, BeginPool
<1>3. CASE CreatePoolInsert(c) \/ ConfigurePoolWrite(c) \/ DropPool(c)
  BY <1>3, EndTyped DEF CreatePoolInsert, ConfigurePoolWrite, DropPool
<1>4. CASE LoadPool(c, "configure pool", "write") \/ LoadPool(c, "remove pool", "count")
  BY <1>4, EndTyped, AdvanceTyped DEF LoadPool
<1>5. CASE CountForPool(c) \/ FindPool(c, "find", "find again") \/ FindPool(c, "find again", "insert")
  <2>1. End(c) \/ \E seen : \E pc \in Statements : call' = [call EXCEPT ![c].pc = pc, ![c].seen = seen]
    BY <1>5 DEF CountForPool, FindPool
  <2>2. QED
    BY <2>1, EndTyped, PutTyped
<1>6. CASE \E me \in Users, p \in Pools, b \in Buckets : CreateBucket(c, me, p, NameOf[b])
  BY <1>6, BeginTyped DEF CreateBucket, BeginBucket
<1>7. CASE CreateBucketInsert(c) \/ SetLimitWrite(c) \/ RemoveBucketDrop(c)
  BY <1>7, EndTyped DEF CreateBucketInsert, SetLimitWrite, RemoveBucketDrop
<1>8. CASE (\E me \in Users, b \in Buckets, max \in Limits : SetLimit(c, me, b, max))
             \/ \E me \in Users, b \in Buckets : RemoveBucket(c, me, b)
  BY <1>8, BeginTyped DEF SetLimit, RemoveBucket, BeginBucket
<1>9. CASE LoadBucket(c, "set limit", "write") \/ LoadBucket(c, "remove bucket", "drop")
  <2>1. CASE End(c)
    BY <2>1, EndTyped
  <2>2. CASE ~End(c)
    <3> DEFINE row == bucket[call[c].on]
               seen == RowsOf({call[c].on}) \cap settled
    <3>1. \E pc \in Statements : call' = [call EXCEPT ![c].pc = pc, ![c].row = row, ![c].seen = seen]
      BY <1>9, <2>2 DEF LoadBucket
    <3> HIDE DEF row, seen
    <3>2. QED
      BY <3>1, PutTyped
  <2>3. QED
    BY <2>1, <2>2
<1>10. CASE TakeBuckets(c)
  <2> DEFINE arg == [taken |-> Owned(call[c].on), there |-> Owned(call[c].on)]
  <2>1. call' = [call EXCEPT ![c].pc = "drop", ![c].arg = arg]
    BY <1>10 DEF TakeBuckets
  <2> HIDE DEF arg
  <2>2. /\ DOMAIN call'[c] = Fields /\ call'[c].me = call[c].me /\ call'[c].on = call[c].on
        /\ call'[c].pc = "drop"
    BY <2>1 DEF CallsShaped, Fields
  <2>3. QED
    BY <2>2, GoesOnTyped
<1>11. QED
  BY <1>1, <1>2, <1>3, <1>4, <1>5, <1>6, <1>7, <1>8, <1>9, <1>10 DEF BucketStep

LEMMA ProceedTyped ==
  ASSUME CallsShaped, NEW c \in Calls, CallTyped(c), NEW part, Proceed(c, part)
  PROVE  CallTyped(c)'
<1>1. CASE End(c)
  BY <1>1, EndTyped
<1>2. CASE ~End(c)
  <2> DEFINE pc == NextPart(call[c].arg, part)
  <2>1. call' = [call EXCEPT ![c].pc = pc, ![c].seen = None]
    BY <1>2 DEF Proceed
  <2>2. pc \in Statements
    BY <1>2, NextPartHas DEF Proceed, Statements
  <2> HIDE DEF pc
  <2>3. QED
    BY <2>1, <2>2, PutTyped
<1>3. QED
  BY <1>1, <1>2

LEMMA KeyTyped ==
  ASSUME CallsShaped, NEW c \in Calls, CallTyped(c), KeyStep(c)
  PROVE  CallTyped(c)'
<1> USE SubjectsHave
<1>1. CASE \E me \in Users, acts \in Grants, scoping \in Scopings, expires \in Expiries :
             CreateKey(c, me, acts, scoping, expires)
  BY <1>1, BeginTyped DEF CreateKey, BeginKey
<1>2. CASE CreateKeyInsert(c) \/ RotateInsert(c)
  BY <1>2, EndTyped DEF CreateKeyInsert, RotateInsert, Insert
<1>3. CASE \E me \in Users, k \in Keys : RevokeKey(c, me, k) \/ RotateKey(c, me, k)
  BY <1>3, BeginTyped DEF RevokeKey, RotateKey, BeginKey
<1>4. CASE \E me \in Users, k \in Keys, patch \in Patches : PatchKey(c, me, k, patch)
  BY <1>4, BeginTyped DEF PatchKey, BeginKey
<1>5. CASE LoadKey(c, "revoke key", "write") \/ LoadKey(c, "rotate key", "permissions")
  <2>1. CASE End(c)
    BY <2>1, EndTyped
  <2>2. CASE ~End(c)
    <3> DEFINE row == key[call[c].on]
    <3>1. \E pc \in Statements : call' = [call EXCEPT ![c].pc = pc, ![c].row = row]
      BY <1>5, <2>2 DEF LoadKey
    <3> HIDE DEF row
    <3>2. QED
      BY <3>1, PutTyped
  <2>3. QED
    BY <2>1, <2>2
<1>6. CASE RevokeKeyWrite(c) \/ PatchStatus(c)
  BY <1>6, EndTyped DEF RevokeKeyWrite, PatchStatus
<1>7. CASE PatchKeyLoad(c) \/ PatchPermissions(c) \/ PatchPrefixes(c) \/ PatchLabel(c) \/ PatchExpires(c)
  <2>1. End(c) \/ \E part : Proceed(c, part)
    BY <1>7 DEF PatchKeyLoad, PatchPermissions, PatchPrefixes, PatchLabel, PatchExpires
  <2>2. QED
    BY <2>1, EndTyped, ProceedTyped
<1>8. CASE PatchPermissionsDelete(c) \/ PatchPrefixesDelete(c)
  <2>1. \E seen : call' = [call EXCEPT ![c].seen = seen]
    BY <1>8 DEF PatchPermissionsDelete, PatchPrefixesDelete, PatchDelete
  <2>2. call[c].pc \in Statements
    BY DEF CallTyped, CallType, Statements
  <2>3. /\ DOMAIN call'[c] = Fields /\ call'[c].me = call[c].me /\ call'[c].on = call[c].on
        /\ call'[c].pc = call[c].pc
    BY <2>1 DEF CallsShaped, Fields
  <2>4. QED
    BY <2>2, <2>3, GoesOnTyped
<1>9. CASE RotatePermissions(c)
  <2>1. CASE End(c)
    BY <2>1, EndTyped
  <2>2. CASE ~End(c)
    <3>1. \E acts : call' = [call EXCEPT ![c].pc = "prefixes", ![c].row.acts = acts]
      BY <1>9, <2>2 DEF RotatePermissions
    <3>2. /\ DOMAIN call'[c] = Fields /\ call'[c].me = call[c].me /\ call'[c].on = call[c].on
          /\ call'[c].pc = "prefixes"
      BY <3>1 DEF CallsShaped, Fields
    <3>3. QED
      BY <3>2, GoesOnTyped
  <2>3. QED
    BY <2>1, <2>2
<1>10. CASE RotatePrefixes(c)
  <2>1. \E prefixes : call' = [call EXCEPT ![c].pc = "disable", ![c].row.prefixes = prefixes]
    BY <1>10 DEF RotatePrefixes
  <2>2. /\ DOMAIN call'[c] = Fields /\ call'[c].me = call[c].me /\ call'[c].on = call[c].on
        /\ call'[c].pc = "disable"
    BY <2>1 DEF CallsShaped, Fields
  <2>3. QED
    BY <2>2, GoesOnTyped
<1>11. CASE RotateDisable(c)
  BY <1>11, EndTyped, AdvanceTyped DEF RotateDisable
<1>12. QED
  BY <1>1, <1>2, <1>3, <1>4, <1>5, <1>6, <1>7, <1>8, <1>9, <1>10, <1>11 DEF KeyStep

----------------------------------------------------------------------------
(* The pools. *)

LEMMA PoolsTyped ==
  ASSUME PoolRows, NEW c \in Calls, PoolStep(c)
  PROVE  PoolRows'
<1> USE DEF PoolRows
<1>1. CASE UNCHANGED pool
  BY <1>1
<1>2. CASE CreatePoolInsert(c)
  BY <1>2 DEF CreatePoolInsert
<1>3. CASE ConfigurePoolWrite(c) \/ DropPool(c)
  BY <1>3 DEF ConfigurePoolWrite, DropPool
<1>4. CASE (\E me \in Users : CreatePool(c, me))
             \/ \E me \in Users, p \in Pools : ConfigurePool(c, me, p) \/ RemovePool(c, me, p)
  BY <1>1, <1>4 DEF CreatePool, ConfigurePool, RemovePool, BeginPool
<1>5. CASE LoadPool(c, "configure pool", "write") \/ LoadPool(c, "remove pool", "count") \/ CountForPool(c)
  BY <1>1, <1>5 DEF LoadPool, CountForPool, Console
<1>6. QED
  BY <1>2, <1>3, <1>4, <1>5 DEF PoolStep

----------------------------------------------------------------------------
(* What a bucket's counters cover. *)

\* Object rows are those of buckets there are.
RowsInv ==
  /\ rows \subseteq {b \in Buckets : Exists(b)} \X Names
  /\ settled \subseteq rows /\ IsFiniteSet(settled)

CounterInv(b) ==
  Exists(b) =>
    /\ bucket[b].used >= 0 /\ bucket[b].held >= 0 /\ bucket[b].count >= 0
    /\ bucket[b].held >= Cardinality(Holding(b))
    /\ b \notin raced =>
         bucket[b].count >= Cardinality(Settled(b)) + Cardinality(Crediting(b))

LedgerInv ==
  /\ RowsInv /\ raced \subseteq Buckets
  /\ \A b \in Buckets : CounterInv(b)

LEMMA LedgerSets ==
  ASSUME RowsInv, NEW b
  PROVE  /\ IsFiniteSet(Settled(b)) /\ Cardinality(Settled(b)) \in Nat
         /\ IsFiniteSet(Holding(b)) /\ Cardinality(Holding(b)) \in Nat
         /\ IsFiniteSet(Crediting(b)) /\ Cardinality(Crediting(b)) \in Nat
<1>1. Settled(b) \in SUBSET settled /\ IsFiniteSet(settled)
  BY DEF Settled, RowsInv
<1>2. Holding(b) \in SUBSET Requests /\ Crediting(b) \in SUBSET Requests
  BY DEF Holding, Crediting
<1>3. IsFiniteSet(Settled(b)) /\ IsFiniteSet(Holding(b)) /\ IsFiniteSet(Crediting(b))
  BY <1>1, <1>2, FS_Subset, RequestsFinite
<1>4. QED
  BY <1>3, FS_CardinalityType

\* The columns of a row.
LEMMA Columns ==
  ASSUME BucketRows0, NEW b \in Buckets, Exists(b)
  PROVE  /\ bucket[b] \in BucketRow
         /\ bucket[b].used \in Int /\ bucket[b].held \in Int /\ bucket[b].count \in Int
BY DEF BucketRows0, Exists, BucketRow

\* A step that leaves a bucket's counters, and takes nothing on that they cover.
Calm(b) ==
  /\ Exists(b)' => /\ Exists(b) /\ bucket'[b].used = bucket[b].used
                   /\ bucket'[b].held = bucket[b].held /\ bucket'[b].count = bucket[b].count
  /\ Settled(b)' \subseteq Settled(b)
  /\ Holding(b)' \subseteq Holding(b)
  /\ Crediting(b)' \subseteq Crediting(b)

LEMMA CalmKeeps ==
  ASSUME RowsInv, BucketRows0, NEW b \in Buckets, CounterInv(b), raced \subseteq raced', Calm(b)
  PROVE  CounterInv(b)'
<1> SUFFICES ASSUME Exists(b)'
             PROVE  /\ bucket'[b].used >= 0 /\ bucket'[b].held >= 0 /\ bucket'[b].count >= 0
                    /\ bucket'[b].held >= Cardinality(Holding(b)')
                    /\ b \notin raced' =>
                         bucket'[b].count >= Cardinality(Settled(b)') + Cardinality(Crediting(b)')
  BY DEF CounterInv
<1> DEFINE s == Cardinality(Settled(b))
           h == Cardinality(Holding(b))
           d == Cardinality(Crediting(b))
           s1 == Cardinality(Settled(b)')
           h1 == Cardinality(Holding(b)')
           d1 == Cardinality(Crediting(b)')
<1>1. /\ Exists(b) /\ bucket'[b].used = bucket[b].used
      /\ bucket'[b].held = bucket[b].held /\ bucket'[b].count = bucket[b].count
  BY DEF Calm
<1>2. bucket[b].held \in Int /\ bucket[b].count \in Int
  BY <1>1, Columns
<1>3. s \in Nat /\ h \in Nat /\ d \in Nat
  BY LedgerSets
<1>4. s1 <= s /\ h1 <= h /\ d1 <= d
  BY LedgerSets, FS_Subset DEF Calm
<1>5. s1 \in Nat /\ h1 \in Nat /\ d1 \in Nat
  BY LedgerSets, FS_Subset, FS_CardinalityType DEF Calm
<1>6. /\ bucket[b].used >= 0 /\ bucket[b].held >= 0 /\ bucket[b].count >= 0 /\ bucket[b].held >= h
      /\ b \notin raced => bucket[b].count >= s + d
  BY <1>1 DEF CounterInv
<1> HIDE DEF s, h, d, s1, h1, d1
<1>7. bucket'[b].held >= h1 /\ (b \notin raced' => bucket'[b].count >= s1 + d1)
  BY <1>1, <1>2, <1>3, <1>4, <1>5, <1>6
<1>8. QED
  BY <1>1, <1>6, <1>7 DEF h1, s1, d1

\* A request that is not about to write, to commit or to credit after its step.
LEMMA IdleRequest ==
  ASSUME NEW r \in Requests, Only(r), NEW b,
         req'[r].pc \notin {"write", "commit", "credit"} \/ r \notin Holding(b)' \cup Crediting(b)'
  PROVE  Holding(b)' \subseteq Holding(b) /\ Crediting(b)' \subseteq Crediting(b)
BY DEF Only, Holding, Crediting

\* Other buckets than the request's do not notice it.
LEMMA OtherBucket ==
  ASSUME NEW r \in Requests, Only(r), NEW b, req'[r].bucket # b
  PROVE  Holding(b)' \subseteq Holding(b) /\ Crediting(b)' \subseteq Crediting(b)
BY DEF Only, Holding, Crediting

LEMMA RacedGrows ==
  ASSUME RowsInv, raced \subseteq Buckets, Watch
  PROVE  raced \subseteq raced' /\ raced' \subseteq Buckets
BY DEF Watch, RowsInv

----------------------------------------------------------------------------
(* The console's steps. *)

\* A step that only takes rows away.
Ebbs ==
  /\ UNCHANGED req
  /\ \A b \in Buckets : Exists(b)' => /\ Exists(b) /\ bucket'[b].used = bucket[b].used
                                      /\ bucket'[b].held = bucket[b].held
                                      /\ bucket'[b].count = bucket[b].count
  /\ rows' \subseteq rows /\ settled' \subseteq settled /\ settled' \subseteq rows'
  /\ \A o \in rows' : Exists(o[1])'

LEMMA EbbsKeeps ==
  ASSUME BucketRows0, LedgerInv, Watch, Ebbs
  PROVE  LedgerInv'
<1>1. RowsInv /\ raced \subseteq raced' /\ raced' \subseteq Buckets
  BY RacedGrows DEF LedgerInv
<1>2. IsFiniteSet(settled')
  BY <1>1, FS_Subset DEF RowsInv, Ebbs
<1>3. RowsInv'
  <2> SUFFICES ASSUME NEW o \in rows' PROVE o \in {b \in Buckets : Exists(b)'} \X Names
    BY <1>2 DEF RowsInv, Ebbs
  <2>1. o \in Buckets \X Names /\ Exists(o[1])'
    BY <1>1 DEF RowsInv, Ebbs
  <2>2. QED
    BY <2>1
<1>4. ASSUME NEW b \in Buckets PROVE CounterInv(b)'
  <2>1. Calm(b)
    BY DEF Ebbs, Calm, Settled, Holding, Crediting
  <2>2. QED
    BY <1>1, <2>1, CalmKeeps DEF LedgerInv
<1>5. QED
  BY <1>1, <1>3, <1>4 DEF LedgerInv

LEMMA SameEbbs ==
  ASSUME RowsInv, UNCHANGED <<req, bucket, rows, settled>>
  PROVE  Ebbs
<1>1. \A o \in rows : Exists(o[1])
  BY DEF RowsInv
<1>2. QED
  BY <1>1 DEF Ebbs, RowsInv, Exists

LEMMA RemoveEbbs ==
  ASSUME RowsInv, NEW bs, Remove(bs), UNCHANGED req
  PROVE  Ebbs
<1>1. ASSUME NEW o \in rows' PROVE Exists(o[1])'
  <2>1. o \in rows /\ o[1] \notin bs
    BY <1>1 DEF Remove, RowsOf
  <2>2. o[1] \in Buckets /\ Exists(o[1])
    BY <2>1 DEF RowsInv
  <2>3. QED
    BY <2>1, <2>2 DEF Remove, Exists
<1>2. \A b \in Buckets : Exists(b)' => bucket'[b] = bucket[b] /\ Exists(b)
  BY DEF Remove, Exists
<1>3. rows' \subseteq rows /\ settled' \subseteq settled /\ settled' \subseteq rows'
  BY DEF Remove, RowsOf, RowsInv
<1>4. QED
  BY <1>1, <1>2, <1>3 DEF Ebbs

LEMMA CascadeEbbs ==
  ASSUME RowsInv, BucketRows0, NEW c \in Calls, CascadeBuckets(c), UNCHANGED req
  PROVE  Ebbs
<1> DEFINE taken == call[c].arg.taken
           left == Owned(call[c].on) \ taken
           free(b) == [bucket[b] EXCEPT !.owner = None]
<1>1. \A b \in Buckets : bucket'[b] = IF b \in taken THEN Gone
                                       ELSE IF b \in left THEN free(b) ELSE bucket[b]
  BY DEF CascadeBuckets
<1>2. \A b \in left : /\ Exists(b) /\ free(b) \in BucketRow /\ free(b).used = bucket[b].used
                      /\ free(b).held = bucket[b].held /\ free(b).count = bucket[b].count
  BY DEF Owned, Exists, BucketRows0, BucketRow
<1>3. rows' = rows \ RowsOf(taken) /\ settled' = settled \ RowsOf(taken)
  BY DEF CascadeBuckets
<1> HIDE DEF taken, left, free
<1>4. \A b \in Buckets : Exists(b)' =>
        /\ Exists(b) /\ bucket'[b].used = bucket[b].used
        /\ bucket'[b].held = bucket[b].held /\ bucket'[b].count = bucket[b].count
  BY <1>1, <1>2 DEF Exists
<1>5. ASSUME NEW o \in rows' PROVE Exists(o[1])'
  <2>1. o \in rows /\ o[1] \notin taken
    BY <1>3, <1>5 DEF RowsOf
  <2>2. o[1] \in Buckets /\ Exists(o[1])
    BY <2>1 DEF RowsInv
  <2>3. bucket'[o[1]] = bucket[o[1]] \/ bucket'[o[1]] \in BucketRow
    BY <1>1, <1>2, <2>1, <2>2
  <2>4. QED
    BY <2>2, <2>3, BucketAssumption DEF Exists
<1>6. rows' \subseteq rows /\ settled' \subseteq settled /\ settled' \subseteq rows'
  BY <1>3 DEF RowsOf, RowsInv
<1>7. QED
  BY <1>4, <1>5, <1>6 DEF Ebbs

LEMMA SetLimitEbbs ==
  ASSUME RowsInv, BucketRows0, NEW c \in Calls, BucketCall(c), SetLimitWrite(c), UNCHANGED req
  PROVE  Ebbs
<1> DEFINE b == call[c].on
           row == [bucket[b] EXCEPT !.max = call[c].arg]
<1>1. CASE UNCHANGED bucket
  BY <1>1, SameEbbs DEF SetLimitWrite
<1>2. CASE ~UNCHANGED bucket
  <2>1. Exists(b) /\ bucket' = [bucket EXCEPT ![b] = row]
    BY <1>2 DEF SetLimitWrite
  <2>2. b \in Buckets
    BY <1>2, <2>1 DEF BucketRows0
  <2>3. bucket[b] \in BucketRow /\ call[c].arg \in Limits
    BY <2>1, <2>2 DEF BucketRows0, Exists, SetLimitWrite, At, BucketCall
  <2>4. /\ row.used = bucket[b].used /\ row.held = bucket[b].held /\ row.count = bucket[b].count
        /\ row \in BucketRow
    BY <2>3 DEF BucketRow
  <2> HIDE DEF row, b
  <2>5. \A x \in Buckets : bucket'[x] = IF x = b THEN row ELSE bucket[x]
    BY <2>1, <2>2 DEF BucketRows0
  <2>6. \A x \in Buckets : Exists(x)' <=> Exists(x)
    BY <2>1, <2>2, <2>4, <2>5, BucketAssumption DEF Exists
  <2>7. \A x \in Buckets : Exists(x)' => /\ Exists(x) /\ bucket'[x].used = bucket[x].used
                                         /\ bucket'[x].held = bucket[x].held
                                         /\ bucket'[x].count = bucket[x].count
    BY <2>4, <2>5, <2>6
  <2>8. UNCHANGED <<rows, settled>>
    BY DEF SetLimitWrite
  <2>9. \A o \in rows : Exists(o[1])'
    BY <2>6 DEF RowsInv
  <2>10. QED
    BY <2>7, <2>8, <2>9 DEF Ebbs, RowsInv
<1>3. QED
  BY <1>1, <1>2

\* Nothing is under way in a bucket there is not yet, and it has no object.
LEMMA NewBucketBare ==
  ASSUME RowsInv, ReqsInv, NEW b \in Buckets, bucket[b] = None
  PROVE  Settled(b) = {} /\ Holding(b) = {} /\ Crediting(b) = {}
<1>1. Settled(b) = {}
  BY DEF Settled, RowsInv, Exists
<1>2. ASSUME NEW r \in Requests, req[r].pc \in {"write", "commit", "credit"} PROVE req[r].bucket # b
  <2>1. Owns(r)
    BY <1>2 DEF ReqsInv, ReqInv, Going, Served
  <2>2. None # Gone /\ None \notin BucketRow /\ b # None
    BY RowsAssumption, BucketAssumption, BucketsAssumption
  <2>3. QED
    BY <2>1, <2>2 DEF Owns
<1>3. QED
  BY <1>1, <1>2 DEF Holding, Crediting

LEMMA CreateKeepsLedger ==
  ASSUME BucketRows0, ReqsInv, LedgerInv, Watch, NEW c \in Calls, BucketCall(c), CreateBucketInsert(c),
         UNCHANGED req
  PROVE  LedgerInv'
<1>0. RowsInv /\ raced \subseteq raced' /\ raced' \subseteq Buckets /\ UNCHANGED <<rows, settled>>
  BY RacedGrows DEF LedgerInv, CreateBucketInsert
<1>1. CASE UNCHANGED bucket
  BY <1>0, <1>1, SameEbbs, EbbsKeeps
<1>2. CASE ~UNCHANGED bucket
  <2>1. PICK b \in Buckets, max \in Limits :
          /\ bucket[b] = None
          /\ bucket' = [bucket EXCEPT ![b] = [owner |-> call[c].me, pool |-> call[c].on, max |-> max,
                                              used |-> 0, held |-> 0, count |-> 0]]
    BY <1>2 DEF CreateBucketInsert
  <2> DEFINE row == [owner |-> call[c].me, pool |-> call[c].on, max |-> max,
                     used |-> 0, held |-> 0, count |-> 0]
  <2>2. row.used = 0 /\ row.held = 0 /\ row.count = 0 /\ bucket' = [bucket EXCEPT ![b] = row]
    BY <2>1
  <2>3. row \in BucketRow
    <3>1. call[c].me \in Users /\ call[c].on \in Pools
      BY DEF CreateBucketInsert, At, BucketCall
    <3>2. QED
      BY <3>1 DEF BucketRow
  <2> HIDE DEF row
  <2>4. \A x \in Buckets : bucket'[x] = IF x = b THEN row ELSE bucket[x]
    BY <2>2 DEF BucketRows0
  <2>5. \A o \in rows : Exists(o[1]) /\ o[1] \in Buckets /\ o[1] # b
    BY <1>0, <2>1 DEF RowsInv, Exists
  <2>6. \A o \in rows' : Exists(o[1])'
    BY <1>0, <2>4, <2>5 DEF Exists
  <2>7. RowsInv'
    BY <1>0, <2>6 DEF RowsInv
  <2>8. CounterInv(b)'
    <3>1. Settled(b) = {} /\ Holding(b) = {} /\ Crediting(b) = {}
      BY <1>0, <2>1, NewBucketBare
    <3>2. Settled(b)' = {} /\ Holding(b)' = {} /\ Crediting(b)' = {}
      BY <1>0, <3>1 DEF Settled, Holding, Crediting
    <3>3. bucket'[b].used = 0 /\ bucket'[b].held = 0 /\ bucket'[b].count = 0
      BY <2>2, <2>4
    <3>4. Cardinality({}) = 0
      BY FS_EmptySet
    <3>5. QED
      BY <3>2, <3>3, <3>4 DEF CounterInv
  <2>9. ASSUME NEW x \in Buckets, x # b PROVE CounterInv(x)'
    <3>1. Calm(x)
      BY <1>0, <2>4, <2>9 DEF Calm, Settled, Holding, Crediting, Exists
    <3>2. QED
      BY <1>0, <3>1, CalmKeeps DEF LedgerInv
  <2>10. QED
    BY <1>0, <2>7, <2>8, <2>9 DEF LedgerInv
<1>3. QED
  BY <1>1, <1>2

----------------------------------------------------------------------------
(* The steps of requests. *)

\* A step of a request that is not about to write, to commit or to credit.
LEMMA ReadEbbs ==
  ASSUME BucketRows0, LedgerInv, Watch, NEW r \in Requests, Only(r),
         UNCHANGED <<bucket, rows, settled>>, req'[r].pc \notin {"write", "commit", "credit"}
  PROVE  LedgerInv'
<1>1. RowsInv /\ raced \subseteq raced' /\ raced' \subseteq Buckets
  BY RacedGrows DEF LedgerInv
<1>2. RowsInv'
  BY <1>1 DEF RowsInv, Exists
<1>3. ASSUME NEW b \in Buckets PROVE CounterInv(b)'
  <2>1. Calm(b)
    BY IdleRequest DEF Calm, Exists, Settled
  <2>2. QED
    BY <1>1, <2>1, CalmKeeps DEF LedgerInv
<1>4. QED
  BY <1>1, <1>2, <1>3 DEF LedgerInv

LEMMA Waits ==
  ASSUME ReqsShaped, NEW r \in Requests,
         \/ \E w \in Wires : Arrive(r, w)
         \/ Authenticate(r) \/ ReadOwner(r) \/ ReadBucket(r) \/ ReadPool(r) \/ ReadAction(r) \/ ReadScope(r)
         \/ ReadSource(r) \/ ReadSourceAction(r) \/ ReadSourceScope(r) \/ ReadSourceRow(r)
         \/ (\E name \in Names : DecideKey(r, name)) \/ DecidedKeys(r) \/ Dispatched(r)
         \/ DeletedAll(r) \/ RecordAudit(r)
  PROVE  req'[r].pc \notin {"write", "commit", "credit"} /\ UNCHANGED <<bucket, rows, settled>>
<1> DEFINE Fine == req'[r].pc \notin {"write", "commit", "credit"}
<1>1. \A code : Answer(r, code) => Fine
  BY DEF Answer, ReqsShaped, ReqFields
<1>2. \A pc : Step(r, pc) /\ pc \notin {"write", "commit", "credit"} => Fine
  BY DEF Step, ReqsShaped, ReqFields
<1> USE DEF ConsoleRows, Reads
<1>3. CASE \E w \in Wires : Arrive(r, w)
  <2>1. PICK w \in Wires : Arrive(r, w)
    BY <1>3
  <2> DEFINE pc == IF ~IsS3Request(w) THEN "console"
                   ELSE IF RouteOf(w).resolver = "nothing" THEN "answered" ELSE "authenticate"
             code == IF IsS3Request(w) /\ RouteOf(w).resolver = "nothing" THEN "NotImplemented" ELSE None
  <2>2. req' = [req EXCEPT ![r].wire = w, ![r].pc = pc, ![r].answer = code]
    BY <2>1 DEF Arrive
  <2>3. pc \notin {"write", "commit", "credit"}
    OBVIOUS
  <2> HIDE DEF pc, code
  <2>4. req'[r].pc = pc
    BY <2>2 DEF ReqsShaped, ReqFields
  <2>5. QED
    BY <2>1, <2>3, <2>4 DEF Arrive
<1>4. CASE Authenticate(r)
  <2>1. UNCHANGED <<bucket, rows, settled>>
    BY <1>4 DEF Authenticate
  <2>2. CASE \E code : Answer(r, code)
    BY <1>1, <2>1, <2>2
  <2>3. CASE ~\E code : Answer(r, code)
    <3>1. \E row : req' = [req EXCEPT ![r].pc = "owner", ![r].key = row]
      BY <1>4, <2>3 DEF Authenticate
    <3>2. req'[r].pc = "owner"
      BY <3>1 DEF ReqsShaped, ReqFields
    <3>3. QED
      BY <2>1, <3>2
  <2>4. QED
    BY <2>2, <2>3
<1>5. CASE ReadOwner(r) \/ ReadAction(r) \/ ReadSourceAction(r) \/ ReadSourceScope(r) \/ ReadSourceRow(r)
             \/ DeletedAll(r)
  BY <1>1, <1>2, <1>5 DEF ReadOwner, AfterAuthentication, ReadAction, ReadSourceAction, ReadSourceScope,
     ReadSourceRow, DeletedAll
<1>6. CASE ReadBucket(r)
  <2>1. UNCHANGED <<bucket, rows, settled>>
    BY <1>6 DEF ReadBucket
  <2>2. (\E code : Answer(r, code))
          \/ \E b, p : req' = [req EXCEPT ![r].pc = "pool", ![r].bucket = b, ![r].pool = p]
    BY <1>6 DEF ReadBucket
  <2>3. QED
    BY <1>1, <2>1, <2>2 DEF ReqsShaped, ReqFields
<1>7. CASE ReadPool(r)
  <2>1. UNCHANGED <<bucket, rows, settled>>
    BY <1>7 DEF ReadPool
  <2>2. (\E code : Answer(r, code))
          \/ \E p : \E pc \in {"resolved", "action"} : req' = [req EXCEPT ![r].pool = p, ![r].pc = pc]
    BY <1>7 DEF ReadPool
  <2>3. QED
    BY <1>1, <2>1, <2>2 DEF ReqsShaped, ReqFields
<1>8. CASE ReadScope(r)
  <2>1. UNCHANGED <<bucket, rows, settled>>
    BY <1>8 DEF ReadScope
  <2>2. (\E code : Answer(r, code))
          \/ \E ns : \E pc \in {"source", "resolved"} : req' = [req EXCEPT ![r].allowed = ns, ![r].pc = pc]
    BY <1>8 DEF ReadScope
  <2>3. QED
    BY <1>1, <2>1, <2>2 DEF ReqsShaped, ReqFields
<1>9. CASE ReadSource(r)
  <2>1. UNCHANGED <<bucket, rows, settled>>
    BY <1>9 DEF ReadSource
  <2>2. (\E code : Answer(r, code))
          \/ \E b : req' = [req EXCEPT ![r].pc = "source action", ![r].source = b]
    BY <1>9 DEF ReadSource
  <2>3. QED
    BY <1>1, <2>1, <2>2 DEF ReqsShaped, ReqFields
<1>10. CASE \E name \in Names : DecideKey(r, name)
  <2>1. UNCHANGED <<bucket, rows, settled>> /\ req[r].pc = "keys"
    BY <1>10 DEF DecideKey
  <2>2. PICK name \in Names : DecideKey(r, name)
    BY <1>10
  <2> DEFINE fits == name \notin BadNames /\ Within(ScopeNow(req[r].wire.auth.key), name)
             allowed == IF fits THEN req[r].allowed \cup {name} ELSE req[r].allowed
  <2>3. req'[r].pc = req[r].pc
    BY <2>2 DEF DecideKey, ReqsShaped, ReqFields
  <2>4. QED
    BY <2>1, <2>3
<1>11. CASE DecidedKeys(r)
  <2>1. UNCHANGED <<bucket, rows, settled>>
    BY <1>11 DEF DecidedKeys
  <2>2. (\E code : Answer(r, code))
          \/ \E ns : req' = [req EXCEPT ![r].pc = "delete", ![r].left = ns]
    BY <1>11 DEF DecidedKeys
  <2>3. QED
    BY <1>1, <2>1, <2>2 DEF ReqsShaped, ReqFields
<1>12. CASE Dispatched(r)
  <2>1. UNCHANGED <<bucket, rows, settled>>
    BY <1>12 DEF Dispatched
  <2>2. (\E code : Answer(r, code)) \/ Step(r, "reserve")
          \/ \E ns : \E pc \in {"keys", "delete"} : req' = [req EXCEPT ![r].pc = pc, ![r].left = ns]
    BY <1>12 DEF Dispatched
  <2>3. QED
    BY <1>1, <1>2, <2>1, <2>2 DEF ReqsShaped, ReqFields
<1>13. CASE RecordAudit(r)
  BY <1>2, <1>13 DEF RecordAudit
<1>14. QED
  BY <1>3, <1>4, <1>5, <1>6, <1>7, <1>8, <1>9, <1>10, <1>11, <1>12, <1>13

\* What a request that writes or deletes has in hand.
LEMMA Writers ==
  ASSUME NEW r \in Requests, Placed(r),
         req[r].pc \in {"reserve", "write", "commit", "delete", "credit"}
  PROVE  /\ req[r].bucket \in Buckets /\ req[r].new \in BOOLEAN
         /\ req[r].pc \in {"reserve", "write", "commit"} => req[r].wire.name \in Names
BY DEF Placed, Place, RequestType, Serving, Resolving

\* A row of the bucket whose counters are written.
LEMMA WritesRow ==
  ASSUME BucketRows0, NEW b \in Buckets, NEW row, bucket' = [bucket EXCEPT ![b] = row]
  PROVE  bucket'[b] = row /\ \A x \in Buckets : x # b => bucket'[x] = bucket[x]
BY DEF BucketRows0

\* The counters of a bucket that is there, by number.
LEMMA Counters ==
  ASSUME BucketRows0, LedgerInv, NEW b \in Buckets, Exists(b)
  PROVE  /\ bucket[b].used \in Nat /\ bucket[b].held \in Nat /\ bucket[b].count \in Nat
         /\ bucket[b].held >= Cardinality(Holding(b))
         /\ b \notin raced =>
              bucket[b].count >= Cardinality(Settled(b)) + Cardinality(Crediting(b))
<1>1. CounterInv(b) /\ bucket[b].used \in Int /\ bucket[b].held \in Int /\ bucket[b].count \in Int
  BY Columns DEF LedgerInv
<1>2. QED
  BY <1>1 DEF CounterInv

\* The other buckets of a step of a request.
LEMMA OthersKeep ==
  ASSUME BucketRows0, LedgerInv, raced \subseteq raced', NEW r \in Requests, Only(r),
         NEW b \in Buckets, b # req'[r].bucket, bucket'[b] = bucket[b],
         \A o \in settled' \ settled : o[1] # b
  PROVE  CounterInv(b)'
<1>1. Calm(b)
  BY OtherBucket DEF Calm, Exists, Settled
<1>2. QED
  BY <1>1, CalmKeeps DEF LedgerInv

\* The rows are those of buckets there are, and the step adds none to another.
LEMMA RowsKept ==
  ASSUME BucketRows0, RowsInv, rows' \subseteq rows, settled' \subseteq rows',
         IsFiniteSet(settled'), \A b \in Buckets : Exists(b) => Exists(b)'
  PROVE  RowsInv'
BY DEF RowsInv

LEMMA ReserveKeepsLedger ==
  ASSUME BucketRows0, ReqsShaped, LedgerInv, Watch, NEW r \in Requests, Placed(r), Reserve(r)
  PROVE  LedgerInv'
<1>x. PICK b \in Buckets : b = req[r].bucket
  BY Writers DEF Reserve
<1> b = req[r].bucket
  BY <1>x
<1> DEFINE new == <<b, req[r].wire.name>> \notin rows
<1>0. /\ RowsInv /\ raced \subseteq raced' /\ raced' \subseteq Buckets /\ UNCHANGED <<rows, settled>>
      /\ b \in Buckets
  BY RacedGrows, Writers DEF LedgerInv, Reserve
<1>1. CASE \E code : Answer(r, code) /\ UNCHANGED bucket
  <2>1. Only(r) /\ req'[r].pc = "answered"
    BY <1>1, AnswerReq
  <2>2. QED
    BY <1>0, <1>1, <2>1, ReadEbbs
<1>2. CASE ~\E code : Answer(r, code) /\ UNCHANGED bucket
  <2>1. /\ new => Exists(b)
        /\ req' = [req EXCEPT ![r].pc = "write", ![r].new = new]
        /\ bucket' = IF new THEN [bucket EXCEPT ![b].held = @ + 1] ELSE bucket
    BY <1>2 DEF Reserve
  <2> HIDE DEF new
  <2>2. /\ Only(r) /\ req'[r].pc = "write" /\ req'[r].new = new /\ req'[r].bucket = b
    BY <2>1 DEF ReqsShaped, ReqFields, Only
  <2>3. CASE ~new
    <3>1. r \notin Holding(b)' /\ \A x : r \notin Holding(x)' \cup Crediting(x)'
      BY <2>2, <2>3 DEF Holding, Crediting
    <3>2. ASSUME NEW x \in Buckets PROVE CounterInv(x)'
      <4>1. Holding(x)' \subseteq Holding(x) /\ Crediting(x)' \subseteq Crediting(x)
        BY <2>2, <3>1, IdleRequest
      <4>2. Calm(x)
        BY <1>0, <2>1, <2>3, <4>1 DEF Calm, Exists, Settled
      <4>3. QED
        BY <1>0, <4>2, CalmKeeps DEF LedgerInv
    <3>3. RowsInv'
      BY <1>0, <2>1, <2>3 DEF RowsInv, Exists
    <3>4. QED
      BY <1>0, <3>2, <3>3 DEF LedgerInv
  <2>4. CASE new
    <3> DEFINE row == [bucket[b] EXCEPT !.held = bucket[b].held + 1]
    <3>1. Exists(b) /\ bucket' = [bucket EXCEPT ![b] = row]
      BY <2>1, <2>4
    <3>2. /\ bucket[b] \in BucketRow
          /\ bucket[b].used \in Nat /\ bucket[b].held \in Nat /\ bucket[b].count \in Nat
          /\ bucket[b].held >= Cardinality(Holding(b))
          /\ b \notin raced =>
               bucket[b].count >= Cardinality(Settled(b)) + Cardinality(Crediting(b))
      BY <1>0, <3>1, Counters, Columns
    <3>3. /\ row \in BucketRow /\ row.used = bucket[b].used /\ row.held = bucket[b].held + 1
          /\ row.count = bucket[b].count
      BY <3>2 DEF BucketRow
    <3> HIDE DEF row
    <3>4. bucket'[b] = row /\ \A x \in Buckets : x # b => bucket'[x] = bucket[x]
      BY <1>0, <3>1, WritesRow
    <3>5. CounterInv(b)'
      <4>1. Holding(b)' = Holding(b) \cup {r} /\ Crediting(b)' \subseteq Crediting(b)
        BY <2>2, <2>4 DEF Holding, Crediting, Only
      <4>2. Settled(b)' = Settled(b)
        BY <1>0 DEF Settled
      <4>3. /\ Cardinality(Holding(b)) \in Nat /\ Cardinality(Settled(b)) \in Nat
            /\ Cardinality(Crediting(b)) \in Nat
        BY <1>0, LedgerSets
      <4>4. IsFiniteSet(Holding(b))
        BY <1>0, LedgerSets
      <4>5. \/ Cardinality(Holding(b) \cup {r}) = Cardinality(Holding(b))
            \/ Cardinality(Holding(b) \cup {r}) = Cardinality(Holding(b)) + 1
        BY <4>4, FS_AddElement
      <4>6. Cardinality(Crediting(b)') <= Cardinality(Crediting(b)) /\ Cardinality(Crediting(b)') \in Nat
        BY <1>0, <4>1, LedgerSets, FS_Subset, FS_CardinalityType
      <4>7. bucket'[b].held >= Cardinality(Holding(b)')
        BY <3>2, <3>3, <3>4, <4>1, <4>3, <4>4, <4>5
      <4>8. b \notin raced' =>
              bucket'[b].count >= Cardinality(Settled(b)') + Cardinality(Crediting(b)')
        BY <1>0, <3>2, <3>3, <3>4, <4>2, <4>3, <4>6
      <4>9. bucket'[b].used >= 0 /\ bucket'[b].held >= 0 /\ bucket'[b].count >= 0
        BY <3>2, <3>3, <3>4
      <4>10. QED
        BY <4>7, <4>8, <4>9 DEF CounterInv
    <3>6. ASSUME NEW x \in Buckets, x # b PROVE CounterInv(x)'
      BY <1>0, <2>2, <3>4, <3>6, OthersKeep
    <3>7. \A x \in Buckets : Exists(x) => Exists(x)'
      BY <3>3, <3>4, BucketAssumption DEF Exists
    <3>8. RowsInv'
      BY <1>0, <3>7, RowsKept DEF RowsInv
    <3>9. QED
      BY <1>0, <3>5, <3>6, <3>8 DEF LedgerInv
  <2>5. QED
    BY <2>3, <2>4
<1>3. QED
  BY <1>1, <1>2

LEMMA WriteRowKeepsLedger ==
  ASSUME BucketRows0, ReqsShaped, LedgerInv, Watch, NEW r \in Requests, Placed(r), WriteRow(r)
  PROVE  LedgerInv'
<1>x. PICK b \in Buckets : b = req[r].bucket
  BY Writers DEF WriteRow
<1> b = req[r].bucket
  BY <1>x
<1> DEFINE o == <<b, req[r].wire.name>>
<1>0. /\ RowsInv /\ raced \subseteq raced' /\ raced' \subseteq Buckets /\ UNCHANGED <<bucket, settled>>
      /\ b \in Buckets /\ req[r].wire.name \in Names /\ req[r].pc = "write"
  BY RacedGrows, Writers DEF LedgerInv, WriteRow
<1>1. CASE Answer(r, "InternalError") /\ UNCHANGED rows
  <2>1. Only(r) /\ req'[r].pc = "answered"
    BY <1>1, AnswerReq
  <2>2. QED
    BY <1>0, <1>1, <2>1, ReadEbbs
<1>2. CASE ~(Answer(r, "InternalError") /\ UNCHANGED rows)
  <2>1. Exists(b) /\ rows' = rows \cup {o} /\ Step(r, "commit")
    BY <1>2 DEF WriteRow
  <2>2. Only(r) /\ req'[r].pc = "commit" /\ req'[r].bucket = b /\ req'[r].new = req[r].new
    BY <2>1 DEF Step, ReqsShaped, ReqFields, Only
  <2>3. o \in {x \in Buckets : Exists(x)} \X Names
    BY <1>0, <2>1
  <2> HIDE DEF o
  <2>4. RowsInv'
    BY <1>0, <2>1, <2>3 DEF RowsInv, Exists
  <2>5. ASSUME NEW x \in Buckets PROVE CounterInv(x)'
    <3>1. Holding(x)' \subseteq Holding(x) /\ Crediting(x)' \subseteq Crediting(x)
      BY <1>0, <2>2 DEF Holding, Crediting, Only
    <3>2. Calm(x)
      BY <1>0, <3>1 DEF Calm, Exists, Settled
    <3>3. QED
      BY <1>0, <3>2, CalmKeeps DEF LedgerInv
  <2>6. QED
    BY <1>0, <2>4, <2>5 DEF LedgerInv
<1>3. QED
  BY <1>1, <1>2

LEMMA CommitKeepsLedger ==
  ASSUME BucketRows0, ReqsShaped, LedgerInv, Watch, NEW r \in Requests, Placed(r), Commit(r)
  PROVE  LedgerInv'
<1>x. PICK b \in Buckets : b = req[r].bucket
  BY Writers DEF Commit
<1> b = req[r].bucket
  BY <1>x
<1> DEFINE o == <<b, req[r].wire.name>>
<1>0. /\ RowsInv /\ raced \subseteq raced' /\ raced' \subseteq Buckets /\ UNCHANGED rows
      /\ b \in Buckets /\ req[r].pc = "commit" /\ Answer(r, "OK")
  BY RacedGrows, Writers DEF LedgerInv, Commit
<1>1. Only(r) /\ req'[r].pc = "answered" /\ req'[r].bucket = b
  BY <1>0, AnswerReq DEF Same
<1>2. CASE ~(Exists(b) /\ req[r].new)
  <2>1. UNCHANGED bucket
    BY <1>2 DEF Commit
  <2>2. UNCHANGED settled
    <3>1. CASE ~req[r].new
      BY <3>1 DEF Commit
    <3>2. CASE ~Exists(b)
      <4>1. {o} \cap rows = {}
        BY <1>0, <3>2 DEF RowsInv
      <4> HIDE DEF o
      <4>2. settled' = settled \cup ({o} \cap rows) \/ settled' = settled
        BY DEF Commit, o
      <4>3. QED
        BY <4>1, <4>2
    <3>3. QED
      BY <1>2, <3>1, <3>2
  <2>3. QED
    BY <1>0, <1>1, <2>1, <2>2, ReadEbbs
<1>3. CASE Exists(b) /\ req[r].new
  <2> DEFINE row == [bucket[b] EXCEPT !.held = bucket[b].held - 1, !.used = bucket[b].used + 1,
                                      !.count = bucket[b].count + 1]
  <2>0. bucket[b].held > 0
    <3>1. r \in Holding(b) /\ IsFiniteSet(Holding(b))
      BY <1>0, <1>3, LedgerSets DEF Holding
    <3>2. /\ Cardinality(Holding(b) \ {r}) = Cardinality(Holding(b)) - 1
          /\ Cardinality(Holding(b)) \in Nat /\ Cardinality(Holding(b) \ {r}) \in Nat
      BY <3>1, FS_RemoveElement, FS_CardinalityType
    <3>3. bucket[b].held \in Nat /\ bucket[b].held >= Cardinality(Holding(b))
      BY <1>0, <1>3, Counters
    <3>4. QED
      BY <3>2, <3>3
  <2>1. /\ bucket' = [bucket EXCEPT ![b].held = @ - 1, ![b].used = @ + 1, ![b].count = @ + 1]
        /\ settled' = settled \cup ({o} \cap rows)
    BY <1>3, <2>0 DEF Commit
  <2>2. bucket' = [bucket EXCEPT ![b] = row]
    BY <1>0, <2>1 DEF BucketRows0
  <2>3. /\ bucket[b] \in BucketRow
        /\ bucket[b].used \in Nat /\ bucket[b].held \in Nat /\ bucket[b].count \in Nat
        /\ bucket[b].held >= Cardinality(Holding(b))
        /\ b \notin raced =>
             bucket[b].count >= Cardinality(Settled(b)) + Cardinality(Crediting(b))
    BY <1>0, <1>3, Counters, Columns
  <2>4. /\ row.used = bucket[b].used + 1 /\ row.held = bucket[b].held - 1
        /\ row.count = bucket[b].count + 1
    BY <2>3 DEF BucketRow
  <2>5. row \in BucketRow
    <3> DEFINE held == bucket[b].held - 1
               used == bucket[b].used + 1
               count == bucket[b].count + 1
    <3>1. held \in Int /\ used \in Int /\ count \in Int
      BY <2>3
    <3> HIDE DEF held, used, count
    <3>2. [bucket[b] EXCEPT !.held = held, !.used = used, !.count = count] \in BucketRow
      BY <2>3, <3>1 DEF BucketRow
    <3>3. QED
      BY <3>2 DEF held, used, count
  <2> HIDE DEF row
  <2>6. bucket'[b] = row /\ \A x \in Buckets : x # b => bucket'[x] = bucket[x]
    BY <1>0, <2>2, WritesRow
  <2> HIDE DEF o
  <2>7. o[1] = b
    BY DEF o
  <2>8. /\ Cardinality(Holding(b)) \in Nat /\ Cardinality(Settled(b)) \in Nat
        /\ Cardinality(Crediting(b)) \in Nat
    BY <1>0, LedgerSets
  <2>9. Holding(b)' = Holding(b) \ {r} /\ r \in Holding(b) /\ Crediting(b)' \subseteq Crediting(b)
    BY <1>0, <1>1, <1>3 DEF Holding, Crediting, Only
  <2>10. Cardinality(Holding(b)') = Cardinality(Holding(b)) - 1 /\ Cardinality(Holding(b)') \in Nat
    BY <1>0, <2>9, LedgerSets, FS_RemoveElement, FS_CardinalityType
  <2>11. Cardinality(Crediting(b)') <= Cardinality(Crediting(b)) /\ Cardinality(Crediting(b)') \in Nat
    BY <1>0, <2>9, LedgerSets, FS_Subset, FS_CardinalityType
  <2>12. Cardinality(Settled(b)') <= Cardinality(Settled(b)) + 1 /\ Cardinality(Settled(b)') \in Nat
    <3>1. Settled(b)' \in SUBSET (Settled(b) \cup {o})
      BY <2>1 DEF Settled
    <3>2. IsFiniteSet(Settled(b))
      BY <1>0, LedgerSets
    <3>3. /\ IsFiniteSet(Settled(b) \cup {o})
          /\ Cardinality(Settled(b) \cup {o}) = Cardinality(Settled(b))
               \/ Cardinality(Settled(b) \cup {o}) = Cardinality(Settled(b)) + 1
      BY <3>2, FS_AddElement
    <3>4. IsFiniteSet(Settled(b)') /\ Cardinality(Settled(b)') <= Cardinality(Settled(b) \cup {o})
      BY <3>1, <3>3, FS_Subset
    <3>5. Cardinality(Settled(b)') \in Nat
      BY <3>4, FS_CardinalityType
    <3>6. QED
      BY <2>8, <3>3, <3>4, <3>5
  <2>13. CounterInv(b)'
    <3>1. bucket'[b].held >= Cardinality(Holding(b)') /\ bucket'[b].held >= 0
      BY <2>3, <2>4, <2>6, <2>8, <2>10
    <3>2. b \notin raced' =>
            bucket'[b].count >= Cardinality(Settled(b)') + Cardinality(Crediting(b)')
      BY <1>0, <2>3, <2>4, <2>6, <2>8, <2>11, <2>12
    <3>3. bucket'[b].used >= 0 /\ bucket'[b].count >= 0
      BY <2>3, <2>4, <2>6
    <3>4. QED
      BY <3>1, <3>2, <3>3 DEF CounterInv
  <2>14. ASSUME NEW x \in Buckets, x # b PROVE CounterInv(x)'
    <3>1. \A p \in settled' \ settled : p[1] # x
      BY <2>1, <2>7, <2>14
    <3>2. QED
      BY <1>0, <1>1, <2>6, <2>14, <3>1, OthersKeep
  <2>15. \A x \in Buckets : Exists(x) => Exists(x)'
    BY <2>5, <2>6, BucketAssumption DEF Exists
  <2>16. RowsInv'
    <3>1. settled' \in SUBSET (settled \cup {o}) /\ settled' \subseteq rows'
      BY <1>0, <2>1 DEF RowsInv
    <3>2. IsFiniteSet(settled \cup {o})
      BY <1>0, FS_AddElement DEF RowsInv
    <3>3. IsFiniteSet(settled')
      BY <3>1, <3>2, FS_Subset
    <3>4. QED
      BY <1>0, <2>15, <3>1, <3>3, RowsKept
  <2>17. QED
    BY <1>0, <2>13, <2>14, <2>16 DEF LedgerInv
<1>4. QED
  BY <1>2, <1>3

LEMMA CreditKeepsLedger ==
  ASSUME BucketRows0, ReqsShaped, LedgerInv, Watch, NEW r \in Requests, Placed(r), Credit(r)
  PROVE  LedgerInv'
<1>x. PICK b \in Buckets : b = req[r].bucket
  BY Writers DEF Credit
<1> b = req[r].bucket
  BY <1>x
<1>0. /\ RowsInv /\ raced \subseteq raced' /\ raced' \subseteq Buckets /\ UNCHANGED <<rows, settled>>
      /\ b \in Buckets /\ req[r].pc = "credit"
      /\ Step(r, "delete") \/ Answer(r, "InternalError")
  BY RacedGrows, Writers DEF LedgerInv, Credit
<1>1. Only(r) /\ req'[r].pc \in {"delete", "answered"} /\ req'[r].bucket = b
  BY <1>0, StepReq, AnswerReq DEF Same
<1>2. CASE UNCHANGED bucket
  BY <1>0, <1>1, <1>2, ReadEbbs
<1>3. CASE ~UNCHANGED bucket
  <2> DEFINE used == bucket[b].used - 1
             count == bucket[b].count - 1
             row == [bucket[b] EXCEPT !.used = used, !.count = count]
  <2>1. /\ bucket' = [bucket EXCEPT ![b].used = @ - 1, ![b].count = @ - 1]
        /\ Exists(b) /\ bucket[b].used > 0 /\ bucket[b].count > 0
    BY <1>3 DEF Credit
  <2>2. bucket' = [bucket EXCEPT ![b] = row]
    BY <1>0, <2>1 DEF BucketRows0
  <2>3. /\ bucket[b] \in BucketRow
        /\ bucket[b].used \in Nat /\ bucket[b].held \in Nat /\ bucket[b].count \in Nat
        /\ bucket[b].held >= Cardinality(Holding(b))
        /\ b \notin raced =>
             bucket[b].count >= Cardinality(Settled(b)) + Cardinality(Crediting(b))
    BY <1>0, <2>1, Counters, Columns
  <2>4. /\ used \in Nat /\ count \in Nat /\ count + 1 >= bucket[b].count
        /\ used \in Int /\ count \in Int
    BY <2>1, <2>3
  <2> HIDE DEF used, count
  <2>5. row \in BucketRow /\ row.used = used /\ row.held = bucket[b].held /\ row.count = count
    BY <2>3, <2>4 DEF BucketRow
  <2> HIDE DEF row
  <2>6. bucket'[b] = row /\ \A x \in Buckets : x # b => bucket'[x] = bucket[x]
    BY <1>0, <2>2, WritesRow
  <2>7. /\ Cardinality(Holding(b)) \in Nat /\ Cardinality(Settled(b)) \in Nat
        /\ Cardinality(Crediting(b)) \in Nat
    BY <1>0, LedgerSets
  <2>8. /\ Crediting(b)' = Crediting(b) \ {r} /\ r \in Crediting(b) /\ Holding(b)' \subseteq Holding(b)
        /\ Settled(b)' = Settled(b)
    BY <1>0, <1>1 DEF Holding, Crediting, Only, Settled
  <2>9. Cardinality(Crediting(b)') = Cardinality(Crediting(b)) - 1 /\ Cardinality(Crediting(b)') \in Nat
    BY <1>0, <2>8, LedgerSets, FS_RemoveElement, FS_CardinalityType
  <2>10. Cardinality(Holding(b)') <= Cardinality(Holding(b)) /\ Cardinality(Holding(b)') \in Nat
    BY <1>0, <2>8, LedgerSets, FS_Subset, FS_CardinalityType
  <2>11. CounterInv(b)'
    <3>1. bucket'[b].held >= Cardinality(Holding(b)') /\ bucket'[b].held >= 0
      BY <2>3, <2>5, <2>6, <2>7, <2>10
    <3>2. b \notin raced' =>
            bucket'[b].count >= Cardinality(Settled(b)') + Cardinality(Crediting(b)')
      BY <1>0, <2>3, <2>4, <2>5, <2>6, <2>7, <2>8, <2>9
    <3>3. bucket'[b].used >= 0 /\ bucket'[b].count >= 0
      BY <2>4, <2>5, <2>6
    <3>4. QED
      BY <3>1, <3>2, <3>3 DEF CounterInv
  <2>12. ASSUME NEW x \in Buckets, x # b PROVE CounterInv(x)'
    BY <1>0, <1>1, <2>6, <2>12, OthersKeep
  <2>13. \A x \in Buckets : Exists(x) => Exists(x)'
    BY <2>5, <2>6, BucketAssumption DEF Exists
  <2>14. RowsInv'
    BY <1>0, <2>13, RowsKept DEF RowsInv
  <2>15. QED
    BY <1>0, <2>11, <2>12, <2>14 DEF LedgerInv
<1>4. QED
  BY <1>2, <1>3

\* A row that goes takes its place among the deletes that still have to credit
\* it, or marks its bucket.
LEMMA DeleteRowKeepsLedger ==
  ASSUME BucketRows0, ReqsShaped, LedgerInv, Watch, NEW r \in Requests, Placed(r),
         NEW name \in Names, DeleteRow(r, name)
  PROVE  LedgerInv'
<1>x. PICK b \in Buckets : b = req[r].bucket
  BY Writers DEF DeleteRow
<1> b = req[r].bucket
  BY <1>x
<1> DEFINE o == <<b, name>>
           there == o \in rows
           pc == IF there THEN "credit" ELSE "delete"
           left == req[r].left \ {name}
<1>0. /\ RowsInv /\ raced \subseteq raced' /\ raced' \subseteq Buckets /\ UNCHANGED bucket
      /\ b \in Buckets /\ req[r].pc = "delete"
      /\ rows' = rows \ {o} /\ settled' = settled \ {o}
      /\ req' = [req EXCEPT ![r].left = left, ![r].pc = pc]
  BY RacedGrows, Writers DEF LedgerInv, DeleteRow
<1>1. pc = "credit" \/ (pc = "delete" /\ ~there)
  OBVIOUS
<1>2. o[1] = b
  OBVIOUS
<1> HIDE DEF o, pc, left, there
<1>3. Only(r) /\ req'[r].pc = pc /\ req'[r].bucket = b
  BY <1>0 DEF ReqsShaped, ReqFields, Only
<1>4. CASE ~there
  <2>1. UNCHANGED <<rows, settled>>
    BY <1>0, <1>4 DEF RowsInv, there
  <2>2. pc # "write" /\ pc # "commit" /\ pc # "credit"
    BY <1>4 DEF pc
  <2>3. QED
    BY <1>0, <1>3, <2>1, <2>2, ReadEbbs
<1>5. CASE there
  <2>1. req'[r].pc = "credit"
    BY <1>3, <1>5 DEF pc
  <2>2. RowsInv'
    <3>1. settled' \in SUBSET settled
      BY <1>0
    <3>2. IsFiniteSet(settled') /\ settled' \subseteq rows' /\ rows' \subseteq rows
      BY <1>0, <3>1, FS_Subset DEF RowsInv
    <3>3. QED
      BY <1>0, <3>2, RowsKept DEF Exists
  <2>3. ASSUME NEW x \in Buckets, x # b PROVE CounterInv(x)'
    BY <1>0, <1>3, <2>3, OthersKeep
  <2>4. Crediting(b)' = Crediting(b) \cup {r} /\ r \notin Crediting(b) /\ Holding(b)' \subseteq Holding(b)
    BY <1>0, <1>3, <2>1 DEF Crediting, Holding, Only
  <2>5. CounterInv(b)'
    <3> SUFFICES ASSUME Exists(b)' PROVE CounterInv(b)'
      BY DEF CounterInv
    <3>1. Exists(b) /\ bucket'[b] = bucket[b]
      BY <1>0 DEF Exists
    <3>2. /\ bucket[b].used \in Nat /\ bucket[b].held \in Nat /\ bucket[b].count \in Nat
          /\ bucket[b].held >= Cardinality(Holding(b))
          /\ b \notin raced =>
               bucket[b].count >= Cardinality(Settled(b)) + Cardinality(Crediting(b))
      BY <1>0, <3>1, Counters
    <3>3. /\ Cardinality(Holding(b)) \in Nat /\ Cardinality(Settled(b)) \in Nat
          /\ Cardinality(Crediting(b)) \in Nat
      BY <1>0, LedgerSets
    <3>4. Cardinality(Holding(b)') <= Cardinality(Holding(b)) /\ Cardinality(Holding(b)') \in Nat
      BY <1>0, <2>4, LedgerSets, FS_Subset, FS_CardinalityType
    <3>5. Cardinality(Crediting(b)') = Cardinality(Crediting(b)) + 1
      BY <1>0, <2>4, LedgerSets, FS_AddElement
    <3>6. CASE o \in settled
      <4>1. Settled(b)' = Settled(b) \ {o} /\ o \in Settled(b)
        BY <1>0, <1>2, <3>6 DEF Settled
      <4>2. Cardinality(Settled(b)') = Cardinality(Settled(b)) - 1
        BY <1>0, <4>1, LedgerSets, FS_RemoveElement
      <4>3. b \notin raced' =>
              bucket'[b].count >= Cardinality(Settled(b)') + Cardinality(Crediting(b)')
        BY <1>0, <3>1, <3>2, <3>3, <3>5, <4>2
      <4>4. bucket'[b].held >= Cardinality(Holding(b)')
        BY <3>1, <3>2, <3>3, <3>4
      <4>5. QED
        BY <3>1, <3>2, <4>3, <4>4 DEF CounterInv
    <3>7. CASE o \notin settled
      <4>1. b \in raced'
        <5>1. o \in (rows \ rows') \ settled
          BY <1>0, <1>5, <3>7 DEF there
        <5>2. QED
          BY <1>2, <5>1 DEF Watch
      <4>2. bucket'[b].held >= Cardinality(Holding(b)')
        BY <3>1, <3>2, <3>3, <3>4
      <4>3. QED
        BY <3>1, <3>2, <4>1, <4>2 DEF CounterInv
    <3>8. QED
      BY <3>6, <3>7
  <2>6. QED
    BY <1>0, <2>2, <2>3, <2>5 DEF LedgerInv
<1>6. QED
  BY <1>4, <1>5

LEMMA RequestKeepsLedger ==
  ASSUME BucketRows0, ReqsShaped, LedgerInv, Watch, NEW r \in Requests, Placed(r), Only(r), RequestStep(r)
  PROVE  LedgerInv'
<1>1. CASE Reserve(r) \/ WriteRow(r) \/ Commit(r)
  BY <1>1, ReserveKeepsLedger, WriteRowKeepsLedger, CommitKeepsLedger
<1>2. CASE (\E name \in Names : DeleteRow(r, name)) \/ Credit(r)
  BY <1>2, DeleteRowKeepsLedger, CreditKeepsLedger
<1>3. CASE ~(Reserve(r) \/ WriteRow(r) \/ Commit(r) \/ (\E name \in Names : DeleteRow(r, name)) \/ Credit(r))
  <2>1. req'[r].pc \notin {"write", "commit", "credit"} /\ UNCHANGED <<bucket, rows, settled>>
    BY <1>3, Waits DEF RequestStep
  <2>2. QED
    BY <2>1, ReadEbbs
<1>4. QED
  BY <1>1, <1>2, <1>3

\* Of the steps on pools and buckets three write a bucket or take objects.
LEMMA BucketStepRows ==
  ASSUME CallsShaped, NEW c \in Calls, BucketStep(c),
         ~(CreateBucketInsert(c) \/ SetLimitWrite(c) \/ RemoveBucketDrop(c))
  PROVE  UNCHANGED <<bucket, rows, settled>>
<1> USE DEF Console
<1>1. CASE \E me \in Users : CreatePool(c, me)
  BY <1>1 DEF CreatePool, BeginPool
<1>2. CASE \E me \in Users, p \in Pools : ConfigurePool(c, me, p) \/ RemovePool(c, me, p)
  BY <1>2 DEF ConfigurePool, RemovePool, BeginPool
<1>3. CASE CreatePoolInsert(c) \/ ConfigurePoolWrite(c) \/ DropPool(c)
  BY <1>3 DEF CreatePoolInsert, ConfigurePoolWrite, DropPool
<1>4. CASE LoadPool(c, "configure pool", "write") \/ LoadPool(c, "remove pool", "count") \/ CountForPool(c)
  BY <1>4 DEF LoadPool, CountForPool
<1>5. CASE \E me \in Users, p \in Pools, b \in Buckets : CreateBucket(c, me, p, NameOf[b])
  BY <1>5 DEF CreateBucket, BeginBucket
<1>6. CASE (\E me \in Users, b \in Buckets, max \in Limits : SetLimit(c, me, b, max))
             \/ \E me \in Users, b \in Buckets : RemoveBucket(c, me, b)
  BY <1>6 DEF SetLimit, RemoveBucket, BeginBucket
<1>7. CASE FindPool(c, "find", "find again") \/ FindPool(c, "find again", "insert")
  BY <1>7 DEF FindPool
<1>8. CASE LoadBucket(c, "set limit", "write") \/ LoadBucket(c, "remove bucket", "drop")
  BY <1>8 DEF LoadBucket
<1>9. CASE TakeBuckets(c)
  BY <1>9 DEF TakeBuckets
<1>10. QED
  BY <1>1, <1>2, <1>3, <1>4, <1>5, <1>6, <1>7, <1>8, <1>9 DEF BucketStep

LEMMA ConsoleKeepsLedger ==
  ASSUME CallsShaped, BucketInv, ReqsInv, LedgerInv, Watch, NEW c \in Calls, ConsoleStep(c)
  PROVE  LedgerInv'
<1> BucketRows0 /\ RowsInv /\ BucketCall(c) /\ UNCHANGED req
  BY DEF BucketInv, LedgerInv, ConsoleStep
<1>1. CASE UNCHANGED <<bucket, rows, settled>>
  BY <1>1, SameEbbs, EbbsKeeps
<1>2. CASE CreateBucketInsert(c)
  BY <1>2, CreateKeepsLedger
<1>3. CASE SetLimitWrite(c)
  BY <1>3, SetLimitEbbs, EbbsKeeps
<1>4. CASE RemoveBucketDrop(c)
  <2>1. \E bs : Remove(bs)
    BY <1>4 DEF RemoveBucketDrop
  <2>2. QED
    BY <2>1, RemoveEbbs, EbbsKeeps
<1>5. CASE CascadeBuckets(c)
  BY <1>5, CascadeEbbs, EbbsKeeps
<1>6. QED
  BY <1>1, <1>2, <1>3, <1>4, <1>5, BucketStepRows DEF ConsoleStep, Data

LEMMA NextLedger ==
  ASSUME KeyInv, BucketInv, ReqsInv, LedgerInv, \A r \in Requests : Placed(r), GatewayNext
  PROVE  LedgerInv'
<1> BucketRows0 /\ RowsInv /\ ReqsShaped /\ Watch /\ CallsShaped
  BY DEF KeyInv, BucketInv, LedgerInv, ReqsInv, GatewayNext
<1>1. CASE UNCHANGED <<req, bucket, rows, settled>>
  BY <1>1, SameEbbs, EbbsKeeps
<1>2. ASSUME NEW r \in Requests, RequestStep(r) PROVE LedgerInv'
  <2>1. Ctx(r)
    BY NextKeys, NextBuckets DEF Ctx, ReqsInv, PlaneInv
  <2>2. Only(r)
    BY <1>2, <2>1, RequestKeeps
  <2>3. QED
    BY <1>2, <2>2, RequestKeepsLedger
<1>3. ASSUME NEW c \in Calls, ConsoleStep(c) PROVE LedgerInv'
  BY <1>3, ConsoleKeepsLedger
<1>4. CASE WriteAudit \/ (Tick /\ UNCHANGED <<Data, req, audit>>)
  BY <1>1, <1>4 DEF WriteAudit, ConsoleRows, Data
<1>5. QED
  BY <1>2, <1>3, <1>4 DEF GatewayNext

----------------------------------------------------------------------------
(* A bucket's removal. *)

\* What the call that is about to remove a bucket has in hand.
RemovalCall(c) ==
  At(c, "remove bucket", "drop") =>
    /\ call[c].row \in BucketRow
    /\ call[c].row.count <= 0 => call[c].seen = {} \/ call[c].on \in raced

\* Two numbers whose sum is no more than nothing.
LEMMA NoneLeft ==
  ASSUME NEW n \in Int, NEW s \in Nat, NEW d \in Nat, n <= 0, n >= s + d
  PROVE  s = 0
OBVIOUS

LEMMA LoadRemoval ==
  ASSUME CallsShaped, BucketRows0, LedgerInv, raced \subseteq raced', NEW c \in Calls,
         LoadBucket(c, "remove bucket", "drop")
  PROVE  RemovalCall(c)'
<1>1. CASE End(c)
  BY <1>1, EndsAt DEF RemovalCall, At
<1>2. CASE ~End(c)
  <2> DEFINE row == bucket[call[c].on]
             seen == RowsOf({call[c].on}) \cap settled
  <2>1. /\ call[c].on \in Buckets /\ Exists(call[c].on)
        /\ call' = [call EXCEPT ![c].pc = "drop", ![c].row = row, ![c].seen = seen]
    BY <1>2 DEF LoadBucket, Owned
  <2>2. PICK b \in Buckets : b = call[c].on /\ Exists(b)
    BY <2>1
  <2>3. row = bucket[b] /\ seen = Settled(b)
    BY <2>2 DEF Settled, RowsOf, LedgerInv, RowsInv
  <2> HIDE DEF row, seen
  <2>4. call'[c].row = row /\ call'[c].seen = seen /\ call'[c].on = b
    BY <2>1, <2>2 DEF CallsShaped, Fields
  <2>5. /\ bucket[b] \in BucketRow /\ bucket[b].count \in Int
        /\ b \notin raced => bucket[b].count >= Cardinality(Settled(b)) + Cardinality(Crediting(b))
    BY <2>2, Columns, Counters
  <2>6. Cardinality(Settled(b)) \in Nat /\ Cardinality(Crediting(b)) \in Nat /\ IsFiniteSet(Settled(b))
    BY LedgerSets DEF LedgerInv
  <2>7. bucket[b].count <= 0 /\ b \notin raced => Cardinality(Settled(b)) = 0
    BY <2>5, <2>6, NoneLeft
  <2>8. bucket[b].count <= 0 /\ b \notin raced => Settled(b) = {}
    BY <2>6, <2>7, FS_EmptySet
  <2>9. QED
    BY <2>3, <2>4, <2>5, <2>8 DEF RemovalCall
<1>3. QED
  BY <1>1, <1>2

LEMMA BucketRemoval ==
  ASSUME CallsShaped, BucketRows0, LedgerInv, raced \subseteq raced', NEW c \in Calls, BucketStep(c)
  PROVE  RemovalCall(c)'
<1>0. ASSUME call'[c].op # "remove bucket" \/ call'[c].pc # "drop" PROVE RemovalCall(c)'
  BY <1>0 DEF RemovalCall, At
<1>1. CASE PoolStep(c)
  BY <1>0, <1>1, PoolCalls
<1>2. CASE \E me \in Users, p \in Pools, b \in Buckets : CreateBucket(c, me, p, NameOf[b])
  BY <1>0, <1>2, BeginsAt DEF CreateBucket, BeginBucket
<1>3. CASE (\E me \in Users, b \in Buckets, max \in Limits : SetLimit(c, me, b, max))
             \/ \E me \in Users, b \in Buckets : RemoveBucket(c, me, b)
  BY <1>0, <1>3, BeginsAt DEF SetLimit, RemoveBucket, BeginBucket
<1>4. CASE FindPool(c, "find", "find again") \/ FindPool(c, "find again", "insert")
  BY <1>0, <1>4, FindPoolCalls
<1>5. CASE LoadBucket(c, "set limit", "write")
  <2>1. CASE End(c)
    BY <1>0, <2>1, EndsAt
  <2>2. CASE ~End(c)
    <3> DEFINE row == bucket[call[c].on]
               seen == RowsOf({call[c].on}) \cap settled
    <3>1. call' = [call EXCEPT ![c].pc = "write", ![c].row = row, ![c].seen = seen]
      BY <1>5, <2>2 DEF LoadBucket
    <3> HIDE DEF row, seen
    <3>2. call'[c].pc = "write"
      BY <3>1 DEF CallsShaped, Fields
    <3>3. QED
      BY <1>0, <3>2
  <2>3. QED
    BY <2>1, <2>2
<1>6. CASE LoadBucket(c, "remove bucket", "drop")
  BY <1>6, LoadRemoval
<1>7. CASE CreateBucketInsert(c) \/ SetLimitWrite(c) \/ RemoveBucketDrop(c)
  BY <1>0, <1>7, EndsAt DEF CreateBucketInsert, SetLimitWrite, RemoveBucketDrop
<1>8. CASE TakeBuckets(c)
  BY <1>0, <1>8, TakeBucketsCalls
<1>9. QED
  BY <1>1, <1>2, <1>3, <1>4, <1>5, <1>6, <1>7, <1>8 DEF BucketStep, PoolStep

LEMMA NextRemoval ==
  ASSUME KeyInv, BucketInv, LedgerInv, \A c \in Calls : RemovalCall(c), GatewayNext
  PROVE  \A c \in Calls : RemovalCall(c)'
<1> CallsShaped /\ BucketRows0 /\ raced \subseteq raced'
  BY RacedGrows DEF KeyInv, BucketInv, LedgerInv, GatewayNext
<1>1. ASSUME NEW d \in Calls, call'[d] = call[d] PROVE RemovalCall(d)'
  BY <1>1 DEF RemovalCall, At
<1>2. ASSUME NEW c \in Calls, ConsoleStep(c), NEW d \in Calls PROVE RemovalCall(d)'
  <2>1. ASSUME Alone(c), RemovalCall(c)' PROVE RemovalCall(d)'
    BY <1>1, <2>1 DEF Alone
  <2>2. ASSUME call'[c].op \notin BucketOps PROVE RemovalCall(c)'
    BY <2>2 DEF RemovalCall, At, BucketOps
  <2>3. CASE AccountStep(c)
    BY <2>1, <2>2, <2>3, AccountCalls
  <2>4. CASE BucketStep(c)
    BY <2>1, <2>4, BucketCalls, BucketRemoval
  <2>5. CASE KeyStep(c)
    <3>1. Alone(c) /\ call'[c].op \notin BucketOps
      BY <2>5, KeyStepKeeps DEF Kept, KeyOp, KeyOps, BucketOps
    <3>2. QED
      BY <2>1, <2>2, <3>1
  <2>6. CASE DropUser(c)
    <3>1. Alone(c) /\ call'[c].op \notin BucketOps
      BY <2>6, DropCalls DEF Ended, Idle, BucketOps
    <3>2. QED
      BY <2>1, <2>2, <3>1
  <2>7. QED
    BY <1>2, <2>3, <2>4, <2>5, <2>6 DEF ConsoleStep
<1>3. CASE \A c \in Calls : ~ConsoleStep(c)
  BY <1>1, <1>3, OthersLeaveAnchors
<1>4. QED
  BY <1>2, <1>3

\* Only the statement that removes the bucket ends the call that is about to.
LEMMA RemovalStep ==
  ASSUME NEW c \in Calls, ConsoleStep(c), At(c, "remove bucket", "drop")
  PROVE  RemoveBucketDrop(c)
<1> call[c].op = "remove bucket" /\ call[c].pc = "drop"
  BY DEF At
<1>0. Idle.op = "none"
  BY DEF Idle
<1> call[c] # Idle
  BY <1>0
<1>1. ~AccountStep(c)
  <2> USE DEF Begin, At
  <2>1. ~\E u \in Users : SetupAsk(c, u)
    BY DEF SetupAsk
  <2>2. ~(SetupFind(c) \/ SetupInsert(c) \/ CreateUserFind(c) \/ CreateUserInsert(c))
    BY DEF SetupFind, SetupInsert, CreateUserFind, CreateUserInsert
  <2>3. ~\E me, u \in Users, role \in Roles : CreateUser(c, me, u, role) \/ SetRole(c, me, u, role)
    BY DEF CreateUser, SetRole
  <2>4. ~(SetRoleLoad(c) \/ Load(c, "issue password", "write") \/ RemoveUserLoad(c))
    BY DEF SetRoleLoad, Load, RemoveUserLoad
  <2>5. ~(CountAdmins(c, "set role", "write") \/ CountAdmins(c, "remove user", "take"))
    BY DEF CountAdmins
  <2>6. ~(SetRoleWrite(c) \/ IssuePasswordWrite(c) \/ ChangePasswordWrite(c))
    BY DEF SetRoleWrite, IssuePasswordWrite, ChangePasswordWrite
  <2>7. ~\E me, u \in Users : IssuePassword(c, me, u) \/ RemoveUser(c, me, u)
    BY DEF IssuePassword, RemoveUser
  <2>8. ~\E me \in Users : ChangePassword(c, me)
    BY DEF ChangePassword
  <2>9. QED
    BY <2>1, <2>2, <2>3, <2>4, <2>5, <2>6, <2>7, <2>8 DEF AccountStep
<1>2. ~KeyStep(c)
  <2> USE DEF Begin, BeginKey, At
  <2>1. ~\E me \in Users, acts \in Grants, scoping \in Scopings, expires \in Expiries :
            CreateKey(c, me, acts, scoping, expires)
    BY DEF CreateKey
  <2>2. ~(CreateKeyInsert(c) \/ RevokeKeyWrite(c))
    BY DEF CreateKeyInsert, RevokeKeyWrite
  <2>3. ~\E me \in Users, k \in Keys : RevokeKey(c, me, k) \/ RotateKey(c, me, k)
    BY DEF RevokeKey, RotateKey
  <2>4. ~\E me \in Users, k \in Keys, patch \in Patches : PatchKey(c, me, k, patch)
    BY DEF PatchKey
  <2>5. ~(LoadKey(c, "revoke key", "write") \/ LoadKey(c, "rotate key", "permissions"))
    BY DEF LoadKey
  <2>6. ~(PatchKeyLoad(c) \/ PatchPermissionsDelete(c) \/ PatchPermissions(c))
    BY DEF PatchKeyLoad, PatchPermissionsDelete, PatchPermissions, PatchDelete
  <2>7. ~(PatchPrefixesDelete(c) \/ PatchPrefixes(c) \/ PatchLabel(c) \/ PatchExpires(c) \/ PatchStatus(c))
    BY DEF PatchPrefixesDelete, PatchPrefixes, PatchLabel, PatchExpires, PatchStatus, PatchDelete
  <2>8. ~(RotatePermissions(c) \/ RotatePrefixes(c) \/ RotateDisable(c) \/ RotateInsert(c))
    BY DEF RotatePermissions, RotatePrefixes, RotateDisable, RotateInsert
  <2>9. QED
    BY <2>1, <2>2, <2>3, <2>4, <2>5, <2>6, <2>7, <2>8 DEF KeyStep
<1>3. ~DropUser(c)
  BY DEF DropUser, At
<1>4. BucketStep(c)
  BY <1>1, <1>2, <1>3 DEF ConsoleStep
<1>5. QED
  <2> USE DEF Begin, At
  <2>1. ~(\E me \in Users : CreatePool(c, me))
          /\ ~\E me \in Users, p \in Pools : ConfigurePool(c, me, p) \/ RemovePool(c, me, p)
    BY DEF CreatePool, ConfigurePool, RemovePool, BeginPool
  <2>2. ~(CreatePoolInsert(c) \/ ConfigurePoolWrite(c) \/ CountForPool(c) \/ DropPool(c))
    BY DEF CreatePoolInsert, ConfigurePoolWrite, CountForPool, DropPool
  <2>3. ~(LoadPool(c, "configure pool", "write") \/ LoadPool(c, "remove pool", "count"))
    BY DEF LoadPool
  <2>4. ~\E me \in Users, p \in Pools, b \in Buckets : CreateBucket(c, me, p, NameOf[b])
    BY DEF CreateBucket, BeginBucket
  <2>5. ~(FindPool(c, "find", "find again") \/ FindPool(c, "find again", "insert"))
    BY DEF FindPool
  <2>6. ~(CreateBucketInsert(c) \/ SetLimitWrite(c) \/ TakeBuckets(c))
    BY DEF CreateBucketInsert, SetLimitWrite, TakeBuckets
  <2>7. ~(\E me \in Users, b \in Buckets, max \in Limits : SetLimit(c, me, b, max))
          /\ ~\E me \in Users, b \in Buckets : RemoveBucket(c, me, b)
    BY DEF SetLimit, RemoveBucket, BeginBucket
  <2>8. ~(LoadBucket(c, "set limit", "write") \/ LoadBucket(c, "remove bucket", "drop"))
    BY DEF LoadBucket
  <2>9. QED
    BY <1>4, <2>1, <2>2, <2>3, <2>4, <2>5, <2>6, <2>7, <2>8 DEF BucketStep

----------------------------------------------------------------------------
(* The types. *)

AuditInv ==
  /\ DOMAIN audit = {"queue", "rows"}
  /\ \A e \in audit.queue \cup audit.rows : e.request \in Requests

TypedInv ==
  /\ \A c \in Calls : CallTyped(c)
  /\ PoolRows
  /\ clock \in 0..MaxClock
  /\ \A r \in Requests : Placed(r)
  /\ AuditInv

\* Only a request that has its answer, and the worker, write to the audit log.
LEMMA RequestAudit ==
  ASSUME AuditInv, NEW r \in Requests, RequestStep(r)
  PROVE  AuditInv'
<1>1. CASE UNCHANGED audit
  BY <1>1 DEF AuditInv
<1>2. CASE RecordAudit(r)
  <2>1. CASE UNCHANGED audit
    BY <1>1, <2>1
  <2>2. CASE ~UNCHANGED audit
    <3> DEFINE e == Entry(r, Signed(req[r].wire) /\ Usable(req[r].wire.auth.key))
    <3>1. e.request = r
      BY DEF Entry
    <3>2. audit' = [audit EXCEPT !.queue = audit.queue \cup {e}]
      BY <1>2, <2>2 DEF RecordAudit
    <3> HIDE DEF e
    <3>3. DOMAIN audit' = {"queue", "rows"} /\ audit'.queue = audit.queue \cup {e} /\ audit'.rows = audit.rows
      BY <3>2 DEF AuditInv
    <3>4. QED
      BY <3>1, <3>3 DEF AuditInv
  <2>3. QED
    BY <2>1, <2>2
<1>3. CASE (\E w \in Wires : Arrive(r, w)) \/ Reserve(r) \/ WriteRow(r) \/ Commit(r)
             \/ (\E name \in Names : DeleteRow(r, name)) \/ Credit(r)
  BY <1>1, <1>3 DEF Arrive, Reserve, WriteRow, Commit, DeleteRow, Credit
<1>4. CASE Authenticate(r) \/ ReadOwner(r) \/ ReadBucket(r) \/ ReadPool(r) \/ ReadAction(r) \/ ReadScope(r)
  BY <1>1, <1>4 DEF Reads, Authenticate, ReadOwner, ReadBucket, ReadPool, ReadAction, ReadScope
<1>5. CASE ReadSource(r) \/ ReadSourceAction(r) \/ ReadSourceScope(r) \/ ReadSourceRow(r)
  BY <1>1, <1>5 DEF Reads, ReadSource, ReadSourceAction, ReadSourceScope, ReadSourceRow
<1>6. CASE (\E name \in Names : DecideKey(r, name)) \/ DecidedKeys(r) \/ Dispatched(r) \/ DeletedAll(r)
  BY <1>1, <1>6 DEF Reads, DecideKey, DecidedKeys, Dispatched, DeletedAll
<1>7. QED
  BY <1>2, <1>3, <1>4, <1>5, <1>6 DEF RequestStep

LEMMA WorkerAudit ==
  ASSUME AuditInv, WriteAudit
  PROVE  AuditInv'
<1>1. PICK e \in audit.queue :
        audit' = [queue |-> audit.queue \ {e}, rows |-> audit.rows \cup {e}]
  BY DEF WriteAudit
<1>2. DOMAIN audit' = {"queue", "rows"} /\ audit'.queue = audit.queue \ {e} /\ audit'.rows = audit.rows \cup {e}
  BY <1>1
<1>3. QED
  BY <1>2 DEF AuditInv

\* A step of the console is one of a call alone.
LEMMA ConsoleAlone ==
  ASSUME KeyInv, NEW c \in Calls, ConsoleStep(c)
  PROVE  Alone(c)
<1> CallsShaped
  BY DEF KeyInv
<1>1. CASE AccountStep(c)
  BY <1>1, AccountCalls
<1>2. CASE BucketStep(c)
  BY <1>2, BucketCalls
<1>3. CASE KeyStep(c)
  BY <1>3, KeyStepKeeps DEF Kept
<1>4. CASE DropUser(c)
  BY <1>4, DropCalls
<1>5. QED
  BY <1>1, <1>2, <1>3, <1>4 DEF ConsoleStep

\* A call's record, and the pools.
LEMMA ConsoleTyped ==
  ASSUME KeyInv, PoolRows, \A d \in Calls : CallTyped(d), NEW c \in Calls, ConsoleStep(c)
  PROVE  PoolRows' /\ \A d \in Calls : CallTyped(d)'
<1> CallsShaped
  BY DEF KeyInv
<1>1. ASSUME Alone(c), CallTyped(c)', NEW d \in Calls PROVE CallTyped(d)'
  BY <1>1 DEF Alone, CallTyped
<1>2. CASE AccountStep(c) /\ UNCHANGED Data
  BY <1>1, <1>2, AccountCalls, AccountTyped DEF Data, PoolRows
<1>3. CASE BucketStep(c)
  <2>1. PoolRows'
    BY <1>3, PoolsTyped, BucketsLeavePools DEF PoolRows
  <2>2. QED
    BY <1>1, <1>3, <2>1, BucketCalls, BucketTyped
<1>4. CASE KeyStep(c) /\ UNCHANGED Data
  <2>1. Alone(c)
    BY <1>4, KeyStepKeeps DEF Kept
  <2>2. QED
    BY <1>1, <1>4, <2>1, KeyTyped DEF Data, PoolRows
<1>5. CASE DropUser(c) /\ CascadeBuckets(c)
  <2>1. Alone(c) /\ End(c) /\ UNCHANGED pool
    BY <1>5, DropCalls DEF DropUser, CascadeBuckets
  <2>2. QED
    BY <1>1, <2>1, EndTyped DEF PoolRows
<1>6. QED
  BY <1>2, <1>3, <1>4, <1>5 DEF ConsoleStep

LEMMA NextTyped ==
  ASSUME KeyInv, BucketInv, ReqsInv, TypedInv, GatewayNext
  PROVE  TypedInv'
<1> CallsShaped /\ BucketRows0 /\ ReqsShaped /\ RowTypes
  BY DEF KeyInv, BucketInv, ReqsInv, TypedInv, RowTypes
<1>1. clock' \in 0..MaxClock
  <2>1. CASE UNCHANGED clock
    BY <2>1 DEF TypedInv
  <2>2. CASE Tick
    BY <2>2, MaxClockAssumption DEF TypedInv, Tick
  <2>3. CASE WriteAudit \/ \E r \in Requests : RequestStep(r)
    BY <2>1, <2>3, RequestLeaves DEF WriteAudit, ConsoleRows
  <2>4. CASE \E c \in Calls : ConsoleStep(c)
    BY <2>1, <2>4, KeysLeaveClock DEF ConsoleStep, KeyRows, CascadeKeys
  <2>5. QED
    BY <2>2, <2>3, <2>4 DEF GatewayNext
<1>2. ASSUME NEW r \in Requests, RequestStep(r) PROVE TypedInv'
  <2>1. UNCHANGED <<call, pool>>
    BY <1>2, RequestLeaves
  <2>2. AuditInv' /\ Placed(r)'
    BY <1>2, RequestAudit, RequestPlaced DEF TypedInv
  <2>3. Only(r)
    <3>1. Ctx(r)
      BY NextKeys, NextBuckets DEF Ctx, ReqsInv, GatewayNext
    <3>2. QED
      BY <1>2, <3>1, RequestKeeps
  <2>4. ASSUME NEW s \in Requests PROVE Placed(s)'
    BY <2>2, <2>3 DEF Only, TypedInv, Placed
  <2>5. QED
    BY <1>1, <2>1, <2>2, <2>4 DEF TypedInv, CallTyped, PoolRows
<1>3. ASSUME UNCHANGED req PROVE \A r \in Requests : Placed(r)'
  BY <1>3 DEF TypedInv, Placed
<1>4. ASSUME NEW c \in Calls, ConsoleStep(c) PROVE TypedInv'
  BY <1>1, <1>3, <1>4, ConsoleTyped DEF ConsoleStep, TypedInv, AuditInv
<1>5. CASE WriteAudit
  BY <1>1, <1>3, <1>5, WorkerAudit DEF WriteAudit, ConsoleRows, TypedInv, CallTyped, PoolRows
<1>6. CASE Tick /\ UNCHANGED <<Data, req, audit>>
  BY <1>1, <1>3, <1>6 DEF Tick, Data, TypedInv, CallTyped, PoolRows, AuditInv
<1>7. QED
  BY <1>2, <1>4, <1>5, <1>6 DEF GatewayNext

----------------------------------------------------------------------------

\* What requests and calls have in hand is of its type and in its place: the
\* bucket, the pool and the object key each statement needs, whatever the console
\* changed since they were read (s3/request.rs): the invariant under the theorems
\* on the counters.
THEOREM GatewayPlaced == GatewaySpec => []TypedInv
<1>1. GatewayInit => TypedInv
  <2> SUFFICES ASSUME GatewayInit PROVE TypedInv
    OBVIOUS
  <2>1. ASSUME NEW c \in Calls PROVE CallTyped(c)
    <3>1. call[c] = Idle \/ call[c] = Ended
      BY DEF GatewayInit
    <3>2. /\ DOMAIN call[c] = DOMAIN Idle /\ call[c].me = None /\ call[c].on = None
          /\ call[c].pc \in {"idle", "ended"}
      BY <3>1 DEF Idle, Ended
    <3>3. QED
      BY <3>2 DEF CallTyped, CallType
  <2>2. PoolRows
    BY DatabasesAssumption DEF GatewayInit, PoolRows
  <2>3. clock \in 0..MaxClock
    BY MaxClockAssumption DEF GatewayInit
  <2>4. ASSUME NEW r \in Requests PROVE Placed(r)
    <3>1. req[r] = Waiting \/ req[r] = Over
      BY DEF GatewayInit
    <3>2. /\ DOMAIN req[r] = DOMAIN Waiting
          /\ req[r].pc \in {"waiting", "over"} /\ req[r].wire = None /\ req[r].key = None
          /\ req[r].bucket = None /\ req[r].source = None /\ req[r].pool = None
          /\ req[r].allowed = {} /\ req[r].left = {} /\ req[r].new = FALSE /\ req[r].answer = None
      BY <3>1 DEF Waiting, Over
    <3>3. QED
      BY <3>2 DEF Placed, RequestType, Place, Resolving, Serving
  <2>5. AuditInv
    BY DEF GatewayInit, AuditInv
  <2>6. QED
    BY <2>1, <2>2, <2>3, <2>4, <2>5 DEF TypedInv
<1>2. KeyInv /\ BucketInv /\ ReqsInv /\ TypedInv /\ [GatewayNext]_gvars => TypedInv'
  <2> SUFFICES ASSUME KeyInv, BucketInv, ReqsInv, TypedInv, [GatewayNext]_gvars PROVE TypedInv'
    OBVIOUS
  <2>1. CASE UNCHANGED gvars
    BY <2>1 DEF gvars, TypedInv, CallTyped, PoolRows, Placed, AuditInv
  <2>2. QED
    BY <2>1, NextTyped
<1>3. QED
  BY <1>1, <1>2, KeysTyped, RequestsHeld, PTL DEF GatewaySpec, PolicyInv

\* The inductive invariant of the counters: what they cover, and what the call
\* that is about to remove a bucket has read of them.
CoverInv == LedgerInv /\ \A c \in Calls : RemovalCall(c)

\* Whatever requests and calls do at once, a bucket's reserved bytes are no less
\* than its new objects under way, and until the bucket loses an object row that
\* was not accounted for its object_count is no less than the rows that were
\* (s3/quota.rs; models/objects.rs, delete; controllers/buckets.rs, destroy).
THEOREM CountersHeld == GatewaySpec => []CoverInv
<1>1. GatewayInit => CoverInv
  <2> SUFFICES ASSUME GatewayInit PROVE CoverInv
    OBVIOUS
  <2>1. PICK db \in Databases : bucket = db.bucket /\ rows = db.rows
    BY DEF GatewayInit
  <2>2. /\ bucket \in [Buckets -> Bucket \cup {None, Gone}]
        /\ rows \subseteq {b \in Buckets : Exists(b)} \X Names /\ IsFiniteSet(rows)
        /\ \A b \in Buckets : Exists(b) => bucket[b].count >= Cardinality({o \in rows : o[1] = b})
    BY <2>1, DatabasesAssumption DEF Exists
  <2>3. settled = rows /\ raced = {}
    BY DEF GatewayInit
  <2>4. RowsInv
    BY <2>2, <2>3 DEF RowsInv
  <2>5. \A r \in Requests : req[r].pc \in {"waiting", "over"}
    BY DEF GatewayInit, Waiting, Over
  <2>6. ASSUME NEW b \in Buckets PROVE CounterInv(b)
    <3> SUFFICES ASSUME Exists(b) PROVE CounterInv(b)
      BY DEF CounterInv
    <3>1. Holding(b) = {} /\ Crediting(b) = {} /\ Settled(b) = {o \in rows : o[1] = b}
      BY <2>3, <2>5 DEF Holding, Crediting, Settled
    <3>2. Cardinality({}) = 0
      BY FS_EmptySet
    <3>3. bucket[b] \in Bucket
      BY <2>2 DEF Exists
    <3>4. bucket[b].used >= 0 /\ bucket[b].held >= 0 /\ bucket[b].count >= 0
      BY <3>3 DEF Bucket
    <3>5. Cardinality(Settled(b)) + 0 = Cardinality(Settled(b))
      BY <2>4, LedgerSets
    <3>6. bucket[b].count >= Cardinality(Settled(b)) + Cardinality(Crediting(b))
      BY <2>2, <3>1, <3>2, <3>5
    <3>7. QED
      BY <3>1, <3>2, <3>4, <3>6 DEF CounterInv
  <2>7. \A c \in Calls : call[c].op = "none"
    BY DEF GatewayInit, Idle, Ended
  <2>8. QED
    BY <2>3, <2>4, <2>6, <2>7 DEF CoverInv, LedgerInv, RemovalCall, At
<1>2. PolicyInv /\ TypedInv /\ CoverInv /\ [GatewayNext]_gvars => CoverInv'
  <2> SUFFICES ASSUME PolicyInv, TypedInv, CoverInv, [GatewayNext]_gvars PROVE CoverInv'
    OBVIOUS
  <2> KeyInv /\ BucketInv /\ ReqsInv /\ LedgerInv /\ \A c \in Calls : RemovalCall(c)
    BY DEF PolicyInv, PlaneInv, CoverInv
  <2>1. CASE GatewayNext
    BY <2>1, NextLedger, NextRemoval DEF CoverInv, TypedInv
  <2>2. CASE UNCHANGED gvars
    <3>1. RowsInv' /\ \A b \in Buckets : CounterInv(b)'
      BY <2>2 DEF gvars, LedgerInv, RowsInv, CounterInv, Exists, Settled, Holding, Crediting
    <3>2. \A c \in Calls : RemovalCall(c)'
      BY <2>2 DEF gvars, RemovalCall, At
    <3>3. QED
      BY <2>2, <3>1, <3>2 DEF gvars, CoverInv, LedgerInv
  <2>3. QED
    BY <2>1, <2>2
<1>3. QED
  BY <1>1, <1>2, RequestsHeld, GatewayPlaced, PTL DEF GatewaySpec

\* So a bucket's counters cover what is in it and under way.
THEOREM CountersTheorem == GatewaySpec => []CountersCovered
<1>1. CoverInv => CountersCovered
  BY DEF CoverInv, LedgerInv, CounterInv, CountersCovered
<1>2. QED
  BY <1>1, CountersHeld, PTL

LEMMA NoMore ==
  ASSUME NEW n \in Int, ~(n > 0)
  PROVE  n <= 0
OBVIOUS

\* A bucket that is removed takes no object with it that was accounted for when
\* the removal looked, unless a delete has taken one from it too early
\* (controllers/buckets.rs, destroy, which goes by object_count).
THEOREM RemovalTheorem == GatewaySpec => RemovalTakesOnlyInFlight
<1>1. PolicyInv /\ CoverInv /\ [GatewayNext]_gvars =>
        [\A c \in Calls :
           (At(c, "remove bucket", "drop") /\ call'[c].pc = "ended") =>
             (rows \ rows') \cap call[c].seen = {} \/ call[c].on \in raced]_<<call, bucket, rows>>
  <2> SUFFICES ASSUME PolicyInv, CoverInv, [GatewayNext]_gvars, ~UNCHANGED <<call, bucket, rows>>,
                      NEW c \in Calls, At(c, "remove bucket", "drop"), call'[c].pc = "ended"
               PROVE  (rows \ rows') \cap call[c].seen = {} \/ call[c].on \in raced
    OBVIOUS
  <2>1. GatewayNext /\ KeyInv /\ BucketInv /\ RemovalCall(c) /\ CallsShaped
    BY DEF gvars, PolicyInv, PlaneInv, CoverInv, KeyInv
  <2>2. call'[c] # call[c]
    BY DEF At
  <2>3. PICK d \in Calls : ConsoleStep(d)
    BY <2>1, <2>2, OthersLeaveAnchors
  <2>4. d = c
    BY <2>1, <2>2, <2>3, ConsoleAlone DEF Alone
  <2>5. RemoveBucketDrop(c)
    BY <2>3, <2>4, RemovalStep
  <2>6. /\ call[c].row \in BucketRow
        /\ call[c].row.count <= 0 => call[c].seen = {} \/ call[c].on \in raced
    BY <2>1 DEF RemovalCall
  <2>7. call[c].row.count \in Int
    BY <2>6 DEF BucketRow
  <2>8. CASE call[c].row.count > 0
    BY <2>5, <2>8 DEF RemoveBucketDrop, Remove, RowsOf
  <2>9. CASE ~(call[c].row.count > 0)
    <3>1. call[c].row.count <= 0
      BY <2>7, <2>9, NoMore
    <3>2. QED
      BY <2>6, <3>1
  <2>10. QED
    BY <2>8, <2>9
<1>2. QED
  BY <1>1, RequestsHeld, CountersHeld, PTL DEF GatewaySpec, RemovalTakesOnlyInFlight

\* Every row, call and request is of its type: no counter of a bucket goes below
\* nothing, no object row is left of a bucket that is gone, and no answer is
\* without its status.
THEOREM GatewayTyped == GatewaySpec => []GatewayTypeOK
<1>1. PolicyInv /\ TypedInv /\ CoverInv => GatewayTypeOK
  <2> SUFFICES ASSUME PolicyInv, TypedInv, CoverInv PROVE GatewayTypeOK
    OBVIOUS
  <2>1. /\ \A u \in Users : user[u] \in Account \cup {None, Gone}
        /\ \A k \in Keys : key[k] \in Key \cup {None, Gone}
    BY DEF PolicyInv, PlaneInv, UserRows, KeyInv, KeyRows0
  <2>2. /\ \A c \in Calls : CallType(call[c])
        /\ \A p \in Pools : pool[p] \in {None, Gone, "bare", "ready"}
        /\ clock \in 0..MaxClock
        /\ \A r \in Requests : RequestType(req[r])
        /\ \A e \in audit.queue \cup audit.rows : e.request \in Requests
    BY DEF TypedInv, CallTyped, PoolRows, Placed, AuditInv
  <2>3. ASSUME NEW b \in Buckets PROVE bucket[b] \in Bucket \cup {None, Gone}
    BY DEF PolicyInv, BucketInv, BucketRows0, CoverInv, LedgerInv, CounterInv, Exists, Bucket
  <2>4. /\ rows \subseteq {b \in Buckets : Exists(b)} \X Names /\ settled \subseteq rows
        /\ raced \subseteq Buckets
    BY DEF CoverInv, LedgerInv, RowsInv
  <2>5. QED
    BY <2>1, <2>2, <2>3, <2>4 DEF GatewayTypeOK
<1>2. QED
  BY <1>1, RequestsHeld, GatewayPlaced, CountersHeld, PTL
=============================================================================
