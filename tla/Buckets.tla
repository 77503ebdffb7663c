------------------------------ MODULE Buckets ------------------------------
(***************************************************************************)
(* Pools and buckets as the console manages them (controllers/buckets.rs,  *)
(* controllers/admin_pools.rs, models/buckets.rs, models/pools.rs), and    *)
(* what removing an account takes with it.  An object is one byte.         *)
(***************************************************************************)
EXTENDS Accounts

CONSTANTS
  Pools,     \* pool rows
  Buckets,   \* bucket rows
  NameOf,    \* the name a bucket row has: rows may share one
  Names,     \* object keys
  Limits,    \* the max_bytes the console sets; 0 is no limit
  PoolKey    \* whether pool_id is a foreign key: not on SQLite

ASSUME BucketsAssumption == None \notin Buckets
ASSUME NameOfAssumption == DOMAIN NameOf = Buckets
ASSUME LimitsAssumption == Limits \subseteq Nat
ASSUME PoolKeyAssumption == PoolKey \in BOOLEAN
ASSUME PoolRowsAssumption == {"bare", "ready"} \cap {None, Gone} = {}

VARIABLES
  pool,      \* the rows of pools: "bare" without credentials, or "ready"
  bucket,    \* the rows of buckets
  rows,      \* the rows of objects, as <<bucket, name>>
  settled    \* history: the object rows whose bytes have been accounted for

\* A row; an owner of None is a bucket of the system.
BucketRow == [owner : Users \cup {None}, pool : Pools, max : Limits,
              used : Int, held : Int, count : Int]

\* One whose counters have not gone below nothing.
Bucket == {row \in BucketRow : row.used >= 0 /\ row.held >= 0 /\ row.count >= 0}

ASSUME BucketAssumption == None \notin BucketRow /\ Gone \notin BucketRow

Exists(b) == bucket[b] \notin {None, Gone}
Owned(u) == {b \in Buckets : Exists(b) /\ bucket[b].owner = u}
Using(p) == {b \in Buckets : Exists(b) /\ bucket[b].pool = p}
RowsOf(bs) == {o \in rows : o[1] \in bs}
HasPool(p) == pool[p] \notin {None, Gone}

\* The bucket a user means by a name.
Found(u, name) == {b \in Owned(u) : NameOf[b] = name}

\* Rows that an uncommitted delete_with_owned_data has deleted: others wait.
Locked(b) == \E c \in Calls : At(c, "remove user", "drop") /\ b \in call[c].arg.taken

\* DELETE of bucket rows: the object rows go with them.
Remove(bs) ==
  /\ bucket' = [b \in Buckets |-> IF b \in bs THEN Gone ELSE bucket[b]]
  /\ rows' = rows \ RowsOf(bs)
  /\ settled' = settled \ RowsOf(bs)

Console == <<user, pool, bucket, rows, settled>>

----------------------------------------------------------------------------
(* admin_pools.rs *)

BeginPool(c, me, op, pc, p) ==
  Begin(c, AdminCaller(me), op, pc, me, p, None) /\ UNCHANGED <<pool, bucket, rows, settled>>

\* create: with credentials or without.
CreatePool(c, me) == BeginPool(c, me, "create pool", "insert", None)

CreatePoolInsert(c) ==
  /\ At(c, "create pool", "insert")
  /\ \E p \in Pools, state \in {"bare", "ready"} :
       pool[p] = None /\ pool' = [pool EXCEPT ![p] = state]
  /\ End(c)
  /\ UNCHANGED <<user, bucket, rows, settled>>

LoadPool(c, op, pc) ==
  /\ At(c, op, "load")
  /\ IF HasPool(call[c].on) THEN Advance(c, pc) ELSE End(c)
  /\ UNCHANGED Console

\* update_config: a submitted field replaces the stored one, an absent one keeps
\* it, so credentials never go away.
ConfigurePool(c, me, p) == BeginPool(c, me, "configure pool", "load", p)

\* update_config: with both credentials now in the row the pool is ready; an update that
\* brings none, or finds the row gone, leaves it as it was.
ConfigurePoolWrite(c) ==
  /\ At(c, "configure pool", "write")
  /\ \/ HasPool(call[c].on) /\ pool' = [pool EXCEPT ![call[c].on] = "ready"]
     \/ UNCHANGED pool
  /\ End(c)
  /\ UNCHANGED <<user, bucket, rows, settled>>

RemovePool(c, me, p) == BeginPool(c, me, "remove pool", "load", p)

\* count_for_pool
CountForPool(c) ==
  /\ At(c, "remove pool", "count")
  /\ IF Using(call[c].on) # {}
       THEN End(c)
       ELSE call' = [call EXCEPT ![c].pc = "drop", ![c].seen = {}]
  /\ UNCHANGED Console

DropPool(c) ==
  /\ At(c, "remove pool", "drop")
  /\ pool' = IF PoolKey /\ Using(call[c].on) # {} THEN pool
             ELSE [pool EXCEPT ![call[c].on] = Gone]
  /\ End(c)
  /\ UNCHANGED <<user, bucket, rows, settled>>

----------------------------------------------------------------------------
(* buckets.rs *)

BeginBucket(c, me, op, pc, on, arg) ==
  Begin(c, Caller(me), op, pc, me, on, arg) /\ UNCHANGED <<pool, bucket, rows, settled>>

CreateBucket(c, me, p, name) == BeginBucket(c, me, "create bucket", "find", p, name)

\* The pool is looked up by the handler and once more by Model::create.
FindPool(c, from, to) ==
  /\ At(c, "create bucket", from)
  /\ IF HasPool(call[c].on)
       THEN call' = [call EXCEPT ![c].pc = to, ![c].seen = TRUE]
       ELSE End(c)
  /\ UNCHANGED Console

\* The INSERT: a name is unique among an owner's buckets, the owner is a foreign
\* key, and so is the pool where PoolKey holds.
CreateBucketInsert(c) ==
  LET me == call[c].me
      p == call[c].on
  IN
  /\ At(c, "create bucket", "insert")
  /\ \E b \in Buckets, max \in Limits :
       /\ bucket[b] = None /\ NameOf[b] = call[c].arg
       /\ bucket' = IF Present(me) /\ (PoolKey => HasPool(p)) /\ Found(me, NameOf[b]) = {}
                      THEN [bucket EXCEPT ![b] = [owner |-> me, pool |-> p, max |-> max,
                                                  used |-> 0, held |-> 0, count |-> 0]]
                      ELSE bucket
  /\ End(c)
  /\ UNCHANGED <<user, pool, rows, settled>>

\* load: find_by_pid_for_user.
LoadBucket(c, op, pc) ==
  /\ At(c, op, "load")
  /\ IF call[c].on \in Owned(call[c].me)
       THEN call' = [call EXCEPT ![c].pc = pc, ![c].row = bucket[call[c].on],
                                 ![c].seen = RowsOf({call[c].on}) \cap settled]
       ELSE End(c)
  /\ UNCHANGED Console

SetLimit(c, me, b, max) == BeginBucket(c, me, "set limit", "load", b, max)

\* The new limit is compared with used_bytes of the row as it was loaded.
SetLimitWrite(c) ==
  /\ At(c, "set limit", "write")
  /\ ~Locked(call[c].on)
  /\ bucket' = IF Exists(call[c].on) /\ (call[c].arg # 0 => call[c].arg >= call[c].row.used)
                 THEN [bucket EXCEPT ![call[c].on].max = call[c].arg]
                 ELSE bucket
  /\ End(c)
  /\ UNCHANGED <<user, pool, rows, settled>>

RemoveBucket(c, me, b) == BeginBucket(c, me, "remove bucket", "load", b, None)

\* Mutant of RemoveBucketDrop: the bucket may hold objects.
RemoveBucketDropFull(c) ==
  /\ At(c, "remove bucket", "drop")
  /\ ~Locked(call[c].on)
  /\ Remove({call[c].on} \cap {b \in Buckets : Exists(b)})
  /\ End(c)
  /\ UNCHANGED <<user, pool>>

\* object_count of the row as it was loaded decides.
RemoveBucketDrop(c) ==
  /\ At(c, "remove bucket", "drop")
  /\ ~Locked(call[c].on)
  /\ Remove(IF call[c].row.count > 0 THEN {} ELSE {call[c].on} \cap {b \in Buckets : Exists(b)})
  /\ End(c)
  /\ UNCHANGED <<user, pool>>

----------------------------------------------------------------------------
(* delete_with_owned_data: one transaction of two statements. *)

\* Mutant of TakeBuckets: the account goes without its buckets.
TakeNoBuckets(c) ==
  /\ At(c, "remove user", "take")
  /\ call' = [call EXCEPT ![c].pc = "drop", ![c].arg = [taken |-> {}, there |-> Owned(call[c].on)]]
  /\ UNCHANGED Console

\* The first deletes the buckets there are (taken); there is history.
TakeBuckets(c) ==
  /\ At(c, "remove user", "take")
  /\ \A b \in Owned(call[c].on) : ~Locked(b)
  /\ call' = [call EXCEPT ![c].pc = "drop",
                ![c].arg = [taken |-> Owned(call[c].on), there |-> Owned(call[c].on)]]
  /\ UNCHANGED Console

\* Mutant of CascadeBuckets: no foreign key takes the object rows.
CascadeNoRows(c) ==
  LET taken == call[c].arg.taken
      left == Owned(call[c].on) \ taken
  IN
  /\ bucket' = [b \in Buckets |->
       IF b \in taken THEN Gone
       ELSE IF b \in left THEN [bucket[b] EXCEPT !.owner = None] ELSE bucket[b]]
  /\ UNCHANGED <<pool, rows, settled>>

\* The second deletes the account, and the foreign key leaves a bucket that has
\* come in between without an owner.  (Two such buckets of one name would break
\* the index on owner and name and fail the deletion; here it goes through.)
CascadeBuckets(c) ==
  LET taken == call[c].arg.taken
      left == Owned(call[c].on) \ taken
  IN
  /\ bucket' = [b \in Buckets |->
       IF b \in taken THEN Gone
       ELSE IF b \in left THEN [bucket[b] EXCEPT !.owner = None] ELSE bucket[b]]
  /\ rows' = rows \ RowsOf(taken)
  /\ settled' = settled \ RowsOf(taken)
  /\ UNCHANGED pool

----------------------------------------------------------------------------

\* The calls on pools and buckets.
BucketStep(c) ==
  \/ \E me \in Users : CreatePool(c, me)
  \/ \E me \in Users, p \in Pools : ConfigurePool(c, me, p) \/ RemovePool(c, me, p)
  \/ CreatePoolInsert(c)
  \/ LoadPool(c, "configure pool", "write") \/ ConfigurePoolWrite(c)
  \/ LoadPool(c, "remove pool", "count") \/ CountForPool(c) \/ DropPool(c)
  \/ \E me \in Users, p \in Pools, b \in Buckets : CreateBucket(c, me, p, NameOf[b])
  \/ FindPool(c, "find", "find again") \/ FindPool(c, "find again", "insert")
  \/ CreateBucketInsert(c)
  \/ \E me \in Users, b \in Buckets, max \in Limits : SetLimit(c, me, b, max)
  \/ LoadBucket(c, "set limit", "write") \/ SetLimitWrite(c)
  \/ \E me \in Users, b \in Buckets : RemoveBucket(c, me, b)
  \/ LoadBucket(c, "remove bucket", "drop") \/ RemoveBucketDrop(c)
  \/ TakeBuckets(c)

----------------------------------------------------------------------------
(* Properties. *)

\* A bucket without an owner or without a pool comes only of a race: it was
\* made between the two statements that remove its owner, or the pool went
\* between its maker's look at the pool and the insert.
Unanchored == {b \in Buckets : Exists(b) /\ (bucket[b].owner = None \/ ~HasPool(bucket[b].pool))}

UnanchoredOnlyByRace ==
  [][\A b \in Unanchored' \ Unanchored : \E c \in Calls :
       \/ At(c, "remove user", "drop") /\ b \notin call[c].arg.there
       \/ At(c, "remove pool", "drop") /\ call[c].seen # Using(call[c].on)
       \/ At(c, "create bucket", "insert") /\ call[c].seen = TRUE /\ ~HasPool(call[c].on)]_<<call, bucket, pool>>
=============================================================================
