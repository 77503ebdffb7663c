# object-storage-gate: specification and proofs

object-storage-gate is an S3 gateway: it authenticates S3 requests, charges them
against per-bucket and per-account quotas kept in a SQL database, and proxies them
to a store (S3, R2, MinIO). The hard part is that one write touches three things
that share no transaction: the quota counters, the object row and the store. There
is no lock anywhere; every counter changes by one guarded `UPDATE`, and handlers,
background tasks and dying processes interleave between any two of them.

Around that core is a console: people change accounts, pools, buckets and access keys while
requests signed with those keys are under way, again with no lock, one statement at a time.

These modules model both a statement at a time. Line references are to `src/src/`.

## Inventory

| Component | Source | State | Operations | Hard behaviour | What makes it correct |
|---|---|---|---|---|---|
| Quota engine | `models/quota.rs` | `max/used/reserved_bytes`, `object_count` of bucket rows, the same bytes of user rows | `reserve`, `release`, `commit`, `settle`, `account_for_delete`, `held`, `reconcile` | two rows per operation, no transaction; guards that fail silently | counters never negative; limits hold in every interleaving; holds are balanced |
| Object verbs | `controllers/s3/object.rs`, `copy.rs`, `models/objects.rs` | object rows; blobs in the store; a `PendingPut` in the handler | put, copy, delete, batch delete, get, head | row read before the upload and used after it; crash between reserve and commit; lost answers; upsert races | rows, store and counters agree; answers are true; holds come back |
| Multipart | `controllers/s3/multipart.rs`, `copy.rs`, `models/multipart_uploads.rs` | upload rows with `reserved_bytes`; parts in the store | create, part, part copy, complete, abort, lists | parallel parts on one row; several requests ending one upload; the hold changes hands | what parts reserved is given back or committed once |
| Reconcile task | `tasks/reconcile_quota.rs`, `quota::reconcile` | one transaction | recompute every counter, clear every hold | reads that live requests overtake; clears live holds | drift is repaired |
| Multipart cleanup task | `tasks/cleanup_multipart.rs` | none | abort uploads older than N days | the store and the row disagree about what is open | abandoned uploads go away |
| Upstream client | `s3/upstream.rs` | connection pool | one signed exchange | no timeout on streamed bodies; answers lost; 200 with an error inside | – |
| Bucket management | `controllers/buckets.rs`, `models/buckets.rs` | bucket rows | create, update, destroy | checks on rows read earlier, beside uploads in flight | a removal takes no accounted object with it |
| Pools | `models/pools.rs`, `controllers/admin_pools.rs` | pool rows | create, update, destroy | count then delete | no bucket points at a deleted pool but by a race |
| Listing | `controllers/s3/listing.rs`, `objects.rs` `list_page` | none | paginated listing with roll-up | page boundary inside a group; writes between pages | every key shown once, in order, and paging ends |
| Request resolution | `s3/request.rs`, `s3/sigv4.rs` | none | authenticate, locate, authorise, rewrite | six reads, the policy changing between them; two ends of a copy; windows of a signature | what is served was allowed; what is authenticated was signed |
| Routing | `controllers/s3/mod.rs` | none | tell S3 from the console, dispatch | 22 routes told apart by method, level and parameters | the action checked is that of the operation performed |
| Access keys | `models/access_keys.rs`, `controllers/api.rs` | keys, permissions, prefixes | create, update, rotate, revoke | rotate beside revoke; partial updates; no prefix means all | revoked stays revoked; a confined key stays confined |
| Users, admin | `models/users.rs`, `controllers/admin.rs`, `auth.rs` | user rows | first setup, create, update, delete, passwords | last admin, first admin, concurrent password changes | there is always an admin |
| Audit | `models/audit_logs.rs`, `workers/audit.rs`, `tasks/cleanup_audit.rs` | append-only rows | enqueue, insert, prune | queue failures are dropped; the key is looked up again after the answer | – |
| Rate limit | `initializers/rate_limit.rs` | library | – | integer rounding | – |
| XML, crypto, views, migrations, console | | none of their own | | formatting and cryptography | – |

How they interact: a handler resolves its request (a read per statement, of rows the console
may be changing), calls
`objects::begin_put` or `quota::reserve`, talks to the store, writes the object or upload
row, and calls `quota::commit`, `settle` or `release`. Deletes tell the store first, then
remove the row, then credit. The two tasks run in their own processes on the same database.
The handlers share nothing in memory: all interaction is through rows and the store.

## Modules

```
Quota  <-  Objects  <-  Reconcile
  ^           ^             ^
  |           |             |
  |           |      Accounting_proofs -> Quota_proofs, Sums
  |           |
  |           `--- Multipart <- Multipart_proofs <- Coverage_proofs
  |                                   `-> Quota_proofs, Sums
Quota_proofs
MCQuota  MCObjects, MCContention  MCReconcile  MCMultipart   (TLC instances)

Paths <- Listing <- MCListing, Listing_proofs

Rows <- Accounts <- Buckets ---------.
  ^        ^------- AccessKeys -------+- Gateway <- MCPlane
  `----- Routing <- SigV4 -----------'      ^
                       |                Console_proofs <- Gateway_proofs
        AccessKeys --INSTANCE--> KeyLife
```

**Quota** (`models/quota.rs`). `bucket` and `account` are the quota columns, `live` the
bucket rows that exist, `call` the procedure each request is in the middle of. One action is
one SQL statement: `Reserve`/`ReserveUser`/`Unreserve` are the three statements of
`reserve`, `Commit`/`CommitUser` the two of `commit`, and so on. The guards of the
`UPDATE`s are `HasRoom`, `Unhold`, `Spend`, `Adjust`, `CommitColumns`, `SettleColumns`,
`CreditColumns`: when one fails the row keeps its value and, as in the code, nobody notices
(only `reserve` looks at `rows_affected`). `Drop` loses the caller anywhere. `QuotaSpec`
lets anybody call anything in any order; `AdmissionSpec` is the same without the reconcile
task. They are the abstract view of every caller: that Objects implements `AdmissionSpec` is
checked and proved; that Reconcile and Multipart implement them is proved.

**Objects** (`object.rs`, `copy.rs`, `objects.rs`). `row` is the size column of the object
rows, `blob` what the store has, `req` the handler of each request with its `PendingPut`.
The `pc` values name the statement that comes next: `begin`, `reserve`, `admit` (waiting
for `reserve`), `send`, the upsert's `update`/`reread`/`insert`, `account` and `commit`,
`release` and `abort`; `find`, `remove`, `credit`, `credited` for deletes. An exchange
with the store is answered, refused, or applied with its answer lost.

**Reconcile**. The transaction of `quota::reconcile` read by read: the bucket rows
(`RecBegin`), one bucket's object rows at a time (`RecScan`), its update (`RecFix`), the
user rows, their sums and updates, the commit. Rows it has written are locked (`Unlocked`).

**Multipart**. `upload` is the row of each upload, `parts` what the store has of it, `mp`
what a request read of the row when it started. A part's hold moves from its request to the
row in `AddReserved`; abort, the cleanup task and complete use the total they read at the
start. Completion is assemble, head, the same upsert as a put, `commit`, `settle`, drop.

**Paths, Listing** (`listing.rs`, `objects.rs` `list_page`, `access_keys.rs` `prefix_allows`).
Keys are sequences of characters, ordered as bytes, because prefixes, delimiters, the upper bound
of a range and the page's resume point are about their text. `ListPage` is the query with its
lookahead row, `RollUp` the loop that folds rows into common prefixes, stated over the set of rows
it consumes. A listing is a client that sends a query and follows tokens (`Page`); `Write` puts and
deletes between pages.

**Accounts, Buckets, AccessKeys** (`models/users.rs`, `buckets.rs`, `pools.rs`, `access_keys.rs` and
the controllers of the console). A console call is a process: `pc` names its next statement, `row`
and `seen` are what earlier statements read, and are used when they may be out of date. The
extractor's read (`RawCaller`, `Caller`, `AdminCaller`) is the first step of every call, a handler's
own load, count, check and write the next ones. `update_key` applies the parts of its body in order
and stops at the first that fails; `set_permissions`, `set_prefixes` and
`delete_with_owned_data` are read-committed transactions: what their DELETE saw, and their commit.
`CascadeBuckets` and `CascadeKeys` are what the schema's foreign keys do when an account goes.

**KeyLife** is the abstract specification of an access key: issued, disabled and enabled, revoked
for good, gone with its account. That AccessKeys implements it (`LifeOf` is the mapping) is checked
and proved.

**Routing, SigV4** are the pure part of a request: `IsS3Request`, the dispatch as a table
whose first fitting row counts, `CanonicalRequest` and the order of `verify`'s checks.
A wire carries the request its client signed (`meant`, with the form it was signed for and a link's
lifetime), which may not be the one that arrives: its query, the moment it was signed at or the form may have
changed on the way. `InTime` chooses its rule, as `verify` does, by the form that arrives;
`AuthenticatedAsSigned` judges by the one that was signed.

**Gateway** composes them. An S3 request is a process of one statement per step: `Arrive`,
`Authenticate`, `ReadOwner`, `ReadBucket`, `ReadPool`, `ReadAction`, `ReadScope`, the same reads for
the source of a copy, `DecideKey` for each key of a batch, then what the operation does to object
rows and bucket counters, and `RecordAudit`. `resolve_bucket_only` reads in another order, and so
does the model. `past` is history: what a request's key was allowed at any moment since the request
arrived; `settled` (the object rows whose bytes have been accounted for) and `raced` (the buckets that lost a row
before it was) are history too. `GatewayNext` is any of: a console call's step, a request's step, the audit worker, time.

### Abstractions

* Data: in Quota to Multipart an object is a bucket and a key; content is a size. There,
  requests are resolved already.
* In Quota to Multipart the bucket always has an owner and users are not deleted; there is one pool;
  limits do not change. A delete of a bucket row is an action of Quota only. Gateway has all
  of these, and in turn a store that answers well, objects of one byte, and the bucket's counters only.
* In Gateway a prefix is the set of object keys it authorises (its text is in Paths); an id,
  once deleted, is not used again (`Gone`); an account's id stands for its email;
  validation of names, labels and passwords is left out but for the label `update_key` refuses half
  way. Multipart operations end where they are resolved.
* A signature is an injective function of what is signed and of the secret: hashes do not collide.
* The policy writes of a key are at READ COMMITTED. On SQLite they are serial: fewer behaviours.
  Two accounts with orphaned buckets of one name would clash on the index over owner and name;
  `CascadeBuckets` lets the deletion through: more behaviours.
* `find_by_id` at the head of `reserve` is one step with its first `UPDATE`: if the bucket
  goes in between, the update changes no row and the refusal is the same. In `release` and
  `commit` the caller has the row's id already, so their first step is the `UPDATE` itself.
* The store applies a request before it answers or never: a write that takes effect after
  its caller gave up is modelled at the moment of giving up (`AnswerLost`), not later.
* A refused delete changes nothing, so it is no step; a copy whose source has no row ends
  in an error before any step. Keys in a batch are distinct and handled in any order.
* The cleanup task is a request slot performing `StartAbort`, whatever the upload's age.
* The store never answers 200 for something it did not do, except per key in a batch.
* The store's answer to a HEAD has the object's length. `complete_inner` takes 0 where it is missing
  (`multipart.rs:247`), so that a store that leaves it out would have objects of no size; that is not modelled.
* The reconcile transaction is at READ COMMITTED, PostgreSQL's default. On MySQL
  (REPEATABLE READ) and SQLite (one writer) its reads are of one snapshot: fewer behaviours.
* SQL integers are 64 bit and sizes are `Content-Length`s; overflow would need sums above
  2^63 and is not modelled.

Two constants say what clients do, and every run says which it takes. `SerialKeys`: clients
wait for one write of a key to end before the next, and for an upload's parts before they
end it. `FreshKeys`: uploads are completed onto keys that have no object. `MaxFaults` bounds
the injected crashes, lost answers and failed statements. `CountCap` bounds the objects
counted in a bucket where two writers of one key could otherwise count without end.

## Runs

| Run | Instance | Shows |
|---|---|---|
| `quota` | 1 bucket (limit 3) of 1 account (limit 2), 2 requests, amounts 1 and 3, settles of -1 and 0 | no counter is ever negative; no statement of a request raises a load above its limit, even after a reconcile wrote down more than the limit |
| `objects` | 2 requests, 2 keys, sizes 0 and 2, bucket limit 4, account limit 3, one fault, serial keys | limits; holds and charges exact step by step; the store within what is admitted; rows match the store; answers are true; the handlers implement `AdmissionSpec` |
| `contention` | 2 requests on 1 key, sizes 0 and 1, no fault, overlapping | limits and holds survive every race on a key; handlers end |
| `reconcile` | 1 request, 1 key, the task over and over, one fault | counters never negative; drift is repaired for good once clients stop |
| `multipart` | 1 upload of 2 parts, 2 requests, part size 1, one fault, serial and fresh keys | holds of uploads exact; a hold never given back while the store has the parts; objects and parts covered by the counters of buckets and accounts; no row over its limit, though a complete settles unchecked; charges exact at rest |
| `listing` | 6 keys (a folder marker, a key in it, a key like it, a name that is both key and folder), 3 prefixes, 3 scopes, delimiter or none, max-keys 0, 2 or none, limit 3, start-after anything, one write | keys once and in order; no page skips; flat listings complete; a scoped key sees only what its scope authorises, but where it asks for just a scope prefix with no slash at its end; paging ends |
| `plane` | any 2 of 2 console calls and 2 S3 requests, over an empty installation or 2 admins, one with a pool, a bucket, an object and a confined key; 3 users, 2 pools, 2 buckets of one name, 2 keys, 20 wires, a clock of 3 moments | types; what is served is within policy; authenticated as signed; a bucket's counters cover what is in it and under way; revoked stays revoked; heirs keep their policy; confined stays confined; last admin, anchors and accounted objects lost only to the named races |
| `rollup` (violation) | as `listing`, no write, max-keys 2 or none | a listing says it is complete and is not |
| `overwrite` (violation) | 2 overlapping PUTs of 1 new key, of size 1, no limits, no other verbs (`PutsOnly`), no fault | both are charged and counted as new: one row, two objects in the counters |
| `recharge` (violation) | the task beside 1 upload of size 1, no fault | the upload's commit finds no hold on its bucket's row and changes nothing there: the bucket's counters miss an acknowledged object |
| `rewrite` (violation) | 1 request, upload completed over an object, no fault | an object counted twice, its old size still charged |
| `sweep` (violation) | 1 request, fair store and task | an upload the store no longer knows is never cleaned up |

Why these bounds are enough for the cases that matter. The two rows a procedure touches are
one bucket and its owner, so one of each shows every order of statements; the account's
limit is the lower one, so that the bucket can admit what the account refuses and the
compensation in `reserve` runs. Two requests are the smallest number that race, and the
hazards listed are between two actors; types, signs, limits, the refinement, holds, charges, rows and
answers are proved for any number. Sizes include 0 (no reservation, a settle of 0) and a size that is shrunk and
grown (`overwrite` and `recharge` leave 0 out, so that their counterexamples are of bytes, and the first has
no verb but put, so that it is of two writes); with limits of 3 and 4 two objects of size 2 fill the bucket's limit and pass the
account's. Two keys let a copy have a source of its own and a batch have two entries. Two
parts can be sent in parallel, twice, or left out of the final list. One fault puts a crash
or a lost answer at every step; a second would only repeat the first elsewhere. The invariants
that claim exactness are conditional on `faults = 0` (a crash does leave a dead hold: that is
what the reconcile task is for) and the same runs check the parts of them that must survive a
fault: a request in flight always finds its hold (`HoldsAccounted`), an open upload's hold
stays (`OpenHoldsKept`), answers stay true (`AnswersTrue`).

In `listing`, limit 3 over six keys puts a page's end before, inside and after a group, and max-keys
0 shows why it is clamped; the lookahead row, the folder marker (a key equal to its prefix) and the
name that is both key and folder are the places where order and grouping disagree. In `plane` every
property is about two actors, and `MaxMade` = 2 takes every pair of calls and requests, of one
kind or of both; each is at any of its statements while the other runs. The tenant's key is
confined to two of four names (one of them invalid), its bucket has room for one more object, its
limit can be set to 0, 1 and 2, and the second bucket row bears the same name, so that a bucket can
go and come back. `PoolKey` is FALSE, SQLite's schema, which has more behaviours. What needs three
actors is left to the proofs, which hold for any number: the exception in `RemovalTakesOnlyInFlight`, an upload and a
delete of one object before a removal, takes three. A signature's window is 1, so that the
three moments of the clock are before, at and after its edge. Symmetry over calls and requests
is sound: they are only compared, no property of the run is a liveness property, and the prefix rows
that name a call are renamed with it.

Deadlock is checked in every run but `plane`: an idle request slot can always start a delete, and a
listing that is over stutters. In `plane` each call and request is made once, so the system stops.

### Fairness

`ObjectsSpec` assumes that the runtime polls a future whose database statement has been
answered, and that the database answers: weak fairness of `Proceed`, per request. A copy's
exchange carries a timeout (`upstream.rs:276`), so it ends: weak fairness of `SendCopy`. A
streamed put has none, and no fairness is assumed of it: `HandlersEnd` promises an end from
the store's answer on, and from the start for every other verb. `Reconcile` adds weak
fairness of the task's steps ("Run it on a schedule", `reconcile_quota.rs:3`) and makes the
handlers' fairness conditional on the row locks the task holds. Nothing makes clients start
requests, so `<>[]Quiet` is satisfiable. `ListingSpec` assumes only that a client that was given a
token asks for the next page (weak fairness of `Page`), without which `PagingEnds` says nothing of
the code. Gateway has safety properties only. `SweepSpec` is deliberately stronger than the code
deserves (every client finishes, the task comes back to each upload for ever, the store
finally obeys an abort of an upload it knows), so that its counterexample is not a lack of
patience.

### Mutants

Every property of a passing run has a mutant: a definition beside the one it replaces, named
in its comment, that is the plausible bug the property is there to catch (a dropped guard of
an `UPDATE`, a hold not given back on an error path, a refusal taken for an answer, a lost
update, a body sent before it is reserved, a policy written without its transaction, a query
left out of what is signed, a token at the wrong row). TLC finds the property violated with each.

## Proofs

`Quota_proofs` proves of Quota, for every set of buckets, accounts and requests, every
owner map, every limit and every amount:

* `TypeCorrect`: `QuotaSpec => []QuotaTypeOK`, the base of the others; the `objects` run checks it of the
  handlers, as a part of `ObjectsTypeOK`.
* `CountersNonNegative`: `QuotaSpec => []NonNegative`. Reconciles at any moment included.
* `QuotaRespected`: `Shrinking => (AdmissionSpec => []WithinQuota)`: used plus reserved
  bytes stay within the limit of every bucket and account in every interleaving.
* `RequestsAdmitGrowth`: `Shrinking => (QuotaSpec => GrowthAdmitted)`: even where a reconcile
  has left a row over its limit, no request's statement raises a load to above it.

Assumptions: those on the constants in `Quota` (types; amounts non-negative, as `reserve`
checks and `Content-Length` parsing ensures), and, for the last two, `Shrinking`: no `settle`
is positive. That is what `settle`'s own comment says of its callers and what
`PendingPut::commit` does; `complete_inner` breaks it when the assembled object is larger than
its upload's parts reserved, "not re-checked against the quota" as its comment says. That it is
not larger while nothing is lost is what `MultipartWithinQuota` shows below.
`AdmissionSpec` leaves out reconciles, which may write down more than a limit.

`Accounting_proofs` proves of Objects, for every set of buckets, keys and requests, every size,
any number of faults, and clients that overlap on a key or not:

* `ObjectsTypeCorrect`: `ObjectsSpec => []ObjectsTypeOK`.
* `ObjectsImplementAdmission`: `ObjectsSpec => ImplementsAdmission`, that is `AdmissionSpec`.
  A handler's crash is a `Drop`, its calls are calls of the open protocol, all else stutters.
* `ObjectsWithinQuota` and `ObjectsNonNegative`: what `Quota_proofs` shows of the open protocol
  therefore holds of the handlers.

Their hypothesis `AmountsCovered` ties the open protocol's amounts to the sizes clients send:
every size and every growth is in `Bytes`, every other difference in `Deltas`, and nothing is
counted up to a cap. It is met by `Bytes = Nat` and `Deltas` the non-positive integers whatever
`Sizes` is, and by the instance of the `objects` run, where TLC evaluates it.

The arguments. `NonNegative` is not inductive alone: a procedure's second statement uses the
arguments of its first, so one must know that a request in the middle of `release` has a real
bucket and a non-negative amount. The inductive invariant is `IInv == QuotaTypeOK /\ Arguments`,
where `Arguments` says that of every pending call (in a settle: that its amount is one of
`Deltas`). Lemmas about one row come first (`AccountStatements`, `BucketNonNegative`, ...),
then which of them each action applies to which row (`CallQuotaStep`, `ContinueStep`,
`RequestStep`: every request's step is `TablesStep /\ CallsStep`), then what such a step and a
reconcile keep (`TablesKept`, `RecomputeKept`, `GrowthStep`). Only the last step of each theorem
is temporal.

For these the inductive invariant is `OInv`: `IInv` again, rows and store with sizes
of `Sizes \cup {0}`, and `HandlerOK` of every handler: one at work on an object has one (so the
procedure it calls gets a bucket), a copy has a source, the amount is a growth of `Bytes` or a
difference of `Deltas`, and only a growing write reserves or releases. Each group of actions then
has a lemma (`StartMoves`, `AdmissionMoves`, `SendMoves`, `RowMoves`, `AccountMoves`,
`DeleteMoves`) that gives both what it does to the tables and that it keeps `HandlerOK`.

It also proves, for every finite set of buckets, keys and requests, every size
and any number of faults:

* `ObjectsHoldsAccounted`: `ObjectsSpec => []HoldsAccounted`, clients overlapping on a key or not. A
  request in flight finds its hold on both rows whoever crashes, and while nothing is lost the
  reserved columns are what the requests in flight hold and nothing else.
* `ObjectsRowsMatchStore` and `ObjectsAnswersTrue`: rows and store agree about every object no request
  is at, and a client that is told of a success finds it so, the latter with faults too.
* `ObjectsChargesAccounted` and its corollary `ObjectsChargedAtRest`: used bytes and object counts are
  the object rows less what requests still owe, so exact at rest.
* `ObjectsStoreCovered`: the store has no more than the counters admit; and, with `QuotaRespected`,
  the corollary `ObjectsStoreWithinQuota`: while nothing is lost no bucket and no account ever has
  more in the store than its limit. The corollary is what a user of the gateway is promised, and is
  stated nowhere but here.

All have the hypothesis `AmountsCovered`, as above; all but the first also `SerialKeys`, without which
they are false: the `overwrite` run is the counterexample. The last one has `Shrinking`. The sets are
finite (`FiniteAssumption`), as sums over infinite ones mean nothing.

The arguments. `Sums` is about finite sets only: `MapThenSumSet` takes its elements in an order that
is `CHOOSE`n, so it is first shown to be `Total`, a sum that no order matters to (`ChosenIsTotal`,
by an induction over subsets whose predicate is a set), and then how a total changes when one term does
(`TotalChange`), when one is taken from all, when one sum bounds another. Each sum of a property is
turned into a total over a fixed set, so that a request that comes to a bucket changes a term and not
the set (`BucketHoldsTotal` and its likes).

`HInv` is the invariant for holds: `OInv`, and `CallsOK`: what `call[r]` says of the procedure a request
is in the middle of agrees with what its handler is at, so that a statement that reserves or releases
is by a request that has, from then on, one hold more or one less. A crash loses a hold for good, and
then the equality becomes `>=`, which is what `faults` in `HoldsAccounted` is for.

`KInv` adds, for serial clients, `Apart` (two handlers never touch one key) and `Knows`: what the
handler has read of the row or sent to the store is still so, because nobody else writes there. It
is needed for all that follows: `HoldsAccounted` does not need to know what a row says.

`CInv` adds `ChargesOK`, the charges as an equation between totals that holds at every statement.
`StoreCovered` is no invariant of its own: what a bucket owes beyond what it holds is
borne, object by object, by how much more the row says than the store has (`StoreBorne`,
`TotalBorne`), and an object is at one request at most.

Of Reconcile, the task beside those handlers, it proves:

* `ReconcileImplementsQuota`: `AllAmounts => (Spec => QuotaSpec)`. The transaction reads bucket after
  bucket and account after account, at READ COMMITTED, while requests go on; that it may be taken for
  the one step `Recompute` of the open protocol, and a rollback for nothing at all, is a refinement.
* `ReconcileNonNegative` and `ReconcileAdmitsGrowth`: so what `Quota_proofs` shows of `QuotaSpec` holds with
  the task at work: no counter goes negative when a request releases, commits or credits what
  the task has cleared, and no request takes a row to above its limit.
* `ReconcileRepairs`: `AllAmounts => (Spec => [](Pass("idle") /\ []Quiet => [][RecCommit => Exact']_vars /\ [](Exact => []Exact)))`.
  Once clients have stopped and no pass is under way that began before, every pass that commits
  leaves every counter exact, whatever was lost before, and no later pass, interrupted or not, undoes it. It
  is the safety half of `DriftRepaired`, whose other half, that there is such a pass, is fairness.

`AllAmounts` is `AmountsCovered` with `Bytes = Nat`: the open protocol must admit what the task writes down, which
is sums of sizes. `Bytes` and `Deltas` are parameters of that protocol only; no action of Reconcile mentions
them, so this excludes no behaviour of the task or of a handler.

The arguments. `RInv` is `OInv`, `CallsOK`, `NonNegative` and `PassOK`: what a pass has written so far are totals of
buckets and accounts. A total is a natural number because sizes are, and because what it takes from a row the
pass has not written is not negative, so here `NonNegative` is part of the induction and not its outcome.
`PassFits` says of a pass that began with nobody at work that the rows it read are still the rows, that the totals in hand
are those of the bucket it is at, and that a bucket or account is, when dealt with, either
written correctly or correct as it stands (`BucketDone`, `AccountDone`): skipping a row that agrees is as good as
rewriting it. An account's sum over its buckets, some rewritten and some skipped, is then the sum of their object
rows (`SumsRight`). `PassFits` fails without `Quiet`, as it must: requests overtake the reads.

`Multipart_proofs` proves of Multipart, for every finite set of buckets, keys, uploads, part numbers and
requests, every size and any number of faults:

* `MultipartTyped`: `Spec => []TypeOK`, clients overlapping on a key or not.
* `MultipartHoldsAccounted`: `SerialKeys => (Spec => []UploadHoldsAccounted)`. While nothing is lost the
  reserved columns are what the requests in flight hold, object verbs and parts alike, and what the rows of
  uploads hold until the request that ends one has released or committed it.
* `MultipartHoldsKept`: `SerialKeys => (Spec => []OpenHoldsKept)`. Whatever crashes or gets lost and however
  many requests end one upload at once, an upload whose parts the store still has keeps its hold.

Assumptions: those of Objects, and two on the constants of Multipart: the sets that are summed over are
finite (`UploadsAssumption`), and `Absent`, which stands for no row, is not a row (`AbsentUploadAssumption`).
Nothing is assumed of the amounts, as nothing is claimed here about limits or signs of a counter
(`Coverage_proofs` has those). `SerialKeys` is what makes the two about holds true: a part beside the end of its
upload leaks its hold (see the findings), and `NoPartsOf` and `OpenForParts` say that clients do not do that; any
number of parts, or of requests that end the upload, may be at work together.

The arguments. `FInv` is the types and `PlacedOK`: of every request, that where it is, the procedure it
has called and what it read of its upload stand together, so that the amount a procedure is called with
is what the request has reserved or what the upload's row held. `UploadsApart` says what may be at work on one
upload: the request that creates it, or parts, or requests that end it; for these, that the row has what
they read of it, as no part is there to add to it, and that the store, which forgets the parts once, has let at
most one `Through`. This is why two ends of one upload never release it twice.

`HoldsOK` is the equation, over both levels (bucket and account, one of which a procedure has dealt with
before the other) and of two kinds: "exact", an equality that counts while `faults` is 0, and "low", an inequality
that always does but counts an upload only while the store has its parts or somebody is through. The reserved
column bears the sum of what each request holds and of what is kept for each upload. A step changes
one request's term, and at most one upload's, so there are three ways to go on (`HoldMoves`, `EnderGoes`):
the row follows the request (`RowFollows`), the request and an upload trade (`KeptTraded`: `AddReserved`), or the
request that is through takes from the row what its upload no longer keeps. All other uploads
keep no more than before (`KeptEases`). `Sums` turns this into the change of the totals, and the totals
into the sums of the properties.

`Coverage_proofs` goes on from there:

* `MultipartImplementsAdmission`: `EveryAmount => (Spec => AdmissionSpec)`. Whatever is lost and however clients
  overlap, uploads and object verbs together call quota.rs as the open protocol allows, with `Deltas` all
  integers, as a complete's settle may grow.
* `MultipartNonNegative`: `Spec => []NonNegative`, with no hypothesis at all.
* `MultipartChargedAtRest`: `SerialKeys /\ FreshKeys => (Spec => []ChargedAtRest)`: with no request at work, used bytes
  and object counts are what the object rows add up to.
* `MultipartPartsCovered`, with the same hypotheses: `[]PartsCovered`, of buckets and of accounts.
* `MultipartWithinQuota`, with the same: `[]QuotaKept`; and from the two the corollary
  `MultipartStoreWithinQuota`: while nothing is lost, objects and parts of open uploads together never exceed the
  limit of their bucket or of their account. Like `ObjectsStoreWithinQuota` it is what a user is promised, and no run states it.

Without `SerialKeys` a part that comes beside the end of its upload breaks the three (see the findings), without
`FreshKeys` the `rewrite` run does.

The arguments. `CovInv` is `HInv` (which is that of `Multipart_proofs` here) and, while `faults` is 0, three more parts. `Calm` is what each
request may rely on: no two are at one key (`KeysApart`), what one has read or sent is still so (`Aware`), rows fit the store
(`RowsFit`), an object the store has without a row was assembled of an upload whose row and hold are still there, or a put is
about to make its row (`OrphansKept`), and each part the store has is held, on its upload's row or by the request that
sent it and has not told the row yet (`PartsHeld`). `ChargesOK` is the equation used + owed = rows, at both levels. `AllCalledFor`
says that a settle or a credit under way has the amount its request owes. What a step does is first put as one of a few shapes
(`Shapes`); each part is then kept by shape, not by action.

Coverage is a chain of sums. What is owed beyond what is held is borne, object by object, by how much more its row says than
the store has (`SlackBears`); an assembled object that has no row is borne by the hold of the upload it came from
(`SheltersBorne`); an open upload's parts are borne by its own. `LevelBorne` adds this up, for the buckets of an account as for a bucket alone.

Limits and signs need no sums. Every step changes rows by one statement of quota.rs (`RowsStep`), with what is settled or
credited in a set S: all integers for signs; for limits those that are not positive, which is where `PartsHeld` comes in: a complete's
object is no larger than the parts it read about, and their hold is what it read (`SettlesLess`).

`Console_proofs` and `Gateway_proofs` prove of Gateway, for every set of users, pools,
buckets, keys, calls, requests, wires and initial databases, any number of them made:

* `KeysLiveAsPromised`: `GatewaySpec => LivesAsPromised`, the refinement of KeyLife.
* `HeirsKeepPolicy` and `KeysStayConfined`: a rotation copies the policy it read, and nobody sees a
  confined key without prefixes unless a call asked for none.
* `LastAdminTheorem`: the last admin is lost only to a call that counted, or loaded, what was no
  longer so.
* `ServedTheorem`: `GatewaySpec => []ServedWithinPolicy`.
* `AnchorsLostByRace`: `GatewaySpec => UnanchoredOnlyByRace`, with `pool_id` a foreign key or not.
* `AuthenticTheorem`: `GatewaySpec => AuthenticatedAsSigned`. What the client signed is what is answered, and in time:
  of a header signature within the skew; of a link within its lifetime or, where it arrives in a
  header, within the skew. That alternative is the code's, and a finding.
* `CountersTheorem` and `RemovalTheorem`: `GatewaySpec => []CountersCovered` and
  `GatewaySpec => RemovalTakesOnlyInFlight`: what a removal of a bucket goes by is good enough, whatever
  requests run beside it, but for one race of three (see the findings).
* `GatewayTyped`: `GatewaySpec => []GatewayTypeOK`, which says of a bucket's counters that none goes negative and of
  object rows that none outlives its bucket.

Assumptions: those on the constants (types of the initial rows, a count in each that is no less than its object
rows, which are finitely many; `Users` and `Requests` finite so that admins and requests at work can be
counted; a wire's object keys in `Names`; a route for every wire, `None` and `Gone` not rows, accounts, buckets, states of a pool or answers,
and `SignaturesAssumption`: a signature that is presented was made with some key's secret of some request).

The arguments. What a statement does depends on what earlier ones left in the call's record, so the
invariants are about those records. `KeyInv` (theorem `KeysTyped`): every row and every row a call has
loaded is a key's, and a part that is next in a PATCH is one its body has. `PlaneInv`
(`AdminsCounted`) adds that a call about to take an admin away counted more than one, or
loaded a row that was none's; the theorem is that a count still true at the write leaves somebody.
`PolicyInv` (`RequestsHeld`) adds the request's side: `ReqInv` says, for each place a request can be
at, what it has passed, in terms of `past` (which only grows while it is under way: `PassedStays`)
and of the owner of the buckets it resolved (which never changes but to none: `OwnersStay`). A step
that reads adds what it read, `Covered` being the fact that `past` includes what the key is allowed
now; a step of anybody else takes nothing back. One lemma per action, as in the other proofs.
`AnchorInv` (`AnchorsHeld`) says of the three calls that can part a bucket from its owner or pool what
they hold at their last statement: all the buckets the account had, no bucket counted in the pool, a
pool that was seen. Every other step keeps owners, pools of buckets, and pools (`AnchorsStay`,
`PoolsStay`). `AuthenticTheorem` needs that no statement but `Authenticate` gives a request its key
(`RequestStands`); the rest is that `CanonicalRequest` keeps apart what the property names
(`FaultlessAsMeant`).

`TypedInv` (`GatewayPlaced`) is the type invariant that can be carried: `Placed` says for each place a request can be
at what it has by then (a pool's id at "pool", a bucket from there on, an object key before it writes), which is what
makes the next statement's result of its type. `CoverInv` (`CountersHeld`) is the one for counters: of each bucket that
exists, the two inequalities of `CountersCovered` and signs; of the object rows, that they are of such buckets;
and of a call that removes a bucket (`RemovalCall`), that the count it loaded is no less than the accounted rows it
saw, unless the bucket is in `raced` since. The inequalities are between numbers of requests and of rows, so each
statement that moves a request into or out of `Holding` or `Crediting`, or a row into or out of `Settled`, is a
lemma that a cardinality changes by one as the column does (`ReserveKeepsLedger` to `CreditKeepsLedger`); any other step
only lets them ebb (`Ebbs`, `EbbsKeeps`): no column changes and no set grows. `raced` is why the invariant can be
inductive at all: a delete of a row that is not in `settled` puts its request into `Crediting` with nothing counted for
it. A proof without `raced` fails there, and rightly: it is a behaviour of the code, and a finding.
The guards of `Commit` and `Credit` need no assumption: that a committing request finds its hold follows from the first
inequality.

`Listing_proofs` proves of Listing, for every finite set of keys, every query, scope and limit, and any
writes between pages, that `ListingSpec` implies `[]` of each of its invariants: `ListingTyped`,
`ListingOrdered`, `ListingSkipsNothing`, `FlatListingsComplete` and `ListingsStayInScope`. The
assumptions are those on the constants: keys, prefixes and scopes are texts, sequences of character
numbers, and a bucket's keys are of a finite set (the column has a greatest length).

The arguments. The order of keys is defined by the first place where two texts differ (`Before`), so
it is first shown to be a strict total order on texts (`Before` is transitive because of the
two first differences the lesser counts), and what a prefix and its upper bound cut out of it to be the texts
that start with it (`RangeStarts`). `KeysInOrder` names, for each i, the key with
i - 1 below it: that there is one is a counting argument (the rank is injective into 0..n - 1 and so onto it: `Ranks`,
`Sorted`). `roll_up`'s loop consumes an initial segment of a page's rows (`ConsumedIs`), because the entries
before a row are among those before the next; a row of the segment that is no entry is in the group of an
entry before it (`FirstOfGroup`, by a least element, so no induction is needed). The invariant `LInv` is
the first four properties with what links one page to the next: nothing listed is beyond the token
(`ResumesAfter`), and everything listed was asked for (`UnderPrefix`, `Asked`), which is what makes the fifth follow: below a
prefix that the scope allows, everything is allowed (`ScopeReaches`), unless the prefix is one of the scope's own and ends
in the middle of a path segment (`AsksMidSegment`): there the theorem fails, the code shows more, and it is a finding.

Model-checked only: liveness (`HandlersEnd`, `DriftRepaired`, `PagingEnds`; and that `UploadsSwept` fails), which is
out of the prover's reach. Every invariant and every action property that a passing run checks is also
proved, for any number of everything.

## Findings

The violation runs and what else was met while translating are in `PROJECT.json` under
`findings`. In short: two overlapping PUTs of a new key are both charged and counted as new;
a delete that takes a PUT's row before its commit credits what is not charged yet, and where the credit's guard
drops it the commit charges for a row that is gone;
an upload whose hold a reconcile cleared is not charged by its commit, where `quota.rs:334` says it is; completing a multipart upload over an
existing object counts it twice; an upload the store has forgotten is never cleaned up; a part
that finishes beside an abort leaks its hold; a row whose blob is gone is never removed by
reconcile, contrary to `object.rs:288`; a listing page with a delimiter can end early and say that it
is complete, or repeat a common prefix; a scope prefix without a slash at its end may be listed as it is, and the
rows that come back include names that only begin like it, which the scope does not authorise; the time rule of a signature
is that of the form it arrives in, so a link's signature that arrives in a header is good for the skew and not for the link's lifetime; two overlapping calls can remove the last admin; a delete of an
object before its upload has committed lets a removal take a bucket that is not empty; races with
the removal of a pool (on SQLite) or of an account leave a bucket without one; a key whose account
is removed in the middle of its request loses its prefixes before its scope is checked; the audit log
calls a refused request a failed authentication when its key stopped being usable meanwhile;
`unescape` does not undo `escape` for one text.

## Plan

What is left, in order of what matters most.

1. The store's 200 with an error in the body, for copy and complete; parts beside the end of
   their upload; the cleanup task as a process of its own with the list it read.
2. The reconcile task beside multipart uploads: their holds are what it clears, and the
   `recharge` run shows what becomes of them.
3. One composition of Gateway and Objects: the bucket's removal beside a store that loses answers.

## Not modelled

* **XML** (`s3/xml.rs`): rendering and a scanner for four tags. No state; its one law, that
  `unescape` undoes `escape`, fails by inspection (see the findings).
* **SigV4's text**: percent encoding, sorting, the parsing of the three forms of credentials and the
  HMAC chain are cryptography and formatting that its test vectors cover; the model has what is
  signed, when, and in which order it is checked.
* **Crypto**: encryption of secrets, a library call and a format.
* **Rate limit**: a layer of a library, configured once at start; one integer division.
* **Login, password reset, email verification, API tokens** (`auth.rs`): each checks a token against
  a row and writes that row; mail and JWT are libraries'.
* **Edits of a name or an account's limit** (`admin.rs`): one write of a column nothing in Gateway reads.
* **Audit pruning** (`cleanup_audit.rs`): one DELETE by age.
* **Views, wiring, migrations, console frontend**: serialisation, registration, schema (what the models
  take from it is in the map), and a client of the console's API.
