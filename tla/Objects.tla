------------------------------ MODULE Objects ------------------------------
(***************************************************************************)
(* The object verbs that write: PutObject, CopyObject, DeleteObject and    *)
(* DeleteObjects (src/controllers/s3/object.rs and copy.rs) over the       *)
(* object rows (src/models/objects.rs), the quota counters (Quota) and the *)
(* store behind the gateway.                                               *)
(*                                                                         *)
(* A step is one statement on the database or one exchange with the store; *)
(* what a handler computes between two of them belongs to the first.  A    *)
(* request is a handler slot: it serves one request after another, each    *)
(* authenticated and authorised before it starts (S3Request::resolve).     *)
(***************************************************************************)
EXTENDS Quota, FiniteSetsExt

CONSTANTS
  Keys,        \* logical keys of a bucket
  Sizes,       \* content lengths clients send
  Absent,      \* no row, or nothing stored
  Nowhere,     \* no object
  SerialKeys,  \* clients never touch a key another of their requests is writing
  MaxFaults    \* bound on crashes, lost answers and failed statements

ASSUME FiniteAssumption ==
  IsFiniteSet(Buckets) /\ IsFiniteSet(Keys) /\ IsFiniteSet(Requests)
ASSUME SizesAssumption == Sizes \subseteq Nat
ASSUME AbsentAssumption == Absent \notin Nat
ASSUME NowhereAssumption == Nowhere \notin Buckets \X Keys
ASSUME SerialKeysAssumption == SerialKeys \in BOOLEAN
ASSUME MaxFaultsAssumption == MaxFaults \in Nat

VARIABLES
  row,         \* the size column of each object row, or Absent
  blob,        \* the size of what the store has under each physical key, or Absent
  req,         \* the handler of each request
  faults       \* how many faults have been injected

ovars == <<row, blob, req, faults>>

Object == Buckets \X Keys

BucketOf(o) == o[1]

Stored(x) == IF x = Absent THEN 0 ELSE x

ObjectsOf(b) == {o \in Object : BucketOf(o) = b}

----------------------------------------------------------------------------
(* A handler's state. *)

Resting == {"idle", "ok", "err", "crashed"}

\* What a write is about to do (or, in "admit", "commit" and "abort", which
\* quota procedure it is waiting for).
WritePcs == {"begin", "reserve", "admit", "send", "update", "insert", "reread",
             "account", "commit", "release", "abort"}

DeletePcs == {"find", "remove", "credit", "credited"}

Handler(ops, pcs) ==
  [op : ops, pc : pcs,
   obj : Object \cup {Nowhere},    \* the object written, or the row being deleted
   src : Object \cup {Nowhere},    \* the source of a copy
   size : Nat,                     \* its new size, or the size its row had
   delta : Int,                    \* bytes the write adds: held when positive
   new : {0, 1},                   \* the write adds an object
   again : BOOLEAN,                \* write_row is in its second attempt
   keys : SUBSET Object]           \* what a delete has not yet dealt with

NoHandler == [op |-> "none", pc |-> "idle", obj |-> Nowhere, src |-> Nowhere,
              size |-> 0, delta |-> 0, new |-> 0, again |-> FALSE, keys |-> {}]

ObjectOps == {"none", "put", "copy", "delete", "batch"}

Active(r) == req[r].pc \notin Resting

At(r, pc) == req[r].pc = pc

Goes(r, pc) == req' = [req EXCEPT ![r].pc = pc]

\* A part goes to its upload, not to the object; so does what opens or aborts one.
PartOps == {"part", "partcopy"}
UploadOnlyOps == {"create", "abort"} \cup PartOps

\* The objects a request reads or writes.
Touches(r) ==
  LET written == IF req[r].op \in UploadOnlyOps THEN Nowhere ELSE req[r].obj IN
  req[r].keys \cup ({written, req[r].src} \ {Nowhere})

\* The ops whose handler is a PendingPut's.
WriteOps == {"put", "copy"}

Writing(r) == req[r].op \in WriteOps

\* Whether clients let a new request touch these objects.
Undisturbed(objs) ==
  SerialKeys => \A q \in Requests : Active(q) => Touches(q) \cap objs = {}

Fault == faults < MaxFaults /\ faults' = faults + 1

----------------------------------------------------------------------------
(* The store: an exchange is answered, refused, or its answer is lost.     *)

\* The store applied the request and said so.
Answered(b2) == blob' = b2 /\ UNCHANGED faults

\* The store refused, or could not be reached.
Refused == UNCHANGED <<blob, faults>>

\* The store applied the request and the gateway never learnt of it.
AnswerLost(b2) == blob' = b2 /\ Fault

----------------------------------------------------------------------------
(* PutObject and CopyObject. *)

\* Mutant of BeginPut: what the object had before is not subtracted.
BeginPutAsNew(r, h) ==
  req' = [req EXCEPT ![r] =
    [h EXCEPT !.pc = IF h.size > 0 THEN "reserve" ELSE "send",
              !.delta = h.size,
              !.new = IF row[h.obj] = Absent THEN 1 ELSE 0]]

\* Mutant of BeginPut: only a new object is reserved for.
BeginPutReservingNewOnly(r, h) ==
  LET delta == h.size - Stored(row[h.obj]) IN
  req' = [req EXCEPT ![r] =
    [h EXCEPT !.pc = IF delta > 0 /\ row[h.obj] = Absent THEN "reserve" ELSE "send",
              !.delta = delta,
              !.new = IF row[h.obj] = Absent THEN 1 ELSE 0]]

\* begin_put: the row is read; only a growing write needs a reservation.
BeginPut(r, h) ==
  LET delta == h.size - Stored(row[h.obj]) IN
  req' = [req EXCEPT ![r] =
    [h EXCEPT !.pc = IF delta > 0 THEN "reserve" ELSE "send",
              !.delta = delta,
              !.new = IF row[h.obj] = Absent THEN 1 ELSE 0]]

StartPut(r, o, n) ==
  /\ ~Active(r)
  /\ Countable(BucketOf(o))
  /\ Undisturbed({o})
  /\ BeginPut(r, [NoHandler EXCEPT !.op = "put", !.obj = o, !.size = n])
  /\ UNCHANGED <<row, blob, faults, qvars>>

\* copy_object reads the source's row for its size; without a row there is no copy.
StartCopy(r, s, o) ==
  /\ ~Active(r)
  /\ Countable(BucketOf(o))
  /\ Owner[BucketOf(s)] = Owner[BucketOf(o)]
  /\ Undisturbed({s, o})
  /\ row[s] # Absent
  /\ req' = [req EXCEPT ![r] = [NoHandler EXCEPT
       !.op = "copy", !.pc = "begin", !.obj = o, !.src = s, !.size = row[s]]]
  /\ UNCHANGED <<row, blob, faults, qvars>>

CopyBegin(r) ==
  /\ At(r, "begin")
  /\ BeginPut(r, req[r])
  /\ UNCHANGED <<row, blob, faults, qvars>>

CallReserve(r) ==
  /\ At(r, "reserve")
  /\ Reserve(r, BucketOf(req[r].obj), req[r].delta)
  /\ Goes(r, "admit")
  /\ UNCHANGED <<row, blob, faults>>

\* The quota refused: the client is told, and nothing has left the gateway.
RefuseWrite(r) ==
  /\ At(r, "admit")
  /\ call[r].at = "failed"
  /\ Drop(r)
  /\ Goes(r, "err")
  /\ UNCHANGED <<row, blob, faults>>

\* The write may go to the store: its growth is held, or it does not grow.
Admitted(r) == At(r, "send") \/ (At(r, "admit") /\ call[r].at = "ok")

\* What the store has after the write: the body of a put, or whatever it has
\* under the copy's source now.
AfterWrite(r) ==
  [blob EXCEPT ![req[r].obj] = IF req[r].op = "copy" THEN blob[req[r].src] ELSE req[r].size]

CanStore(r) == req[r].op = "copy" => blob[req[r].src] # Absent

\* Mutant of GiveUp: a failed write keeps its hold.
GiveUpHolding(r) == Goes(r, "err")

\* Where a write that failed goes: its hold comes back first, if it has one.
GiveUp(r) == Goes(r, IF req[r].delta > 0 THEN "release" ELSE "err")

\* Mutant of SendWrite: the store's refusal is taken for an answer.
SendWriteUnchecked(r) ==
  /\ Writing(r) /\ Admitted(r)
  /\ \/ CanStore(r) /\ Answered(AfterWrite(r)) /\ Goes(r, "update")
     \/ Refused /\ Goes(r, "update")
     \/ CanStore(r) /\ AnswerLost(AfterWrite(r)) /\ GiveUp(r)
  /\ UNCHANGED <<row, qvars>>

SendWrite(r) ==
  /\ Writing(r) /\ Admitted(r)
  /\ \/ CanStore(r) /\ Answered(AfterWrite(r)) /\ Goes(r, "update")
     \/ Refused /\ GiveUp(r)
     \/ CanStore(r) /\ AnswerLost(AfterWrite(r)) /\ GiveUp(r)
  /\ UNCHANGED <<row, qvars>>

----------------------------------------------------------------------------
(* objects::write_row, the upsert. *)

\* Mutant of UpdateRow: the change is written where the size belongs.
UpdateRowWithDelta(r) ==
  LET o == req[r].obj IN
  /\ At(r, "update")
  /\ IF row[o] # Absent
       THEN row' = [row EXCEPT ![o] = req[r].delta] /\ Goes(r, "reread")
       ELSE Goes(r, "insert") /\ UNCHANGED row
  /\ UNCHANGED <<blob, faults, qvars>>

UpdateRow(r) ==
  LET o == req[r].obj IN
  /\ At(r, "update")
  /\ IF row[o] # Absent
       THEN row' = [row EXCEPT ![o] = req[r].size] /\ Goes(r, "reread")
       ELSE Goes(r, "insert") /\ UNCHANGED row
  /\ UNCHANGED <<blob, faults, qvars>>

\* Mutant of RereadRow: the error is returned before the hold is given back.
RereadRowHolding(r) ==
  /\ At(r, "reread")
  /\ IF row[req[r].obj] # Absent THEN Goes(r, "account") ELSE Goes(r, "err")
  /\ UNCHANGED <<row, blob, faults, qvars>>

\* The updated row is read back; a delete may have removed it meanwhile.
RereadRow(r) ==
  /\ At(r, "reread")
  /\ IF row[req[r].obj] # Absent THEN Goes(r, "account") ELSE GiveUp(r)
  /\ UNCHANGED <<row, blob, faults, qvars>>

\* Where write_row goes when its insert fails: round once more, then it gives up.
InsertFails(r) ==
  IF req[r].again THEN GiveUp(r)
  ELSE req' = [req EXCEPT ![r].pc = "update", ![r].again = TRUE]

\* Mutant of InsertRow: the upsert is retried for as long as it fails.
InsertRowRetrying(r) ==
  LET o == req[r].obj IN
  /\ At(r, "insert")
  /\ IF row[o] = Absent /\ BucketOf(o) \in live
       THEN row' = [row EXCEPT ![o] = req[r].size] /\ Goes(r, "account")
       ELSE Goes(r, "update") /\ UNCHANGED row
  /\ UNCHANGED <<blob, faults, qvars>>

\* The insert fails when another writer was first (the unique index), or when
\* the bucket is gone; the first failure goes back to the update.
InsertRow(r) ==
  LET o == req[r].obj IN
  /\ At(r, "insert")
  /\ \/ /\ row[o] = Absent /\ BucketOf(o) \in live
        /\ row' = [row EXCEPT ![o] = req[r].size]
        /\ Goes(r, "account")
     \/ /\ ~(row[o] = Absent /\ BucketOf(o) \in live)
        /\ InsertFails(r)
        /\ UNCHANGED row
  /\ UNCHANGED <<blob, faults, qvars>>

\* A statement of write_row fails, and the write with it; but whatever the error of
\* the first insert is, write_row goes back to its update.
WriteRowFails(r) ==
  /\ req[r].pc \in {"update", "reread", "insert"}
  /\ Fault
  /\ IF At(r, "insert") THEN InsertFails(r) ELSE GiveUp(r)
  /\ UNCHANGED <<row, blob, qvars>>

----------------------------------------------------------------------------
(* The accounting of a write, and its answer. *)

\* Mutant of Account: a growing write is settled, and its hold never spent.
AccountBySettling(r) ==
  LET h == req[r] IN
  /\ Writing(r) /\ At(r, "account")
  /\ Settle(r, BucketOf(h.obj), h.delta, h.new)
  /\ Goes(r, "commit")
  /\ UNCHANGED <<row, blob, faults>>

Account(r) ==
  LET h == req[r] IN
  /\ Writing(r) /\ At(r, "account")
  /\ IF h.delta > 0 THEN Commit(r, BucketOf(h.obj), h.delta, h.new)
                    ELSE Settle(r, BucketOf(h.obj), h.delta, h.new)
  /\ Goes(r, "commit")
  /\ UNCHANGED <<row, blob, faults>>

GiveBack(r) ==
  /\ At(r, "release")
  /\ call[r].at \in Ended
  /\ Release(r, BucketOf(req[r].obj), req[r].delta)
  /\ Goes(r, "abort")
  /\ UNCHANGED <<row, blob, faults>>

\* Mutant of AnswerWrite: giving the hold back hides the failure.
AnswerWriteOk(r) ==
  /\ req[r].pc \in {"commit", "abort"}
  /\ call[r].at \in {"ok", "failed"}
  /\ Goes(r, IF call[r].at = "ok" THEN "ok" ELSE "err")
  /\ Drop(r)
  /\ UNCHANGED <<row, blob, faults>>

AnswerWrite(r) ==
  /\ req[r].pc \in {"commit", "abort"}
  /\ call[r].at \in {"ok", "failed"}
  /\ Goes(r, IF At(r, "commit") /\ call[r].at = "ok" THEN "ok" ELSE "err")
  /\ Drop(r)
  /\ UNCHANGED <<row, blob, faults>>

----------------------------------------------------------------------------
(* DeleteObject and DeleteObjects.  The store is told first.               *)

Erase(objs) == [o \in Object |-> IF o \in objs THEN Absent ELSE blob[o]]

DeleteHandler(op, objs) ==
  [NoHandler EXCEPT !.op = op, !.pc = "find", !.keys = objs]

StartDelete(r, o) ==
  /\ ~Active(r)
  /\ Undisturbed({o})
  /\ \/ /\ Answered(Erase({o}))
        /\ req' = [req EXCEPT ![r] = DeleteHandler("delete", {o})]
     \/ AnswerLost(Erase({o})) /\ Goes(r, "err")
  /\ UNCHANGED <<row, qvars>>

\* The store's 200 to a batch may carry an error per key.  The handler does not
\* read that body, so the keys it goes on to delete include the ones the store
\* kept.
StartBatch(r, b, objs) ==
  /\ ~Active(r)
  /\ objs \subseteq ObjectsOf(b) /\ objs # {}
  /\ Undisturbed(objs)
  /\ \/ /\ Answered(Erase(objs))
        /\ req' = [req EXCEPT ![r] = DeleteHandler("batch", objs)]
     \/ /\ Fault
        /\ \E kept \in (SUBSET objs) \ {{}} : blob' = Erase(objs \ kept)
        /\ req' = [req EXCEPT ![r] = DeleteHandler("batch", objs)]
     \/ AnswerLost(Erase(objs)) /\ Goes(r, "err")
  /\ UNCHANGED <<row, qvars>>

\* A key is dealt with: on to the next one, or to the answer.
NextKey(r, h, o) ==
  req' = [req EXCEPT ![r] =
    [h EXCEPT !.keys = @ \ {o}, !.obj = Nowhere, !.size = 0,
              !.pc = IF h.keys \ {o} = {} THEN "ok" ELSE "find"]]

FindRow(r) ==
  /\ At(r, "find")
  /\ \E o \in req[r].keys :
       IF row[o] = Absent THEN NextKey(r, req[r], o)
       ELSE req' = [req EXCEPT ![r] =
              [@ EXCEPT !.pc = "remove", !.obj = o, !.size = row[o]]]
  /\ UNCHANGED <<row, blob, faults, qvars>>

\* A delete that removes no row lost the race to another one, which credits it.
RemoveRow(r) ==
  LET o == req[r].obj IN
  /\ At(r, "remove")
  /\ row' = [row EXCEPT ![o] = Absent]
  /\ IF row[o] = Absent THEN NextKey(r, req[r], o) ELSE Goes(r, "credit")
  /\ UNCHANGED <<blob, faults, qvars>>

CallCredit(r) ==
  /\ At(r, "credit")
  /\ Credit(r, BucketOf(req[r].obj), req[r].size)
  /\ Goes(r, "credited")
  /\ UNCHANGED <<row, blob, faults>>

Credited(r) ==
  /\ At(r, "credited")
  /\ call[r].at \in {"ok", "failed"}
  /\ IF call[r].at = "ok" THEN NextKey(r, req[r], req[r].obj) ELSE Goes(r, "err")
  /\ Drop(r)
  /\ UNCHANGED <<row, blob, faults>>

----------------------------------------------------------------------------
(* The whole: handlers, the quota procedures they call, and their failures. *)

\* The handler is gone: its process died, its client hung up and its future was
\* dropped, or a statement of the procedure it is in failed and `?` left it there.
Crash(r) ==
  /\ Active(r)
  /\ Fault
  /\ Goes(r, "crashed")
  /\ call' = [call EXCEPT ![r] = NoCall]
  /\ UNCHANGED <<row, blob, live, bucket, account>>

Start(r) ==
  \/ \E o \in Object : StartDelete(r, o) \/ \E n \in Sizes : StartPut(r, o, n)
  \/ \E s, o \in Object : StartCopy(r, s, o)
  \/ \E b \in Buckets : \E objs \in SUBSET ObjectsOf(b) : StartBatch(r, b, objs)

\* The next step of a handler that is not waiting for the store.
Proceed(r) ==
  \/ CopyBegin(r) \/ CallReserve(r) \/ RefuseWrite(r)
  \/ UpdateRow(r) \/ RereadRow(r) \/ InsertRow(r)
  \/ Account(r) \/ GiveBack(r) \/ AnswerWrite(r)
  \/ FindRow(r) \/ RemoveRow(r) \/ CallCredit(r) \/ Credited(r)
  \/ Continue(r) /\ UNCHANGED ovars

gatewayVars == <<qvars, ovars>>

ObjectsInit ==
  /\ QuotaInit
  /\ row = [o \in Object |-> Absent]
  /\ blob = [o \in Object |-> Absent]
  /\ req = [r \in Requests |-> NoHandler]
  /\ faults = 0

ObjectsNext ==
  \E r \in Requests :
    Start(r) \/ Proceed(r) \/ SendWrite(r) \/ WriteRowFails(r) \/ Crash(r)

\* The database answers and the runtime polls every future, so a handler goes on.
\* The store answers a copy, whose request carries a timeout; a streamed PutObject
\* has none (upstream.rs), so nothing is assumed of how long its body takes.
SendCopy(r) == req[r].op = "copy" /\ SendWrite(r)

HandlersFair ==
  \A r \in Requests : WF_gatewayVars(Proceed(r)) /\ WF_gatewayVars(SendCopy(r))

ObjectsSpec == ObjectsInit /\ [][ObjectsNext]_gatewayVars /\ HandlersFair

----------------------------------------------------------------------------
(* Properties. *)

ObjectsTypeOK ==
  /\ QuotaTypeOK
  /\ row \in [Object -> Nat \cup {Absent}]
  /\ blob \in [Object -> Nat \cup {Absent}]
  /\ req \in [Requests -> Handler(ObjectOps, Resting \cup WritePcs \cup DeletePcs)]
  /\ faults \in 0 .. MaxFaults

SizeIn(f, b) == MapThenSumSet(LAMBDA o : Stored(f[o]), ObjectsOf(b))

BucketsOf(u) == {b \in Buckets : Owner[b] = u}

\* The requests whose current object is in b.
Charging(b) == {r \in Requests : req[r].obj # Nowhere /\ BucketOf(req[r].obj) = b}

ChargingAny(B) == UNION {Charging(b) : b \in B}

\* The bytes a request holds on its bucket's row, and on its owner's.
Growth(r) == IF req[r].delta > 0 THEN req[r].delta ELSE 0

HeldByBucket(r) ==
  IF \/ req[r].pc \in {"update", "insert", "reread", "account", "release"}
     \/ At(r, "admit") /\ call[r].at # "failed"
    THEN Growth(r) ELSE 0

HeldByAccount(r) ==
  IF \/ req[r].pc \in {"update", "insert", "reread", "account", "release"}
     \/ At(r, "admit") /\ call[r].at = "ok"
     \/ call[r].at \in {"commit_user", "release_user"}
    THEN Growth(r) ELSE 0

\* A request in flight always finds its hold on both rows, whatever the others do and
\* whoever crashes; and while nothing is lost, the reserved columns are exactly those
\* holds: no path through a handler keeps one, gives one back twice, or spends another
\* request's.
HoldsAccounted ==
  LET onBucket(b) == MapThenSumSet(HeldByBucket, Charging(b))
      onAccount(u) == MapThenSumSet(HeldByAccount, ChargingAny(BucketsOf(u))) IN
  /\ \A b \in Buckets : /\ bucket[b].reserved >= onBucket(b)
                        /\ faults = 0 => bucket[b].reserved = onBucket(b)
  /\ \A u \in Users : /\ account[u].reserved >= onAccount(u)
                      /\ faults = 0 => account[u].reserved = onAccount(u)

\* What a request has done to the object rows and not yet to the used columns.
DueToBucket(r) ==
  CASE req[r].pc \in {"reread", "account"} -> req[r].delta
    [] At(r, "commit") /\ AtStatement(r, "settle_bucket") -> req[r].delta
    [] At(r, "credit") \/ AtStatement(r, "credit_bucket") -> -req[r].size
    [] OTHER -> 0

DueToAccount(r) ==
  CASE req[r].pc \in {"reread", "account"} -> req[r].delta
    [] call[r].at \in {"commit_user", "settle_bucket", "settle_user"} -> req[r].delta
    [] At(r, "credit") \/ call[r].at \in {"credit_bucket", "credit_user"} -> -req[r].size
    [] OTHER -> 0

ObjectsDue(r) ==
  CASE req[r].pc \in {"reread", "account"} -> req[r].new
    [] At(r, "commit") /\ AtStatement(r, "settle_bucket") -> req[r].new
    [] At(r, "credit") \/ AtStatement(r, "credit_bucket") -> -1
    [] OTHER -> 0

\* While nothing is lost and no key has two writers, the used and count columns plus what
\* the requests in flight still owe them are exactly the object rows: every byte is
\* charged once, at both levels, and credited once.
ChargesAccounted ==
  faults = 0 =>
    /\ \A b \in Buckets :
         /\ bucket[b].used + MapThenSumSet(DueToBucket, Charging(b)) = SizeIn(row, b)
         /\ bucket[b].count + MapThenSumSet(ObjectsDue, Charging(b))
              = Cardinality({o \in ObjectsOf(b) : row[o] # Absent})
    /\ \A u \in Users :
         account[u].used + MapThenSumSet(DueToAccount, ChargingAny(BucketsOf(u)))
           = MapThenSumSet(LAMBDA b : SizeIn(row, b), BucketsOf(u))

\* What the store has never exceeds what the counters admit, so with WithinQuota it never
\* exceeds the quota: a write reaches the store only after its growth is held.
StoreCovered ==
  faults = 0 =>
    /\ \A b \in Buckets : SizeIn(blob, b) <= Load(bucket[b])
    /\ \A u \in Users :
         MapThenSumSet(LAMBDA b : SizeIn(blob, b), BucketsOf(u)) <= Load(account[u])

\* An object no request is at work on is in the store with the size its row says, or
\* is in neither.
RowsMatchStore ==
  faults = 0 =>
    \A o \in Object :
      (\A r \in Requests : Active(r) => o \notin Touches(r)) => row[o] = blob[o]

\* Answers tell the truth, even after faults, when no key has two writers: a PutObject is
\* acknowledged only once the store and the row both have the object at its size, a
\* DeleteObject only once neither has it.
AnswersTrue ==
  [][\A r \in Requests :
       Active(r) /\ req'[r].pc = "ok" =>
         /\ req[r].op = "put" => /\ row'[req[r].obj] = req[r].size
                                /\ blob'[req[r].obj] = req[r].size
         /\ req[r].op = "delete" => \A o \in req[r].keys : /\ row'[o] = Absent
                                                          /\ blob'[o] = Absent]_gatewayVars

\* The amounts of AdmissionSpec include every size and every difference of two.
AmountsCovered ==
  /\ CountCap < 0
  /\ Sizes \cup {0} \subseteq Bytes
  /\ \A m, n \in Sizes \cup {0} : IF m > n THEN m - n \in Bytes ELSE m - n \in Deltas

\* The handlers keep to what quota.rs expects of its callers (AdmissionSpec): they reserve,
\* release, commit and credit only sizes, they settle only what shrinks, and whatever
\* becomes of a handler, its calls happen in some order a caller of quota.rs could have
\* made.  All that holds of AdmissionSpec therefore holds of them, WithinQuota first.
ImplementsAdmission == AdmissionSpec

\* A handler that is not streaming a body ends, so its hold and its row are settled: past
\* the store's answer nothing waits for another request.
AfterStore == {"update", "insert", "reread", "account", "commit", "release", "abort"}

HandlersEnd ==
  \A r \in Requests :
    Active(r) /\ (req[r].op = "put" => req[r].pc \in AfterStore) ~> ~Active(r)

Quiet == \A r \in Requests : ~Active(r)

\* The counters are what the object rows add up to.
Charged ==
  /\ \A b \in Buckets :
       /\ bucket[b].used = SizeIn(row, b)
       /\ bucket[b].count = Cardinality({o \in ObjectsOf(b) : row[o] # Absent})
  /\ \A u \in Users :
       account[u].used = MapThenSumSet(LAMBDA b : SizeIn(row, b), BucketsOf(u))

\* "The guarded UPDATEs survive concurrency" (reconcile_quota.rs), and an upload that
\* loses its hold to the reconcile task has its bytes re-added by its commit (quota.rs):
\* while nothing is lost, the counters are exact whenever no request is at work.
ChargedAtRest == faults = 0 /\ Quiet => Charged
=============================================================================
