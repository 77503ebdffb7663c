------------------------------ MODULE Gateway ------------------------------
(***************************************************************************)
(* The S3 side of the gateway over the rows the console changes: routing,  *)
(* authentication, the resolvers of s3/request.rs, what the operations do  *)
(* to the object rows and the bucket's counters, and the audit log.  A     *)
(* request is a process of one statement per step, as console calls are,   *)
(* and all of them run at once.  The store itself is in module Objects.    *)
(***************************************************************************)
EXTENDS Buckets, AccessKeys, SigV4

CONSTANTS
  Requests,   \* S3 requests
  Wires,      \* what a request may look like on arrival
  BadNames,   \* object keys validate_logical_key refuses
  Databases,  \* the rows there may be before the first call
  MaxMade     \* bound on the calls and requests made

VARIABLES
  req,     \* the requests
  audit,   \* the audit rows, and the entries in the queue
  past,    \* history: what a request's key was allowed since it arrived
  raced    \* history: the buckets that lost an object row whose bytes had not
           \* been accounted for

ASSUME DatabasesAssumption ==
  \A db \in Databases :
    /\ db.user \in [Users -> Account \cup {None, Gone}]
    /\ db.pool \in [Pools -> {None, Gone, "bare", "ready"}]
    /\ db.bucket \in [Buckets -> Bucket \cup {None, Gone}]
    /\ db.rows \subseteq {b \in Buckets : db.bucket[b] \notin {None, Gone}} \X Names
    /\ IsFiniteSet(db.rows)
    /\ \A b \in Buckets : db.bucket[b] \notin {None, Gone} =>
         db.bucket[b].count >= Cardinality({o \in db.rows : o[1] = b})
    /\ db.key \in [Keys -> Key \cup {None, Gone}]

Data == <<pool, bucket, rows, settled>>
KeyRows == <<key, clock>>
ConsoleRows == <<user, call, pool, bucket, rows, settled, key, clock>>

\* The router has a route for every request, or answers it itself.
ASSUME WiresAssumption == \A w \in Wires : \E i \in DOMAIN Dispatch : Fits(w, Dispatch[i])
\* An access key id that was never issued is that of a row there is not yet.
ASSUME SignersAssumption == \A w \in Wires : Signed(w) => w.auth.key \in Keys
\* A signature that is presented was made with the secret of some key, of a
\* request its client meant, with or without a lifetime; what arrives may be another.
ASSUME SignaturesAssumption ==
  \A w \in Wires : Signed(w) =>
    /\ w.auth.form \in {"header", "presigned"}
    /\ w.auth.at \in Int /\ w.auth.expires \in Int \cup {None}
    /\ w.auth.meant.auth.form = "presigned" <=> w.auth.meant.auth.expires # None
    /\ \E k \in Keys : w.auth.signature = Signature(k, w.auth.meant)
ASSUME BadNamesAssumption == BadNames \subseteq Names
ASSUME WireNamesAssumption == \A w \in Wires : w.name \in Names \cup {None} /\ w.body \subseteq Names
ASSUME RequestsFinite == IsFiniteSet(Requests)

\* A request: its next statement, the key row that signed it, the bucket, the
\* pool (its id, then what its row said) and the source's bucket that it
\* resolved, the object keys it may touch and those it still has to, and its
\* answer.
Waiting == [pc |-> "waiting", wire |-> None, key |-> None, bucket |-> None, pool |-> None,
            source |-> None, allowed |-> {}, left |-> {}, new |-> FALSE, answer |-> None]

Route(r) == RouteOf(req[r].wire)
Step(r, pc) == req' = [req EXCEPT ![r].pc = pc]
Answer(r, code) == req' = [req EXCEPT ![r].pc = "answered", ![r].answer = code]
Reads(r, from) == req[r].pc = from /\ UNCHANGED <<ConsoleRows, audit>>

----------------------------------------------------------------------------
(* s3_handler and authenticate *)

\* A request arrives; what is not S3's is answered by the console's files.
Arrive(r, w) ==
  /\ req[r] = Waiting
  /\ req' = [req EXCEPT ![r].wire = w,
               ![r].pc = IF ~IsS3Request(w) THEN "console"
                         ELSE IF RouteOf(w).resolver = "nothing" THEN "answered" ELSE "authenticate",
               ![r].answer = IF IsS3Request(w) /\ RouteOf(w).resolver = "nothing"
                               THEN "NotImplemented" ELSE None]
  /\ UNCHANGED <<ConsoleRows, audit>>

\* Where an operation goes once its signature is good.
AfterAuthentication(r) == IF Route(r).resolver = "bucket" THEN "action" ELSE "bucket"

\* authenticate: the key is read once, and the signature is checked with its secret.
Authenticate(r) ==
  LET w == req[r].wire
      k == w.auth.key
  IN
  /\ Reads(r, "authenticate")
  /\ IF ~Signed(w) THEN Answer(r, "AccessDenied")
     ELSE IF ~Usable(k) THEN Answer(r, "InvalidAccessKeyId")
     ELSE IF Fault(w, k, clock) # None THEN Answer(r, Fault(w, k, clock))
     ELSE req' = [req EXCEPT ![r].pc = "owner", ![r].key = key[k]]

----------------------------------------------------------------------------
(* resolve, resolve_bucket_only and list_buckets_inner.  The owner comes      *)
(* first; then resolve reads bucket, pool, action and scope, and              *)
(* resolve_bucket_only reads action, bucket and pool.                         *)

ReadOwner(r) ==
  /\ Reads(r, "owner")
  /\ IF ~Present(req[r].key.owner) THEN Answer(r, "InternalError")
     ELSE IF Route(r).resolver = "account" THEN Answer(r, "OK")
     ELSE Step(r, AfterAuthentication(r))

ReadBucket(r) ==
  LET found == Found(req[r].key.owner, req[r].wire.bucket) IN
  /\ Reads(r, "bucket")
  /\ IF found = {} THEN Answer(r, "NoSuchBucket")
     ELSE \E b \in found :
            req' = [req EXCEPT ![r].pc = "pool", ![r].bucket = b, ![r].pool = bucket[b].pool]

ReadPool(r) ==
  /\ Reads(r, "pool")
  /\ IF ~HasPool(req[r].pool) THEN Answer(r, "InternalError")
     ELSE IF Route(r).resolver = "object" /\ req[r].wire.name \in BadNames
       THEN Answer(r, "InvalidArgument")
     ELSE req' = [req EXCEPT ![r].pool = pool[req[r].pool],
                    ![r].pc = IF Route(r).resolver = "bucket" THEN "resolved" ELSE "action"]

\* allows_action: the permissions as they are now.
ReadAction(r) ==
  /\ Reads(r, "action")
  /\ IF ~Issued(req[r].wire.auth.key) \/ Route(r).action \notin key[req[r].wire.auth.key].acts
       THEN Answer(r, "AccessDenied")
       ELSE Step(r, IF Route(r).resolver = "bucket" THEN "bucket" ELSE "scope")

\* The prefixes as they are now; those of a row that is gone are gone too.
ScopeNow(k) == IF Issued(k) THEN Scope(k) ELSE {}

Copies == {"CopyObject", "UploadPartCopy"}

\* allows_key
ReadScope(r) ==
  /\ Reads(r, "scope")
  /\ IF Within(ScopeNow(req[r].wire.auth.key), req[r].wire.name)
       THEN req' = [req EXCEPT ![r].allowed = {req[r].wire.name},
                      ![r].pc = IF Route(r).op \in Copies THEN "source" ELSE "resolved"]
       ELSE Answer(r, "AccessDenied")

----------------------------------------------------------------------------
(* resolve_copy_source: the same reads for the other end. *)

ReadSource(r) ==
  LET found == Found(req[r].key.owner, req[r].wire.source[1]) IN
  /\ Reads(r, "source")
  /\ IF req[r].wire.source[2] \in BadNames THEN Answer(r, "InvalidArgument")
     ELSE IF found = {} THEN Answer(r, "NoSuchBucket")
     ELSE \E b \in found : req' = [req EXCEPT ![r].pc = "source action", ![r].source = b]

\* Mutant of ReadSourceAction: the destination's action will do.
ReadSourceActionSkipped(r) == Reads(r, "source action") /\ Step(r, "source scope")

ReadSourceAction(r) ==
  /\ Reads(r, "source action")
  /\ IF Issued(req[r].wire.auth.key) /\ "read" \in key[req[r].wire.auth.key].acts
       THEN Step(r, "source scope") ELSE Answer(r, "AccessDenied")

ReadSourceScope(r) ==
  /\ Reads(r, "source scope")
  /\ IF Within(ScopeNow(req[r].wire.auth.key), req[r].wire.source[2])
       THEN Step(r, "source row") ELSE Answer(r, "AccessDenied")

\* The source's row gives the size to reserve.
ReadSourceRow(r) ==
  /\ Reads(r, "source row")
  /\ IF <<req[r].source, req[r].wire.source[2]>> \in rows
       THEN Step(r, "resolved") ELSE Answer(r, "NoSuchKey")

----------------------------------------------------------------------------
(* DeleteObjects decides on its keys one at a time. *)

DecideKey(r, name) ==
  /\ Reads(r, "keys") /\ name \in req[r].left
  /\ req' = [req EXCEPT ![r].left = @ \ {name},
       ![r].allowed = IF name \notin BadNames /\ Within(ScopeNow(req[r].wire.auth.key), name)
                        THEN @ \cup {name} ELSE @]

\* When none is left, those that were allowed go to the store, and then their rows.
DecidedKeys(r) ==
  /\ Reads(r, "keys") /\ req[r].left = {}
  /\ IF req[r].allowed = {} THEN Answer(r, "OK")
     ELSE IF req[r].pool = "bare" THEN Answer(r, "InternalError")
     ELSE req' = [req EXCEPT ![r].pc = "delete", ![r].left = req[r].allowed]

----------------------------------------------------------------------------
(* What an operation does once it is resolved.  upstream::Client::new refuses *)
(* a pool whose row had no credentials, and the store answers well: modules   *)
(* Objects and Multipart have what happens when it does not.                  *)

\* Operations that end where they are resolved, or that another module has.
Elsewhere == {"ListBuckets", "HeadBucket", "ListObjectsV2"}
Uploads == {"ListMultipartUploads", "ListParts", "CreateMultipartUpload", "UploadPart",
            "UploadPartCopy", "CompleteMultipartUpload", "AbortMultipartUpload"}
Stores == {"GetObject", "HeadObject", "PutObject", "CopyObject", "DeleteObject"}

Dispatched(r) ==
  LET op == Route(r).op IN
  /\ Reads(r, "resolved")
  /\ \/ op = "NotImplemented" /\ Answer(r, "NotImplemented")
     \/ op \in Elsewhere /\ Answer(r, "OK")
     \/ op \in Uploads /\ \E code \in {"OK", "NoSuchUpload"} : Answer(r, code)
     \/ op = "DeleteObjects" /\ req' = [req EXCEPT ![r].pc = "keys", ![r].left = req[r].wire.body]
     \/ op \in Stores /\ req[r].pool = "bare" /\ Answer(r, "InternalError")
     \/ op \in {"GetObject", "HeadObject"} /\ req[r].pool = "ready" /\ Answer(r, "OK")
     \/ op \in {"PutObject", "CopyObject"} /\ req[r].pool = "ready" /\ Step(r, "reserve")
     \/ op = "DeleteObject" /\ req[r].pool = "ready"
        /\ req' = [req EXCEPT ![r].pc = "delete", ![r].left = req[r].allowed]

\* begin_put: a new object holds its byte in the bucket's quota; one that
\* replaces another is no larger here and holds nothing.  A bucket that is gone
\* before it is read fails it, and refuses it after.  Module Objects takes this
\* apart, and the account's own counters are there too.
Reserve(r) ==
  LET b == req[r].bucket
      new == <<b, req[r].wire.name>> \notin rows
      full == ~Exists(b) \/ (bucket[b].max # 0 /\ bucket[b].used + bucket[b].held >= bucket[b].max)
  IN
  /\ req[r].pc = "reserve" /\ ~Locked(b)
  /\ IF new /\ full
       THEN /\ Answer(r, "QuotaExceeded") \/ (~Exists(b) /\ Answer(r, "InternalError"))
            /\ UNCHANGED bucket
       ELSE /\ req' = [req EXCEPT ![r].pc = "write", ![r].new = new]
            /\ bucket' = IF new THEN [bucket EXCEPT ![b].held = @ + 1] ELSE bucket
  /\ UNCHANGED <<user, call, pool, rows, settled, KeyRows, audit>>

\* write_row, after the store has the object.  A bucket that is gone fails it.
WriteRow(r) ==
  LET b == req[r].bucket IN
  /\ req[r].pc = "write" /\ ~Locked(b)
  /\ IF Exists(b)
       THEN rows' = rows \cup {<<b, req[r].wire.name>>} /\ Step(r, "commit")
       ELSE Answer(r, "InternalError") /\ UNCHANGED rows
  /\ UNCHANGED <<user, call, pool, bucket, settled, KeyRows, audit>>

\* Mutant of Commit: a write that held nothing spends a hold too.
CommitAlways(r) ==
  LET b == req[r].bucket IN
  /\ req[r].pc = "commit" /\ ~Locked(b)
  /\ bucket' = IF Exists(b) /\ bucket[b].held > 0
                 THEN [bucket EXCEPT ![b].held = @ - 1, ![b].used = @ + 1, ![b].count = @ + 1]
                 ELSE bucket
  /\ settled' = IF req[r].new THEN settled \cup ({<<b, req[r].wire.name>>} \cap rows) ELSE settled
  /\ Answer(r, "OK")
  /\ UNCHANGED <<user, call, pool, rows, KeyRows, audit>>

\* quota::commit: its UPDATE is guarded by the hold.
Commit(r) ==
  LET b == req[r].bucket IN
  /\ req[r].pc = "commit" /\ ~Locked(b)
  /\ bucket' = IF Exists(b) /\ req[r].new /\ bucket[b].held > 0
                 THEN [bucket EXCEPT ![b].held = @ - 1, ![b].used = @ + 1, ![b].count = @ + 1]
                 ELSE bucket
  /\ settled' = IF req[r].new THEN settled \cup ({<<b, req[r].wire.name>>} \cap rows) ELSE settled
  /\ Answer(r, "OK")
  /\ UNCHANGED <<user, call, pool, rows, KeyRows, audit>>

\* objects::Model::delete of the next key: its row goes, and then its byte.
DeleteRow(r, name) ==
  LET b == req[r].bucket
      there == <<b, name>> \in rows
  IN
  /\ req[r].pc = "delete" /\ name \in req[r].left /\ ~Locked(b)
  /\ rows' = rows \ {<<b, name>>} /\ settled' = settled \ {<<b, name>>}
  /\ req' = [req EXCEPT ![r].left = @ \ {name}, ![r].pc = IF there THEN "credit" ELSE "delete"]
  /\ UNCHANGED <<user, call, pool, bucket, KeyRows, audit>>

\* quota::account_for_delete: both columns or neither.  A bucket that is gone
\* before it is read fails it.
Credit(r) ==
  LET b == req[r].bucket IN
  /\ req[r].pc = "credit" /\ ~Locked(b)
  /\ bucket' = IF Exists(b) /\ bucket[b].used > 0 /\ bucket[b].count > 0
                 THEN [bucket EXCEPT ![b].used = @ - 1, ![b].count = @ - 1]
                 ELSE bucket
  /\ Step(r, "delete") \/ (~Exists(b) /\ Answer(r, "InternalError"))
  /\ UNCHANGED <<user, call, pool, rows, settled, KeyRows, audit>>

DeletedAll(r) ==
  /\ Reads(r, "delete") /\ req[r].left = {}
  /\ Answer(r, "OK")

----------------------------------------------------------------------------
(* record_audit and the audit worker *)

Statuses == [OK |-> 200, NotImplemented |-> 501, AccessDenied |-> 403, InvalidAccessKeyId |-> 403,
             SignatureDoesNotMatch |-> 403, RequestTimeTooSkewed |-> 403, QuotaExceeded |-> 403,
             NoSuchBucket |-> 404, NoSuchKey |-> 404, NoSuchUpload |-> 404, InvalidArgument |-> 400,
             InternalError |-> 500]

ASSUME CodesAssumption == None \notin DOMAIN Statuses

\* outcome_for, and the code that tells a full bucket from a refusal.
Outcome(code) ==
  CASE code = "QuotaExceeded" -> "quota_exceeded"
    [] Statuses[code] < 400 -> "ok"
    [] Statuses[code] = 404 -> "not_found"
    [] Statuses[code] < 500 /\ Statuses[code] # 404 /\ code # "QuotaExceeded" -> "denied"
    [] OTHER -> "error"

\* The entry: the key that was presented, if it can still be used, decides
\* whether the request is an action's or a failed authentication's.
Entry(r, resolved) ==
  [request |-> r,
   action |-> IF Statuses[req[r].answer] = 403 /\ ~resolved THEN "auth" ELSE HandlerAction(req[r].wire),
   user |-> IF resolved THEN key[req[r].wire.auth.key].owner ELSE None,
   outcome |-> Outcome(req[r].answer)]

\* perform_later: a queue that is out loses the entry, and the response goes out
\* either way.
RecordAudit(r) ==
  /\ req[r].pc = "answered"
  /\ Step(r, "sent")
  /\ \/ audit' = [audit EXCEPT !.queue =
                    @ \cup {Entry(r, Signed(req[r].wire) /\ Usable(req[r].wire.auth.key))}]
     \/ UNCHANGED audit
  /\ UNCHANGED ConsoleRows

\* AuditWorker: the insert has no foreign key to fail it.
WriteAudit ==
  \E e \in audit.queue :
    /\ audit' = [queue |-> audit.queue \ {e}, rows |-> audit.rows \cup {e}]
    /\ UNCHANGED <<ConsoleRows, req>>

----------------------------------------------------------------------------

RequestStep(r) ==
  \/ \E w \in Wires : Arrive(r, w)
  \/ Authenticate(r) \/ ReadOwner(r) \/ ReadBucket(r) \/ ReadPool(r) \/ ReadAction(r) \/ ReadScope(r)
  \/ ReadSource(r) \/ ReadSourceAction(r) \/ ReadSourceScope(r) \/ ReadSourceRow(r)
  \/ (\E name \in Names : DecideKey(r, name)) \/ DecidedKeys(r)
  \/ Dispatched(r) \/ Reserve(r) \/ WriteRow(r) \/ Commit(r)
  \/ (\E name \in Names : DeleteRow(r, name)) \/ Credit(r) \/ DeletedAll(r)
  \/ RecordAudit(r)

\* The console's side of a step: a call on one component leaves the others' rows
\* alone, and removing an account goes through all of them.
ConsoleStep(c) ==
  /\ \/ AccountStep(c) /\ UNCHANGED <<Data, KeyRows>>
     \/ BucketStep(c) /\ UNCHANGED KeyRows
     \/ KeyStep(c) /\ UNCHANGED Data
     \/ DropUser(c) /\ CascadeBuckets(c) /\ CascadeKeys(call[c].on)
  /\ UNCHANGED <<req, audit>>

\* What a key may do at this moment.
AllowedNow(k) ==
  IF Usable(k) THEN [live |-> TRUE, acts |-> key[k].acts, scopes |-> {Scope(k)}]
  ELSE IF Issued(k) THEN [live |-> FALSE, acts |-> key[k].acts, scopes |-> {Scope(k)}]
  ELSE [live |-> FALSE, acts |-> {}, scopes |-> {}]

Never == [live |-> FALSE, acts |-> {}, scopes |-> {}]

InFlight(r) == req[r].pc \notin {"waiting", "console", "over"} /\ Signed(req[r].wire)

\* The history of what the key of a request was allowed while it was under way,
\* and of the buckets that lost a row nobody had accounted for.
Watch ==
  /\ past' = [r \in Requests |->
       IF ~InFlight(r)' THEN Never
       ELSE LET now == AllowedNow(req[r].wire.auth.key)' IN
            [live |-> past[r].live \/ now.live, acts |-> past[r].acts \cup now.acts,
             scopes |-> past[r].scopes \cup now.scopes]]
  /\ raced' = raced \cup {o[1] : o \in (rows \ rows') \ settled}

GatewayNext ==
  /\ \/ \E c \in Calls : ConsoleStep(c)
     \/ \E r \in Requests : RequestStep(r)
     \/ WriteAudit
     \/ Tick /\ UNCHANGED <<Data, req, audit>>
  /\ Watch

gvars == <<user, call, pool, bucket, rows, settled, key, clock, req, audit, past, raced>>

Over == [Waiting EXCEPT !.pc = "over"]

\* Of the calls and requests, MaxMade will be made; the others are over.
GatewayInit ==
  /\ \E db \in Databases :
       user = db.user /\ pool = db.pool /\ bucket = db.bucket /\ rows = db.rows /\ key = db.key
  /\ settled = rows
  /\ clock = 0
  /\ call \in [Calls -> {Idle, Ended}]
  /\ req \in [Requests -> {Waiting, Over}]
  /\ Cardinality({c \in Calls : call[c] = Idle})
       + Cardinality({r \in Requests : req[r] = Waiting}) = MaxMade
  /\ audit = [queue |-> {}, rows |-> {}]
  /\ past = [r \in Requests |-> Never]
  /\ raced = {}

GatewaySpec == GatewayInit /\ [][GatewayNext]_gvars

----------------------------------------------------------------------------
(* Properties. *)

CallType(c) ==
  /\ DOMAIN c = DOMAIN Idle
  /\ c.me \in Users \cup {None}
  /\ c.on \in Users \cup Pools \cup Buckets \cup Keys \cup {None}
  /\ c.pc \in {"idle", "ended", "find", "find again", "insert", "load", "count", "write", "take",
               "drop", "permissions", "prefixes", "label", "expires", "status", "disable"}

RequestType(q) ==
  /\ DOMAIN q = DOMAIN Waiting
  /\ q.wire \in Wires \cup {None} /\ q.key \in Key \cup {None}
  /\ q.bucket \in Buckets \cup {None} /\ q.source \in Buckets \cup {None}
  /\ q.pool \in Pools \cup {None, "bare", "ready"}
  /\ q.allowed \subseteq Names /\ q.left \subseteq Names
  /\ q.new \in BOOLEAN /\ q.answer \in DOMAIN Statuses \cup {None}

GatewayTypeOK ==
  /\ \A u \in Users : user[u] \in Account \cup {None, Gone}
  /\ \A c \in Calls : CallType(call[c])
  /\ \A p \in Pools : pool[p] \in {None, Gone, "bare", "ready"}
  /\ \A b \in Buckets : bucket[b] \in Bucket \cup {None, Gone}
  /\ rows \subseteq {b \in Buckets : Exists(b)} \X Names /\ settled \subseteq rows
  /\ \A k \in Keys : key[k] \in Key \cup {None, Gone}
  /\ clock \in 0..MaxClock
  /\ \A r \in Requests : RequestType(req[r])
  /\ \A e \in audit.queue \cup audit.rows : e.request \in Requests
  /\ raced \subseteq Buckets

\* The object rows of a bucket whose bytes have been accounted for, the deletes
\* that still have to credit theirs, and the new objects that hold a byte.
Settled(b) == {o \in settled : o[1] = b}
Crediting(b) == {r \in Requests : req[r].pc = "credit" /\ req[r].bucket = b}
Holding(b) == {r \in Requests : req[r].pc \in {"write", "commit"} /\ req[r].new /\ req[r].bucket = b}

\* Whatever requests and calls do at once, a bucket holds a byte for each new
\* object under way; and until it loses a row that was not accounted for, its
\* object_count is no less than the rows that were, with those being deleted.
CountersCovered ==
  \A b \in Buckets : Exists(b) =>
    /\ bucket[b].held >= Cardinality(Holding(b))
    /\ b \notin raced =>
         bucket[b].count >= Cardinality(Settled(b)) + Cardinality(Crediting(b))

\* A bucket that is removed through the console takes no object with it whose
\* bytes were accounted for when the removal looked: only ones whose upload is
\* not over, or came to an end in between.  The one exception is a bucket that
\* a delete has taken an object from before the bytes of that object had been
\* accounted for: its object_count is one too low.
RemovalTakesOnlyInFlight ==
  [][\A c \in Calls :
       (At(c, "remove bucket", "drop") /\ call'[c].pc = "ended") =>
         (rows \ rows') \cap call[c].seen = {} \/ call[c].on \in raced]_<<call, bucket, rows>>

\* The request has been through its resolver.
Served(r) ==
  \/ req[r].pc \in {"resolved", "keys", "reserve", "write", "commit", "delete", "credit"}
  \/ req[r].pc = "answered" /\ req[r].answer = "OK"

\* Whatever calls change the key's policy while a request is under way, one that
\* is served was allowed what it does: its key was usable at some moment since
\* it arrived, the action was among the key's at some moment, and each object
\* key it touches was in the scope of some moment.  Both ends of a copy are held
\* to this, and the bucket is the key owner's.  The scope is beyond this once
\* the key's row is gone: its prefixes went with it, and a key without prefixes
\* is good for the whole bucket.
ServedWithinPolicy ==
  \A r \in Requests : Served(r) =>
    LET InScope(name) == key[req[r].wire.auth.key] # Gone =>
          \E s \in past[r].scopes : Within(s, name)
    IN /\ past[r].live
       /\ Route(r).action \in past[r].acts \cup {None}
       /\ \A name \in req[r].allowed : InScope(name)
       /\ Route(r).op \in Copies => "read" \in past[r].acts /\ InScope(req[r].wire.source[2])
       /\ \A b \in {req[r].bucket, req[r].source} \ {None} :
            Exists(b) => bucket[b].owner \in {req[r].key.owner, None}

\* A request that is authenticated is the one its client signed, in everything
\* but the headers the client left unsigned and the body it left unhashed.  What
\* was signed for a header is good for the skew of clocks.  A link is good for the
\* time it was signed to live; only when its signature comes in the Authorization
\* header can it be good after that, for the skew of clocks.
AuthenticatedAsSigned ==
  [][\A r \in Requests :
       (req[r].key = None /\ req'[r].key # None) =>
         LET w == req[r].wire
             meant == w.auth.meant
         IN /\ <<w.method, w.bucket, w.name, w.params>>
                 = <<meant.method, meant.bucket, meant.name, meant.params>>
            /\ "source" \in w.auth.covers => w.source = meant.source
            /\ meant.auth.form # "presigned" => clock <= meant.auth.at + Skew
            /\ meant.auth.form = "presigned" =>
                 \/ clock <= meant.auth.at + meant.auth.expires /\ meant.auth.expires <= MaxWindow
                 \/ w.auth.form = "header" /\ clock <= meant.auth.at + Skew]_<<req, clock>>
=============================================================================
