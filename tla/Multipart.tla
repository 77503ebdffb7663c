----------------------------- MODULE Multipart -----------------------------
(***************************************************************************)
(* Multipart uploads (src/controllers/s3/multipart.rs, UploadPartCopy of   *)
(* copy.rs, src/models/multipart_uploads.rs) and the task that aborts the  *)
(* abandoned ones (src/tasks/cleanup_multipart.rs), beside the object      *)
(* verbs.                                                                  *)
(*                                                                         *)
(* The store keeps the parts.  The gateway keeps a row per open upload with*)
(* the bytes its parts hold, which abort and the task give back and        *)
(* complete turns into stored bytes.  A request reads that row once, when  *)
(* it starts, and goes by what it read then.                               *)
(***************************************************************************)
EXTENDS Objects

CONSTANTS
  Uploads,      \* upload ids, ours and the store's, which map one to one
  PartNumbers,
  PartSizes,    \* content lengths of the parts clients send
  FreshKeys     \* clients only complete onto keys that have no object

ASSUME PartSizesAssumption == PartSizes \subseteq Nat
ASSUME UploadsAssumption == IsFiniteSet(Uploads) /\ IsFiniteSet(PartNumbers)
ASSUME AbsentUploadAssumption == Absent \notin [obj : Object, reserved : Nat]
ASSUME FreshKeysAssumption == FreshKeys \in BOOLEAN

VARIABLES
  upload,       \* the row of each upload: its object and reserved_bytes, or Absent
  parts,        \* what the store has of it: the size of each part; Absent when not open
  mp            \* the upload a request is about, and what it read of it

mvars == <<upload, parts, mp>>
vars == <<gatewayVars, mvars>>

NoPart == [upload |-> Absent, part |-> 0, held |-> 0]

UploadOps == {"complete"} \cup UploadOnlyOps

UploadPcs == {"open", "source", "add", "forget", "letgo", "drop",
              "assemble", "head", "difference"}

\* The requests at work on an upload.
AtWorkOn(u) ==
  {r \in Requests : Active(r) /\ req[r].op \in UploadOps /\ mp[r].upload = u}

\* Whether clients and the task let a new request work on it: parts go in parallel, and
\* so may the requests that end it (a client's retry, the task), but not the two together.
NoPartsOf(u) == SerialKeys => \A r \in AtWorkOn(u) : req[r].op \notin PartOps

OpenForParts(u) == SerialKeys => \A r \in AtWorkOn(u) : req[r].op \in PartOps

\* Whether clients let this upload's end write the object, which no other request is at
\* work on.
UndisturbedBut(u, o) ==
  SerialKeys => \A q \in Requests \ AtWorkOn(u) : Active(q) => o \notin Touches(q)

ForPart(r, u, p) == mp' = [mp EXCEPT ![r] = [upload |-> u, part |-> p, held |-> 0]]

Reads(r, u) == mp' = [mp EXCEPT ![r] = [upload |-> u, part |-> 0, held |-> upload[u].reserved]]

----------------------------------------------------------------------------
(* CreateMultipartUpload: the store opens the upload, then the row is made. *)

StartCreate(r, u, o) ==
  /\ ~Active(r)
  /\ upload[u] = Absent /\ parts[u] = Absent /\ AtWorkOn(u) = {}
  /\ parts' = [parts EXCEPT ![u] = [p \in PartNumbers |-> Absent]]
  /\ \/ /\ req' = [req EXCEPT ![r] = [NoHandler EXCEPT !.op = "create", !.pc = "open", !.obj = o]]
        /\ mp' = [mp EXCEPT ![r] = [NoPart EXCEPT !.upload = u]]
        /\ UNCHANGED faults
     \/ Fault /\ UNCHANGED <<req, mp>>
  /\ UNCHANGED <<row, blob, upload, qvars>>

InsertUpload(r) ==
  /\ At(r, "open")
  /\ upload' = [upload EXCEPT ![mp[r].upload] = [obj |-> req[r].obj, reserved |-> 0]]
  /\ Goes(r, "ok")
  /\ UNCHANGED <<row, blob, faults, qvars, parts, mp>>

----------------------------------------------------------------------------
(* UploadPart and UploadPartCopy: a reservation, the part, then the row.   *)

PartHandler(op, u, n) ==
  [NoHandler EXCEPT !.op = op, !.obj = upload[u].obj, !.size = n, !.delta = n]

\* Mutant of StartPart: the part is sent before it is reserved for.
StartPartUnreserved(r, u, p, n) ==
  /\ ~Active(r)
  /\ upload[u] # Absent /\ OpenForParts(u)
  /\ req' = [req EXCEPT ![r] = [PartHandler("part", u, n) EXCEPT !.pc = "send"]]
  /\ ForPart(r, u, p)
  /\ UNCHANGED <<row, blob, faults, qvars, upload, parts>>

StartPart(r, u, p, n) ==
  /\ ~Active(r)
  /\ upload[u] # Absent /\ OpenForParts(u)
  /\ req' = [req EXCEPT ![r] = [PartHandler("part", u, n) EXCEPT !.pc = "reserve"]]
  /\ ForPart(r, u, p)
  /\ UNCHANGED <<row, blob, faults, qvars, upload, parts>>

StartPartCopy(r, u, p, s) ==
  /\ ~Active(r)
  /\ upload[u] # Absent /\ OpenForParts(u) /\ Undisturbed({s})
  /\ Owner[BucketOf(s)] = Owner[BucketOf(upload[u].obj)]
  /\ req' = [req EXCEPT ![r] =
       [PartHandler("partcopy", u, 0) EXCEPT !.pc = "source", !.src = s]]
  /\ ForPart(r, u, p)
  /\ UNCHANGED <<row, blob, faults, qvars, upload, parts>>

\* Mutant of ReadSource: the source is not checked to exist.
ReadSourceUnchecked(r) ==
  LET n == row[req[r].src] IN
  /\ At(r, "source")
  /\ req' = [req EXCEPT ![r] = [@ EXCEPT !.pc = "reserve", !.size = n, !.delta = n]]
  /\ UNCHANGED <<row, blob, faults, qvars, mvars>>

\* The source's row says how much to reserve.
ReadSource(r) ==
  LET n == row[req[r].src] IN
  /\ At(r, "source")
  /\ IF n = Absent THEN Goes(r, "err")
     ELSE req' = [req EXCEPT ![r] = [@ EXCEPT !.pc = "reserve", !.size = n, !.delta = n]]
  /\ UNCHANGED <<row, blob, faults, qvars, mvars>>

\* The part as the store gets it: the body, or whatever it has under the source now.
PartStored(r) ==
  LET n == IF req[r].op = "partcopy" THEN blob[req[r].src] ELSE req[r].size IN
  parts' = [parts EXCEPT ![mp[r].upload][mp[r].part] = n]

Storable(r) ==
  /\ parts[mp[r].upload] # Absent
  /\ req[r].op = "partcopy" => blob[req[r].src] # Absent

SendPart(r) ==
  /\ req[r].op \in PartOps /\ Admitted(r)
  /\ \/ Storable(r) /\ PartStored(r) /\ Goes(r, "add") /\ UNCHANGED faults
     \/ GiveUp(r) /\ UNCHANGED <<parts, faults>>
     \/ Storable(r) /\ PartStored(r) /\ GiveUp(r) /\ Fault
  /\ UNCHANGED <<row, blob, qvars, upload, mp>>

\* Mutant of AddReserved: a lost update, the last part's bytes for the upload's.
AddReservedLost(r) ==
  LET u == mp[r].upload IN
  /\ At(r, "add")
  /\ IF upload[u] # Absent
       THEN upload' = [upload EXCEPT ![u].reserved = req[r].size] /\ Goes(r, "ok")
       ELSE Goes(r, "err") /\ UNCHANGED upload
  /\ Drop(r)
  /\ UNCHANGED <<row, blob, faults, parts, mp>>

\* The part's bytes move to the row, for abort or complete to find.  When the row has
\* gone meanwhile the request fails, and its hold is nobody's.
AddReserved(r) ==
  LET u == mp[r].upload IN
  /\ At(r, "add")
  /\ IF upload[u] # Absent
       THEN upload' = [upload EXCEPT ![u].reserved = @ + req[r].size] /\ Goes(r, "ok")
       ELSE Goes(r, "err") /\ UNCHANGED upload
  /\ Drop(r)
  /\ UNCHANGED <<row, blob, faults, parts, mp>>

----------------------------------------------------------------------------
(* AbortMultipartUpload, and the same steps taken by the task for an upload *)
(* it finds old enough, however recently that got a part: the store is told *)
(* first.                                                                   *)

StartAbort(r, u) ==
  /\ ~Active(r)
  /\ upload[u] # Absent /\ NoPartsOf(u)
  /\ req' = [req EXCEPT ![r] =
       [NoHandler EXCEPT !.op = "abort", !.pc = "forget", !.obj = upload[u].obj]]
  /\ Reads(r, u)
  /\ UNCHANGED <<row, blob, faults, qvars, upload, parts>>

\* Mutant of ForgetParts: the store's refusal is taken for an answer.
ForgetPartsUnchecked(r) ==
  LET u == mp[r].upload IN
  /\ At(r, "forget")
  /\ \/ parts[u] # Absent /\ parts' = [parts EXCEPT ![u] = Absent]
     \/ UNCHANGED parts
  /\ Goes(r, "letgo")
  /\ UNCHANGED <<row, blob, faults, qvars, upload, mp>>

\* The store forgets the parts; it refuses when it no longer knows the upload.
ForgetParts(r) ==
  LET u == mp[r].upload
      forgotten == parts[u] # Absent /\ parts' = [parts EXCEPT ![u] = Absent] IN
  /\ At(r, "forget")
  /\ \/ forgotten /\ Goes(r, "letgo") /\ UNCHANGED faults
     \/ Goes(r, "err") /\ UNCHANGED <<parts, faults>>
     \/ forgotten /\ Goes(r, "err") /\ Fault
  /\ UNCHANGED <<row, blob, qvars, upload, mp>>

LetGo(r) ==
  LET b == BucketOf(req[r].obj) IN
  /\ At(r, "letgo")
  /\ IF b \in live THEN Release(r, b, mp[r].held) /\ Goes(r, "drop")
                   ELSE Goes(r, "err") /\ UNCHANGED qvars
  /\ UNCHANGED <<row, blob, faults, mvars>>

\* The row goes, whether or not the call before it found anything to change.
DropUpload(r) ==
  /\ At(r, "drop")
  /\ \/ /\ call[r].at = "ok"
        /\ upload' = [upload EXCEPT ![mp[r].upload] = Absent]
        /\ Goes(r, "ok")
     \/ /\ call[r].at = "failed"
        /\ Goes(r, "err")
        /\ UNCHANGED upload
  /\ Drop(r)
  /\ UNCHANGED <<row, blob, faults, parts, mp>>

----------------------------------------------------------------------------
(* CompleteMultipartUpload.                                                *)

StartComplete(r, u) ==
  LET o == upload[u].obj IN
  /\ ~Active(r)
  /\ upload[u] # Absent /\ NoPartsOf(u) /\ UndisturbedBut(u, o)
  /\ FreshKeys => row[o] = Absent
  /\ req' = [req EXCEPT ![r] =
       [NoHandler EXCEPT !.op = "complete", !.pc = "assemble", !.obj = o]]
  /\ Reads(r, u)
  /\ UNCHANGED <<row, blob, faults, qvars, upload, parts>>

\* The store makes the object of the parts the client lists, and forgets the upload.
Assembled(r) ==
  LET u == mp[r].upload IN
  /\ parts[u] # Absent
  /\ \E listed \in (SUBSET {p \in PartNumbers : parts[u][p] # Absent}) \ {{}} :
       blob' = [blob EXCEPT ![req[r].obj] = MapThenSumSet(LAMBDA p : parts[u][p], listed)]
  /\ parts' = [parts EXCEPT ![u] = Absent]

Assemble(r) ==
  /\ At(r, "assemble")
  /\ \/ Assembled(r) /\ Goes(r, "head") /\ UNCHANGED faults
     \/ Goes(r, "err") /\ UNCHANGED <<blob, parts, faults>>
     \/ Assembled(r) /\ Goes(r, "err") /\ Fault
  /\ UNCHANGED <<row, qvars, upload, mp>>

\* The store says how big the object is; then the row, by the same upsert as a put's.
\* The model's store never leaves the length out of its answer, as no S3 store does: the
\* code would take such an object to be empty.
HeadObject(r) ==
  LET o == req[r].obj IN
  /\ At(r, "head")
  /\ \/ /\ blob[o] # Absent
        /\ req' = [req EXCEPT ![r].pc = "update", ![r].size = blob[o]]
     \/ Goes(r, "err")
  /\ UNCHANGED <<row, blob, faults, qvars, mvars>>

\* What the parts hold is committed, always as one more object.
CommitParts(r) ==
  LET b == BucketOf(req[r].obj) IN
  /\ req[r].op = "complete" /\ At(r, "account")
  /\ IF b \in live THEN Commit(r, b, mp[r].held, 1) /\ Goes(r, "difference")
                   ELSE Goes(r, "err") /\ UNCHANGED qvars
  /\ UNCHANGED <<row, blob, faults, mvars>>

\* Mutant of SettleDifference: the parts' sum is taken for the object's size.
SettleNothing(r) ==
  /\ At(r, "difference") /\ call[r].at = "ok"
  /\ Goes(r, "drop")
  /\ UNCHANGED <<row, blob, faults, qvars, mvars>>

\* Mutant of SettleDifference: the object's whole size is settled on top of the parts'.
SettleWhole(r) ==
  /\ At(r, "difference") /\ call[r].at = "ok"
  /\ Settle(r, BucketOf(req[r].obj), req[r].size, 0)
  /\ Goes(r, "drop")
  /\ UNCHANGED <<row, blob, faults, mvars>>

\* And the difference to the object's size settled, unchecked against the quota.
SettleDifference(r) ==
  /\ At(r, "difference") /\ call[r].at = "ok"
  /\ Settle(r, BucketOf(req[r].obj), req[r].size - mp[r].held, 0)
  /\ Goes(r, "drop")
  /\ UNCHANGED <<row, blob, faults, mvars>>

----------------------------------------------------------------------------
(* The whole. *)

StartUpload(r) ==
  \E u \in Uploads :
    \/ \E o \in Object : StartCreate(r, u, o)
    \/ \E p \in PartNumbers : \/ \E n \in PartSizes : StartPart(r, u, p, n)
                              \/ \E s \in Object : StartPartCopy(r, u, p, s)
    \/ StartAbort(r, u) \/ StartComplete(r, u)

ProceedUpload(r) ==
  \/ InsertUpload(r) \/ ReadSource(r) \/ AddReserved(r) \/ LetGo(r) \/ DropUpload(r)
  \/ CommitParts(r) \/ SettleDifference(r)

AskStore(r) == ForgetParts(r) \/ Assemble(r) \/ HeadObject(r)

Init ==
  /\ ObjectsInit
  /\ upload = [u \in Uploads |-> Absent]
  /\ parts = [u \in Uploads |-> Absent]
  /\ mp = [r \in Requests |-> NoPart]

Next ==
  \/ ObjectsNext /\ UNCHANGED mvars
  \/ \E r \in Requests :
       StartUpload(r) \/ ProceedUpload(r) \/ SendPart(r) \/ AskStore(r)

Spec == Init /\ [][Next]_vars

\* More than the code is entitled to: every client finishes its body, the database and
\* the store answer, the task comes back to every upload that is still there, and the
\* store, told over and over to forget an open upload, does so in the end.
Obeyed(r) == ForgetParts(r) /\ parts' # parts /\ UNCHANGED faults

SweepFairness ==
  \A r \in Requests :
    /\ WF_vars(ProceedUpload(r)) /\ WF_vars(Proceed(r) /\ UNCHANGED mvars)
    /\ WF_vars(SendPart(r)) /\ WF_vars(SendWrite(r) /\ UNCHANGED mvars)
    /\ WF_vars(AskStore(r)) /\ SF_vars(Obeyed(r))
    /\ \A u \in Uploads : SF_vars(StartAbort(r, u))

SweepSpec == Spec /\ SweepFairness

----------------------------------------------------------------------------
(* Properties. *)

TypeOK ==
  /\ QuotaTypeOK
  /\ row \in [Object -> Nat \cup {Absent}]
  /\ blob \in [Object -> Nat \cup {Absent}]
  /\ req \in [Requests -> Handler(ObjectOps \cup UploadOps,
                                  Resting \cup WritePcs \cup DeletePcs \cup UploadPcs)]
  /\ upload \in [Uploads -> [obj : Object, reserved : Nat] \cup {Absent}]
  /\ parts \in [Uploads -> [PartNumbers -> Nat \cup {Absent}] \cup {Absent}]
  /\ mp \in [Requests -> [upload : Uploads \cup {Absent}, part : PartNumbers \cup {0}, held : Nat]]

\* The bytes of a part between the store's answer and its upload's row.
HeldByPart(r) == IF At(r, "add") THEN req[r].size ELSE 0

\* The bytes an upload holds on its bucket's row, and on its owner's: until the request
\* that ends it has released or committed them.
Ending(u) == {r \in AtWorkOn(u) : req[r].pc \in {"difference", "drop"}}

HeldByUpload(u) == IF Ending(u) = {} THEN upload[u].reserved ELSE 0

HeldByUploadOnAccount(u) ==
  IF \A r \in Ending(u) : call[r].at \in {"release_user", "commit_user"}
    THEN upload[u].reserved ELSE 0

Open(b) == {u \in Uploads : upload[u] # Absent /\ BucketOf(upload[u].obj) = b}

OpenAny(B) == UNION {Open(b) : b \in B}

RequestHolds(b) ==
  MapThenSumSet(HeldByBucket, Charging(b)) + MapThenSumSet(HeldByPart, Charging(b))

RequestHoldsOnAccount(u) ==
  MapThenSumSet(HeldByAccount, ChargingAny(BucketsOf(u)))
    + MapThenSumSet(HeldByPart, ChargingAny(BucketsOf(u)))

\* While nothing is lost, the reserved columns are exactly what the requests in flight and
\* the open uploads hold: an abort, a complete or the task gives back what its parts
\* reserved, and no more.
UploadHoldsAccounted ==
  faults = 0 =>
    /\ \A b \in Buckets :
         bucket[b].reserved = RequestHolds(b) + MapThenSumSet(HeldByUpload, Open(b))
    /\ \A u \in Users :
         account[u].reserved = RequestHoldsOnAccount(u)
           + MapThenSumSet(HeldByUploadOnAccount, OpenAny(BucketsOf(u)))

\* The hold of an upload whose parts the store still has is never given back, even after
\* crashes and lost answers and with several requests ending it: the store, told first,
\* lets only one of them through.
OpenHoldsKept ==
  LET stored(B) == {u \in OpenAny(B) : parts[u] # Absent}
      hold(u) == upload[u].reserved IN
  /\ \A b \in Buckets :
       bucket[b].reserved >= RequestHolds(b) + MapThenSumSet(hold, stored({b}))
  /\ \A u \in Users :
       account[u].reserved >= RequestHoldsOnAccount(u)
                                + MapThenSumSet(hold, stored(BucketsOf(u)))

\* While nothing is lost, what the store has of uploads and objects, of a bucket and of an
\* account, is covered by what the counters admit.
PartsCovered ==
  LET inParts(u) == IF parts[u] = Absent \/ upload[u] = Absent THEN 0
                    ELSE MapThenSumSet(LAMBDA p : Stored(parts[u][p]), PartNumbers) IN
  faults = 0 =>
    /\ \A b \in Buckets :
         SizeIn(blob, b) + MapThenSumSet(inParts, Open(b)) <= Load(bucket[b])
    /\ \A u \in Users :
         MapThenSumSet(LAMBDA b : SizeIn(blob, b), BucketsOf(u))
           + MapThenSumSet(inParts, OpenAny(BucketsOf(u))) <= Load(account[u])

\* While nothing is lost no bucket and no account is taken over its limit, though a
\* complete settles with no look at the quota: what it settles is what of the parts'
\* hold the object does not come to.
QuotaKept == faults = 0 => WithinQuota

\* An upload nobody finished is aborted and its row removed, sooner or later
\* (cleanup_multipart).
UploadsSwept == \A u \in Uploads : upload[u] # Absent ~> upload[u] = Absent
=============================================================================
