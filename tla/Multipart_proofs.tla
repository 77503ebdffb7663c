--------------------------- MODULE Multipart_proofs ---------------------------
(* What multipart uploads hold, for every set of buckets, keys, uploads    *)
(* and requests, any sizes and any number of faults: the state stays well  *)
(* formed; while nothing is lost the reserved columns are what requests in *)
(* flight and open uploads hold; and even when much is lost, an upload the *)
(* store still has the parts of has its hold.                              *)
EXTENDS Multipart, Quota_proofs, Sums

----------------------------------------------------------------------------
(* Where a request, the procedure it calls and what it read of its upload  *)
(* stand together.                                                         *)

\* The verbs of objects and of uploads, their statements, their handlers.
AllOps == ObjectOps \cup UploadOps

AllPcs == Resting \cup WritePcs \cup DeletePcs \cup UploadPcs

AnyHandler == Handler(AllOps, AllPcs)

\* The requests that end an upload.
Enders == {"abort", "complete"}

\* What a request at this point is.
OpAt(h) ==
  /\ h.pc = "begin" => h.op = "copy"
  /\ h.pc \in {"reserve", "admit", "release", "abort"} => h.op \in WriteOps \cup PartOps
  /\ h.pc \in {"send", "commit"} => h.op \in WriteOps
  /\ h.pc \in {"update", "insert", "reread", "account"} => h.op \in WriteOps \cup {"complete"}
  /\ h.pc \in DeletePcs => h.op \in {"delete", "batch"}
  /\ h.pc = "open" => h.op = "create"
  /\ h.pc = "source" => h.op = "partcopy"
  /\ h.pc = "add" => h.op \in PartOps
  /\ h.pc \in {"forget", "letgo"} => h.op = "abort"
  /\ h.pc \in {"assemble", "head", "difference"} => h.op = "complete"
  /\ h.pc = "drop" => h.op \in Enders

\* The objects, the upload and the amount it is about.
SubjectOf(h, m) ==
  /\ h.pc \notin Resting \cup {"find"} => h.obj \in Object
  /\ h.op \in {"copy", "partcopy"} => h.src \in Object
  /\ h.op \in UploadOps => m.upload \in Uploads
  /\ h.op \in PartOps => m.part \in PartNumbers /\ h.delta = h.size
  /\ h.op \in UploadOps \ PartOps => h.delta = 0
  /\ h.pc = "release" => h.delta > 0
  /\ h.pc = "reserve" => h.delta >= 0
  /\ h.pc = "send" => h.delta <= 0

\* Where a request waits for a quota procedure.
Waiting == {"admit", "commit", "abort", "credited", "difference", "drop"}

\* The quota procedure it is in.
CallAt(h, c, m) ==
  /\ h.pc \in Waiting => c.bucket = BucketOf(h.obj)
  /\ h.pc = "admit" => /\ c.at \in {"reserve_user", "unreserve", "ok", "failed"}
                       /\ c.bytes = h.delta /\ h.delta >= 0
  /\ h.pc = "commit" => IF h.delta > 0 THEN c.at \in {"commit_user", "ok"} /\ c.bytes = h.delta
                                       ELSE c.at \in {"settle_bucket", "settle_user", "ok"}
  /\ h.pc = "abort" => c.at \in {"release_user", "ok"} /\ c.bytes = h.delta /\ h.delta > 0
  /\ h.pc = "credited" => c.at \in {"credit_bucket", "credit_user", "ok"}
  /\ h.pc = "difference" => c.at \in {"commit_user", "ok"} /\ c.bytes = m.held
  /\ h.pc = "drop" => IF h.op = "abort" THEN c.at \in {"release_user", "ok"} /\ c.bytes = m.held
                                        ELSE c.at \in {"settle_bucket", "settle_user", "ok"}
  /\ h.pc \notin Waiting => c.at \in Ended

\* All of it, for one request and for every request.
Placed(h, c, m) == OpAt(h) /\ SubjectOf(h, m) /\ CallAt(h, c, m)

PlacedOK == live = Buckets /\ \A r \in Requests : Placed(req[r], call[r], mp[r])

\* The inductive invariant of the types.
FInv == TypeOK /\ faults \in Nat /\ PlacedOK

\* The steps of one request.
ObjectStep(r) == Start(r) \/ Proceed(r) \/ SendWrite(r) \/ WriteRowFails(r) \/ Crash(r)

\* One request's step, of an upload or of an object verb.
UploadStep(r) == StartUpload(r) \/ ProceedUpload(r) \/ SendPart(r) \/ AskStore(r)

Step(r) ==
  \/ ObjectStep(r) /\ UNCHANGED mvars
  \/ UploadStep(r)

\* Every step is one request's.
LEMMA NextIsStep ==
  ASSUME Next
  PROVE  \E r \in Requests : Step(r)
  BY DEF Next, ObjectsNext, Step, ObjectStep, UploadStep

----------------------------------------------------------------------------
(* The quota tables stay well formed whatever the amounts.                 *)

\* A request's call is the only one to change.
OwnCall(r) == live' = live /\ \A q \in Requests \ {r} : call'[q] = call[q]

\* A procedure begins.
LEMMA ProcedureTyped ==
  ASSUME QuotaTypeOK, NEW r \in Requests, NEW b \in Buckets, NEW n \in Int, NEW d \in {0, 1},
         \/ Reserve(r, b, n) \/ Release(r, b, n) \/ Commit(r, b, n, d)
         \/ Settle(r, b, n, d) \/ Credit(r, b, n)
  PROVE  /\ QuotaTypeOK' /\ OwnCall(r)
         /\ call[r].at \in Ended
         /\ call'[r].bucket = b /\ call'[r].bytes = n
<1> USE DEF QuotaTypeOK, OwnCall, Pending, Ended
<1>1. bucket[b] \in BucketColumns /\ 0 \in {0, 1}
  OBVIOUS
<1>2. ASSUME NEW at \in Pending \cup Ended, NEW k \in {0, 1},
             call' = [call EXCEPT ![r] = Frame(at, b, n, k)]
      PROVE  /\ call' \in [Requests -> Call]
             /\ \A q \in Requests \ {r} : call'[q] = call[q]
             /\ call'[r].bucket = b /\ call'[r].bytes = n
  BY <1>2 DEF Frame, Call
<1>3. ASSUME NEW c \in BucketColumns, UpdateBucket(b, c)
      PROVE  bucket' \in [Buckets -> BucketColumns]
  BY <1>3 DEF UpdateBucket
<1>4. CASE Reserve(r, b, n)
  <2>1. Hold(bucket[b], n) \in BucketColumns
    BY <1>1, BucketStatements
  <2>2. bucket' \in [Buckets -> BucketColumns]
    BY <1>3, <1>4, <2>1 DEF Reserve
  <2>3. \/ call' = [call EXCEPT ![r] = Frame("reserve_user", b, n, 0)]
        \/ call' = [call EXCEPT ![r] = Frame("failed", b, n, 0)]
    BY <1>4 DEF Reserve
  <2> QED
    BY <1>1, <1>2, <1>4, <2>2, <2>3 DEF Reserve, Free
<1>5. CASE Release(r, b, n)
  <2>1. Unhold(bucket[b], n) \in BucketColumns
    BY <1>1, BucketStatements
  <2> QED
    BY <1>1, <1>2, <1>3, <1>5, <2>1 DEF Release, Free
<1>6. CASE Commit(r, b, n, d)
  <2>1. CommitColumns(bucket[b], n, d) \in BucketColumns
    BY <1>1, BucketStatements
  <2> QED
    BY <1>2, <1>3, <1>6, <2>1 DEF Commit, Free
<1>7. CASE Settle(r, b, n, d)
  <2>1. PICK at \in {"ok", "settle_bucket", "failed"} :
          call' = [call EXCEPT ![r] = Frame(at, b, n, d)]
    BY <1>7 DEF Settle
  <2> QED
    BY <1>2, <1>7, <2>1 DEF Settle, Free
<1>8. CASE Credit(r, b, n)
  <2>1. PICK at \in {"credit_bucket", "failed"} : call' = [call EXCEPT ![r] = Frame(at, b, n, 0)]
    BY <1>8 DEF Credit
  <2> QED
    BY <1>1, <1>2, <1>8, <2>1 DEF Credit, Free
<1> QED
  BY <1>4, <1>5, <1>6, <1>7, <1>8

\* The statements of a procedure, one after the other.
LaterStatement == {<<"reserve_user", "ok">>, <<"reserve_user", "unreserve">>,
                   <<"unreserve", "failed">>, <<"release_user", "ok">>, <<"commit_user", "ok">>,
                   <<"settle_bucket", "settle_user">>, <<"settle_user", "ok">>,
                   <<"credit_bucket", "credit_user">>, <<"credit_user", "ok">>}

\* A procedure goes on.
LEMMA ContinueTyped ==
  ASSUME QuotaTypeOK, NEW r \in Requests, call[r].bucket \in Buckets, Continue(r)
  PROVE  /\ QuotaTypeOK' /\ OwnCall(r)
         /\ <<call[r].at, call'[r].at>> \in LaterStatement
         /\ call'[r].bucket = call[r].bucket /\ call'[r].bytes = call[r].bytes
<1> USE DEF QuotaTypeOK, OwnCall, Pending, Ended
<1> DEFINE b == call[r].bucket
           n == call[r].bytes
           a == Owner[b]
<1>1. /\ b \in Buckets /\ n \in Int /\ a \in Users /\ call[r].objects \in {0, 1}
      /\ bucket[b] \in BucketColumns /\ account[a] \in AccountColumns /\ -n \in Int
  BY OwnerAssumption DEF Call
<1>2. ASSUME NEW at \in Pending \cup Ended, Goto(r, at)
      PROVE  /\ call' \in [Requests -> Call]
             /\ \A q \in Requests \ {r} : call'[q] = call[q]
             /\ call'[r].at = at /\ call'[r].bucket = b /\ call'[r].bytes = n
  BY <1>2 DEF Goto, Call
<1>3. ASSUME NEW c \in BucketColumns, UpdateBucket(b, c)
      PROVE  bucket' \in [Buckets -> BucketColumns]
  BY <1>3 DEF UpdateBucket
<1>4. ASSUME NEW c \in AccountColumns, UpdateOwner(b, c)
      PROVE  account' \in [Users -> AccountColumns]
  BY <1>4 DEF UpdateOwner
<1>5. CASE ReserveUser(r)
  <2>1. Hold(account[a], n) \in AccountColumns
    BY <1>1, AccountStatements
  <2>2. account' \in [Users -> AccountColumns]
    BY <1>4, <1>5, <2>1 DEF ReserveUser
  <2>3. Goto(r, "ok") \/ Goto(r, "unreserve")
    BY <1>5 DEF ReserveUser
  <2> QED
    BY <1>2, <1>5, <2>2, <2>3 DEF ReserveUser, LaterStatement, AtStatement
<1>6. CASE Unreserve(r) \/ SettleBucket(r) \/ CreditBucket(r)
  <2>1. /\ Unhold(bucket[b], n) \in BucketColumns /\ CreditColumns(bucket[b], n) \in BucketColumns
        /\ SettleColumns(bucket[b], n, call[r].objects) \in BucketColumns
    BY <1>1, BucketStatements
  <2>2. bucket' \in [Buckets -> BucketColumns]
    BY <1>3, <1>6, <2>1 DEF Unreserve, SettleBucket, CreditBucket
  <2> QED
    BY <1>2, <1>6, <2>2
       DEF Unreserve, SettleBucket, CreditBucket, LaterStatement, AtStatement
<1>7. CASE ReleaseUser(r) \/ CommitUser(r) \/ SettleUser(r) \/ CreditUser(r)
  <2>1. /\ Unhold(account[a], n) \in AccountColumns /\ Spend(account[a], n) \in AccountColumns
        /\ Adjust(account[a], n) \in AccountColumns /\ Adjust(account[a], -n) \in AccountColumns
    BY <1>1, AccountStatements
  <2>2. account' \in [Users -> AccountColumns]
    BY <1>4, <1>7, <2>1 DEF ReleaseUser, CommitUser, SettleUser, CreditUser
  <2> QED
    BY <1>2, <1>7, <2>2
       DEF ReleaseUser, CommitUser, SettleUser, CreditUser, LaterStatement, AtStatement
<1> QED
  BY <1>5, <1>6, <1>7 DEF Continue

\* A call is dropped.
LEMMA DropTyped ==
  ASSUME QuotaTypeOK, NEW r \in Requests, call' = [call EXCEPT ![r] = NoCall],
         UNCHANGED <<live, bucket, account>>
  PROVE  QuotaTypeOK' /\ OwnCall(r) /\ call'[r].at = "none"
<1>1. NoCall \in Call /\ NoCall.at = "none"
  BY DEF NoCall, Call, Pending, Ended
<1> QED
  BY <1>1 DEF QuotaTypeOK, OwnCall

----------------------------------------------------------------------------
(* What a step leaves of a handler.                                        *)

\* A request's handler is the only one to change.
OwnHandler(r) ==
  req' \in [Requests -> AnyHandler] /\ \A q \in Requests \ {r} : req'[q] = req[q]

\* All of a handler but where it is.
Same(g, h) ==
  /\ g.op = h.op /\ g.obj = h.obj /\ g.src = h.src /\ g.size = h.size
  /\ g.delta = h.delta /\ g.new = h.new /\ g.keys = h.keys

\* It becomes another.
LEMMA Becomes ==
  ASSUME TypeOK, NEW r \in Requests, NEW h \in AnyHandler, req' = [req EXCEPT ![r] = h]
  PROVE  OwnHandler(r) /\ req'[r] = h
  BY DEF TypeOK, OwnHandler, AnyHandler, AllOps, AllPcs

\* It moves on.
LEMMA GoesOn ==
  ASSUME TypeOK, NEW r \in Requests, NEW pc \in AllPcs, Goes(r, pc)
  PROVE  OwnHandler(r) /\ req'[r].pc = pc /\ Same(req'[r], req[r])
<1> DEFINE h == [req[r] EXCEPT !.pc = pc]
<1>1. req[r] \in AnyHandler
  BY DEF TypeOK, AnyHandler, AllOps, AllPcs
<1>2. h \in AnyHandler /\ h.pc = pc /\ Same(h, req[r])
  BY <1>1 DEF AnyHandler, Handler, Same
<1>3. req' = [req EXCEPT ![r] = h]
  BY DEF Goes
<1> HIDE DEF h
<1> QED
  BY <1>2, <1>3, Becomes

\* It gives up.
LEMMA GivesUp ==
  ASSUME TypeOK, NEW r \in Requests, GiveUp(r)
  PROVE  /\ OwnHandler(r) /\ Same(req'[r], req[r])
         /\ req'[r].pc = IF req[r].delta > 0 THEN "release" ELSE "err"
  BY GoesOn DEF GiveUp, AllPcs, WritePcs, Resting

\* A write tries its row again.
LEMMA TriesAgain ==
  ASSUME TypeOK, NEW r \in Requests,
         req' = [req EXCEPT ![r].pc = "update", ![r].again = TRUE]
  PROVE  OwnHandler(r) /\ req'[r].pc = "update" /\ Same(req'[r], req[r])
<1> DEFINE h == [req[r] EXCEPT !.pc = "update", !.again = TRUE]
<1>1. req[r] \in AnyHandler
  BY DEF TypeOK, AnyHandler, AllOps, AllPcs
<1>2. h \in AnyHandler /\ h.pc = "update" /\ Same(h, req[r])
  BY <1>1 DEF AnyHandler, Handler, Same, AllPcs, WritePcs
<1>3. req' = [req EXCEPT ![r] = h]
  OBVIOUS
<1> HIDE DEF h
<1> QED
  BY <1>2, <1>3, Becomes

\* A delete is done with a key.
LEMMA KeyDone ==
  ASSUME TypeOK, NEW r \in Requests, NEW o, NextKey(r, req[r], o)
  PROVE  /\ OwnHandler(r)
         /\ req'[r].op = req[r].op /\ req'[r].src = req[r].src
         /\ req'[r].delta = req[r].delta /\ req'[r].size = 0
         /\ req'[r].pc \in {"ok", "find"}
<1> DEFINE pc == IF req[r].keys \ {o} = {} THEN "ok" ELSE "find"
           h == [req[r] EXCEPT !.keys = @ \ {o}, !.obj = Nowhere, !.size = 0, !.pc = pc]
<1>1. req[r] \in AnyHandler
  BY DEF TypeOK, AnyHandler, AllOps, AllPcs
<1>2. pc \in {"ok", "find"} /\ pc \in AllPcs
  BY DEF AllPcs, Resting, DeletePcs
<1>3. req' = [req EXCEPT ![r] = h]
  BY DEF NextKey
<1> HIDE DEF pc
<1>4. /\ h \in AnyHandler
      /\ h.op = req[r].op /\ h.src = req[r].src /\ h.delta = req[r].delta /\ h.size = 0
      /\ h.pc = pc
  BY <1>1, <1>2 DEF AnyHandler, Handler
<1> HIDE DEF h
<1> QED
  BY <1>2, <1>3, <1>4, Becomes

\* A delete looks for a row.
LEMMA RowFound ==
  ASSUME TypeOK, NEW r \in Requests, FindRow(r)
  PROVE  /\ OwnHandler(r)
         /\ req'[r].op = req[r].op /\ req'[r].src = req[r].src /\ req'[r].delta = req[r].delta
         /\ \/ req'[r].pc \in {"ok", "find"} /\ req'[r].size = 0
            \/ req'[r].pc = "remove" /\ req'[r].obj \in Object
<1>1. req[r] \in AnyHandler /\ row \in [Object -> Nat \cup {Absent}]
  BY DEF TypeOK, AnyHandler, AllOps, AllPcs
<1>2. PICK o \in req[r].keys :
        IF row[o] = Absent THEN NextKey(r, req[r], o)
        ELSE req' = [req EXCEPT ![r] =
               [@ EXCEPT !.pc = "remove", !.obj = o, !.size = row[o]]]
  BY DEF FindRow
<1>3. CASE row[o] = Absent
  BY <1>2, <1>3, KeyDone
<1>4. CASE row[o] # Absent
  <2> DEFINE h == [req[r] EXCEPT !.pc = "remove", !.obj = o, !.size = row[o]]
  <2>1. o \in Object
    BY <1>1, <1>2 DEF AnyHandler, Handler
  <2>2. row[o] \in Nat
    BY <1>1, <1>4, <2>1
  <2>3. /\ h \in AnyHandler
        /\ h.op = req[r].op /\ h.src = req[r].src /\ h.delta = req[r].delta
        /\ h.pc = "remove" /\ h.obj = o
    BY <1>1, <2>1, <2>2 DEF AnyHandler, Handler, AllPcs, DeletePcs
  <2>4. req' = [req EXCEPT ![r] = h]
    BY <1>2, <1>4 DEF TypeOK
  <2> HIDE DEF h
  <2> QED
    BY <2>1, <2>3, <2>4, Becomes
<1> QED
  BY <1>3, <1>4

\* A write has read the row it will replace.
LEMMA PutBegun ==
  ASSUME TypeOK, NEW r \in Requests, NEW h \in AnyHandler, h.obj \in Object, BeginPut(r, h)
  PROVE  /\ OwnHandler(r)
         /\ req'[r].op = h.op /\ req'[r].src = h.src /\ req'[r].obj = h.obj
         /\ req'[r].delta \in Int
         /\ \/ req'[r].pc = "reserve" /\ req'[r].delta > 0
            \/ req'[r].pc = "send" /\ req'[r].delta <= 0
<1> DEFINE delta == h.size - Stored(row[h.obj])
           pc == IF delta > 0 THEN "reserve" ELSE "send"
           new == IF row[h.obj] = Absent THEN 1 ELSE 0
           g == [h EXCEPT !.pc = pc, !.delta = delta, !.new = new]
<1>1. delta \in Int
  <2>1. row[h.obj] \in Nat \cup {Absent} /\ h.size \in Int
    BY DEF TypeOK, AnyHandler, Handler
  <2>2. Stored(row[h.obj]) \in Int
    BY <2>1 DEF Stored
  <2> QED
    BY <2>1, <2>2
<1>2. /\ pc \in AllPcs /\ new \in {0, 1}
      /\ \/ pc = "reserve" /\ delta > 0
         \/ pc = "send" /\ delta <= 0
  <2> HIDE DEF delta
  <2> QED
    BY <1>1 DEF AllPcs, WritePcs
<1>3. req' = [req EXCEPT ![r] = g]
  BY DEF BeginPut
<1> HIDE DEF delta, pc, new
<1>4. /\ g \in AnyHandler
      /\ g.op = h.op /\ g.src = h.src /\ g.obj = h.obj /\ g.delta = delta /\ g.pc = pc
  BY <1>1, <1>2 DEF AnyHandler, Handler
<1> HIDE DEF g
<1> QED
  BY <1>1, <1>2, <1>3, <1>4, Becomes

\* The handler of a request that starts.
Fresh(h, op, pc, o, s) ==
  /\ h \in AnyHandler
  /\ h.op = op /\ h.pc = pc /\ h.obj = o /\ h.src = s

\* A handler nobody has started.
LEMMA NewHandler == Fresh(NoHandler, "none", "idle", Nowhere, Nowhere) /\ NoHandler.delta = 0
  BY DEF NoHandler, AnyHandler, Handler, Fresh, AllOps, ObjectOps, AllPcs, Resting

\* Those of the object verbs.
LEMMA ObjectHandlers ==
  ASSUME NEW o \in Object, NEW s \in Object, NEW n \in Nat
  PROVE  /\ Fresh([NoHandler EXCEPT !.op = "put", !.obj = o, !.size = n],
                  "put", "idle", o, Nowhere)
         /\ Fresh([NoHandler EXCEPT !.op = "copy", !.pc = "begin", !.obj = o, !.src = s,
                                    !.size = n],
                  "copy", "begin", o, s)
  BY NewHandler DEF Fresh, AnyHandler, Handler, AllOps, ObjectOps, AllPcs, WritePcs

\* Those of deletes.
LEMMA DeleteHandlers ==
  ASSUME NEW op \in {"delete", "batch"}, NEW objs \in SUBSET Object
  PROVE  Fresh(DeleteHandler(op, objs), op, "find", Nowhere, Nowhere)
  BY NewHandler DEF Fresh, AnyHandler, Handler, DeleteHandler, AllOps, ObjectOps, AllPcs,
       DeletePcs

\* Those of uploads.
LEMMA UploadHandlers ==
  ASSUME NEW o \in Object
  PROVE  /\ Fresh([NoHandler EXCEPT !.op = "create", !.pc = "open", !.obj = o],
                  "create", "open", o, Nowhere)
         /\ Fresh([NoHandler EXCEPT !.op = "abort", !.pc = "forget", !.obj = o],
                  "abort", "forget", o, Nowhere)
         /\ Fresh([NoHandler EXCEPT !.op = "complete", !.pc = "assemble", !.obj = o],
                  "complete", "assemble", o, Nowhere)
         /\ \A op, pc :
              [NoHandler EXCEPT !.op = op, !.pc = pc, !.obj = o].delta = 0
<1> USE NewHandler DEF Fresh, AnyHandler, Handler
<1>1. {"create", "abort", "complete"} \subseteq AllOps
  BY DEF AllOps, UploadOps, UploadOnlyOps
<1>2. {"open", "forget", "assemble"} \subseteq AllPcs
  BY DEF AllPcs, UploadPcs
<1> QED
  BY <1>1, <1>2

\* Those of parts.
LEMMA PartHandlers ==
  ASSUME NEW u, upload[u].obj \in Object, NEW s \in Object, NEW n \in Nat
  PROVE  LET p == [PartHandler("part", u, n) EXCEPT !.pc = "reserve"]
             c == [PartHandler("partcopy", u, 0) EXCEPT !.pc = "source", !.src = s] IN
         /\ Fresh(p, "part", "reserve", upload[u].obj, Nowhere)
         /\ p.delta = n /\ p.size = n
         /\ Fresh(c, "partcopy", "source", upload[u].obj, s)
         /\ c.delta = 0 /\ c.size = 0
<1> DEFINE o == upload[u].obj
           p == [PartHandler("part", u, n) EXCEPT !.pc = "reserve"]
           c == [PartHandler("partcopy", u, 0) EXCEPT !.pc = "source", !.src = s]
<1>1. PartOps \subseteq AllOps /\ "reserve" \in AllPcs /\ "source" \in AllPcs /\ "idle" \in AllPcs
  BY DEF AllOps, UploadOps, UploadOnlyOps, AllPcs, WritePcs, UploadPcs, Resting
<1>2. ASSUME NEW op \in PartOps, NEW k \in Nat
      PROVE  LET h == PartHandler(op, u, k) IN
             /\ h \in AnyHandler /\ h.op = op /\ h.obj = o /\ h.src = Nowhere
             /\ h.size = k /\ h.delta = k
  <2>1. op \in AllOps /\ k \in Int
    BY <1>1
  <2> QED
    BY <2>1, NewHandler DEF PartHandler, Fresh, AnyHandler, Handler
<1>3. Fresh(p, "part", "reserve", o, Nowhere) /\ p.delta = n /\ p.size = n
  <2> DEFINE h == PartHandler("part", u, n)
  <2>1. /\ h \in AnyHandler /\ h.op = "part" /\ h.obj = o /\ h.src = Nowhere
        /\ h.size = n /\ h.delta = n
    BY <1>2 DEF PartOps
  <2>2. p = [h EXCEPT !.pc = "reserve"]
    OBVIOUS
  <2> HIDE DEF h, p
  <2> QED
    BY <1>1, <2>1, <2>2 DEF Fresh, AnyHandler, Handler
<1>4. Fresh(c, "partcopy", "source", o, s) /\ c.delta = 0 /\ c.size = 0
  <2> DEFINE h == PartHandler("partcopy", u, 0)
  <2>1. h \in AnyHandler /\ h.op = "partcopy" /\ h.obj = o /\ h.size = 0 /\ h.delta = 0
    BY <1>2 DEF PartOps
  <2>2. c = [h EXCEPT !.pc = "source", !.src = s]
    OBVIOUS
  <2> HIDE DEF h, c
  <2> QED
    BY <1>1, <2>1, <2>2 DEF Fresh, AnyHandler, Handler
<1> QED
  BY <1>3, <1>4

----------------------------------------------------------------------------
(* Every step keeps a request, its call and its upload together.           *)

\* What a request has read of its upload.
PartRead == [upload : Uploads \cup {Absent}, part : PartNumbers \cup {0}, held : Nat]

\* What a request read of its upload is the only such record to change.
OwnRead(r) ==
  mp' \in [Requests -> PartRead] /\ \A q \in Requests \ {r} : mp'[q] = mp[q]

\* A step of r changes nothing of another request, and leaves r well placed.
Together(r) ==
  /\ OwnHandler(r) /\ OwnCall(r) /\ OwnRead(r)
  /\ QuotaTypeOK'
  /\ Placed(req'[r], call'[r], mp'[r])

\* What is known of a request.
LEMMA Here ==
  ASSUME FInv, NEW r \in Requests
  PROVE  /\ req[r] \in AnyHandler /\ call[r] \in Call /\ mp[r] \in PartRead
         /\ req[r].size \in Nat /\ req[r].delta \in Int /\ mp[r].held \in Nat
         /\ req[r].new \in {0, 1}
         /\ Placed(req[r], call[r], mp[r])
         /\ TypeOK /\ QuotaTypeOK /\ live = Buckets
  BY DEF FInv, TypeOK, QuotaTypeOK, PlacedOK, PartRead, AnyHandler, AllOps, AllPcs, Handler

\* The tables, or what was read of the upload, may not change.
LEMMA StillTyped ==
  ASSUME FInv, NEW r \in Requests
  PROVE  /\ UNCHANGED qvars => QuotaTypeOK' /\ OwnCall(r) /\ call'[r] = call[r]
         /\ UNCHANGED mp => OwnRead(r) /\ mp'[r] = mp[r]
  BY DEF FInv, TypeOK, QuotaTypeOK, qvars, OwnCall, OwnRead, PartRead

\* The bucket of a request at work on an object.
LEMMA ItsBucket ==
  ASSUME NEW o \in Object
  PROVE  BucketOf(o) \in Buckets /\ Owner[BucketOf(o)] \in Users /\ o # Nowhere
  BY OwnerAssumption, NowhereAssumption DEF Object, BucketOf

\* The requests that start at an object.
LEMMA StartTogether ==
  ASSUME FInv, NEW r \in Requests, Start(r), UNCHANGED mvars
  PROVE  Together(r)
<1> USE DEF Placed, OpAt, SubjectOf, CallAt, Waiting, WritePcs, DeletePcs, UploadPcs, Resting,
            WriteOps, PartOps, Enders, UploadOps, UploadOnlyOps
<1>1. /\ FInv /\ TypeOK /\ OwnRead(r) /\ QuotaTypeOK' /\ OwnCall(r)
      /\ call'[r].at \in Ended
      /\ row \in [Object -> Nat \cup {Absent}]
      /\ Placed(req[r], call[r], mp[r])
      /\ mp'[r] = mp[r]
  <2>1. UNCHANGED <<qvars, mp>> /\ ~Active(r)
    BY DEF Start, StartPut, StartCopy, StartDelete, StartBatch, mvars
  <2>2. call[r].at \in Ended
    BY <2>1, Here DEF Active
  <2> QED
    BY <2>1, <2>2, Here, StillTyped DEF TypeOK, qvars
<1>2. ASSUME NEW o \in Object, NEW n \in Sizes, StartPut(r, o, n)
      PROVE  Together(r)
  <2> DEFINE h == [NoHandler EXCEPT !.op = "put", !.obj = o, !.size = n]
  <2>1. Fresh(h, "put", "idle", o, Nowhere)
    BY SizesAssumption, ObjectHandlers
  <2>2. BeginPut(r, h)
    BY <1>2 DEF StartPut
  <2> HIDE DEF h
  <2>3. h \in AnyHandler /\ h.op = "put" /\ h.obj = o
    BY <2>1 DEF Fresh
  <2>4. /\ OwnHandler(r) /\ req'[r].op = "put" /\ req'[r].obj = o
        /\ req'[r].delta \in Int
        /\ \/ req'[r].pc = "reserve" /\ req'[r].delta > 0
           \/ req'[r].pc = "send" /\ req'[r].delta <= 0
    BY <1>1, <2>2, <2>3, PutBegun
  <2> QED
    BY <1>1, <2>4 DEF Together
<1>3. ASSUME NEW s \in Object, NEW o \in Object, StartCopy(r, s, o)
      PROVE  Together(r)
  <2> DEFINE h == [NoHandler EXCEPT !.op = "copy", !.pc = "begin", !.obj = o, !.src = s,
                                    !.size = row[s]]
  <2>1. row[s] \in Nat
    BY <1>1, <1>3 DEF StartCopy
  <2>2. Fresh(h, "copy", "begin", o, s) /\ req' = [req EXCEPT ![r] = h]
    BY <1>3, <2>1, ObjectHandlers DEF StartCopy
  <2> HIDE DEF h
  <2>3. /\ OwnHandler(r) /\ req'[r].op = "copy" /\ req'[r].pc = "begin"
        /\ req'[r].obj = o /\ req'[r].src = s
    BY <1>1, <2>2, Becomes DEF Fresh
  <2> QED
    BY <1>1, <2>3 DEF Together
<1>4. ASSUME NEW op \in {"delete", "batch"}, NEW objs \in SUBSET Object,
             req' = [req EXCEPT ![r] = DeleteHandler(op, objs)]
      PROVE  Together(r)
  <2> DEFINE h == DeleteHandler(op, objs)
  <2>1. Fresh(h, op, "find", Nowhere, Nowhere) /\ req' = [req EXCEPT ![r] = h]
    BY <1>4, DeleteHandlers
  <2> HIDE DEF h
  <2>2. OwnHandler(r) /\ req'[r].op = op /\ req'[r].pc = "find"
    BY <1>1, <2>1, Becomes DEF Fresh
  <2> QED
    BY <1>1, <2>2 DEF Together
<1>5. CASE Goes(r, "err")
  <2>1. OwnHandler(r) /\ req'[r].pc = "err" /\ Same(req'[r], req[r])
    BY <1>1, <1>5, GoesOn DEF AllPcs
  <2> QED
    BY <1>1, <2>1 DEF Together, Same
<1>6. ASSUME NEW o \in Object, StartDelete(r, o)
      PROVE  Together(r)
  BY <1>4, <1>5, <1>6 DEF StartDelete
<1>7. ASSUME NEW b \in Buckets, NEW objs \in SUBSET ObjectsOf(b), StartBatch(r, b, objs)
      PROVE  Together(r)
  <2>1. objs \in SUBSET Object
    BY DEF ObjectsOf
  <2> QED
    BY <1>4, <1>5, <1>7, <2>1 DEF StartBatch
<1> QED
  BY <1>2, <1>3, <1>6, <1>7 DEF Start

\* A request that moves on without a procedure.
LEMMA MovesTogether ==
  ASSUME FInv, NEW r \in Requests, OwnHandler(r), Placed(req'[r], call[r], mp[r]),
         UNCHANGED <<qvars, mp>>
  PROVE  Together(r)
  BY StillTyped DEF Together

\* And one that gives up, being about a write, a part or a completion.
LEMMA GiveUpTogether ==
  ASSUME FInv, NEW r \in Requests, GiveUp(r), UNCHANGED <<qvars, mp>>,
         \/ req[r].pc \in {"update", "reread", "insert"}
         \/ Admitted(r)
  PROVE  Together(r)
<1>1. /\ Placed(req[r], call[r], mp[r]) /\ TypeOK /\ req[r].delta \in Int
  BY Here
<1>2. /\ OwnHandler(r) /\ Same(req'[r], req[r])
      /\ req'[r].pc = IF req[r].delta > 0 THEN "release" ELSE "err"
  BY <1>1, GivesUp
<1>3. call[r].at \in Ended
  BY <1>1 DEF Placed, CallAt, Waiting, Admitted, At, Ended
<1>4. Placed(req'[r], call[r], mp[r])
  BY <1>1, <1>2, <1>3
     DEF Placed, OpAt, SubjectOf, CallAt, Waiting, WritePcs, DeletePcs, Resting,
         WriteOps, PartOps, Enders, UploadOps, UploadOnlyOps, Same, Admitted, At
<1> QED
  BY <1>2, <1>4, MovesTogether

\* The steps of a write that call no procedure.
LEMMA WriteTogether ==
  ASSUME FInv, NEW r \in Requests, UNCHANGED mvars,
         \/ CopyBegin(r) \/ SendWrite(r)
         \/ UpdateRow(r) \/ RereadRow(r) \/ InsertRow(r) \/ WriteRowFails(r)
  PROVE  Together(r)
<1> USE DEF Placed, OpAt, SubjectOf, CallAt, Waiting, WritePcs, DeletePcs, UploadPcs, Resting,
            WriteOps, PartOps, Enders, UploadOps, UploadOnlyOps, At
<1>1. /\ FInv /\ TypeOK /\ Placed(req[r], call[r], mp[r]) /\ req[r].delta \in Int
      /\ req[r] \in AnyHandler
      /\ UNCHANGED <<qvars, mp>>
  BY Here DEF CopyBegin, SendWrite, UpdateRow, RereadRow, InsertRow, WriteRowFails, mvars
<1>2. CASE CopyBegin(r)
  <2>1. req[r].pc = "begin" /\ req[r].obj \in Object /\ BeginPut(r, req[r])
    BY <1>1, <1>2 DEF CopyBegin
  <2>2. /\ OwnHandler(r) /\ req'[r].op = "copy" /\ req'[r].obj \in Object
        /\ req'[r].src = req[r].src
        /\ req'[r].delta \in Int
        /\ \/ req'[r].pc = "reserve" /\ req'[r].delta > 0
           \/ req'[r].pc = "send" /\ req'[r].delta <= 0
    BY <1>1, <2>1, PutBegun
  <2>3. call[r].at \in Ended
    BY <1>1, <2>1
  <2>4. Placed(req'[r], call[r], mp[r])
    BY <1>1, <2>1, <2>2, <2>3
  <2> QED
    BY <1>1, <2>2, <2>4, MovesTogether
<1>3. ASSUME NEW pc \in {"update", "insert", "reread", "account"},
             req[r].op \in WriteOps \cup {"complete"},
             req[r].pc \in {"update", "insert", "reread"} \/ Admitted(r),
             OwnHandler(r), req'[r].pc = pc, Same(req'[r], req[r])
      PROVE  Together(r)
  <2>1. call[r].at \in Ended /\ req[r].obj \in Object
    BY <1>1, <1>3 DEF Admitted, Ended
  <2>2. Placed(req'[r], call[r], mp[r])
    BY <1>1, <1>3, <2>1 DEF Same
  <2> QED
    BY <1>1, <1>3, <2>2, MovesTogether
<1>4. ASSUME NEW pc \in {"update", "insert", "reread", "account"},
             req[r].op \in WriteOps \cup {"complete"},
             req[r].pc \in {"update", "insert", "reread"} \/ Admitted(r), Goes(r, pc)
      PROVE  Together(r)
  <2>1. OwnHandler(r) /\ req'[r].pc = pc /\ Same(req'[r], req[r])
    BY <1>1, <1>4, GoesOn DEF AllPcs
  <2> QED
    BY <1>3, <1>4, <2>1
<1>5. CASE SendWrite(r)
  <2>1. Admitted(r) /\ req[r].op \in WriteOps /\ (Goes(r, "update") \/ GiveUp(r))
    BY <1>5 DEF SendWrite, Writing
  <2> QED
    BY <1>1, <1>4, <2>1, GiveUpTogether
<1>6. CASE UpdateRow(r) \/ RereadRow(r)
  <2>1. /\ req[r].pc \in {"update", "insert", "reread"}
        /\ Goes(r, "reread") \/ Goes(r, "insert") \/ Goes(r, "account") \/ GiveUp(r)
    BY <1>6 DEF UpdateRow, RereadRow
  <2>2. req[r].op \in WriteOps \cup {"complete"}
    BY <1>1, <2>1
  <2> QED
    BY <1>1, <1>4, <2>1, <2>2, GiveUpTogether
<1>7. CASE InsertRow(r) \/ WriteRowFails(r)
  <2>1. /\ req[r].pc \in {"update", "insert", "reread"}
        /\ \/ Goes(r, "account") \/ GiveUp(r)
           \/ req' = [req EXCEPT ![r].pc = "update", ![r].again = TRUE]
    BY <1>7 DEF InsertRow, InsertFails, WriteRowFails
  <2>2. req[r].op \in WriteOps \cup {"complete"}
    BY <1>1, <2>1
  <2>3. ASSUME req' = [req EXCEPT ![r].pc = "update", ![r].again = TRUE]
        PROVE  Together(r)
    BY <1>1, <1>3, <2>1, <2>2, <2>3, TriesAgain
  <2> QED
    BY <1>1, <1>4, <2>1, <2>2, <2>3, GiveUpTogether
<1> QED
  BY <1>2, <1>5, <1>6, <1>7

\* A procedure begins, and the request waits for it.
LEMMA CallsTogether ==
  ASSUME FInv, NEW r \in Requests, UNCHANGED mvars,
         CallReserve(r) \/ Account(r) \/ GiveBack(r) \/ CallCredit(r)
  PROVE  Together(r)
<1> USE DEF Placed, OpAt, SubjectOf, CallAt, Waiting, WritePcs, DeletePcs, UploadPcs, Resting,
            WriteOps, PartOps, Enders, UploadOps, UploadOnlyOps, At, Ended
<1> DEFINE b == BucketOf(req[r].obj)
           n == req[r].delta
<1>1. /\ FInv /\ TypeOK /\ Placed(req[r], call[r], mp[r]) /\ n \in Int /\ req[r].size \in Nat
      /\ QuotaTypeOK /\ live = Buckets
      /\ OwnRead(r) /\ mp'[r] = mp[r] /\ req[r].new \in {0, 1} /\ 0 \in {0, 1}
  BY Here, StillTyped DEF mvars
<1>2. b \in Buckets /\ req[r].obj \in Object
  BY <1>1, ItsBucket DEF CallReserve, Account, GiveBack, CallCredit
<1> HIDE DEF b, n
<1>3. CASE CallReserve(r)
  <2>1. req[r].pc = "reserve" /\ Reserve(r, b, n) /\ Goes(r, "admit")
    BY <1>3 DEF CallReserve, b, n
  <2>2. OwnHandler(r) /\ req'[r].pc = "admit" /\ Same(req'[r], req[r])
    BY <1>1, <2>1, GoesOn DEF AllPcs
  <2>3. QuotaTypeOK' /\ OwnCall(r) /\ call'[r].bucket = b /\ call'[r].bytes = n
    BY <1>1, <1>2, <2>1, ProcedureTyped
  <2>4. call'[r].at \in {"reserve_user", "failed"}
    BY <1>1, <2>1 DEF Reserve, Frame, QuotaTypeOK
  <2>5. Placed(req'[r], call'[r], mp'[r])
    BY <1>1, <1>2, <2>1, <2>2, <2>3, <2>4 DEF Same, b, n
  <2> QED
    BY <1>1, <2>2, <2>3, <2>5 DEF Together
<1>4. CASE Account(r)
  <2>1. /\ req[r].pc = "account" /\ req[r].op \in WriteOps /\ Goes(r, "commit")
        /\ IF n > 0 THEN Commit(r, b, n, req[r].new) ELSE Settle(r, b, n, req[r].new)
    BY <1>4 DEF Account, Writing, b, n
  <2>2. OwnHandler(r) /\ req'[r].pc = "commit" /\ Same(req'[r], req[r])
    BY <1>1, <2>1, GoesOn DEF AllPcs
  <2>3. QuotaTypeOK' /\ OwnCall(r) /\ call'[r].bucket = b /\ call'[r].bytes = n
    BY <1>1, <1>2, <2>1, ProcedureTyped
  <2>4. call'[r].at \in IF n > 0 THEN {"commit_user"} ELSE {"settle_bucket", "ok"}
    BY <1>1, <1>2, <2>1 DEF Commit, Settle, Frame, QuotaTypeOK
  <2>5. Placed(req'[r], call'[r], mp'[r])
    BY <1>1, <1>2, <2>1, <2>2, <2>3, <2>4 DEF Same, b, n
  <2> QED
    BY <1>1, <2>2, <2>3, <2>5 DEF Together
<1>5. CASE GiveBack(r)
  <2>1. req[r].pc = "release" /\ Release(r, b, n) /\ Goes(r, "abort")
    BY <1>5 DEF GiveBack, b, n
  <2>2. OwnHandler(r) /\ req'[r].pc = "abort" /\ Same(req'[r], req[r])
    BY <1>1, <2>1, GoesOn DEF AllPcs
  <2>3. QuotaTypeOK' /\ OwnCall(r) /\ call'[r].bucket = b /\ call'[r].bytes = n
    BY <1>1, <1>2, <2>1, ProcedureTyped
  <2>4. call'[r].at = "release_user"
    BY <1>1, <2>1 DEF Release, Frame, QuotaTypeOK
  <2>5. Placed(req'[r], call'[r], mp'[r])
    BY <1>1, <1>2, <2>1, <2>2, <2>3, <2>4 DEF Same, b, n
  <2> QED
    BY <1>1, <2>2, <2>3, <2>5 DEF Together
<1>6. CASE CallCredit(r)
  <2>1. req[r].pc = "credit" /\ Credit(r, b, req[r].size) /\ Goes(r, "credited")
    BY <1>6 DEF CallCredit, b
  <2>2. OwnHandler(r) /\ req'[r].pc = "credited" /\ Same(req'[r], req[r])
    BY <1>1, <2>1, GoesOn DEF AllPcs
  <2>3. QuotaTypeOK' /\ OwnCall(r) /\ call'[r].bucket = b
    BY <1>1, <1>2, <2>1, ProcedureTyped
  <2>4. call'[r].at = "credit_bucket"
    BY <1>1, <1>2, <2>1 DEF Credit, Frame, QuotaTypeOK
  <2>5. Placed(req'[r], call'[r], mp'[r])
    BY <1>1, <1>2, <2>1, <2>2, <2>3, <2>4 DEF Same, b
  <2> QED
    BY <1>1, <2>2, <2>3, <2>5 DEF Together
<1> QED
  BY <1>3, <1>4, <1>5, <1>6


\* A request that ends, its call over or dropped.
LEMMA EndsTogether ==
  ASSUME FInv, NEW r \in Requests, OwnHandler(r), req'[r].pc \in Resting,
         Same(req'[r], req[r]),
         UNCHANGED mp,
         \/ UNCHANGED qvars /\ req[r].pc \notin Waiting
         \/ call' = [call EXCEPT ![r] = NoCall] /\ UNCHANGED <<live, bucket, account>>
  PROVE  Together(r)
<1>1. /\ Placed(req[r], call[r], mp[r]) /\ QuotaTypeOK /\ OwnRead(r) /\ mp'[r] = mp[r]
  BY Here, StillTyped
<1>2. QuotaTypeOK' /\ OwnCall(r) /\ call'[r].at \in Ended
  BY <1>1, StillTyped, DropTyped DEF Placed, CallAt, Ended
<1>3. Placed(req'[r], call'[r], mp'[r])
  BY <1>1, <1>2
     DEF Placed, OpAt, SubjectOf, CallAt, Waiting, WritePcs, DeletePcs, UploadPcs, Resting,
         PartOps, Same
<1> QED
  BY <1>1, <1>2, <1>3 DEF Together

\* The answers of writes, and losses.
LEMMA AnswersTogether ==
  ASSUME FInv, NEW r \in Requests, UNCHANGED mvars,
         RefuseWrite(r) \/ AnswerWrite(r) \/ Crash(r)
  PROVE  Together(r)
<1>1. /\ call' = [call EXCEPT ![r] = NoCall] /\ UNCHANGED <<live, bucket, account>>
      /\ UNCHANGED mp /\ TypeOK
  BY Here DEF RefuseWrite, AnswerWrite, Crash, Drop, mvars
<1>2. \E pc \in Resting : Goes(r, pc)
  BY DEF RefuseWrite, AnswerWrite, Crash, Resting
<1>3. PICK pc \in Resting : Goes(r, pc)
  BY <1>2
<1>4. OwnHandler(r) /\ req'[r].pc \in Resting /\ Same(req'[r], req[r])
  BY <1>1, <1>3, GoesOn DEF AllPcs
<1> QED
  BY <1>1, <1>4, EndsTogether

\* The steps of a delete that call no procedure.
LEMMA DeleteTogether ==
  ASSUME FInv, NEW r \in Requests, UNCHANGED mvars, FindRow(r) \/ RemoveRow(r) \/ Credited(r)
  PROVE  Together(r)
<1> USE DEF Placed, OpAt, SubjectOf, CallAt, Waiting, WritePcs, DeletePcs, UploadPcs, Resting,
            WriteOps, PartOps, Enders, UploadOps, UploadOnlyOps, At
<1>1. /\ TypeOK /\ Placed(req[r], call[r], mp[r]) /\ QuotaTypeOK
      /\ UNCHANGED mp /\ OwnRead(r) /\ mp'[r] = mp[r]
      /\ req[r].op \in {"delete", "batch"}
  BY Here, StillTyped DEF FindRow, RemoveRow, Credited, mvars
<1>2. \/ UNCHANGED qvars /\ req[r].pc \in {"find", "remove"}
      \/ call' = [call EXCEPT ![r] = NoCall] /\ UNCHANGED <<live, bucket, account>>
  BY DEF FindRow, RemoveRow, Credited, Drop
<1>3. QuotaTypeOK' /\ OwnCall(r) /\ call'[r].at \in Ended
  <2>1. CASE UNCHANGED qvars /\ req[r].pc \in {"find", "remove"}
    BY <1>1, <2>1, StillTyped
  <2>2. CASE call' = [call EXCEPT ![r] = NoCall] /\ UNCHANGED <<live, bucket, account>>
    BY <1>1, <2>2, DropTyped DEF Ended
  <2> QED
    BY <1>2, <2>1, <2>2
<1>4. /\ OwnHandler(r) /\ req'[r].op \in {"delete", "batch"}
      /\ \/ req'[r].pc \in {"ok", "find", "err"}
         \/ req'[r].pc \in {"remove", "credit"} /\ req'[r].obj \in Object
  <2>1. CASE FindRow(r)
    BY <1>1, <2>1, RowFound
  <2>2. ASSUME NEW o, NextKey(r, req[r], o)
        PROVE  OwnHandler(r) /\ req'[r].op = req[r].op /\ req'[r].pc \in {"ok", "find"}
    BY <1>1, <2>2, KeyDone
  <2>3. ASSUME NEW pc \in {"err", "credit"}, Goes(r, pc)
        PROVE  OwnHandler(r) /\ req'[r].pc = pc /\ Same(req'[r], req[r])
    BY <1>1, <2>3, GoesOn DEF AllPcs
  <2>4. CASE RemoveRow(r)
    <3>1. req[r].obj \in Object /\ (NextKey(r, req[r], req[r].obj) \/ Goes(r, "credit"))
      BY <1>1, <2>4 DEF RemoveRow
    <3> QED
      BY <1>1, <2>2, <2>3, <3>1 DEF Same
  <2>5. CASE Credited(r)
    <3>1. NextKey(r, req[r], req[r].obj) \/ Goes(r, "err")
      BY <2>5 DEF Credited
    <3> QED
      BY <1>1, <2>2, <2>3, <3>1 DEF Same
  <2> QED
    BY <2>1, <2>4, <2>5
<1>5. Placed(req'[r], call'[r], mp'[r])
  BY <1>1, <1>3, <1>4
<1> QED
  BY <1>1, <1>3, <1>4, <1>5 DEF Together

\* The statements of a procedure.
LEMMA ContinueTogether ==
  ASSUME FInv, NEW r \in Requests, Continue(r), UNCHANGED ovars, UNCHANGED mvars
  PROVE  Together(r)
<1> USE DEF Placed, OpAt, SubjectOf, CallAt, Waiting, WritePcs, DeletePcs, UploadPcs, Resting,
            WriteOps, PartOps, Enders, UploadOps, UploadOnlyOps, Ended
<1>1. /\ TypeOK /\ Placed(req[r], call[r], mp[r]) /\ QuotaTypeOK
      /\ OwnRead(r) /\ mp'[r] = mp[r]
      /\ OwnHandler(r) /\ req'[r] = req[r]
  BY Here, StillTyped DEF mvars, ovars, OwnHandler, TypeOK, AnyHandler, AllOps, AllPcs
<1>2. call[r].at \in Pending
  BY DEF Continue, ReserveUser, Unreserve, ReleaseUser, CommitUser, SettleBucket, SettleUser,
       CreditBucket, CreditUser, AtStatement, Pending
<1>3. req[r].pc \in Waiting /\ req[r].obj \in Object
  BY <1>1, <1>2 DEF Pending
<1>4. call[r].bucket \in Buckets
  BY <1>1, <1>3, ItsBucket
<1>5. /\ QuotaTypeOK' /\ OwnCall(r)
      /\ <<call[r].at, call'[r].at>> \in LaterStatement
      /\ call'[r].bucket = call[r].bucket /\ call'[r].bytes = call[r].bytes
  BY <1>1, <1>4, ContinueTyped
<1>6. CallAt(req'[r], call'[r], mp'[r])
  BY <1>1, <1>3, <1>5 DEF LaterStatement
<1> QED
  BY <1>1, <1>5, <1>6 DEF Together

----------------------------------------------------------------------------
(* And the steps of uploads. *)

\* The row of an upload, while there is one.
LEMMA UploadRow ==
  ASSUME TypeOK, NEW u \in Uploads, upload[u] # Absent
  PROVE  /\ upload[u] \in [obj : Object, reserved : Nat]
         /\ upload[u].obj \in Object /\ upload[u].reserved \in Nat
  BY DEF TypeOK

\* A request that starts on an upload.
LEMMA BeginsTogether ==
  ASSUME FInv, NEW r \in Requests, ~Active(r), UNCHANGED qvars,
         NEW m \in PartRead, mp' = [mp EXCEPT ![r] = m],
         NEW h, NEW op, NEW pc, NEW o \in Object, NEW s, Fresh(h, op, pc, o, s),
         req' = [req EXCEPT ![r] = h],
         <<op, pc>> \in {<<"create", "open">>, <<"part", "reserve">>, <<"partcopy", "source">>,
                         <<"abort", "forget">>, <<"complete", "assemble">>},
         m.upload \in Uploads,
         op \in PartOps => m.part \in PartNumbers /\ h.delta = h.size,
         op \notin PartOps => h.delta = 0,
         op = "partcopy" => s \in Object
  PROVE  Together(r)
<1>1. /\ TypeOK /\ Placed(req[r], call[r], mp[r]) /\ QuotaTypeOK'
      /\ OwnCall(r) /\ call'[r] = call[r]
  BY Here, StillTyped
<1>2. call[r].at \in Ended
  BY <1>1 DEF Placed, CallAt, Waiting, Active, Resting
<1>3. OwnHandler(r) /\ req'[r] = h /\ h \in AnyHandler
  BY <1>1, Becomes DEF Fresh
<1>4. OwnRead(r) /\ mp'[r] = m
  BY <1>1 DEF TypeOK, OwnRead, PartRead
<1>5. h.op = op /\ h.pc = pc /\ h.obj = o /\ h.src = s /\ h.size \in Nat
  BY <1>3 DEF Fresh, AnyHandler, Handler
<1>6. Placed(h, call[r], m)
  BY <1>2, <1>5
     DEF Placed, OpAt, SubjectOf, CallAt, Waiting, WritePcs, DeletePcs, UploadPcs, Resting,
         WriteOps, PartOps, Enders, UploadOps, UploadOnlyOps
<1> QED
  BY <1>1, <1>3, <1>4, <1>6 DEF Together

\* A request that starts on an upload.
LEMMA StartUploadTogether ==
  ASSUME FInv, NEW r \in Requests, StartUpload(r)
  PROVE  Together(r)
<1> DEFINE Ends(u, op, pc) ==
             /\ upload[u] # Absent /\ Reads(r, u)
             /\ req' = [req EXCEPT ![r] =
                  [NoHandler EXCEPT !.op = op, !.pc = pc, !.obj = upload[u].obj]]
<1>1. /\ TypeOK /\ Placed(req[r], call[r], mp[r])
      /\ UNCHANGED qvars /\ ~Active(r)
  BY Here DEF StartUpload, StartCreate, StartPart, StartPartCopy, StartAbort, StartComplete
<1>2. ASSUME NEW u \in Uploads, NEW o \in Object, StartCreate(r, u, o)
      PROVE  Together(r)
  <2> DEFINE h == [NoHandler EXCEPT !.op = "create", !.pc = "open", !.obj = o]
             m == [NoPart EXCEPT !.upload = u]
  <2>1. Fresh(h, "create", "open", o, Nowhere) /\ h.delta = 0
    BY UploadHandlers
  <2>2. m \in PartRead /\ m.upload = u
    BY DEF NoPart, PartRead
  <2>3. CASE req' = [req EXCEPT ![r] = h] /\ mp' = [mp EXCEPT ![r] = m]
    <3> HIDE DEF h, m
    <3> QED
      BY <1>1, <2>1, <2>2, <2>3, BeginsTogether DEF PartOps
  <2>4. CASE UNCHANGED <<req, mp>>
    <3>1. OwnHandler(r) /\ req'[r] = req[r]
      BY <1>1, <2>4 DEF TypeOK, OwnHandler, AnyHandler, AllOps, AllPcs
    <3> QED
      BY <1>1, <2>4, <3>1, MovesTogether
  <2> QED
    BY <1>2, <2>3, <2>4 DEF StartCreate
<1>3. ASSUME NEW u \in Uploads, NEW p \in PartNumbers, NEW n \in PartSizes, StartPart(r, u, p, n)
      PROVE  Together(r)
  <2> DEFINE h == [PartHandler("part", u, n) EXCEPT !.pc = "reserve"]
             m == [upload |-> u, part |-> p, held |-> 0]
  <2>1. n \in Nat /\ upload[u].obj \in Object
    BY <1>1, <1>3, UploadRow, PartSizesAssumption DEF StartPart
  <2>2. \A s \in Object : /\ Fresh(h, "part", "reserve", upload[u].obj, Nowhere)
                         /\ h.delta = n /\ h.size = n
    BY <2>1, PartHandlers
  <2>3. Fresh(h, "part", "reserve", upload[u].obj, Nowhere) /\ h.delta = n /\ h.size = n
    BY <2>1, <2>2
  <2>4. m \in PartRead /\ m.upload = u /\ m.part = p
    BY DEF PartRead
  <2>5. req' = [req EXCEPT ![r] = h] /\ mp' = [mp EXCEPT ![r] = m]
    BY <1>3 DEF StartPart, ForPart
  <2> HIDE DEF h, m
  <2> QED
    BY <1>1, <2>1, <2>3, <2>4, <2>5, BeginsTogether DEF PartOps
<1>4. ASSUME NEW u \in Uploads, NEW p \in PartNumbers, NEW s \in Object, StartPartCopy(r, u, p, s)
      PROVE  Together(r)
  <2> DEFINE h == [PartHandler("partcopy", u, 0) EXCEPT !.pc = "source", !.src = s]
             m == [upload |-> u, part |-> p, held |-> 0]
  <2>1. 0 \in Nat /\ upload[u].obj \in Object
    BY <1>1, <1>4, UploadRow DEF StartPartCopy
  <2>3. Fresh(h, "partcopy", "source", upload[u].obj, s) /\ h.delta = 0 /\ h.size = 0
    BY <2>1, PartHandlers
  <2>4. m \in PartRead /\ m.upload = u /\ m.part = p
    BY DEF PartRead
  <2>5. req' = [req EXCEPT ![r] = h] /\ mp' = [mp EXCEPT ![r] = m]
    BY <1>4 DEF StartPartCopy, ForPart
  <2> HIDE DEF h, m
  <2> QED
    BY <1>1, <2>1, <2>3, <2>4, <2>5, BeginsTogether DEF PartOps
<1>5. ASSUME NEW u \in Uploads, NEW op, NEW pc,
             \/ op = "abort" /\ pc = "forget"
             \/ op = "complete" /\ pc = "assemble",
             Ends(u, op, pc)
      PROVE  Together(r)
  <2> DEFINE h == [NoHandler EXCEPT !.op = op, !.pc = pc, !.obj = upload[u].obj]
             m == [upload |-> u, part |-> 0, held |-> upload[u].reserved]
  <2>1. upload[u].obj \in Object /\ upload[u].reserved \in Nat
    BY <1>1, <1>5, UploadRow
  <2>2. Fresh(h, op, pc, upload[u].obj, Nowhere) /\ h.delta = 0
    BY <1>5, <2>1, UploadHandlers
  <2>3. m \in PartRead /\ m.upload = u
    BY <2>1 DEF PartRead
  <2>4. req' = [req EXCEPT ![r] = h] /\ mp' = [mp EXCEPT ![r] = m]
    BY <1>5 DEF Reads
  <2> HIDE DEF h, m
  <2> QED
    BY <1>1, <1>5, <2>1, <2>2, <2>3, <2>4, BeginsTogether DEF PartOps
<1>6. ASSUME NEW u \in Uploads, StartAbort(r, u) \/ StartComplete(r, u)
      PROVE  Together(r)
  <2>1. CASE StartAbort(r, u)
    <3>1. Ends(u, "abort", "forget")
      BY <2>1 DEF StartAbort
    <3> HIDE DEF Ends
    <3> QED
      BY <1>5, <3>1
  <2>2. CASE StartComplete(r, u)
    <3>1. Ends(u, "complete", "assemble")
      BY <2>2 DEF StartComplete
    <3> HIDE DEF Ends
    <3> QED
      BY <1>5, <3>1
  <2> QED
    BY <1>6, <2>1, <2>2
<1> QED
  BY <1>2, <1>3, <1>4, <1>6 DEF StartUpload

\* A part's size and growth are what the source's row says.
LEMMA SourceRead ==
  ASSUME TypeOK, NEW r \in Requests, NEW n \in Nat,
         req' = [req EXCEPT ![r] = [@ EXCEPT !.pc = "reserve", !.size = n, !.delta = n]]
  PROVE  /\ OwnHandler(r) /\ req'[r].pc = "reserve" /\ req'[r].op = req[r].op
         /\ req'[r].obj = req[r].obj /\ req'[r].src = req[r].src
         /\ req'[r].size = n /\ req'[r].delta = n
<1> DEFINE h == [req[r] EXCEPT !.pc = "reserve", !.size = n, !.delta = n]
<1>0. n \in Int
  OBVIOUS
<1>1. req[r] \in AnyHandler
  BY DEF TypeOK, AnyHandler, AllOps, AllPcs
<1>2. /\ h \in AnyHandler /\ h.pc = "reserve" /\ h.op = req[r].op
      /\ h.obj = req[r].obj /\ h.src = req[r].src /\ h.size = n /\ h.delta = n
  BY <1>0, <1>1 DEF AnyHandler, Handler, AllPcs, WritePcs
<1>3. req' = [req EXCEPT ![r] = h]
  BY DEF TypeOK
<1> HIDE DEF h
<1> QED
  BY <1>2, <1>3, Becomes

\* A completed object's size is what the store says.
LEMMA HeadRead ==
  ASSUME TypeOK, NEW r \in Requests, NEW n \in Nat,
         req' = [req EXCEPT ![r].pc = "update", ![r].size = n]
  PROVE  /\ OwnHandler(r) /\ req'[r].pc = "update" /\ req'[r].op = req[r].op
         /\ req'[r].obj = req[r].obj /\ req'[r].src = req[r].src
         /\ req'[r].delta = req[r].delta
<1> DEFINE h == [req[r] EXCEPT !.pc = "update", !.size = n]
<1>1. req[r] \in AnyHandler
  BY DEF TypeOK, AnyHandler, AllOps, AllPcs
<1>2. /\ h \in AnyHandler /\ h.pc = "update" /\ h.op = req[r].op
      /\ h.obj = req[r].obj /\ h.src = req[r].src /\ h.delta = req[r].delta
  BY <1>1 DEF AnyHandler, Handler, AllPcs, WritePcs
<1>3. req' = [req EXCEPT ![r] = h]
  OBVIOUS
<1> HIDE DEF h
<1> QED
  BY <1>2, <1>3, Becomes

\* The steps of parts.
LEMMA PartTogether ==
  ASSUME FInv, NEW r \in Requests, ReadSource(r) \/ SendPart(r) \/ AddReserved(r)
  PROVE  Together(r)
<1> USE DEF Placed, OpAt, SubjectOf, CallAt, Waiting, WritePcs, DeletePcs, UploadPcs, Resting,
            WriteOps, PartOps, Enders, UploadOps, UploadOnlyOps, At
<1>1. /\ TypeOK /\ Placed(req[r], call[r], mp[r]) /\ QuotaTypeOK /\ UNCHANGED mp
  BY Here DEF ReadSource, SendPart, AddReserved, mvars
<1>2. CASE ReadSource(r)
  <2>1. /\ req[r].pc = "source" /\ req[r].src \in Object /\ UNCHANGED qvars
        /\ call[r].at \in Ended
    BY <1>1, <1>2 DEF ReadSource
  <2>2. CASE Goes(r, "err")
    <3>1. OwnHandler(r) /\ req'[r].pc = "err" /\ Same(req'[r], req[r])
      BY <1>1, <2>2, GoesOn DEF AllPcs
    <3> QED
      BY <1>1, <2>1, <3>1, EndsTogether
  <2>3. CASE ~Goes(r, "err")
    <3> DEFINE n == row[req[r].src]
    <3>1. /\ n \in Nat
          /\ req' = [req EXCEPT ![r] = [@ EXCEPT !.pc = "reserve", !.size = n, !.delta = n]]
      BY <1>1, <1>2, <2>1, <2>3 DEF ReadSource, TypeOK
    <3> HIDE DEF n
    <3>2. /\ OwnHandler(r) /\ req'[r].pc = "reserve" /\ req'[r].op = req[r].op
          /\ req'[r].obj = req[r].obj /\ req'[r].src = req[r].src
          /\ req'[r].size = n /\ req'[r].delta = n
      BY <1>1, <3>1, SourceRead
    <3>3. Placed(req'[r], call[r], mp[r])
      BY <1>1, <2>1, <3>1, <3>2
    <3> QED
      BY <1>1, <2>1, <3>2, <3>3, MovesTogether
  <2> QED
    BY <2>2, <2>3
<1>3. CASE SendPart(r)
  <2>1. /\ req[r].op \in PartOps /\ Admitted(r) /\ UNCHANGED qvars
        /\ Goes(r, "add") \/ GiveUp(r)
    BY <1>3 DEF SendPart
  <2>2. CASE GiveUp(r)
    BY <1>1, <2>1, <2>2, GiveUpTogether
  <2>3. CASE Goes(r, "add")
    <3>1. OwnHandler(r) /\ req'[r].pc = "add" /\ Same(req'[r], req[r])
      BY <1>1, <2>3, GoesOn DEF AllPcs
    <3>2. call[r].at \in Ended /\ req[r].pc = "admit"
      BY <1>1, <2>1 DEF Admitted, Ended
    <3>3. Placed(req'[r], call[r], mp[r])
      BY <1>1, <2>1, <3>1, <3>2 DEF Same
    <3> QED
      BY <1>1, <2>1, <3>1, <3>3, MovesTogether
  <2> QED
    BY <2>1, <2>2, <2>3
<1>4. CASE AddReserved(r)
  <2>1. /\ Goes(r, "ok") \/ Goes(r, "err")
        /\ call' = [call EXCEPT ![r] = NoCall] /\ UNCHANGED <<live, bucket, account>>
    BY <1>4 DEF AddReserved, Drop
  <2>2. OwnHandler(r) /\ req'[r].pc \in Resting /\ Same(req'[r], req[r])
    BY <1>1, <2>1, GoesOn DEF AllPcs
  <2> QED
    BY <1>1, <2>1, <2>2, EndsTogether
<1> QED
  BY <1>2, <1>3, <1>4

\* The steps of the requests that open or end an upload.
LEMMA EndTogether ==
  ASSUME FInv, NEW r \in Requests,
         \/ InsertUpload(r) \/ LetGo(r) \/ DropUpload(r)
         \/ CommitParts(r) \/ SettleDifference(r) \/ AskStore(r)
  PROVE  Together(r)
<1> USE DEF Placed, OpAt, SubjectOf, CallAt, Waiting, WritePcs, DeletePcs, UploadPcs, Resting,
            WriteOps, PartOps, Enders, UploadOps, UploadOnlyOps, At, Ended
<1> DEFINE b == BucketOf(req[r].obj)
           n == mp[r].held
<1>1. /\ TypeOK /\ Placed(req[r], call[r], mp[r]) /\ QuotaTypeOK /\ UNCHANGED mp
      /\ OwnRead(r) /\ mp'[r] = mp[r] /\ live = Buckets
      /\ n \in Int /\ req[r].size - n \in Int /\ 1 \in {0, 1} /\ 0 \in {0, 1}
      /\ req[r].op \in {"create", "abort", "complete"}
  <2>1. /\ TypeOK /\ Placed(req[r], call[r], mp[r]) /\ QuotaTypeOK /\ live = Buckets
        /\ n \in Nat /\ req[r].size \in Nat
    BY Here
  <2>2. UNCHANGED mp
    BY DEF InsertUpload, LetGo, DropUpload, CommitParts, SettleDifference, AskStore, ForgetParts,
         Assemble, HeadObject, mvars
  <2>3. req[r].op \in {"create", "abort", "complete"}
    BY <2>1 DEF InsertUpload, LetGo, DropUpload, CommitParts, SettleDifference, AskStore,
         ForgetParts, Assemble, HeadObject
  <2> QED
    BY <2>1, <2>2, <2>3, StillTyped
<1>2. b \in Buckets /\ req[r].obj \in Object
  BY <1>1, ItsBucket
     DEF InsertUpload, LetGo, DropUpload, CommitParts, SettleDifference, AskStore, ForgetParts,
         Assemble, HeadObject
<1>3. ASSUME NEW pc \in {"ok", "err"}, Goes(r, pc),
             \/ UNCHANGED qvars /\ req[r].pc \notin Waiting
             \/ call' = [call EXCEPT ![r] = NoCall] /\ UNCHANGED <<live, bucket, account>>
      PROVE  Together(r)
  <2>1. OwnHandler(r) /\ req'[r].pc \in Resting /\ Same(req'[r], req[r])
    BY <1>1, <1>3, GoesOn DEF AllPcs
  <2> QED
    BY <1>1, <1>3, <2>1, EndsTogether
<1> HIDE DEF b, n
<1>4. CASE InsertUpload(r)
  BY <1>3, <1>4 DEF InsertUpload
<1>5. CASE DropUpload(r)
  BY <1>3, <1>5 DEF DropUpload, Drop
<1>6. CASE AskStore(r)
  <2>1. ASSUME NEW pc \in {"letgo", "head"}, Goes(r, pc), UNCHANGED qvars,
               <<req[r].pc, pc>> \in {<<"forget", "letgo">>, <<"assemble", "head">>}
        PROVE  Together(r)
    <3>1. OwnHandler(r) /\ req'[r].pc = pc /\ Same(req'[r], req[r])
      BY <1>1, <2>1, GoesOn DEF AllPcs
    <3>2. Placed(req'[r], call[r], mp[r])
      BY <1>1, <1>2, <2>1, <3>1 DEF Same
    <3> QED
      BY <1>1, <2>1, <3>1, <3>2, MovesTogether
  <2>2. CASE ForgetParts(r)
    BY <1>3, <2>1, <2>2 DEF ForgetParts
  <2>3. CASE Assemble(r)
    BY <1>3, <2>1, <2>3 DEF Assemble
  <2>4. CASE HeadObject(r)
    <3>1. CASE Goes(r, "err")
      BY <1>3, <2>4, <3>1 DEF HeadObject
    <3>2. CASE ~Goes(r, "err")
      <4> DEFINE s == blob[req[r].obj]
      <4>1. s \in Nat /\ req' = [req EXCEPT ![r].pc = "update", ![r].size = s]
        BY <1>1, <1>2, <2>4, <3>2 DEF HeadObject, TypeOK
      <4> HIDE DEF s
      <4>2. /\ OwnHandler(r) /\ req'[r].pc = "update" /\ req'[r].op = req[r].op
            /\ req'[r].obj = req[r].obj /\ req'[r].src = req[r].src
            /\ req'[r].delta = req[r].delta
        BY <1>1, <4>1, HeadRead
      <4>3. UNCHANGED qvars /\ req[r].pc = "head"
        BY <2>4 DEF HeadObject
      <4>4. Placed(req'[r], call[r], mp[r])
        BY <1>1, <1>2, <4>2, <4>3
      <4> QED
        BY <1>1, <4>2, <4>3, <4>4, MovesTogether
    <3> QED
      BY <3>1, <3>2
  <2> QED
    BY <1>6, <2>2, <2>3, <2>4 DEF AskStore
<1>7. CASE LetGo(r)
  <2>1. req[r].pc = "letgo" /\ Release(r, b, n) /\ Goes(r, "drop")
    BY <1>1, <1>2, <1>7 DEF LetGo, b, n
  <2>2. OwnHandler(r) /\ req'[r].pc = "drop" /\ Same(req'[r], req[r])
    BY <1>1, <2>1, GoesOn DEF AllPcs
  <2>3. QuotaTypeOK' /\ OwnCall(r) /\ call'[r].bucket = b /\ call'[r].bytes = n
    BY <1>1, <1>2, <2>1, ProcedureTyped
  <2>4. call'[r].at = "release_user"
    BY <1>1, <2>1 DEF Release, Frame, QuotaTypeOK
  <2>5. Placed(req'[r], call'[r], mp'[r])
    BY <1>1, <1>2, <2>1, <2>2, <2>3, <2>4 DEF Same, b, n
  <2> QED
    BY <1>1, <2>2, <2>3, <2>5 DEF Together
<1>8. CASE CommitParts(r)
  <2>1. /\ req[r].pc = "account" /\ req[r].op = "complete"
        /\ Commit(r, b, n, 1) /\ Goes(r, "difference")
    BY <1>1, <1>2, <1>8 DEF CommitParts, b, n
  <2>2. OwnHandler(r) /\ req'[r].pc = "difference" /\ Same(req'[r], req[r])
    BY <1>1, <2>1, GoesOn DEF AllPcs
  <2>3. QuotaTypeOK' /\ OwnCall(r) /\ call'[r].bucket = b /\ call'[r].bytes = n
    BY <1>1, <1>2, <2>1, ProcedureTyped
  <2>4. call'[r].at = "commit_user"
    BY <1>1, <2>1 DEF Commit, Frame, QuotaTypeOK
  <2>5. Placed(req'[r], call'[r], mp'[r])
    BY <1>1, <1>2, <2>1, <2>2, <2>3, <2>4 DEF Same, b, n
  <2> QED
    BY <1>1, <2>2, <2>3, <2>5 DEF Together
<1>9. CASE SettleDifference(r)
  <2> DEFINE d == req[r].size - n
  <2>1. req[r].pc = "difference" /\ Settle(r, b, d, 0) /\ Goes(r, "drop") /\ d \in Int
    BY <1>1, <1>9 DEF SettleDifference, b, n
  <2> HIDE DEF d
  <2>2. OwnHandler(r) /\ req'[r].pc = "drop" /\ Same(req'[r], req[r])
    BY <1>1, <2>1, GoesOn DEF AllPcs
  <2>3. QuotaTypeOK' /\ OwnCall(r) /\ call'[r].bucket = b
    BY <1>1, <1>2, <2>1, ProcedureTyped
  <2>4. call'[r].at \in {"settle_bucket", "ok"}
    BY <1>1, <1>2, <2>1 DEF Settle, Frame, QuotaTypeOK
  <2>5. Placed(req'[r], call'[r], mp'[r])
    BY <1>1, <1>2, <2>1, <2>2, <2>3, <2>4 DEF Same, b
  <2> QED
    BY <1>1, <2>2, <2>3, <2>5 DEF Together
<1> QED
  BY <1>4, <1>5, <1>6, <1>7, <1>8, <1>9

\* After any step of its own a request, its call and what it read still stand together.
LEMMA StepTogether ==
  ASSUME FInv, NEW r \in Requests, Step(r)
  PROVE  Together(r)
<1>1. CASE UploadStep(r)
  BY <1>1, StartUploadTogether, PartTogether, EndTogether DEF UploadStep, ProceedUpload
<1>2. CASE ObjectStep(r) /\ UNCHANGED mvars
  BY <1>2, StartTogether, WriteTogether, CallsTogether, AnswersTogether, DeleteTogether,
     ContinueTogether DEF ObjectStep, Proceed
<1> QED
  BY <1>1, <1>2 DEF Step

----------------------------------------------------------------------------
(* The rows, the store and the uploads stay well formed. *)

\* The types of what a step writes besides the request and the tables of quota.
RowsTyped ==
  /\ row \in [Object -> Nat \cup {Absent}]
  /\ faults \in Nat

StoreTyped == blob \in [Object -> Nat \cup {Absent}]

UploadsTyped ==
  /\ upload \in [Uploads -> [obj : Object, reserved : Nat] \cup {Absent}]
  /\ parts \in [Uploads -> [PartNumbers -> Nat \cup {Absent}] \cup {Absent}]

\* The size of a completed object is the sum of its parts.
LEMMA PartsSum ==
  ASSUME TypeOK, NEW u \in Uploads, parts[u] # Absent,
         NEW listed \in SUBSET {p \in PartNumbers : parts[u][p] # Absent}
  PROVE  MapThenSumSet(LAMBDA p : parts[u][p], listed) \in Nat
<1> DEFINE f == parts[u]
<1>1. IsFiniteSet(listed)
  BY UploadsAssumption, FS_Subset
<1>2. \A p \in listed : f[p] \in Nat
  BY DEF TypeOK
<1>3. MapThenSumSet(LAMBDA p : parts[u][p], listed) = Total(f, listed)
  BY DEF Total
<1> HIDE DEF f
<1> QED
  BY <1>1, <1>2, <1>3, TotalNat

\* A size is written to an object's row, or nothing.
LEMMA RowsStayTyped ==
  ASSUME FInv, NEW r \in Requests, Step(r)
  PROVE  RowsTyped'
<1> USE DEF RowsTyped
<1>1. /\ RowsTyped /\ req[r].size \in Nat
      /\ Placed(req[r], call[r], mp[r])
  BY Here DEF FInv, TypeOK
<1>2. \/ UNCHANGED row
      \/ \E o \in Object, n \in Nat \cup {Absent} : row' = [row EXCEPT ![o] = n]
  <2>1. CASE UpdateRow(r) \/ InsertRow(r)
    <3>1. req[r].obj \in Object
      BY <1>1, <2>1 DEF UpdateRow, InsertRow, At, Placed, SubjectOf, Resting
    <3> QED
      BY <1>1, <2>1, <3>1 DEF UpdateRow, InsertRow
  <2>2. CASE RemoveRow(r)
    <3>1. req[r].obj \in Object
      BY <1>1, <2>2 DEF RemoveRow, At, Placed, SubjectOf, Resting
    <3> QED
      BY <2>2, <3>1 DEF RemoveRow
  <2>3. CASE Start(r) \/ SendWrite(r) \/ WriteRowFails(r) \/ Crash(r)
    BY <2>3 DEF Start, StartPut, StartCopy, StartDelete, StartBatch, SendWrite, WriteRowFails, Crash
  <2>4. CASE \/ CopyBegin(r) \/ CallReserve(r) \/ RefuseWrite(r) \/ RereadRow(r) \/ Account(r)
             \/ GiveBack(r) \/ AnswerWrite(r) \/ FindRow(r) \/ CallCredit(r) \/ Credited(r)
             \/ UNCHANGED ovars
    BY <2>4 DEF CopyBegin, CallReserve, RefuseWrite, RereadRow, Account, GiveBack, AnswerWrite,
         FindRow, CallCredit, Credited, ovars
  <2>5. CASE StartUpload(r)
    BY <2>5 DEF StartUpload, StartCreate, StartPart, StartPartCopy, StartAbort, StartComplete
  <2>6. CASE ProceedUpload(r) \/ SendPart(r) \/ AskStore(r)
    BY <2>6 DEF ProceedUpload, InsertUpload, ReadSource, AddReserved, LetGo, DropUpload,
         CommitParts, SettleDifference, SendPart, AskStore, ForgetParts, Assemble, HeadObject
  <2> QED
    BY <2>1, <2>2, <2>3, <2>4, <2>5, <2>6 DEF Step, ObjectStep, UploadStep, Proceed
<1>3. row' \in [Object -> Nat \cup {Absent}]
  BY <1>1, <1>2
<1>4. UNCHANGED faults \/ Fault
  <2>1. CASE Start(r)
    BY <2>1 DEF Start, StartPut, StartCopy, StartDelete, StartBatch, Answered, AnswerLost
  <2>2. CASE SendWrite(r) \/ WriteRowFails(r) \/ Crash(r)
    BY <2>2 DEF SendWrite, WriteRowFails, Crash, Answered, Refused, AnswerLost
  <2>3. CASE Proceed(r)
    BY <2>3 DEF Proceed, CopyBegin, CallReserve, RefuseWrite, UpdateRow, RereadRow, InsertRow,
         Account, GiveBack, AnswerWrite, FindRow, RemoveRow, CallCredit, Credited, ovars
  <2>4. CASE StartUpload(r)
    BY <2>4 DEF StartUpload, StartCreate, StartPart, StartPartCopy, StartAbort, StartComplete
  <2>5. CASE ProceedUpload(r)
    BY <2>5 DEF ProceedUpload, InsertUpload, ReadSource, AddReserved, LetGo, DropUpload,
         CommitParts, SettleDifference
  <2>6. CASE SendPart(r) \/ AskStore(r)
    BY <2>6 DEF SendPart, AskStore, ForgetParts, Assemble, HeadObject
  <2> QED
    BY <2>1, <2>2, <2>3, <2>4, <2>5, <2>6 DEF Step, ObjectStep, UploadStep
<1> QED
  BY <1>1, <1>3, <1>4 DEF Fault

\* The store gets a size the client sent, or that of all parts of an upload.
LEMMA StoreStaysTyped ==
  ASSUME FInv, NEW r \in Requests, Step(r)
  PROVE  StoreTyped'
<1> USE DEF StoreTyped
<1>1. /\ StoreTyped /\ req[r].size \in Nat /\ TypeOK
      /\ Placed(req[r], call[r], mp[r])
  BY Here DEF FInv, TypeOK
<1>2. ASSUME NEW o \in Object, NEW n \in Nat \cup {Absent}, blob' = [blob EXCEPT ![o] = n]
      PROVE  StoreTyped'
  BY <1>1, <1>2
<1>3. CASE UNCHANGED blob
  BY <1>1, <1>3
<1>4. CASE Start(r)
  <2>1. \A objs : Erase(objs) \in [Object -> Nat \cup {Absent}]
    BY <1>1 DEF Erase
  <2>2. UNCHANGED blob \/ \E objs : blob' = Erase(objs)
    BY <1>4 DEF Start, StartPut, StartCopy, StartDelete, StartBatch, Answered, AnswerLost
  <2> QED
    BY <1>3, <2>1, <2>2
<1>5. CASE SendWrite(r)
  <2> DEFINE n == IF req[r].op = "copy" THEN blob[req[r].src] ELSE req[r].size
  <2>1. UNCHANGED blob \/ blob' = [blob EXCEPT ![req[r].obj] = n]
    BY <1>5 DEF SendWrite, Answered, Refused, AnswerLost, AfterWrite
  <2>2. n \in Nat \cup {Absent} /\ req[r].obj \in Object
    BY <1>1, <1>5
       DEF SendWrite, Admitted, At, Placed, SubjectOf, Resting
  <2> HIDE DEF n
  <2> QED
    BY <1>2, <1>3, <2>1, <2>2
<1>6. CASE Assemble(r)
  <2> DEFINE u == mp[r].upload
  <2>1. u \in Uploads /\ req[r].obj \in Object
    BY <1>1, <1>6 DEF Assemble, At, Placed, OpAt, SubjectOf, Resting, UploadOps
  <2>2. CASE Assembled(r)
    <3> DEFINE sizes(listed) == MapThenSumSet(LAMBDA p : parts[u][p], listed)
    <3>1. parts[u] # Absent
      BY <2>2 DEF Assembled
    <3>2. \E listed \in SUBSET {p \in PartNumbers : parts[u][p] # Absent} :
            blob' = [blob EXCEPT ![req[r].obj] = sizes(listed)]
      BY <2>2 DEF Assembled
    <3>3. \A listed \in SUBSET {p \in PartNumbers : parts[u][p] # Absent} :
            sizes(listed) \in Nat
      BY <1>1, <2>1, <3>1, PartsSum
    <3> HIDE DEF sizes
    <3> QED
      BY <1>2, <2>1, <3>2, <3>3
  <2> QED
    BY <1>3, <1>6, <2>2 DEF Assemble
<1>7. CASE WriteRowFails(r) \/ Crash(r)
  BY <1>3, <1>7 DEF WriteRowFails, Crash
<1>8. CASE Proceed(r)
  BY <1>3, <1>8 DEF Proceed, CopyBegin, CallReserve, RefuseWrite, UpdateRow, RereadRow, InsertRow,
       Account, GiveBack, AnswerWrite, FindRow, RemoveRow, CallCredit, Credited, ovars
<1>9. CASE StartUpload(r)
  BY <1>3, <1>9 DEF StartUpload, StartCreate, StartPart, StartPartCopy, StartAbort, StartComplete
<1>10. CASE ProceedUpload(r)
  BY <1>3, <1>10 DEF ProceedUpload, InsertUpload, ReadSource, AddReserved, LetGo, DropUpload,
       CommitParts, SettleDifference
<1>11. CASE SendPart(r) \/ ForgetParts(r) \/ HeadObject(r)
  BY <1>3, <1>11 DEF SendPart, ForgetParts, HeadObject
<1> QED
  BY <1>4, <1>5, <1>6, <1>7, <1>8, <1>9, <1>10, <1>11 DEF Step, ObjectStep, UploadStep, AskStore

\* The upload a request is at work on.
LEMMA ItsUpload ==
  ASSUME FInv, NEW r \in Requests
  PROVE  /\ req[r].op \in UploadOps => mp[r].upload \in Uploads
         /\ req[r].op \in PartOps => mp[r].part \in PartNumbers
         /\ At(r, "open") => req[r].op = "create"
         /\ At(r, "add") => req[r].op \in PartOps
         /\ At(r, "drop") => req[r].op \in Enders
         /\ At(r, "forget") \/ At(r, "letgo") => req[r].op = "abort"
         /\ At(r, "assemble") \/ At(r, "head") \/ At(r, "difference") => req[r].op = "complete"
         /\ At(r, "open") => req[r].obj \in Object
  BY Here DEF Placed, OpAt, SubjectOf, At, Resting

\* An upload's row and its parts.
LEMMA UploadsStayTyped ==
  ASSUME FInv, NEW r \in Requests, Step(r)
  PROVE  UploadsTyped'
<1> USE DEF UploadsTyped
<1> DEFINE u == mp[r].upload
<1>1. UploadsTyped /\ req[r].size \in Nat /\ TypeOK
  BY Here DEF FInv, TypeOK
<1>2. CASE UNCHANGED <<upload, parts>>
  BY <1>1, <1>2
<1>3. ASSUME NEW v \in Uploads, NEW x \in [obj : Object, reserved : Nat] \cup {Absent},
             upload' = [upload EXCEPT ![v] = x], UNCHANGED parts
      PROVE  UploadsTyped'
  BY <1>1, <1>3
<1>4. ASSUME NEW v \in Uploads, NEW x \in [PartNumbers -> Nat \cup {Absent}] \cup {Absent},
             parts' = [parts EXCEPT ![v] = x], UNCHANGED upload
      PROVE  UploadsTyped'
  BY <1>1, <1>4
<1>5. CASE UNCHANGED mvars
  BY <1>2, <1>5 DEF mvars
<1>6. CASE StartUpload(r)
  <2>1. ASSUME NEW v \in Uploads, NEW o \in Object, StartCreate(r, v, o)
        PROVE  UploadsTyped'
    <3>1. /\ parts' = [parts EXCEPT ![v] = [p \in PartNumbers |-> Absent]] /\ UNCHANGED upload
      BY <2>1 DEF StartCreate
    <3>2. [p \in PartNumbers |-> Absent] \in [PartNumbers -> Nat \cup {Absent}]
      OBVIOUS
    <3> QED
      BY <1>4, <3>1, <3>2
  <2>2. ASSUME NEW v \in Uploads, NEW p \in PartNumbers,
               \/ \E n \in PartSizes : StartPart(r, v, p, n)
               \/ \E s \in Object : StartPartCopy(r, v, p, s)
        PROVE  UNCHANGED <<upload, parts>>
    BY <2>2 DEF StartPart, StartPartCopy
  <2>3. ASSUME NEW v \in Uploads, StartAbort(r, v) \/ StartComplete(r, v)
        PROVE  UNCHANGED <<upload, parts>>
    BY <2>3 DEF StartAbort, StartComplete
  <2> QED
    BY <1>2, <1>6, <2>1, <2>2, <2>3 DEF StartUpload
<1>7. CASE InsertUpload(r)
  <2> DEFINE x == [obj |-> req[r].obj, reserved |-> 0]
  <2>1. /\ u \in Uploads /\ x \in [obj : Object, reserved : Nat]
        /\ upload' = [upload EXCEPT ![u] = x] /\ UNCHANGED parts
    BY <1>7, ItsUpload DEF InsertUpload, UploadOps, UploadOnlyOps
  <2> HIDE DEF u, x
  <2> QED
    BY <1>3, <2>1
<1>8. CASE SendPart(r)
  <2>1. u \in Uploads /\ mp[r].part \in PartNumbers
    BY <1>8, ItsUpload DEF SendPart, UploadOps, UploadOnlyOps
  <2>2. UNCHANGED upload
    BY <1>8 DEF SendPart
  <2>3. ASSUME Storable(r), PartStored(r)
        PROVE  UploadsTyped'
    <3> DEFINE n == IF req[r].op = "partcopy" THEN blob[req[r].src] ELSE req[r].size
               x == [parts[u] EXCEPT ![mp[r].part] = n]
    <3>1. req[r].op = "partcopy" => req[r].src \in Object
      BY Here DEF Placed, SubjectOf
    <3>2. n \in Nat \cup {Absent} /\ parts[u] \in [PartNumbers -> Nat \cup {Absent}]
      BY <1>1, <2>1, <2>3, <3>1 DEF Storable, TypeOK
    <3>3. parts' = [parts EXCEPT ![u] = x]
      BY <2>3 DEF PartStored
    <3> HIDE DEF n
    <3>4. x \in [PartNumbers -> Nat \cup {Absent}]
      BY <2>1, <3>2
    <3> HIDE DEF x, u
    <3> QED
      BY <1>4, <2>1, <2>2, <3>3, <3>4
  <2> QED
    BY <1>2, <1>8, <2>2, <2>3 DEF SendPart
<1>9. CASE AddReserved(r)
  <2> DEFINE x == [upload[u] EXCEPT !.reserved = @ + req[r].size]
  <2>1. u \in Uploads /\ UNCHANGED parts
    BY <1>9, ItsUpload DEF AddReserved, UploadOps, UploadOnlyOps
  <2>2. CASE upload[u] # Absent
    <3>1. upload' = [upload EXCEPT ![u] = x]
      BY <1>9, <2>2 DEF AddReserved
    <3>2. x \in [obj : Object, reserved : Nat]
      <4>1. upload[u] \in [obj : Object, reserved : Nat]
        BY <1>1, <2>1, <2>2
      <4>2. upload[u].reserved + req[r].size \in Nat
        BY <1>1, <4>1
      <4> QED
        BY <4>1, <4>2
    <3> HIDE DEF x, u
    <3> QED
      BY <1>3, <2>1, <3>1, <3>2
  <2>3. CASE upload[u] = Absent
    BY <1>2, <1>9, <2>1, <2>3 DEF AddReserved
  <2> QED
    BY <2>2, <2>3
<1>10. CASE ForgetParts(r) \/ Assemble(r)
  <2>1. u \in Uploads /\ UNCHANGED upload
    BY <1>10, ItsUpload DEF ForgetParts, Assemble, UploadOps, UploadOnlyOps
  <2>2. UNCHANGED parts \/ parts' = [parts EXCEPT ![u] = Absent]
    BY <1>10 DEF ForgetParts, Assemble, Assembled
  <2> HIDE DEF u
  <2> QED
    BY <1>2, <1>4, <2>1, <2>2
<1>11. CASE DropUpload(r)
  <2>1. u \in Uploads /\ UNCHANGED parts
    BY <1>11, ItsUpload DEF DropUpload, UploadOps, UploadOnlyOps, Enders
  <2>2. UNCHANGED upload \/ upload' = [upload EXCEPT ![u] = Absent]
    BY <1>11 DEF DropUpload
  <2> HIDE DEF u
  <2> QED
    BY <1>2, <1>3, <2>1, <2>2
<1>12. CASE ReadSource(r) \/ LetGo(r) \/ CommitParts(r) \/ SettleDifference(r) \/ HeadObject(r)
  BY <1>5, <1>12 DEF ReadSource, LetGo, CommitParts, SettleDifference, HeadObject
<1> QED
  BY <1>5, <1>6, <1>7, <1>8, <1>9, <1>10, <1>11, <1>12
     DEF Step, UploadStep, ProceedUpload, AskStore

\* The invariant is inductive.
LEMMA FInvInit ==
  ASSUME Init
  PROVE  FInv
<1> USE DEF Init, ObjectsInit, QuotaInit
<1>1. QuotaTypeOK
  BY InitRows, MaxAssumption
     DEF QuotaTypeOK, BucketColumns, AccountColumns, Call, NoCall, Pending, Ended
<1>2. NoHandler \in AnyHandler /\ NoHandler.op = "none" /\ NoHandler.pc = "idle"
  BY NewHandler DEF Fresh
<1>3. req \in [Requests -> AnyHandler] /\ \A r \in Requests : req[r] = NoHandler
  BY <1>2
<1>4. /\ \A r \in Requests : call[r].at = "none" /\ mp[r] = NoPart
      /\ mp \in [Requests -> PartRead]
  BY DEF NoCall, NoPart, PartRead
<1>5. PlacedOK
  BY <1>2, <1>3, <1>4
     DEF PlacedOK, Placed, OpAt, SubjectOf, CallAt, Waiting, WritePcs, DeletePcs, UploadPcs,
         Resting, WriteOps, PartOps, Enders, UploadOps, UploadOnlyOps, Ended
<1>6. TypeOK
  BY <1>1, <1>3, <1>4 DEF TypeOK, AnyHandler, AllOps, AllPcs, PartRead
<1> QED
  BY <1>5, <1>6 DEF FInv

\* FInv is inductive.
LEMMA FInvStep ==
  ASSUME FInv, NEW r \in Requests, Step(r)
  PROVE  FInv'
<1>1. Together(r) /\ RowsTyped' /\ StoreTyped' /\ UploadsTyped'
  BY StepTogether, RowsStayTyped, StoreStaysTyped, UploadsStayTyped
<1>2. PlacedOK'
  BY <1>1 DEF FInv, PlacedOK, Together, OwnHandler, OwnCall, OwnRead
<1>3. TypeOK'
  BY <1>1 DEF TypeOK, Together, OwnHandler, OwnRead, RowsTyped, StoreTyped, UploadsTyped,
       AnyHandler, AllOps, AllPcs, PartRead
<1> QED
  BY <1>1, <1>2, <1>3 DEF FInv, RowsTyped

LEMMA FInvKept ==
  ASSUME FInv, [Next]_vars
  PROVE  FInv'
<1>1. CASE UNCHANGED vars
  BY <1>1 DEF vars, gatewayVars, qvars, ovars, mvars, FInv, TypeOK, QuotaTypeOK, PlacedOK
<1>2. CASE Next
  BY <1>2, NextIsStep, FInvStep
<1> QED
  BY <1>1, <1>2

\* The rows, the handlers, the procedures they are in and what they read of their uploads
\* keep their types, whatever is lost and whether clients overlap on a key or not.
THEOREM MultipartTyped == Spec => []TypeOK
<1>1. Init => FInv
  BY FInvInit
<1>2. FInv /\ [Next]_vars => FInv'
  BY FInvKept
<1>3. FInv => TypeOK
  BY DEF FInv
<1> QED
  BY <1>1, <1>2, <1>3, PTL DEF Spec

----------------------------------------------------------------------------
(* While clients keep apart, what is at work on an upload: the one request *)
(* that creates it, or parts, or requests that end it, of which the store  *)
(* lets one through.                                                       *)

\* At work on an upload, and on this one.
Working(r) == Active(r) /\ req[r].op \in UploadOps

On(r, u) == Working(r) /\ mp[r].upload = u

\* The store has forgotten the parts for this one.
Through(r) == Working(r) /\ req[r].op \in Enders /\ req[r].pc \notin {"forget", "assemble"}

\* What that means for one request.
ApartAt(r) ==
  LET u == mp[r].upload IN
  Working(r) =>
    /\ req[r].op = "create" => /\ upload[u] = Absent
                               /\ \A q \in Requests : On(q, u) => q = r
    /\ req[r].op \in PartOps => /\ upload[u] # Absent
                                /\ \A q \in Requests : On(q, u) => req[q].op \in PartOps
    /\ req[r].op # "create" /\ upload[u] # Absent => req[r].obj = upload[u].obj
    /\ req[r].op \in Enders => IF upload[u] = Absent THEN parts[u] = Absent
                               ELSE mp[r].held = upload[u].reserved
    /\ Through(r) => /\ upload[u] # Absent /\ parts[u] = Absent
                     /\ \A q \in Requests : On(q, u) /\ Through(q) => q = r

UploadsApart == \A r \in Requests : ApartAt(r)

\* The set the clients' restraint is stated with.
LEMMA WorkSets ==
  ASSUME NEW u
  PROVE  AtWorkOn(u) = {r \in Requests : On(r, u)}
  BY DEF AtWorkOn, On, Working

\* The other requests are where they were.
LEMMA OthersStay ==
  ASSUME NEW r \in Requests, Together(r), NEW q \in Requests \ {r}
  PROVE  /\ req'[q] = req[q] /\ mp'[q] = mp[q] /\ call'[q] = call[q]
         /\ Working(q)' = Working(q) /\ Through(q)' = Through(q)
         /\ \A u : On(q, u)' = On(q, u)
  BY DEF Together, OwnHandler, OwnCall, OwnRead, Working, Active, Through, On

\* The request goes on, further from its end than before or no more than that, or is done
\* with the upload.
GoesOnOrLeaves(r) ==
  \/ ~Working(r)'
  \/ /\ Working(r) /\ req'[r].op = req[r].op /\ req'[r].obj = req[r].obj /\ mp'[r] = mp[r]
     /\ Through(r)' => Through(r)

\* Then it disturbs nobody, unless it changes the parts that one ending the upload is
\* about.
LEMMA ApartSubsides ==
  ASSUME FInv, UploadsApart, NEW r \in Requests, Together(r), UNCHANGED upload,
         \A v \in Uploads : \/ parts'[v] \in {parts[v], Absent}
                            \/ \A q \in Requests : On(q, v) => req[q].op \notin Enders,
         GoesOnOrLeaves(r)
  PROVE  UploadsApart'
<1>1. ASSUME NEW q \in Requests
      PROVE  /\ Working(q)' => /\ Working(q) /\ req'[q].op = req[q].op /\ req'[q].obj = req[q].obj
                               /\ mp'[q] = mp[q]
             /\ Through(q)' => Through(q)
             /\ \A u : On(q, u)' => On(q, u)
  BY OthersStay DEF GoesOnOrLeaves, On, Through
<1>2. ASSUME NEW q \in Requests, Working(q)
      PROVE  mp[q].upload \in Uploads
  BY <1>2, ItsUpload DEF Working
<1>3. ASSUME NEW q \in Requests, Working(q)'
      PROVE  ApartAt(q)'
  <2>0. PICK u : u = mp[q].upload
    OBVIOUS
  <2>1. /\ Working(q) /\ req'[q].op = req[q].op /\ req'[q].obj = req[q].obj /\ mp'[q] = mp[q]
        /\ u \in Uploads /\ ApartAt(q) /\ On(q, u)
    BY <1>1, <1>2, <1>3, <2>0 DEF UploadsApart, On
  <2>2. req[q].op \in Enders => parts'[u] \in {parts[u], Absent}
    BY <2>1
  <2>3. \A p \in Requests : /\ On(p, u)' => On(p, u) /\ req'[p].op = req[p].op
                            /\ Through(p)' => Through(p)
    BY <1>1 DEF On
  <2>4. req[q].op \in Enders => req[q].op \notin PartOps \cup {"create"}
    BY DEF Enders, PartOps
  <2>5. Through(q) => req[q].op \in Enders
    BY DEF Through
  <2>6. mp[q].upload = u /\ mp'[q].upload = u
    BY <2>0, <2>1
  <2> QED
    BY <2>1, <2>2, <2>3, <2>4, <2>5, <2>6 DEF ApartAt
<1> QED
  BY <1>3 DEF UploadsApart, ApartAt

\* A request starts on an upload that nobody at work there minds.
LEMMA ApartStarts ==
  ASSUME FInv, UploadsApart, NEW r \in Requests, Together(r), UNCHANGED upload, ~Active(r),
         \A v \in Uploads : \/ parts'[v] = parts[v]
                            \/ \A q \in Requests : ~On(q, v),
         ~Through(r)', ApartAt(r)',
         \A q \in Requests : On(q, mp'[r].upload) =>
           /\ req[q].op # "create"
           /\ req[q].op \in PartOps => req'[r].op \in PartOps
  PROVE  UploadsApart'
<1>1. ASSUME NEW q \in Requests \ {r}, Working(q)'
      PROVE  ApartAt(q)'
  <2>0. PICK u : u = mp[q].upload
    OBVIOUS
  <2>1. /\ Working(q) /\ req'[q] = req[q] /\ mp'[q] = mp[q] /\ Through(q)' = Through(q)
        /\ ApartAt(q) /\ On(q, u)
    BY <1>1, <2>0, OthersStay DEF UploadsApart, On
  <2>2. u \in Uploads /\ parts'[u] = parts[u]
    BY <2>0, <2>1, ItsUpload DEF Working
  <2>3. ASSUME NEW p \in Requests \ {r}
        PROVE  On(p, u)' = On(p, u) /\ req'[p] = req[p] /\ Through(p)' = Through(p)
    BY OthersStay
  <2>4. On(r, u)' => mp'[r].upload = u
    BY DEF On
  <2>6. mp[q].upload = u /\ mp'[q].upload = u
    BY <2>0, <2>1
  <2> QED
    BY <2>1, <2>2, <2>3, <2>4, <2>6 DEF ApartAt
<1> QED
  BY <1>1 DEF UploadsApart, ApartAt

\* What a request that starts at an object is about to do.
LEMMA ObjectBegun ==
  ASSUME FInv, NEW r \in Requests, Start(r)
  PROVE  /\ req'[r].pc \in {"reserve", "send", "begin", "find", "err"}
         /\ req'[r].pc # "err" => req'[r].op \in {"put", "copy", "delete", "batch"}
         /\ UNCHANGED qvars /\ ~Active(r)
<1>1. /\ TypeOK /\ row \in [Object -> Nat \cup {Absent}]
      /\ UNCHANGED qvars /\ ~Active(r)
  BY Here DEF TypeOK, Start, StartPut, StartCopy, StartDelete, StartBatch
<1>2. ASSUME NEW o \in Object, NEW n \in Sizes, StartPut(r, o, n)
      PROVE  req'[r].op = "put" /\ req'[r].pc \in {"reserve", "send"}
  <2> DEFINE h == [NoHandler EXCEPT !.op = "put", !.obj = o, !.size = n]
  <2>1. Fresh(h, "put", "idle", o, Nowhere)
    BY SizesAssumption, ObjectHandlers
  <2>2. BeginPut(r, h)
    BY <1>2 DEF StartPut
  <2> HIDE DEF h
  <2>3. h \in AnyHandler /\ h.op = "put" /\ h.obj \in Object
    BY <2>1 DEF Fresh
  <2> QED
    BY <1>1, <2>2, <2>3, PutBegun
<1>3. ASSUME NEW s \in Object, NEW o \in Object, StartCopy(r, s, o)
      PROVE  req'[r].op = "copy" /\ req'[r].pc = "begin"
  <2> DEFINE h == [NoHandler EXCEPT !.op = "copy", !.pc = "begin", !.obj = o, !.src = s,
                                    !.size = row[s]]
  <2>1. row[s] \in Nat
    BY <1>1, <1>3 DEF StartCopy
  <2>2. Fresh(h, "copy", "begin", o, s) /\ req' = [req EXCEPT ![r] = h]
    BY <1>3, <2>1, ObjectHandlers DEF StartCopy
  <2> HIDE DEF h
  <2> QED
    BY <1>1, <2>2, Becomes DEF Fresh
<1>4. ASSUME NEW op \in {"delete", "batch"}, NEW objs \in SUBSET Object,
             req' = [req EXCEPT ![r] = DeleteHandler(op, objs)]
      PROVE  req'[r].op = op /\ req'[r].pc = "find"
  <2> DEFINE h == DeleteHandler(op, objs)
  <2>1. Fresh(h, op, "find", Nowhere, Nowhere) /\ req' = [req EXCEPT ![r] = h]
    BY <1>4, DeleteHandlers
  <2> HIDE DEF h
  <2> QED
    BY <1>1, <2>1, Becomes DEF Fresh
<1>5. Goes(r, "err") => req'[r].pc = "err"
  BY <1>1, GoesOn DEF AllPcs, Resting
<1>6. ASSUME NEW o \in Object, StartDelete(r, o)
      PROVE  \/ req'[r].op \in {"delete", "batch"} /\ req'[r].pc = "find"
             \/ req'[r].pc = "err"
  BY <1>4, <1>5, <1>6 DEF StartDelete
<1>7. ASSUME NEW b \in Buckets, NEW objs \in SUBSET ObjectsOf(b), StartBatch(r, b, objs)
      PROVE  \/ req'[r].op \in {"delete", "batch"} /\ req'[r].pc = "find"
             \/ req'[r].pc = "err"
  <2>1. objs \in SUBSET Object
    BY DEF ObjectsOf
  <2> QED
    BY <1>4, <1>5, <1>7, <2>1 DEF StartBatch
<1> QED
  BY <1>1, <1>2, <1>3, <1>6, <1>7 DEF Start

\* The steps of the object verbs disturb no upload.
LEMMA ObjectGoesOn ==
  ASSUME FInv, NEW r \in Requests, ObjectStep(r), UNCHANGED mvars
  PROVE  GoesOnOrLeaves(r)
<1> USE DEF At, UploadOps, UploadOnlyOps, PartOps, WriteOps, Enders
<1>1. /\ TypeOK /\ Placed(req[r], call[r], mp[r]) /\ mp'[r] = mp[r] /\ req[r] \in AnyHandler
  BY Here DEF mvars
<1>2. ASSUME Same(req'[r], req[r]), Active(r), req[r].pc \notin {"forget", "assemble"}
      PROVE  GoesOnOrLeaves(r)
  BY <1>1, <1>2 DEF GoesOnOrLeaves, Working, Through, Active, Same
<1>3. ASSUME req'[r].op \notin UploadOps \/ req'[r].pc \in Resting
      PROVE  GoesOnOrLeaves(r)
  BY <1>3 DEF GoesOnOrLeaves, Working, Active
<1>4. CASE Start(r)
  BY <1>3, <1>4, ObjectBegun DEF Resting
<1>5. CASE CopyBegin(r)
  <2>1. /\ req[r].pc = "begin" /\ req[r].op = "copy" /\ req[r].obj \in Object
        /\ BeginPut(r, req[r])
    BY <1>1, <1>5 DEF CopyBegin, Placed, OpAt, SubjectOf, Resting
  <2>2. req'[r].op = "copy"
    BY <1>1, <2>1, PutBegun
  <2> QED
    BY <1>3, <2>2
<1>6. CASE FindRow(r) \/ RemoveRow(r) \/ Credited(r)
  <2>1. req[r].op \in {"delete", "batch"}
    BY <1>1, <1>6 DEF FindRow, RemoveRow, Credited, Placed, OpAt, DeletePcs
  <2>2. ASSUME NEW o, NextKey(r, req[r], o)
        PROVE  req'[r].op = req[r].op
    BY <1>1, <2>2, KeyDone
  <2>3. ASSUME NEW pc \in {"err", "credit"}, Goes(r, pc)
        PROVE  req'[r].op = req[r].op
    BY <1>1, <2>3, GoesOn DEF Same, AllPcs, Resting, DeletePcs
  <2>4. req'[r].op = req[r].op
    BY <1>1, <1>6, <2>2, <2>3, RowFound DEF RemoveRow, Credited
  <2> QED
    BY <1>3, <2>1, <2>4
<1>7. ASSUME NEW pc \in AllPcs, Goes(r, pc), Active(r), req[r].pc \notin {"forget", "assemble"}
      PROVE  GoesOnOrLeaves(r)
  BY <1>1, <1>2, <1>7, GoesOn
<1>8. ASSUME GiveUp(r), Active(r), req[r].pc \notin {"forget", "assemble"}
      PROVE  GoesOnOrLeaves(r)
  BY <1>1, <1>2, <1>8, GivesUp
<1>9. CASE CallReserve(r) \/ RefuseWrite(r) \/ Account(r) \/ GiveBack(r) \/ AnswerWrite(r)
           \/ CallCredit(r)
  <2>1. \E pc \in AllPcs : Goes(r, pc)
    BY <1>9 DEF CallReserve, RefuseWrite, Account, GiveBack, AnswerWrite, CallCredit, AllPcs,
         WritePcs, DeletePcs, Resting
  <2>2. Active(r) /\ req[r].pc \notin {"forget", "assemble"}
    BY <1>9 DEF CallReserve, RefuseWrite, Account, GiveBack, AnswerWrite, CallCredit, Active,
         Resting
  <2> QED
    BY <1>7, <2>1, <2>2
<1>10. CASE UpdateRow(r) \/ RereadRow(r) \/ InsertRow(r) \/ WriteRowFails(r) \/ SendWrite(r)
  <2>1. Active(r) /\ req[r].pc \notin {"forget", "assemble"}
    BY <1>10 DEF UpdateRow, RereadRow, InsertRow, WriteRowFails, SendWrite, Admitted, Active,
         Resting
  <2>2. \/ GiveUp(r) \/ Goes(r, "update") \/ Goes(r, "reread") \/ Goes(r, "insert")
        \/ Goes(r, "account")
        \/ req' = [req EXCEPT ![r].pc = "update", ![r].again = TRUE]
    BY <1>10 DEF UpdateRow, RereadRow, InsertRow, InsertFails, WriteRowFails, SendWrite
  <2>3. req' = [req EXCEPT ![r].pc = "update", ![r].again = TRUE] => Same(req'[r], req[r])
    BY <1>1, TriesAgain
  <2>4. {"update", "reread", "insert", "account"} \subseteq AllPcs
    BY DEF AllPcs, WritePcs
  <2> QED
    BY <1>2, <1>7, <1>8, <2>1, <2>2, <2>3, <2>4
<1>11. CASE Continue(r) /\ UNCHANGED ovars
  <2>1. call[r].at \in Pending
    BY <1>11 DEF Continue, ReserveUser, Unreserve, ReleaseUser, CommitUser, SettleBucket,
         SettleUser, CreditBucket, CreditUser, AtStatement, Pending
  <2>2. req[r].pc \in Waiting /\ req'[r] = req[r]
    BY <1>1, <1>11, <2>1 DEF Placed, CallAt, Pending, Ended, ovars
  <2> QED
    BY <1>2, <2>2 DEF Waiting, Active, Resting, Same
<1>12. CASE Crash(r)
  <2>1. req'[r].pc = "crashed"
    BY <1>1, <1>12, GoesOn DEF Crash, AllPcs, Resting
  <2> QED
    BY <1>3, <2>1 DEF Resting
<1> QED
  BY <1>4, <1>5, <1>6, <1>9, <1>10, <1>11, <1>12 DEF ObjectStep, Proceed

\* A step of an object verb leaves uploads alone.
LEMMA ObjectApart ==
  ASSUME FInv, UploadsApart, NEW r \in Requests, ObjectStep(r), UNCHANGED mvars
  PROVE  UploadsApart'
<1>1. Together(r) /\ GoesOnOrLeaves(r)
  BY StepTogether, ObjectGoesOn DEF Step
<1> QED
  BY <1>1, ApartSubsides DEF mvars

\* What a request that starts on an upload is.
Begun(r, u, op, pc) ==
  /\ req'[r].op = op /\ req'[r].pc = pc
  /\ mp'[r].upload = u
  /\ ~Active(r) /\ UNCHANGED <<upload, qvars, faults>>

\* And what one is that found the upload's row.
BegunOnRow(r, u, op, pc) ==
  /\ Begun(r, u, op, pc) /\ upload[u] # Absent /\ UNCHANGED parts
  /\ req'[r].obj = upload[u].obj
  /\ op \in Enders => mp'[r].held = upload[u].reserved

\* A create starts, or its transaction fails.
LEMMA CreateBegun ==
  ASSUME FInv, NEW r \in Requests, NEW u \in Uploads, NEW o \in Object, StartCreate(r, u, o)
  PROVE  \/ Begun(r, u, "create", "open")
         \/ UNCHANGED <<req, mp, upload, qvars>> /\ ~Active(r) /\ faults' # 0
<1>1. TypeOK /\ faults \in Nat
  BY DEF FInv
<1> DEFINE h == [NoHandler EXCEPT !.op = "create", !.pc = "open", !.obj = o]
           m == [NoPart EXCEPT !.upload = u]
<1>2. Fresh(h, "create", "open", o, Nowhere) /\ m.upload = u
  BY UploadHandlers DEF NoPart
<1>3. ASSUME req' = [req EXCEPT ![r] = h], mp' = [mp EXCEPT ![r] = m]
      PROVE  req'[r].op = "create" /\ req'[r].pc = "open" /\ mp'[r].upload = u
  <2> HIDE DEF h, m
  <2> QED
    BY <1>1, <1>2, <1>3, Becomes DEF Fresh, TypeOK
<1>4. CASE req' = [req EXCEPT ![r] = h] /\ mp' = [mp EXCEPT ![r] = m] /\ UNCHANGED faults
  BY <1>3, <1>4 DEF StartCreate, Begun
<1>5. CASE Fault /\ UNCHANGED <<req, mp>>
  BY <1>1, <1>5 DEF StartCreate, Fault
<1> QED
  BY <1>4, <1>5 DEF StartCreate

\* A part, sent or copied.
LEMMA PartBegun ==
  ASSUME FInv, NEW r \in Requests, NEW u \in Uploads, NEW p \in PartNumbers
  PROVE  /\ \A n \in PartSizes : StartPart(r, u, p, n) => BegunOnRow(r, u, "part", "reserve")
         /\ \A s \in Object : StartPartCopy(r, u, p, s) => BegunOnRow(r, u, "partcopy", "source")
<1>1. TypeOK
  BY DEF FInv
<1> DEFINE m == [upload |-> u, part |-> p, held |-> 0]
<1>2. ASSUME NEW h, NEW op, NEW pc, NEW s, upload[u] # Absent,
             Fresh(h, op, pc, upload[u].obj, s), req' = [req EXCEPT ![r] = h],
             mp' = [mp EXCEPT ![r] = m]
      PROVE  /\ req'[r].op = op /\ req'[r].pc = pc /\ req'[r].obj = upload[u].obj
             /\ mp'[r].upload = u
  <2>1. mp'[r].upload = u
    BY <1>1, <1>2 DEF TypeOK
  <2> QED
    BY <1>1, <1>2, <2>1, Becomes DEF Fresh
<1>3. ASSUME NEW n \in PartSizes, StartPart(r, u, p, n)
      PROVE  BegunOnRow(r, u, "part", "reserve")
  <2> DEFINE h == [PartHandler("part", u, n) EXCEPT !.pc = "reserve"]
  <2>1. n \in Nat /\ upload[u].obj \in Object /\ upload[u] # Absent
    BY <1>1, <1>3, UploadRow, PartSizesAssumption DEF StartPart
  <2>2. Fresh(h, "part", "reserve", upload[u].obj, Nowhere)
    BY <2>1, PartHandlers
  <2>3. req' = [req EXCEPT ![r] = h] /\ mp' = [mp EXCEPT ![r] = m]
    BY <1>3 DEF StartPart, ForPart
  <2> HIDE DEF h, m
  <2>4. /\ req'[r].op = "part" /\ req'[r].pc = "reserve" /\ req'[r].obj = upload[u].obj
        /\ mp'[r].upload = u
    BY <1>2, <2>1, <2>2, <2>3
  <2> QED
    BY <1>3, <2>1, <2>4 DEF StartPart, BegunOnRow, Begun, Enders
<1>4. ASSUME NEW s \in Object, StartPartCopy(r, u, p, s)
      PROVE  BegunOnRow(r, u, "partcopy", "source")
  <2> DEFINE h == [PartHandler("partcopy", u, 0) EXCEPT !.pc = "source", !.src = s]
  <2>1. 0 \in Nat /\ upload[u].obj \in Object /\ upload[u] # Absent
    BY <1>1, <1>4, UploadRow DEF StartPartCopy
  <2>2. Fresh(h, "partcopy", "source", upload[u].obj, s)
    BY <2>1, PartHandlers
  <2>3. req' = [req EXCEPT ![r] = h] /\ mp' = [mp EXCEPT ![r] = m]
    BY <1>4 DEF StartPartCopy, ForPart
  <2> HIDE DEF h, m
  <2>4. /\ req'[r].op = "partcopy" /\ req'[r].pc = "source" /\ req'[r].obj = upload[u].obj
        /\ mp'[r].upload = u
    BY <1>2, <2>1, <2>2, <2>3
  <2> QED
    BY <1>4, <2>1, <2>4 DEF StartPartCopy, BegunOnRow, Begun, Enders
<1> QED
  BY <1>3, <1>4

\* An abort and a complete have read what the row holds.
LEMMA EndBegun ==
  ASSUME FInv, NEW r \in Requests, NEW u \in Uploads
  PROVE  /\ StartAbort(r, u) => BegunOnRow(r, u, "abort", "forget")
         /\ StartComplete(r, u) => BegunOnRow(r, u, "complete", "assemble")
<1>1. TypeOK
  BY DEF FInv
<1> DEFINE m == [upload |-> u, part |-> 0, held |-> upload[u].reserved]
           h(op, pc) == [NoHandler EXCEPT !.op = op, !.pc = pc, !.obj = upload[u].obj]
<1>2. ASSUME NEW op, NEW pc, NEW g, upload[u] # Absent, Reads(r, u),
             Fresh(g, op, pc, upload[u].obj, Nowhere), req' = [req EXCEPT ![r] = g]
      PROVE  /\ req'[r].op = op /\ req'[r].pc = pc /\ req'[r].obj = upload[u].obj
             /\ mp'[r].upload = u /\ mp'[r].held = upload[u].reserved
  <2>1. mp'[r].upload = u /\ mp'[r].held = upload[u].reserved
    BY <1>1, <1>2 DEF TypeOK, Reads
  <2> QED
    BY <1>1, <1>2, <2>1, Becomes DEF Fresh
<1>3. ASSUME upload[u] # Absent
      PROVE  /\ Fresh(h("abort", "forget"), "abort", "forget", upload[u].obj, Nowhere)
             /\ Fresh(h("complete", "assemble"), "complete", "assemble", upload[u].obj, Nowhere)
  BY <1>1, <1>3, UploadRow, UploadHandlers
<1>4. ASSUME StartAbort(r, u)
      PROVE  BegunOnRow(r, u, "abort", "forget")
  <2>1. upload[u] # Absent /\ Reads(r, u) /\ req' = [req EXCEPT ![r] = h("abort", "forget")]
    BY <1>4 DEF StartAbort
  <2> HIDE DEF h
  <2>2. /\ req'[r].op = "abort" /\ req'[r].pc = "forget" /\ req'[r].obj = upload[u].obj
        /\ mp'[r].upload = u /\ mp'[r].held = upload[u].reserved
    BY <1>2, <1>3, <2>1
  <2> QED
    BY <1>4, <2>1, <2>2 DEF StartAbort, BegunOnRow, Begun
<1>5. ASSUME StartComplete(r, u)
      PROVE  BegunOnRow(r, u, "complete", "assemble")
  <2>1. /\ upload[u] # Absent /\ Reads(r, u)
        /\ req' = [req EXCEPT ![r] = h("complete", "assemble")]
    BY <1>5 DEF StartComplete
  <2> HIDE DEF h
  <2>2. /\ req'[r].op = "complete" /\ req'[r].pc = "assemble" /\ req'[r].obj = upload[u].obj
        /\ mp'[r].upload = u /\ mp'[r].held = upload[u].reserved
    BY <1>2, <1>3, <2>1
  <2> QED
    BY <1>5, <2>1, <2>2 DEF StartComplete, BegunOnRow, Begun
<1> QED
  BY <1>4, <1>5

\* The requests that start on an upload keep apart from those at work there.
LEMMA StartUploadApart ==
  ASSUME SerialKeys, FInv, UploadsApart, NEW r \in Requests, StartUpload(r)
  PROVE  UploadsApart'
<1> USE DEF UploadOps, UploadOnlyOps, PartOps, Enders, Resting
<1>1. /\ Together(r)
      /\ \A u \in Uploads, q \in Requests : On(q, u) => q \in AtWorkOn(u) /\ ApartAt(q)
  BY StepTogether DEF Step, UploadStep, On, AtWorkOn, Working, UploadsApart
<1>2. ASSUME NEW u \in Uploads, NEW op, NEW pc, BegunOnRow(r, u, op, pc),
             \/ op \in PartOps /\ OpenForParts(u) /\ pc \in {"reserve", "source"}
             \/ /\ <<op, pc>> \in {<<"abort", "forget">>, <<"complete", "assemble">>}
                /\ NoPartsOf(u)
      PROVE  UploadsApart'
  <2>1. /\ req'[r].op = op /\ req'[r].pc = pc /\ mp'[r].upload = u /\ ~Active(r)
        /\ req'[r].obj = upload[u].obj /\ upload[u] # Absent
        /\ UNCHANGED <<upload, parts>>
        /\ op \in Enders => mp'[r].held = upload[u].reserved
    BY <1>2 DEF BegunOnRow, Begun
  <2>2. ~Through(r)'
    BY <1>2, <2>1 DEF Through
  <2>3. ASSUME NEW q \in Requests, On(q, u)
        PROVE  /\ req[q].op # "create"
               /\ op \in PartOps => req[q].op \in PartOps
               /\ op \notin PartOps => req[q].op \notin PartOps
    <3>1. ApartAt(q) /\ q \in AtWorkOn(u) /\ mp[q].upload = u /\ Working(q)
      BY <1>1, <2>3 DEF On
    <3>2. req[q].op # "create"
      BY <2>1, <3>1 DEF ApartAt
    <3> QED
      BY <1>2, <3>1, <3>2 DEF OpenForParts, NoPartsOf
  <2>4. ApartAt(r)'
    <3>1. ASSUME NEW q \in Requests, On(q, u)', op \in PartOps
          PROVE  req'[q].op \in PartOps
      <4>1. CASE q = r
        BY <2>1, <3>1, <4>1
      <4>2. CASE q # r
        BY <1>1, <2>3, <3>1, <4>2, OthersStay
      <4> QED
        BY <4>1, <4>2
    <3>2. op \in {"part", "partcopy", "abort", "complete"}
      BY <1>2
    <3> QED
      BY <2>1, <2>2, <3>1, <3>2 DEF ApartAt
  <2> QED
    BY <1>1, <1>2, <2>1, <2>2, <2>3, <2>4, ApartStarts
<1>3. ASSUME NEW u \in Uploads, NEW o \in Object, StartCreate(r, u, o)
      PROVE  UploadsApart'
  <2>1. /\ upload[u] = Absent
        /\ \A q \in Requests : ~On(q, u)
        /\ parts' = [parts EXCEPT ![u] = [p \in PartNumbers |-> Absent]]
    BY <1>1, <1>3 DEF StartCreate
  <2>2. \A v \in Uploads : parts'[v] = parts[v] \/ \A q \in Requests : ~On(q, v)
    BY <2>1 DEF FInv, TypeOK
  <2>3. CASE Begun(r, u, "create", "open")
    <3>1. /\ req'[r].op = "create" /\ req'[r].pc = "open" /\ mp'[r].upload = u /\ ~Active(r)
          /\ UNCHANGED upload
      BY <2>3 DEF Begun
    <3>2. ~Through(r)'
      BY <3>1 DEF Through
    <3>3. \A q \in Requests : On(q, u)' => q = r
      BY <1>1, <2>1, OthersStay
    <3>4. ApartAt(r)'
      BY <2>1, <3>1, <3>2, <3>3 DEF ApartAt
    <3> QED
      BY <1>1, <2>1, <2>2, <3>1, <3>2, <3>4, ApartStarts
  <2>4. CASE UNCHANGED <<req, mp, upload>> /\ ~Active(r)
    <3>1. GoesOnOrLeaves(r)
      BY <2>4 DEF GoesOnOrLeaves, Working, Active
    <3>2. \A v \in Uploads : \/ parts'[v] \in {parts[v], Absent}
                             \/ \A q \in Requests : On(q, v) => req[q].op \notin Enders
      BY <2>2
    <3> QED
      BY <1>1, <2>4, <3>1, <3>2, ApartSubsides
  <2> QED
    BY <1>3, <2>3, <2>4, CreateBegun
<1>4. ASSUME NEW u \in Uploads, NEW p \in PartNumbers,
             \/ \E n \in PartSizes : StartPart(r, u, p, n)
             \/ \E s \in Object : StartPartCopy(r, u, p, s)
      PROVE  UploadsApart'
  <2>1. OpenForParts(u)
    BY <1>4 DEF StartPart, StartPartCopy
  <2>2. BegunOnRow(r, u, "part", "reserve") \/ BegunOnRow(r, u, "partcopy", "source")
    BY <1>4, PartBegun
  <2> QED
    BY <1>2, <2>1, <2>2
<1>5. ASSUME NEW u \in Uploads, StartAbort(r, u) \/ StartComplete(r, u)
      PROVE  UploadsApart'
  <2>1. NoPartsOf(u)
    BY <1>5 DEF StartAbort, StartComplete
  <2>2. BegunOnRow(r, u, "abort", "forget") \/ BegunOnRow(r, u, "complete", "assemble")
    BY <1>5, EndBegun
  <2> QED
    BY <1>2, <2>1, <2>2
<1> QED
  BY <1>3, <1>4, <1>5 DEF StartUpload

\* Where a step at work on an upload leaves its request.
LEMMA UploadMoves ==
  ASSUME FInv, NEW r \in Requests,
         \/ InsertUpload(r) \/ ReadSource(r) \/ AddReserved(r) \/ LetGo(r) \/ DropUpload(r)
         \/ CommitParts(r) \/ SettleDifference(r) \/ SendPart(r) \/ AskStore(r)
  PROVE  /\ Working(r) /\ UNCHANGED mp
         /\ req'[r].op = req[r].op /\ req'[r].obj = req[r].obj
         /\ LetGo(r) => req'[r].pc \in {"drop", "err"}
         /\ CommitParts(r) => req'[r].pc \in {"difference", "err"}
         /\ SettleDifference(r) => req'[r].pc = "drop"
         /\ HeadObject(r) => req'[r].pc \in {"update", "err"}
         /\ ReadSource(r) => req'[r].pc \in {"reserve", "err"}
         /\ SendPart(r) => req'[r].pc \in {"add", "release", "err"}
         /\ ForgetParts(r) => req'[r].pc \in {"letgo", "err"}
         /\ Assemble(r) => req'[r].pc \in {"head", "err"}
         /\ InsertUpload(r) \/ AddReserved(r) \/ DropUpload(r) => req'[r].pc \in {"ok", "err"}
<1>1. TypeOK
  BY DEF FInv
<1>2. ASSUME NEW pc \in AllPcs, Goes(r, pc)
      PROVE  req'[r].pc = pc /\ req'[r].op = req[r].op /\ req'[r].obj = req[r].obj
  BY <1>1, <1>2, GoesOn DEF Same
<1>3. {"drop", "err", "difference", "update", "add", "letgo", "head", "ok"} \subseteq AllPcs
  BY DEF AllPcs, WritePcs, UploadPcs, Resting
<1>4. Working(r) /\ UNCHANGED mp
  <2>1. /\ Active(r)
        /\ \/ At(r, "open") \/ At(r, "source") \/ At(r, "add") \/ At(r, "letgo") \/ At(r, "drop")
           \/ At(r, "difference") \/ At(r, "forget") \/ At(r, "assemble") \/ At(r, "head")
           \/ req[r].op \in PartOps \cup {"complete"}
    BY DEF InsertUpload, ReadSource, AddReserved, LetGo, DropUpload, CommitParts,
         SettleDifference, SendPart, AskStore, ForgetParts, Assemble, HeadObject, Admitted, At,
         Active, Resting
  <2>2. req[r].op \in UploadOps
    BY <2>1, ItsUpload, Here
       DEF Placed, OpAt, At, UploadOps, UploadOnlyOps, PartOps, Enders
  <2>3. UNCHANGED mp
    BY DEF InsertUpload, ReadSource, AddReserved, LetGo, DropUpload, CommitParts,
         SettleDifference, SendPart, AskStore, ForgetParts, Assemble, HeadObject, mvars
  <2> QED
    BY <2>1, <2>2, <2>3 DEF Working
<1>5. CASE InsertUpload(r) \/ AddReserved(r) \/ DropUpload(r)
  <2>1. /\ Goes(r, "ok") \/ Goes(r, "err")
        /\ ~(LetGo(r) \/ CommitParts(r) \/ SettleDifference(r) \/ HeadObject(r) \/ ReadSource(r)
             \/ SendPart(r) \/ ForgetParts(r) \/ Assemble(r))
    BY <1>5, Here
       DEF InsertUpload, AddReserved, DropUpload, LetGo, CommitParts, SettleDifference,
         HeadObject, ReadSource, SendPart, ForgetParts, Assemble, Admitted, At
  <2> QED
    BY <1>2, <1>3, <1>4, <2>1
<1>6. CASE ReadSource(r)
  <2>1. req[r].src \in Object
    BY <1>6, Here DEF ReadSource, Placed, OpAt, SubjectOf, At
  <2>2. /\ req[r].pc = "source"
        /\ ~(InsertUpload(r) \/ AddReserved(r) \/ DropUpload(r) \/ LetGo(r) \/ CommitParts(r)
             \/ SettleDifference(r) \/ HeadObject(r) \/ SendPart(r) \/ ForgetParts(r)
             \/ Assemble(r))
    BY <1>6
       DEF InsertUpload, AddReserved, DropUpload, LetGo, CommitParts, SettleDifference,
         HeadObject, ReadSource, SendPart, ForgetParts, Assemble, Admitted, At
  <2>3. CASE Goes(r, "err")
    BY <1>2, <1>3, <1>4, <2>2, <2>3
  <2>4. CASE ~Goes(r, "err")
    <3> DEFINE n == row[req[r].src]
    <3>1. /\ n \in Nat
          /\ req' = [req EXCEPT ![r] = [@ EXCEPT !.pc = "reserve", !.size = n, !.delta = n]]
      BY <1>1, <1>6, <2>1, <2>4 DEF ReadSource, TypeOK
    <3> HIDE DEF n
    <3>2. req'[r].pc = "reserve" /\ req'[r].op = req[r].op /\ req'[r].obj = req[r].obj
      BY <1>1, <3>1, SourceRead
    <3> QED
      BY <1>4, <2>2, <3>2
  <2> QED
    BY <2>3, <2>4
<1>7. CASE SendPart(r)
  <2>1. /\ Goes(r, "add") \/ GiveUp(r)
        /\ ~(InsertUpload(r) \/ AddReserved(r) \/ DropUpload(r) \/ LetGo(r) \/ CommitParts(r)
             \/ SettleDifference(r) \/ HeadObject(r) \/ ReadSource(r) \/ ForgetParts(r)
             \/ Assemble(r))
    BY <1>7
       DEF InsertUpload, AddReserved, DropUpload, LetGo, CommitParts, SettleDifference,
         HeadObject, ReadSource, SendPart, ForgetParts, Assemble, Admitted, At
  <2>2. GiveUp(r) => /\ req'[r].pc \in {"release", "err"}
                     /\ req'[r].op = req[r].op /\ req'[r].obj = req[r].obj
    BY <1>1, GivesUp DEF Same
  <2> QED
    BY <1>2, <1>3, <1>4, <2>1, <2>2
<1>8. CASE LetGo(r) \/ CommitParts(r) \/ SettleDifference(r)
  <2>1. /\ ~(InsertUpload(r) \/ AddReserved(r) \/ DropUpload(r) \/ HeadObject(r)
             \/ ReadSource(r) \/ SendPart(r) \/ ForgetParts(r) \/ Assemble(r))
        /\ LetGo(r) => req[r].pc = "letgo" /\ (Goes(r, "drop") \/ Goes(r, "err"))
        /\ CommitParts(r) => req[r].pc = "account" /\ (Goes(r, "difference") \/ Goes(r, "err"))
        /\ SettleDifference(r) => req[r].pc = "difference" /\ Goes(r, "drop")
    BY <1>8, Here
       DEF InsertUpload, AddReserved, DropUpload, LetGo, CommitParts, SettleDifference,
         HeadObject, ReadSource, SendPart, ForgetParts, Assemble, Admitted, At, Placed, CallAt,
         Waiting, PartOps
  <2> QED
    BY <1>2, <1>3, <1>4, <1>8, <2>1
<1>9. CASE ForgetParts(r) \/ Assemble(r)
  <2>1. /\ ~(InsertUpload(r) \/ AddReserved(r) \/ DropUpload(r) \/ HeadObject(r) \/ ReadSource(r)
             \/ SendPart(r) \/ LetGo(r) \/ CommitParts(r) \/ SettleDifference(r))
        /\ ForgetParts(r) => req[r].pc = "forget" /\ (Goes(r, "letgo") \/ Goes(r, "err"))
        /\ Assemble(r) => req[r].pc = "assemble" /\ (Goes(r, "head") \/ Goes(r, "err"))
    BY <1>9
       DEF InsertUpload, AddReserved, DropUpload, LetGo, CommitParts, SettleDifference,
         HeadObject, ReadSource, SendPart, ForgetParts, Assemble, Admitted, At
  <2> QED
    BY <1>2, <1>3, <1>4, <1>9, <2>1
<1>10. CASE HeadObject(r)
  <2>1. /\ ~(InsertUpload(r) \/ AddReserved(r) \/ DropUpload(r) \/ ForgetParts(r) \/ Assemble(r)
             \/ ReadSource(r) \/ SendPart(r) \/ LetGo(r) \/ CommitParts(r) \/ SettleDifference(r))
        /\ req[r].obj \in Object
    BY <1>10, Here
       DEF InsertUpload, AddReserved, DropUpload, LetGo, CommitParts, SettleDifference,
         HeadObject, ReadSource, SendPart, ForgetParts, Assemble, Admitted, At, Placed,
         SubjectOf, Resting
  <2>2. CASE Goes(r, "err")
    BY <1>2, <1>3, <1>4, <2>1, <2>2
  <2>3. CASE ~Goes(r, "err")
    <3> DEFINE s == blob[req[r].obj]
    <3>1. s \in Nat /\ req' = [req EXCEPT ![r].pc = "update", ![r].size = s]
      BY <1>1, <1>10, <2>1, <2>3 DEF HeadObject, TypeOK
    <3> HIDE DEF s
    <3>2. req'[r].pc = "update" /\ req'[r].op = req[r].op /\ req'[r].obj = req[r].obj
      BY <1>1, <3>1, HeadRead
    <3> QED
      BY <1>4, <2>1, <3>2
  <2> QED
    BY <2>2, <2>3
<1> QED
  BY <1>5, <1>6, <1>7, <1>8, <1>9, <1>10 DEF AskStore

\* The other steps on an upload disturb no one at work there.
LEMMA UploadStepApart ==
  ASSUME FInv, UploadsApart, NEW r \in Requests,
         \/ InsertUpload(r) \/ ReadSource(r) \/ AddReserved(r) \/ LetGo(r) \/ DropUpload(r)
         \/ CommitParts(r) \/ SettleDifference(r) \/ SendPart(r) \/ AskStore(r)
  PROVE  UploadsApart'
<1> USE DEF At
<1>0. PICK u : u = mp[r].upload
  OBVIOUS
<1>1. /\ Together(r) /\ TypeOK /\ Working(r) /\ ApartAt(r) /\ mp'[r] = mp[r]
      /\ req'[r].op = req[r].op /\ req'[r].obj = req[r].obj
      /\ u \in Uploads /\ On(r, u)
  <2>1. Step(r)
    BY DEF Step, UploadStep, ProceedUpload
  <2> QED
    BY <1>0, <2>1, StepTogether, UploadMoves, ItsUpload, Here DEF UploadsApart, Working, On
<1>2. Working(r)' => On(r, u)'
  BY <1>0, <1>1 DEF On
<1>3. ASSUME UNCHANGED upload, parts' = parts \/ parts' = [parts EXCEPT ![u] = Absent],
             Through(r)' => Through(r)
      PROVE  UploadsApart'
  <2>1. \A v \in Uploads : parts'[v] \in {parts[v], Absent}
    BY <1>1, <1>3 DEF TypeOK
  <2>2. GoesOnOrLeaves(r)
    BY <1>1, <1>3 DEF GoesOnOrLeaves
  <2> QED
    BY <1>1, <1>3, <2>1, <2>2, ApartSubsides
<1>4. CASE ReadSource(r) \/ LetGo(r) \/ CommitParts(r) \/ SettleDifference(r) \/ HeadObject(r)
  <2>1. UNCHANGED <<upload, parts>>
    BY <1>4 DEF ReadSource, LetGo, CommitParts, SettleDifference, HeadObject, mvars
  <2>2. Through(r)' => Through(r)
    <3>1. req[r].pc \notin {"forget", "assemble"}
      BY <1>4 DEF ReadSource, LetGo, CommitParts, SettleDifference, HeadObject
    <3> QED
      BY <1>1, <3>1 DEF Through
  <2> QED
    BY <1>3, <2>1, <2>2
<1>5. CASE SendPart(r)
  <2>1. UNCHANGED upload /\ req[r].op \in PartOps
    BY <1>5 DEF SendPart
  <2>2. \A q \in Requests : On(q, u) => req[q].op \in PartOps
    BY <1>0, <1>1, <2>1 DEF ApartAt
  <2>3. \A v \in Uploads \ {u} : parts'[v] = parts[v]
    BY <1>0, <1>1, <1>5 DEF SendPart, PartStored, TypeOK
  <2>4. \A v \in Uploads : \/ parts'[v] \in {parts[v], Absent}
                           \/ \A q \in Requests : On(q, v) => req[q].op \notin Enders
    BY <2>2, <2>3 DEF PartOps, Enders
  <2>5. GoesOnOrLeaves(r)
    BY <1>1, <2>1 DEF GoesOnOrLeaves, Through, PartOps, Enders
  <2> QED
    BY <1>1, <2>1, <2>4, <2>5, ApartSubsides
<1>6. ASSUME NEW x, upload' = [upload EXCEPT ![u] = x], UNCHANGED parts, req'[r].pc \in Resting,
             \A q \in Requests \ {r} : On(q, u) =>
               \/ req[q].op \in PartOps /\ x # Absent /\ upload[u] # Absent /\ x.obj = upload[u].obj
               \/ req[q].op \in Enders /\ x = Absent /\ parts[u] = Absent /\ ~Through(q)
      PROVE  UploadsApart'
  <2>1. ~Working(r)'
    BY <1>6 DEF Working, Active
  <2>2. ASSUME NEW q \in Requests \ {r}, Working(q)'
        PROVE  ApartAt(q)'
    <3>0. PICK v : v = mp[q].upload
      OBVIOUS
    <3>1. /\ Working(q) /\ req'[q] = req[q] /\ mp'[q] = mp[q] /\ Through(q)' = Through(q)
          /\ ApartAt(q) /\ On(q, v) /\ v \in Uploads
      BY <1>1, <2>2, <3>0, OthersStay, ItsUpload DEF UploadsApart, On, Working
    <3>2. ASSUME NEW p \in Requests \ {r}
          PROVE  On(p, v)' = On(p, v) /\ req'[p] = req[p] /\ Through(p)' = Through(p)
      BY <1>1, OthersStay
    <3>3. ~On(r, v)'
      BY <2>1 DEF On
    <3>4. CASE v # u
      <4>1. upload'[v] = upload[v] /\ parts'[v] = parts[v]
        BY <1>1, <1>6, <3>1, <3>4 DEF TypeOK
      <4> QED
        BY <3>0, <3>1, <3>2, <3>3, <4>1 DEF ApartAt
    <3>5. CASE v = u
      <4>1. upload'[v] = x /\ parts'[v] = parts[v]
        BY <1>1, <1>6, <3>1, <3>5 DEF TypeOK
      <4>2. \/ req[q].op \in PartOps /\ x # Absent /\ upload[u] # Absent /\ x.obj = upload[u].obj
            \/ req[q].op \in Enders /\ x = Absent /\ parts[u] = Absent /\ ~Through(q)
        BY <1>6, <3>1, <3>5
      <4>3. CASE req[q].op \in PartOps /\ x # Absent /\ upload[u] # Absent /\ x.obj = upload[u].obj
        <5>1. req[q].op \notin Enders \cup {"create"} /\ ~Through(q)
          BY <4>3 DEF PartOps, Enders, Through
        <5> QED
          BY <3>0, <3>1, <3>2, <3>3, <3>5, <4>1, <4>3, <5>1 DEF ApartAt
      <4>4. CASE req[q].op \in Enders /\ x = Absent /\ parts[u] = Absent /\ ~Through(q)
        <5>1. req[q].op \notin PartOps \cup {"create"}
          BY <4>4 DEF PartOps, Enders
        <5> QED
          BY <3>0, <3>1, <3>2, <3>3, <3>5, <4>1, <4>4, <5>1 DEF ApartAt
      <4> QED
        BY <4>2, <4>3, <4>4
    <3> QED
      BY <3>4, <3>5
  <2> QED
    BY <2>1, <2>2 DEF UploadsApart, ApartAt
<1>7. CASE InsertUpload(r)
  <2>1. /\ upload' = [upload EXCEPT ![u] = [obj |-> req[r].obj, reserved |-> 0]]
        /\ UNCHANGED parts /\ req'[r].pc \in Resting
    BY <1>0, <1>7, UploadMoves DEF InsertUpload, Resting
  <2>2. \A q \in Requests \ {r} : ~On(q, u)
    BY <1>0, <1>1, <1>7, ItsUpload DEF InsertUpload, ApartAt
  <2> QED
    BY <1>6, <2>1, <2>2
<1>8. CASE AddReserved(r)
  <2>1. /\ req[r].op \in PartOps /\ UNCHANGED parts /\ req'[r].pc \in Resting
    BY <1>8, UploadMoves, ItsUpload DEF AddReserved, Resting
  <2>2. /\ upload[u] # Absent
        /\ \A q \in Requests : On(q, u) => req[q].op \in PartOps
    BY <1>0, <1>1, <2>1 DEF ApartAt
  <2> DEFINE x == [upload[u] EXCEPT !.reserved = @ + req[r].size]
  <2>3. upload' = [upload EXCEPT ![u] = x]
    BY <1>0, <1>8, <2>2 DEF AddReserved
  <2>4. x # Absent /\ x.obj = upload[u].obj
    <3>1. upload[u] \in [obj : Object, reserved : Nat] /\ req[r].size \in Nat
      BY <1>1, <2>2, UploadRow, Here
    <3>2. upload[u].reserved + req[r].size \in Nat
      BY <3>1
    <3>3. x \in [obj : Object, reserved : Nat] /\ x.obj = upload[u].obj
      BY <3>1, <3>2
    <3> QED
      BY <3>3, AbsentUploadAssumption
  <2> HIDE DEF x
  <2> QED
    BY <1>6, <2>1, <2>2, <2>3, <2>4
<1>9. CASE DropUpload(r)
  <2>1. /\ req[r].op \in Enders /\ req[r].pc = "drop" /\ UNCHANGED parts
        /\ req'[r].pc \in Resting
    BY <1>9, UploadMoves, ItsUpload DEF DropUpload, Resting
  <2>2. Through(r)
    BY <1>1, <2>1 DEF Through
  <2>3. /\ upload[u] # Absent /\ parts[u] = Absent
        /\ \A q \in Requests : On(q, u) /\ Through(q) => q = r
    BY <1>0, <1>1, <2>2 DEF ApartAt
  <2>4. \A q \in Requests : On(q, u) => req[q].op \in Enders
    <3>1. ASSUME NEW q \in Requests, On(q, u)
          PROVE  req[q].op \in Enders
      <4>1. ApartAt(q) /\ Working(q) /\ mp[q].upload = u
        BY <3>1 DEF UploadsApart, On
      <4> QED
        BY <1>1, <2>1, <2>3, <4>1
           DEF ApartAt, Working, UploadOps, UploadOnlyOps, PartOps, Enders
    <3> QED
      BY <3>1
  <2>5. CASE upload' = [upload EXCEPT ![u] = Absent]
    BY <1>6, <2>1, <2>3, <2>4, <2>5
  <2>6. CASE UNCHANGED upload
    BY <1>3, <2>1, <2>2, <2>6
  <2> QED
    BY <1>0, <1>9, <2>5, <2>6 DEF DropUpload
<1>10. CASE ForgetParts(r) \/ Assemble(r)
  <2>1. /\ req[r].op \in Enders /\ req[r].pc \in {"forget", "assemble"} /\ UNCHANGED upload
        /\ \/ UNCHANGED parts /\ req'[r].pc = "err"
           \/ parts' = [parts EXCEPT ![u] = Absent] /\ parts[u] # Absent
    BY <1>0, <1>1, <1>10, ItsUpload, GoesOn
       DEF ForgetParts, Assemble, Assembled, Enders, AllPcs, Resting
  <2>2. CASE UNCHANGED parts /\ req'[r].pc = "err"
    <3>1. ~Through(r)'
      BY <2>2 DEF Through, Working, Active, Resting
    <3> QED
      BY <1>3, <2>1, <2>2, <3>1
  <2>3. CASE parts' = [parts EXCEPT ![u] = Absent] /\ parts[u] # Absent
    <3>1. upload[u] # Absent /\ mp[r].held = upload[u].reserved /\ req[r].obj = upload[u].obj
      BY <1>0, <1>1, <2>1, <2>3 DEF ApartAt, Enders
    <3>2. \A q \in Requests : On(q, u) => ~Through(q)
      BY <2>3 DEF UploadsApart, ApartAt, On
    <3>3. \A v \in Uploads : parts'[v] = IF v = u THEN Absent ELSE parts[v]
      BY <1>1, <2>3 DEF TypeOK
    <3>4. ASSUME NEW q \in Requests, Working(q)'
          PROVE  ApartAt(q)'
      <4>0. PICK v : v = mp[q].upload
        OBVIOUS
      <4>1. ASSUME NEW p \in Requests
            PROVE  /\ On(p, v)' => On(p, v)
                   /\ req'[p].op = req[p].op /\ req'[p].obj = req[p].obj /\ mp'[p] = mp[p]
                   /\ p # r => Through(p)' = Through(p)
        BY <1>1, OthersStay DEF On
      <4>2. Working(q) /\ ApartAt(q) /\ On(q, v) /\ v \in Uploads
        BY <1>1, <3>4, <4>0, OthersStay, ItsUpload DEF UploadsApart, On, Working
      <4>3. Through(q)' => /\ upload[v] # Absent /\ parts'[v] = Absent
                           /\ \A p \in Requests : On(p, v)' /\ Through(p)' => p = q
        <5>1. CASE q = r
          <6>1. v = u
            BY <1>0, <4>0, <5>1
          <6> QED
            BY <3>1, <3>2, <3>3, <4>1, <4>2, <5>1, <6>1
        <5>2. CASE q # r
          <6>1. ASSUME Through(q)'
                PROVE  Through(q) /\ v # u /\ ~On(r, v)
            BY <1>0, <3>2, <4>1, <4>2, <5>2, <6>1 DEF On
          <6>2. ASSUME Through(q)'
                PROVE  /\ upload[v] # Absent /\ parts[v] = Absent
                       /\ \A p \in Requests : On(p, v) /\ Through(p) => p = q
            BY <4>0, <4>2, <6>1, <6>2 DEF ApartAt
          <6> QED
            BY <3>3, <4>1, <4>2, <6>1, <6>2
        <5> QED
          BY <5>1, <5>2
      <4>4. UNCHANGED upload
        BY <2>1
      <4> QED
        BY <3>3, <4>0, <4>1, <4>2, <4>3, <4>4 DEF ApartAt
    <3> QED
      BY <3>4 DEF UploadsApart, ApartAt
  <2> QED
    BY <2>1, <2>2, <2>3
<1> QED
  BY <1>4, <1>5, <1>7, <1>8, <1>9, <1>10 DEF AskStore

\* What is at work on uploads keeps apart at every step.
LEMMA ApartKept ==
  ASSUME SerialKeys, FInv, UploadsApart, NEW r \in Requests, Step(r)
  PROVE  UploadsApart'
  BY ObjectApart, StartUploadApart, UploadStepApart DEF Step, UploadStep, ProceedUpload

----------------------------------------------------------------------------
(* What is held, at both levels alike, and by whom: the requests in flight *)
(* and the uploads.  In the account of "exact" kind an upload has its hold *)
(* until the request that ends it has taken that from the row; in the one  *)
(* of "low" kind only while the store has its parts or such a request is   *)
(* on its way.                                                             *)

\* The two levels, the two kinds, and the row of an object at a level.
Levels == {"bucket", "account"}

Kinds == {"exact", "low"}

Site(l, o) == IF l = "bucket" THEN BucketOf(o) ELSE Owner[BucketOf(o)]

Sites(l) == IF l = "bucket" THEN Buckets ELSE Users

Reserved(l, x) == IF l = "bucket" THEN bucket[x].reserved ELSE account[x].reserved

\* What a request holds, and what of that is on this row.
Held(l, r) == (IF l = "bucket" THEN HeldByBucket(r) ELSE HeldByAccount(r)) + HeldByPart(r)

HeldAt(l, x, r) == IF req[r].obj # Nowhere /\ Site(l, req[r].obj) = x THEN Held(l, r) ELSE 0

\* The request that ends an upload has taken its hold from the row.
Spent(l, r) ==
  /\ req[r].pc \in {"difference", "drop"}
  /\ l = "account" => call[r].at \notin {"release_user", "commit_user"}

\* The one that ends an upload, before and after it took the hold.
Gets(l, r, u) == On(r, u) /\ Through(r) /\ ~Spent(l, r)

Takes(l, r, u) == On(r, u) /\ Through(r) /\ Spent(l, r)

Keeps(k, l, u) ==
  IF k = "exact" THEN \A r \in Requests : ~Takes(l, r, u)
                 ELSE parts[u] # Absent \/ \E r \in Requests : Gets(l, r, u)

Kept(k, l, x, u) ==
  IF upload[u] # Absent /\ Site(l, upload[u].obj) = x /\ Keeps(k, l, u)
    THEN upload[u].reserved ELSE 0

\* Each request's and each upload's part of what is on a row.
Holds(l, x) == [r \in Requests |-> HeldAt(l, x, r)]

Keepings(k, l, x) == [u \in Uploads |-> Kept(k, l, x, u)]

\* One amount bears another.
Bears(k, n, m) == IF k = "exact" THEN n = m ELSE n >= m

Counts(k) == k = "exact" => faults = 0

\* The rows bear what is held on them, exactly or at least.
HoldsOK ==
  \A k \in Kinds, l \in Levels : \A x \in Sites(l) :
    Counts(k) => Bears(k, Reserved(l, x),
                       Total(Holds(l, x), Requests) + Total(Keepings(k, l, x), Uploads))

\* What a handler holds, by where it is and the procedure it is in.
HoldOf(l, h, c) ==
  IF \/ h.pc \in {"update", "insert", "reread", "account", "release", "add"}
     \/ h.pc = "admit" /\ c.at = "ok"
     \/ l = "bucket" /\ h.pc = "admit" /\ c.at \in {"reserve_user", "unreserve"}
     \/ l = "account" /\ h.pc \in {"commit", "abort"} /\ c.at \in {"commit_user", "release_user"}
    THEN IF h.delta > 0 THEN h.delta ELSE 0
    ELSE 0

\* Only a request that does not end an upload has a hold of its own in a procedure.
LEMMA EndedAmounts ==
  ASSUME NEW h, NEW c, NEW m, Placed(h, c, m)
  PROVE  /\ h.pc = "add" => h.delta = h.size
         /\ c.at \in {"commit_user", "release_user"} => \/ h.pc \in {"commit", "abort"}
                                                       \/ h.delta = 0
         /\ h.pc = "admit" => c.at \in {"reserve_user", "unreserve", "ok", "failed"}
<1> USE DEF Placed, OpAt, SubjectOf, CallAt
<1>1. h.pc = "add" => h.delta = h.size
  OBVIOUS
<1>2. h.pc = "admit" => c.at \in {"reserve_user", "unreserve", "ok", "failed"}
  OBVIOUS
<1>3. ASSUME c.at \in {"commit_user", "release_user"}, h.pc \notin {"commit", "abort"}
      PROVE  h.delta = 0
  <2>1. h.pc \in Waiting
    BY <1>3 DEF Ended
  <2>2. h.pc \in {"difference", "drop"}
    BY <1>3, <2>1 DEF Waiting
  <2>3. h.op \in UploadOps \ PartOps
    BY <2>2 DEF UploadOps, UploadOnlyOps, PartOps, Enders
  <2> QED
    BY <2>3
<1> QED
  BY <1>1, <1>2, <1>3

\* What is held, of the handler and its call alone; it is never negative.
LEMMA HeldIs ==
  ASSUME FInv, NEW r \in Requests, NEW l \in Levels
  PROVE  /\ Held(l, r) = HoldOf(l, req[r], call[r])
         /\ Held(l, r) \in Nat
<1>1. /\ Placed(req[r], call[r], mp[r]) /\ req[r].delta \in Int /\ req[r].size \in Nat
  BY Here
<1>2. /\ req[r].pc = "add" => req[r].delta = req[r].size
      /\ call[r].at \in {"commit_user", "release_user"} =>
           \/ req[r].pc \in {"commit", "abort"}
           \/ req[r].delta = 0
      /\ req[r].pc = "admit" => call[r].at \in {"reserve_user", "unreserve", "ok", "failed"}
  BY <1>1, EndedAmounts
<1>3. req[r].pc \in {"commit", "abort"} => call[r].at \notin {"failed", "reserve_user"}
  BY <1>1 DEF Placed, CallAt
<1> QED
  BY <1>1, <1>2, <1>3 DEF Held, HoldOf, HeldByBucket, HeldByAccount, HeldByPart, Growth, At, Levels

\* The same after a step.
LEMMA HeldIsNext ==
  ASSUME FInv', NEW r \in Requests, NEW l \in Levels
  PROVE  /\ Held(l, r)' = HoldOf(l, req'[r], call'[r])
         /\ Held(l, r)' \in Nat
<1>1. Placed(req'[r], call'[r], mp'[r])
  BY DEF FInv, PlacedOK
<1>2. req'[r].delta \in Int /\ req'[r].size \in Nat
  BY DEF FInv, TypeOK, Handler
<1>3. /\ req'[r].pc = "add" => req'[r].delta = req'[r].size
      /\ call'[r].at \in {"commit_user", "release_user"} =>
           \/ req'[r].pc \in {"commit", "abort"}
           \/ req'[r].delta = 0
      /\ req'[r].pc = "admit" => call'[r].at \in {"reserve_user", "unreserve", "ok", "failed"}
  BY <1>1, EndedAmounts
<1> QED
  BY <1>1, <1>2, <1>3
     DEF Held, HoldOf, HeldByBucket, HeldByAccount, HeldByPart, Growth, At, Levels

\* Whoever opens or ends an upload holds nothing itself.
LEMMA EndersHoldNothing ==
  ASSUME NEW l, NEW h, NEW c, NEW m, Placed(h, c, m), h.op \in UploadOps \ PartOps
  PROVE  HoldOf(l, h, c) = 0
  BY DEF HoldOf, Placed, SubjectOf

\* The rows' amounts, and what uploads keep.
LEMMA Typed ==
  ASSUME FInv
  PROVE  /\ \A l \in Levels : \A x \in Sites(l) : Reserved(l, x) \in Int
         /\ \A k, l, x : \A u \in Uploads : Kept(k, l, x, u) \in Nat
         /\ \A o \in Object : \A l \in Levels : Site(l, o) \in Sites(l)
<1>1. /\ \A b \in Buckets : bucket[b].reserved \in Int
      /\ \A u \in Users : account[u].reserved \in Int
  BY DEF FInv, TypeOK, QuotaTypeOK, BucketColumns, AccountColumns
<1>2. \A u \in Uploads : upload[u] # Absent => upload[u].reserved \in Nat
  BY UploadRow DEF FInv
<1> QED
  BY <1>1, <1>2, ItsBucket DEF Reserved, Sites, Site, Kept, Levels

\* Numbers are numbers after a step.
LEMMA TypedNext ==
  ASSUME FInv'
  PROVE  /\ \A l \in Levels : \A x \in Sites(l) : Reserved(l, x)' \in Int
         /\ \A k, l, x : \A u \in Uploads : Kept(k, l, x, u)' \in Nat
<1>1. /\ \A b \in Buckets : bucket'[b].reserved \in Int
      /\ \A u \in Users : account'[u].reserved \in Int
  BY DEF FInv, TypeOK, QuotaTypeOK, BucketColumns, AccountColumns
<1>2. \A u \in Uploads : upload'[u] # Absent => upload'[u].reserved \in Nat
  BY DEF FInv, TypeOK
<1> QED
  BY <1>1, <1>2 DEF Reserved, Sites, Kept, Levels

----------------------------------------------------------------------------
(* What sums of two kinds of holds do at a step.                           *)

\* A hold of r goes from e to g, the amount it is part of from n to m, and what is kept
\* beside it from f to h.
Amid(R, K, e, g, f, h, r, n, m) ==
  /\ IsFiniteSet(R) /\ IsFiniteSet(K) /\ r \in R /\ n \in Int /\ m \in Int
  /\ \A q \in R : e[q] \in Int /\ g[q] \in Int
  /\ \A q \in R \ {r} : g[q] = e[q]
  /\ \A v \in K : f[v] \in Int /\ h[v] \in Int

\* What is kept shrinks at most, and the amount follows the hold.
LEMMA SumsEase ==
  ASSUME NEW k, NEW R, NEW K, NEW e, NEW g, NEW f, NEW h, NEW r, NEW n, NEW m,
         Amid(R, K, e, g, f, h, r, n, m),
         \A v \in K : Bears(k, f[v], h[v]),
         Bears(k, m - g[r], n - e[r]),
         Bears(k, n, Total(e, R) + Total(f, K))
  PROVE  Bears(k, m, Total(g, R) + Total(h, K))
<1> USE DEF Amid, Bears
<1>1. ChangedAt(e, g, r, R) /\ g[r] \in Int /\ e[r] \in Int
  BY DEF ChangedAt
<1>2. Total(g, R) = Total(e, R) + (g[r] - e[r]) /\ Total(e, R) \in Int
  BY <1>1, TotalChange
<1>3. Total(f, K) \in Int /\ Total(h, K) \in Int
  BY TotalTake
<1>4. Bears(k, Total(f, K), Total(h, K))
  <2>1. CASE k = "exact"
    BY <2>1, TotalSame
  <2>2. CASE k # "exact"
    <3>1. \A v \in K : h[v] <= f[v]
      BY <2>2
    <3>2. Total(h, K) <= Total(f, K)
      BY <3>1, TotalMono
    <3> QED
      BY <1>3, <2>2, <3>2
  <2> QED
    BY <2>1, <2>2
<1>5. Total(g, R) \in Int /\ n \in Int /\ m \in Int
  BY <1>1, <1>2
<1> HIDE DEF Amid
<1>6. CASE k = "exact"
  <2>1. m - g[r] = n - e[r] /\ n = Total(e, R) + Total(f, K) /\ Total(f, K) = Total(h, K)
    BY <1>4, <1>6
  <2> HIDE DEF Bears
  <2>2. m = Total(g, R) + Total(h, K)
    BY <1>1, <1>2, <1>3, <1>5, <2>1
  <2> QED
    BY <1>6, <2>2 DEF Bears
<1>7. CASE k # "exact"
  <2>1. m - g[r] >= n - e[r] /\ n >= Total(e, R) + Total(f, K) /\ Total(f, K) >= Total(h, K)
    BY <1>4, <1>7
  <2> HIDE DEF Bears
  <2>2. m >= Total(g, R) + Total(h, K)
    BY <1>1, <1>2, <1>3, <1>5, <2>1
  <2> QED
    BY <1>7, <2>2 DEF Bears
<1> QED
  BY <1>6, <1>7

\* The amount follows the hold and what is kept at o together.
LEMMA SumsTrade ==
  ASSUME NEW k, NEW R, NEW K, NEW e, NEW g, NEW f, NEW h, NEW r, NEW n, NEW m,
         Amid(R, K, e, g, f, h, r, n, m), NEW o \in K,
         \A v \in K \ {o} : Bears(k, f[v], h[v]),
         Bears(k, m - g[r] - h[o], n - e[r] - f[o]),
         Bears(k, n, Total(e, R) + Total(f, K))
  PROVE  Bears(k, m, Total(g, R) + Total(h, K))
<1> DEFINE f2 == [v \in K |-> IF v = o THEN h[o] ELSE f[v]]
           n2 == n - f[o] + h[o]
<1>1. /\ \A v \in K : f2[v] \in Int
      /\ f2[o] = h[o] /\ f[o] \in Int /\ h[o] \in Int /\ n \in Int /\ m \in Int
      /\ \A v \in K \ {o} : f2[v] = f[v]
      /\ e[r] \in Int /\ g[r] \in Int
  BY DEF Amid
<1>2. n2 \in Int /\ n2 = n - f[o] + h[o]
  BY <1>1
<1> HIDE DEF f2, n2
<1>3. ChangedAt(f, f2, o, K)
  BY <1>1 DEF ChangedAt, Amid
<1>4. Total(f2, K) = Total(f, K) + (h[o] - f[o]) /\ Total(f, K) \in Int
  BY <1>1, <1>3, TotalChange DEF Amid
<1>5. Total(e, R) \in Int
  BY TotalTake DEF Amid
<1>6. Bears(k, n2, Total(e, R) + Total(f2, K))
  BY <1>1, <1>2, <1>4, <1>5 DEF Bears
<1>7. Bears(k, m - g[r], n2 - e[r])
  BY <1>1, <1>2 DEF Bears
<1>8. \A v \in K : Bears(k, f2[v], h[v])
  BY <1>1 DEF Bears
<1>9. Amid(R, K, e, g, f2, h, r, n2, m)
  BY <1>1, <1>2 DEF Amid
<1> QED
  BY <1>6, <1>7, <1>8, <1>9, SumsEase

\* An amount that bears such sums is no less than any of their terms.
Under(R, K, e, f, n) ==
  /\ IsFiniteSet(R) /\ IsFiniteSet(K) /\ n \in Int
  /\ \A q \in R : e[q] \in Nat
  /\ \A v \in K : f[v] \in Nat

\* A row that bears a sum bears each of its terms.
LEMMA SumsCover ==
  ASSUME NEW k, NEW R, NEW K, NEW e, NEW f, NEW n, Under(R, K, e, f, n),
         Bears(k, n, Total(e, R) + Total(f, K))
  PROVE  /\ \A q \in R : n >= e[q]
         /\ \A v \in K : n >= f[v]
         /\ n >= 0
<1> USE DEF Under
<1>1. Total(e, R) \in Nat /\ Total(f, K) \in Nat
  BY TotalNat
<1>2. n >= Total(e, R) + Total(f, K)
  BY <1>1 DEF Bears
<1>3. \A q \in R : e[q] <= Total(e, R)
  BY TotalTerm
<1>4. \A v \in K : f[v] <= Total(f, K)
  BY TotalTerm
<1> QED
  BY <1>1, <1>2, <1>3, <1>4

----------------------------------------------------------------------------
(* How a step moves what is reserved, held and kept.                       *)

\* What is reserved there follows what r holds.
RowFollows(k, l, x, r) ==
  Bears(k, Reserved(l, x)' - HeldAt(l, x, r)', Reserved(l, x) - HeldAt(l, x, r))

\* An upload keeps what it has, or less.
KeptEases(k, l, x, v) == Bears(k, Kept(k, l, x, v), Kept(k, l, x, v)')

\* What is reserved follows what r holds and an upload keeps.
KeptTraded(k, l, x, r, o) ==
  Bears(k, Reserved(l, x)' - HeldAt(l, x, r)' - Kept(k, l, x, o)',
           Reserved(l, x) - HeldAt(l, x, r) - Kept(k, l, x, o))

\* A step of r does one or the other.
HoldMoves(k, l, x, r) ==
  \/ RowFollows(k, l, x, r) /\ \A v \in Uploads : KeptEases(k, l, x, v)
  \/ \E o \in Uploads : /\ KeptTraded(k, l, x, r, o)
                        /\ \A v \in Uploads \ {o} : KeptEases(k, l, x, v)

\* Where something is held, and how much.
LEMMA HeldAtTyped ==
  ASSUME FInv, FInv', NEW r \in Requests, NEW l \in Levels, NEW x
  PROVE  HeldAt(l, x, r) \in Nat /\ HeldAt(l, x, r)' \in Nat
  BY HeldIs, HeldIsNext DEF HeldAt

\* A step that moves them together keeps the rows to what is held and kept.
LEMMA HoldsMoved ==
  ASSUME FInv, FInv', NEW r \in Requests, Together(r), HoldsOK,
         NEW k \in Kinds, NEW l \in Levels, NEW x \in Sites(l), Counts(k),
         HoldMoves(k, l, x, r)
  PROVE  Bears(k, Reserved(l, x)',
               Total(Holds(l, x)', Requests) + Total(Keepings(k, l, x)', Uploads))
<1> DEFINE e == Holds(l, x)
           g == [q \in Requests |-> HeldAt(l, x, q)']
           f == Keepings(k, l, x)
           h == [v \in Uploads |-> Kept(k, l, x, v)']
           n == Reserved(l, x)
           m == Reserved(l, x)'
<1>1. Holds(l, x)' = g /\ Keepings(k, l, x)' = h
  BY DEF Holds, Keepings
<1>2. IsFiniteSet(Requests) /\ IsFiniteSet(Uploads)
  BY FiniteAssumption, UploadsAssumption
<1>3. n \in Int /\ m \in Int
  BY Typed, TypedNext
<1>4. /\ \A q \in Requests : e[q] = HeldAt(l, x, q) /\ g[q] = HeldAt(l, x, q)'
      /\ \A v \in Uploads : f[v] = Kept(k, l, x, v) /\ h[v] = Kept(k, l, x, v)'
  BY DEF Holds, Keepings
<1>5. ASSUME NEW q \in Requests \ {r}
      PROVE  HeldAt(l, x, q)' = HeldAt(l, x, q)
  <2>1. req'[q] = req[q] /\ call'[q] = call[q]
    BY OthersStay
  <2>2. Held(l, q)' = Held(l, q)
    BY <2>1, HeldIs, HeldIsNext
  <2> QED
    BY <2>1, <2>2 DEF HeldAt
<1>6. \A q \in Requests : HeldAt(l, x, q) \in Nat /\ HeldAt(l, x, q)' \in Nat
  BY HeldAtTyped
<1>7. \A v \in Uploads : Kept(k, l, x, v) \in Nat /\ Kept(k, l, x, v)' \in Nat
  BY Typed, TypedNext
<1>8. Bears(k, n, Total(e, Requests) + Total(f, Uploads))
  BY DEF HoldsOK
<1> HIDE DEF e, g, f, h, n, m
<1>9. Amid(Requests, Uploads, e, g, f, h, r, n, m)
  BY <1>2, <1>3, <1>4, <1>5, <1>6, <1>7 DEF Amid
<1>10. CASE RowFollows(k, l, x, r) /\ \A v \in Uploads : KeptEases(k, l, x, v)
  <2>1. Bears(k, m - g[r], n - e[r]) /\ \A v \in Uploads : Bears(k, f[v], h[v])
    BY <1>4, <1>10 DEF RowFollows, KeptEases, n, m
  <2>2. Bears(k, m, Total(g, Requests) + Total(h, Uploads))
    BY <1>8, <1>9, <2>1, SumsEase
  <2> QED
    BY <1>1, <2>2 DEF m
<1>11. ASSUME NEW o \in Uploads, KeptTraded(k, l, x, r, o),
              \A v \in Uploads \ {o} : KeptEases(k, l, x, v)
       PROVE  Bears(k, m, Total(g, Requests) + Total(h, Uploads))
  <2>1. Bears(k, m - g[r] - h[o], n - e[r] - f[o])
    BY <1>4, <1>11 DEF KeptTraded, n, m
  <2>2. \A v \in Uploads \ {o} : Bears(k, f[v], h[v])
    BY <1>4, <1>11 DEF KeptEases
  <2> QED
    BY <1>8, <1>9, <2>1, <2>2, SumsTrade
<1> QED
  BY <1>1, <1>10, <1>11 DEF HoldMoves, m

\* The hold r has in a procedure is there; so is the one an upload keeps.
LEMMA HoldThere ==
  ASSUME FInv, HoldsOK, NEW l \in Levels, NEW x \in Sites(l)
  PROVE  /\ \A q \in Requests : Reserved(l, x) >= HeldAt(l, x, q)
         /\ \A v \in Uploads : Reserved(l, x) >= Kept("low", l, x, v)
         /\ Reserved(l, x) >= 0
<1> DEFINE e == Holds(l, x)
           f == Keepings("low", l, x)
           n == Reserved(l, x)
<1>1. IsFiniteSet(Requests) /\ IsFiniteSet(Uploads) /\ n \in Int
  BY FiniteAssumption, UploadsAssumption, Typed
<1>2. \A q \in Requests : e[q] = HeldAt(l, x, q) /\ e[q] \in Nat
  BY HeldIs DEF Holds, HeldAt
<1>3. \A v \in Uploads : f[v] = Kept("low", l, x, v) /\ f[v] \in Nat
  BY Typed DEF Keepings
<1>4. Bears("low", n, Total(e, Requests) + Total(f, Uploads))
  BY DEF HoldsOK, Counts, Kinds
<1> HIDE DEF e, f, n
<1>5. /\ \A q \in Requests : n >= e[q]
      /\ \A v \in Uploads : n >= f[v]
      /\ n >= 0
  <2>1. Under(Requests, Uploads, e, f, n)
    BY <1>1, <1>2, <1>3 DEF Under
  <2> QED
    BY <1>4, <2>1, SumsCover
<1> QED
  BY <1>2, <1>3, <1>5 DEF n

\* The rows do not change, and the hold stays, ends or is lost.
LEMMA HoldStays ==
  ASSUME FInv, FInv', NEW r \in Requests, NEW l \in Levels, NEW x \in Sites(l), NEW k \in Kinds,
         UNCHANGED <<bucket, account>>,
         \/ Held(l, r)' = 0 /\ (Held(l, r) = 0 \/ k = "low")
         \/ Held(l, r)' = Held(l, r) /\ req'[r].obj = req[r].obj
  PROVE  RowFollows(k, l, x, r)
<1>1. Reserved(l, x)' = Reserved(l, x) /\ Reserved(l, x) \in Int
  BY Typed DEF Reserved
<1>2. Held(l, r) \in Nat /\ Held(l, r)' \in Nat
  BY HeldIs, HeldIsNext
<1>3. HeldAt(l, x, r) \in Nat /\ HeldAt(l, x, r)' \in Nat
  BY HeldAtTyped
<1>4. \/ HeldAt(l, x, r)' = HeldAt(l, x, r)
      \/ HeldAt(l, x, r)' = 0 /\ k = "low"
  BY <1>2 DEF HeldAt
<1> QED
  BY <1>1, <1>3, <1>4 DEF RowFollows, Bears, Kinds

\* A statement moves the row at hand by what it moves the hold.
LEMMA HoldFollows ==
  ASSUME FInv, FInv', NEW r \in Requests, NEW l \in Levels, NEW x \in Sites(l), NEW k \in Kinds,
         NEW d \in Int, req[r].obj \in Object, req'[r].obj = req[r].obj,
         Reserved(l, x)' = Reserved(l, x) + (IF Site(l, req[r].obj) = x THEN d ELSE 0),
         Held(l, r)' = Held(l, r) + d
  PROVE  RowFollows(k, l, x, r)
<1>1. Reserved(l, x) \in Int /\ Held(l, r) \in Nat /\ Held(l, r)' \in Nat
  BY Typed, HeldIs, HeldIsNext
<1>2. req[r].obj # Nowhere
  BY ItsBucket
<1>3. CASE Site(l, req[r].obj) = x
  <2>1. HeldAt(l, x, r)' = Held(l, r)' /\ HeldAt(l, x, r) = Held(l, r)
    BY <1>2, <1>3 DEF HeldAt
  <2> QED
    BY <1>1, <1>3, <2>1 DEF RowFollows, Bears
<1>4. CASE Site(l, req[r].obj) # x
  <2>1. HeldAt(l, x, r)' = 0 /\ HeldAt(l, x, r) = 0
    BY <1>4 DEF HeldAt
  <2> QED
    BY <1>1, <1>4, <2>1 DEF RowFollows, Bears
<1> QED
  BY <1>3, <1>4

----------------------------------------------------------------------------
(* What a step leaves of the holds uploads keep.                           *)

\* The step takes nothing from, nor adds to, what keeps an upload's hold.
Spares(k, r, v) ==
  /\ upload'[v] = upload[v]
  /\ \/ upload[v] = Absent
     \/ k = "low" /\ parts'[v] # Absent => parts[v] # Absent
  /\ k = "low" => \A l \in Levels : Gets(l, r, v)' => Gets(l, r, v) \/ parts[v] # Absent
  /\ k = "exact" => \A l \in Levels : Takes(l, r, v)' <=> Takes(l, r, v)

\* A step that spares an upload keeps no more for it.
LEMMA SparesEases ==
  ASSUME FInv, FInv', NEW r \in Requests, Together(r), NEW k \in Kinds, NEW l \in Levels, NEW x,
         NEW v \in Uploads, Spares(k, r, v)
  PROVE  KeptEases(k, l, x, v)
<1>1. Kept(k, l, x, v) \in Nat /\ Kept(k, l, x, v)' \in Nat
  BY Typed, TypedNext
<1>2. CASE upload[v] = Absent
  <2>1. Kept(k, l, x, v)' = 0 /\ Kept(k, l, x, v) = 0
    BY <1>2 DEF Kept, Spares
  <2> QED
    BY <2>1 DEF KeptEases, Bears
<1>3. CASE upload[v] # Absent
  <2>1. \A q \in Requests \ {r} : /\ Gets(l, q, v)' <=> Gets(l, q, v)
                                  /\ Takes(l, q, v)' <=> Takes(l, q, v)
    <3>1. ASSUME NEW q \in Requests \ {r}
          PROVE  /\ Gets(l, q, v)' <=> Gets(l, q, v)
                 /\ Takes(l, q, v)' <=> Takes(l, q, v)
      <4>1. /\ req'[q] = req[q] /\ call'[q] = call[q]
            /\ Through(q)' = Through(q) /\ On(q, v)' = On(q, v)
        BY OthersStay
      <4>2. Spent(l, q)' <=> Spent(l, q)
        BY <4>1 DEF Spent
      <4> QED
        BY <4>1, <4>2 DEF Gets, Takes
    <3> QED
      BY <3>1
  <2>2. CASE k = "exact"
    <3>1. Keeps(k, l, v)' <=> Keeps(k, l, v)
      BY <2>1, <2>2 DEF Keeps, Spares
    <3>2. Kept(k, l, x, v)' = Kept(k, l, x, v)
      BY <3>1 DEF Kept, Spares
    <3> QED
      BY <2>2, <3>2 DEF KeptEases, Bears
  <2>3. CASE k = "low"
    <3>1. parts'[v] # Absent => parts[v] # Absent
      BY <1>3, <2>3 DEF Spares
    <3>2. Gets(l, r, v)' => Gets(l, r, v) \/ parts[v] # Absent
      BY <2>3 DEF Spares
    <3>3. Keeps(k, l, v)' => Keeps(k, l, v)
      BY <2>1, <2>3, <3>1, <3>2 DEF Keeps
    <3>4. Kept(k, l, x, v)' = 0 \/ Kept(k, l, x, v)' = Kept(k, l, x, v)
      BY <3>3 DEF Kept, Spares
    <3> QED
      BY <1>1, <2>3, <3>4 DEF KeptEases, Bears
  <2> QED
    BY <2>2, <2>3 DEF Kinds
<1> QED
  BY <1>2, <1>3

\* A request that ends nothing spares them all.
LEMMA IdleSpares ==
  ASSUME NEW r \in Requests, ~Through(r), ~Through(r)', NEW v \in Uploads,
         upload'[v] = upload[v],
         upload[v] = Absent \/ (parts'[v] # Absent => parts[v] # Absent),
         NEW k \in Kinds
  PROVE  Spares(k, r, v)
  BY DEF Spares, Gets, Takes, Kinds

\* So does one that has not come to its calls, or is far from them.
LEMMA PlainSpares ==
  ASSUME NEW r \in Requests, GoesOnOrLeaves(r), NEW v \in Uploads,
         upload'[v] = upload[v], parts'[v] = parts[v],
         req[r].pc \notin {"difference", "drop"}, req'[r].pc \notin {"difference", "drop"},
         NEW k \in Kinds
  PROVE  Spares(k, r, v)
<1>1. \A l \in Levels : ~Takes(l, r, v) /\ ~Takes(l, r, v)'
  BY DEF Takes, Spent
<1>2. \A l \in Levels : Gets(l, r, v)' => Gets(l, r, v)
  BY DEF Gets, Spent, On, GoesOnOrLeaves
<1> QED
  BY <1>1, <1>2 DEF Spares

\* And one at work on another upload.
LEMMA FarSpares ==
  ASSUME NEW r \in Requests, NEW v \in Uploads, mp[r].upload # v, mp'[r].upload # v,
         upload'[v] = upload[v], parts'[v] = parts[v], NEW k \in Kinds
  PROVE  Spares(k, r, v)
  BY DEF Spares, Gets, Takes, On

\* What the upload keeps that a request ends: what it has read, until it has spent that.
LEMMA KeptThrough ==
  ASSUME FInv, UploadsApart, NEW r \in Requests, Through(r), NEW k \in Kinds, NEW l \in Levels,
         NEW x
  PROVE  /\ mp[r].upload \in Uploads
         /\ Kept(k, l, x, mp[r].upload)
              = IF Site(l, req[r].obj) = x /\ ~Spent(l, r) THEN mp[r].held ELSE 0
<1> DEFINE u == mp[r].upload
<1>1. /\ u \in Uploads /\ On(r, u)
      /\ upload[u] # Absent /\ parts[u] = Absent
      /\ req[r].obj = upload[u].obj /\ mp[r].held = upload[u].reserved
      /\ \A q \in Requests : On(q, u) /\ Through(q) => q = r
  BY ItsUpload DEF UploadsApart, ApartAt, Through, Working, On, Enders, UploadOps, UploadOnlyOps
<1>2. Keeps(k, l, u) <=> ~Spent(l, r)
  BY <1>1 DEF Keeps, Gets, Takes
<1> QED
  BY <1>1, <1>2 DEF Kept

\* The same after a step.
LEMMA KeptThroughNext ==
  ASSUME FInv', UploadsApart', NEW r \in Requests, Through(r)', NEW k \in Kinds, NEW l \in Levels,
         NEW x
  PROVE  Kept(k, l, x, mp[r].upload)'
           = IF Site(l, req'[r].obj) = x /\ ~Spent(l, r)' THEN mp'[r].held ELSE 0
<1>1. PICK u : u = mp'[r].upload
  OBVIOUS
<1>2. /\ On(r, u)'
      /\ upload'[u] # Absent /\ parts'[u] = Absent
      /\ req'[r].obj = upload'[u].obj /\ mp'[r].held = upload'[u].reserved
      /\ \A q \in Requests : On(q, u)' /\ Through(q)' => q = r
  BY <1>1 DEF UploadsApart, ApartAt, Through, Working, On, Enders
<1>3. Keeps(k, l, u)' <=> ~Spent(l, r)'
  BY <1>2 DEF Keeps, Gets, Takes
<1>4. Kept(k, l, x, u)' = IF Site(l, req'[r].obj) = x /\ ~Spent(l, r)' THEN mp'[r].held ELSE 0
  BY <1>2, <1>3 DEF Kept, Site
<1> QED
  BY <1>1, <1>4

----------------------------------------------------------------------------
(* The requests that end an upload, once through.                          *)

\* Neither before nor after a step does such a request hold anything of its own.
LEMMA ThroughHoldsNothing ==
  ASSUME FInv, NEW r \in Requests, NEW l \in Levels,
         Working(r), req[r].op \in UploadOps \ PartOps
  PROVE  Held(l, r) = 0 /\ \A x : HeldAt(l, x, r) = 0
<1>1. Placed(req[r], call[r], mp[r])
  BY Here
<1> QED
  BY <1>1, HeldIs, EndersHoldNothing DEF HeldAt

\* The same after a step.
LEMMA ThroughHoldsNothingNext ==
  ASSUME FInv', NEW r \in Requests, NEW l \in Levels, req'[r].op \in UploadOps \ PartOps
  PROVE  Held(l, r)' = 0 /\ \A x : HeldAt(l, x, r)' = 0
<1>1. Placed(req'[r], call'[r], mp'[r])
  BY DEF FInv, PlacedOK
<1> QED
  BY <1>1, HeldIsNext, EndersHoldNothing DEF HeldAt

\* What it takes from the row is what its upload no longer keeps.
LEMMA EnderMoves ==
  ASSUME FInv, FInv', UploadsApart, UploadsApart', NEW r \in Requests, Together(r),
         Through(r), Through(r)', UNCHANGED <<upload, parts, mp>>, req'[r].obj = req[r].obj,
         NEW k \in Kinds, NEW l \in Levels, NEW x \in Sites(l),
         Spent(l, r) => Spent(l, r)',
         Reserved(l, x)' = IF Site(l, req[r].obj) = x /\ ~Spent(l, r) /\ Spent(l, r)'
                             THEN Reserved(l, x) - mp[r].held ELSE Reserved(l, x)
  PROVE  HoldMoves(k, l, x, r)
<1>1. PICK u : u = mp[r].upload
  OBVIOUS
<1>2. u \in Uploads /\ mp'[r].upload = u /\ mp'[r].held = mp[r].held
  BY <1>1, KeptThrough
<1>3. /\ Kept(k, l, x, u) = IF Site(l, req[r].obj) = x /\ ~Spent(l, r) THEN mp[r].held ELSE 0
      /\ Kept(k, l, x, u)' = IF Site(l, req[r].obj) = x /\ ~Spent(l, r)' THEN mp[r].held ELSE 0
  BY <1>1, <1>2, KeptThrough, KeptThroughNext
<1>4. Enders \subseteq UploadOps \ PartOps
  BY DEF Enders, UploadOps, UploadOnlyOps, PartOps
<1>5. HeldAt(l, x, r) = 0 /\ HeldAt(l, x, r)' = 0
  BY <1>4, ThroughHoldsNothing, ThroughHoldsNothingNext DEF Through
<1>6. Reserved(l, x) \in Int /\ mp[r].held \in Nat
  BY Typed, Here
<1>7. Reserved(l, x)' - HeldAt(l, x, r)' - Kept(k, l, x, u)'
        = Reserved(l, x) - HeldAt(l, x, r) - Kept(k, l, x, u)
  BY <1>3, <1>5, <1>6
<1>8. KeptTraded(k, l, x, r, u)
  BY <1>3, <1>5, <1>6, <1>7 DEF KeptTraded, Bears
<1>9. ASSUME NEW v \in Uploads \ {u}
      PROVE  KeptEases(k, l, x, v)
  BY <1>1, <1>2, FarSpares, SparesEases
<1> QED
  BY <1>2, <1>8, <1>9 DEF HoldMoves

\* Before it takes the hold, the row has it.
LEMMA EnderFinds ==
  ASSUME FInv, UploadsApart, HoldsOK, NEW r \in Requests, Through(r), NEW l \in Levels,
         ~Spent(l, r), req[r].obj \in Object
  PROVE  /\ Reserved(l, Site(l, req[r].obj)) >= mp[r].held
         /\ Site(l, req[r].obj) \in Sites(l)
<1> DEFINE x == Site(l, req[r].obj)
<1>1. x \in Sites(l)
  BY Typed
<1> HIDE DEF x
<1>2. "low" \in Kinds
  BY DEF Kinds
<1>3. /\ mp[r].upload \in Uploads
      /\ Kept("low", l, x, mp[r].upload) = mp[r].held
  BY <1>2, KeptThrough DEF x
<1>4. Reserved(l, x) >= Kept("low", l, x, mp[r].upload)
  BY <1>1, <1>3, HoldThere
<1> QED
  BY <1>1, <1>3, <1>4 DEF x

----------------------------------------------------------------------------
(* The object verbs' steps.                                                *)

\* What an object verb's step is when the request ends an upload: those it completes with.
LEMMA ThroughSteps ==
  ASSUME FInv, NEW r \in Requests, ObjectStep(r), Through(r)
  PROVE  \/ UpdateRow(r) \/ RereadRow(r) \/ InsertRow(r) \/ WriteRowFails(r)
         \/ Crash(r)
         \/ Continue(r) /\ UNCHANGED ovars
<1>1. Placed(req[r], call[r], mp[r]) /\ req[r].op \in Enders /\ Active(r)
  BY Here DEF Through, Working
<1>2. req[r].pc \notin {"begin", "reserve", "admit", "send", "release", "abort", "commit"}
                         \cup DeletePcs
  BY <1>1 DEF Placed, OpAt, Enders, WriteOps, PartOps
<1>3. ~Writing(r)
  BY <1>1 DEF Writing, Enders, WriteOps
<1>4. ~Start(r)
  BY <1>1 DEF Start, StartPut, StartCopy, StartDelete, StartBatch
<1> QED
  BY <1>2, <1>3, <1>4
     DEF ObjectStep, Proceed, SendWrite, CopyBegin, CallReserve, RefuseWrite, Account, GiveBack,
         AnswerWrite, FindRow, RemoveRow, CallCredit, Credited, At, DeletePcs

\* The steps that change an object's row.
RowStep(r) == UpdateRow(r) \/ RereadRow(r) \/ InsertRow(r) \/ WriteRowFails(r)

\* They leave the procedures alone, and a request that grew nothing nothing to give back.
LEMMA RowStepMoves ==
  ASSUME FInv, NEW r \in Requests, RowStep(r)
  PROVE  /\ UNCHANGED qvars
         /\ req[r].pc \in {"update", "reread", "insert"}
         /\ Same(req'[r], req[r])
         /\ \/ req'[r].pc \in {"update", "reread", "insert", "account"}
            \/ req'[r].pc = IF req[r].delta > 0 THEN "release" ELSE "err"
<1> USE DEF At
<1>1. TypeOK
  BY DEF FInv
<1>2. {"reread", "insert", "account"} \subseteq AllPcs
  BY DEF AllPcs, WritePcs
<1>3. CASE UpdateRow(r)
  BY <1>1, <1>2, <1>3, GoesOn DEF UpdateRow
<1>4. CASE RereadRow(r)
  BY <1>1, <1>2, <1>4, GoesOn, GivesUp DEF RereadRow
<1>5. CASE InsertRow(r)
  BY <1>1, <1>2, <1>5, GoesOn, GivesUp, TriesAgain DEF InsertRow, InsertFails
<1>6. CASE WriteRowFails(r)
  BY <1>1, <1>6, GivesUp, TriesAgain DEF WriteRowFails, InsertFails
<1> QED
  BY <1>3, <1>4, <1>5, <1>6 DEF RowStep

\* Whatever they do, the uploads' holds stay what they are, while nothing is lost, and
\* never grow; but for those of the uploads that the quota procedures end.
LEMMA ObjectSpares ==
  ASSUME FInv, FInv', NEW r \in Requests, ObjectStep(r), UNCHANGED mvars,
         ~(Through(r) /\ Continue(r) /\ UNCHANGED ovars), NEW v \in Uploads, NEW k \in Kinds,
         k = "exact" => faults' = 0
  PROVE  Spares(k, r, v)
<1>1. GoesOnOrLeaves(r) /\ UNCHANGED <<upload, parts, mp>>
  BY ObjectGoesOn DEF mvars
<1>2. CASE ~Through(r)
  <2>1. ~Through(r)'
    BY <1>1, <1>2 DEF GoesOnOrLeaves, Through
  <2> QED
    BY <1>1, <1>2, <2>1, IdleSpares
<1>3. CASE Through(r) /\ RowStep(r)
  <2>1. /\ req[r].pc \notin {"difference", "drop"}
        /\ req'[r].pc \notin {"difference", "drop"}
    BY <1>3, RowStepMoves
  <2> QED
    BY <1>1, <2>1, PlainSpares
<1>4. CASE Crash(r)
  <2>1. faults' # 0 /\ req'[r].pc = "crashed"
    <3>1. TypeOK /\ faults \in Nat /\ "crashed" \in AllPcs
      BY DEF FInv, AllPcs, Resting
    <3> QED
      BY <1>4, <3>1, GoesOn DEF Crash, Fault
  <2>2. ~Through(r)'
    BY <2>1 DEF Through, Working, Active, Resting
  <2>3. k = "low"
    BY <2>1 DEF Kinds
  <2> QED
    BY <1>1, <2>2, <2>3 DEF Spares, Gets
<1> QED
  BY <1>2, <1>3, <1>4, ThroughSteps DEF RowStep

\* Every row follows what r holds.
RowsFollow(r) ==
  \A k \in Kinds, l \in Levels : \A x \in Sites(l) :
    (k = "exact" => faults' = 0) => RowFollows(k, l, x, r)

\* Where nothing is held.
Empty(h, c) ==
  \/ h.pc \in {"idle", "ok", "err", "crashed", "begin", "reserve", "send", "find", "remove",
               "credit", "credited", "open", "source", "forget", "letgo", "drop", "assemble",
               "head", "difference"}
  \/ h.pc = "admit" /\ c.at = "failed"
  \/ h.pc \in {"commit", "abort"} /\ c.at \in {"ok", "failed"}

\* There it holds nothing, at either level.
LEMMA EmptyHolds ==
  ASSUME NEW l \in Levels, NEW h, NEW c, Empty(h, c)
  PROVE  HoldOf(l, h, c) = 0
  BY DEF Empty, HoldOf, Levels

\* The rows stay, and r held and holds nothing.
LEMMA EmptyFollows ==
  ASSUME FInv, FInv', NEW r \in Requests, UNCHANGED <<bucket, account>>,
         Empty(req[r], call[r]), Empty(req'[r], call'[r])
  PROVE  RowsFollow(r)
<1>1. \A l \in Levels : Held(l, r) = 0 /\ Held(l, r)' = 0
  BY EmptyHolds, HeldIs, HeldIsNext
<1> QED
  BY <1>1, HoldStays DEF RowsFollow

\* The rows and the call stay, and r goes on with its hold.
LEMMA SameFollows ==
  ASSUME FInv, FInv', NEW r \in Requests, UNCHANGED qvars, Same(req'[r], req[r]),
         \/ req[r].pc \in {"update", "reread", "insert"}
         \/ Admitted(r),
         \/ req'[r].pc \in {"update", "reread", "insert", "account", "add"}
         \/ req'[r].pc = IF req[r].delta > 0 THEN "release" ELSE "err"
  PROVE  RowsFollow(r)
<1>1. Placed(req[r], call[r], mp[r]) /\ req[r].delta \in Int
  BY Here
<1>2. req[r].pc = "send" => req[r].delta <= 0
  BY <1>1 DEF Placed, SubjectOf
<1>3. ASSUME NEW l \in Levels
      PROVE  HoldOf(l, req[r], call[r]) = IF req[r].delta > 0 THEN req[r].delta ELSE 0
  BY <1>1, <1>2 DEF HoldOf, Admitted, At
<1>4. ASSUME NEW l \in Levels
      PROVE  HoldOf(l, req'[r], call'[r]) = IF req[r].delta > 0 THEN req[r].delta ELSE 0
  <2>1. req'[r].delta = req[r].delta
    BY DEF Same
  <2>2. CASE req'[r].pc \in {"update", "reread", "insert", "account", "add", "release"}
    BY <2>1, <2>2 DEF HoldOf
  <2>3. CASE req'[r].pc = "err" /\ ~(req[r].delta > 0)
    BY <2>1, <2>3 DEF HoldOf
  <2> QED
    BY <2>2, <2>3
<1>5. \A l \in Levels : Held(l, r)' = Held(l, r)
  BY <1>3, <1>4, HeldIs, HeldIsNext
<1> QED
  BY <1>5, HoldStays DEF RowsFollow, Same, qvars

\* What a request that ends its turn, or whose call is over, held.
LEMMA AnswersFollow ==
  ASSUME FInv, FInv', NEW r \in Requests, RefuseWrite(r) \/ AnswerWrite(r) \/ Crash(r)
  PROVE  RowsFollow(r)
<1> USE DEF At
<1>1. /\ UNCHANGED <<bucket, account>>
      /\ req'[r].pc \in {"ok", "err", "crashed"}
  <2>1. TypeOK /\ {"ok", "err", "crashed"} \subseteq AllPcs
    BY DEF FInv, AllPcs, Resting
  <2> QED
    BY <2>1, GoesOn DEF RefuseWrite, AnswerWrite, Crash, Drop
<1>2. Empty(req'[r], call'[r])
  BY <1>1 DEF Empty
<1>3. CASE RefuseWrite(r) \/ AnswerWrite(r)
  <2>1. Empty(req[r], call[r])
    BY <1>3 DEF Empty, RefuseWrite, AnswerWrite
  <2> QED
    BY <1>1, <1>2, <2>1, EmptyFollows
<1>4. CASE Crash(r)
  <2>1. faults' # 0
    BY <1>4 DEF Crash, Fault, FInv
  <2>2. \A l \in Levels : Held(l, r)' = 0
    BY <1>2, EmptyHolds, HeldIsNext
  <2> QED
    BY <1>1, <2>1, <2>2, HoldStays DEF RowsFollow, Kinds
<1> QED
  BY <1>3, <1>4

\* The steps of an object verb that move no row.
LEMMA QuietFollows ==
  ASSUME FInv, FInv', NEW r \in Requests, UNCHANGED mvars,
         \/ Start(r) \/ CopyBegin(r) \/ FindRow(r) \/ RemoveRow(r) \/ CallCredit(r)
         \/ Credited(r) \/ RowStep(r) \/ SendWrite(r)
  PROVE  RowsFollow(r)
<1> USE DEF At
<1>0. /\ TypeOK /\ Placed(req[r], call[r], mp[r])
      /\ req[r] \in AnyHandler
  BY Here
<1>1. CASE Start(r)
  <2>1. /\ req'[r].pc \in {"reserve", "send", "begin", "find", "err"}
        /\ UNCHANGED qvars /\ ~Active(r)
    BY <1>1, ObjectBegun
  <2>2. Empty(req[r], call[r]) /\ Empty(req'[r], call'[r])
    BY <2>1 DEF Empty, Active, Resting
  <2> QED
    BY <2>1, <2>2, EmptyFollows DEF qvars
<1>2. CASE CopyBegin(r)
  <2>1. req[r].pc = "begin" /\ UNCHANGED qvars /\ BeginPut(r, req[r])
    BY <1>2 DEF CopyBegin
  <2>2. req[r].obj \in Object
    BY <1>0, <2>1 DEF Placed, SubjectOf, Resting
  <2>3. req'[r].pc \in {"reserve", "send"}
    BY <1>0, <2>1, <2>2, PutBegun
  <2>4. Empty(req[r], call[r]) /\ Empty(req'[r], call'[r])
    BY <2>1, <2>3 DEF Empty
  <2> QED
    BY <2>1, <2>4, EmptyFollows DEF qvars
<1>3. CASE FindRow(r) \/ RemoveRow(r) \/ CallCredit(r) \/ Credited(r)
  <2>1. /\ req[r].pc \in {"find", "remove", "credit", "credited"}
        /\ UNCHANGED <<bucket, account>>
    BY <1>3 DEF FindRow, RemoveRow, CallCredit, Credited, Credit, Drop, qvars
  <2>2. {"credit", "credited", "err"} \subseteq AllPcs
    BY DEF AllPcs, DeletePcs, Resting
  <2>3. req'[r].pc \in {"ok", "find", "remove", "credit", "credited", "err"}
    BY <1>0, <1>3, <2>2, RowFound, GoesOn, KeyDone
       DEF RemoveRow, CallCredit, Credited
  <2>4. Empty(req[r], call[r]) /\ Empty(req'[r], call'[r])
    BY <2>1, <2>3 DEF Empty
  <2> QED
    BY <2>1, <2>4, EmptyFollows
<1>4. CASE RowStep(r)
  <2>1. /\ UNCHANGED qvars
        /\ req[r].pc \in {"update", "reread", "insert"}
        /\ Same(req'[r], req[r])
        /\ \/ req'[r].pc \in {"update", "reread", "insert", "account"}
           \/ req'[r].pc = IF req[r].delta > 0 THEN "release" ELSE "err"
    BY <1>4, RowStepMoves
  <2> QED
    BY <2>1, SameFollows
<1>5. CASE SendWrite(r)
  <2>1. UNCHANGED qvars /\ Admitted(r) /\ "update" \in AllPcs
    BY <1>5 DEF SendWrite, AllPcs, WritePcs
  <2>2. /\ Same(req'[r], req[r])
        /\ \/ req'[r].pc = "update"
           \/ req'[r].pc = IF req[r].delta > 0 THEN "release" ELSE "err"
    BY <1>0, <1>5, <2>1, GoesOn, GivesUp DEF SendWrite
  <2> QED
    BY <2>1, <2>2, SameFollows
<1> QED
  BY <1>1, <1>2, <1>3, <1>4, <1>5

----------------------------------------------------------------------------
(* The statements of the quota procedures.                                 *)

\* One on the bucket's row: it and the hold move alike.
LEMMA BucketFollows ==
  ASSUME FInv, FInv', NEW r \in Requests, NEW c, NEW d \in Int,
         req[r].obj \in Object, req'[r].obj = req[r].obj, UNCHANGED account,
         bucket' = [bucket EXCEPT ![BucketOf(req[r].obj)] = c],
         c.reserved = bucket[BucketOf(req[r].obj)].reserved + d,
         Held("bucket", r)' = Held("bucket", r) + d,
         Held("account", r)' = Held("account", r)
  PROVE  RowsFollow(r)
<1>1. bucket \in [Buckets -> BucketColumns]
  BY DEF FInv, TypeOK, QuotaTypeOK
<1>2. "bucket" \in Levels /\ "account" \in Levels
  BY DEF Levels
<1>3. ASSUME NEW k \in Kinds, NEW x \in Sites("bucket")
      PROVE  RowFollows(k, "bucket", x, r)
  <2>1. Reserved("bucket", x)'
          = Reserved("bucket", x) + (IF Site("bucket", req[r].obj) = x THEN d ELSE 0)
    <3>1. x \in Buckets /\ bucket[x].reserved \in Int
      BY <1>1 DEF Sites, BucketColumns
    <3> QED
      BY <1>1, <3>1 DEF Reserved, Site
  <2> QED
    BY <1>2, <2>1, HoldFollows
<1>4. ASSUME NEW k \in Kinds, NEW x \in Sites("account")
      PROVE  RowFollows(k, "account", x, r)
  <2>1. Reserved("account", x)'
          = Reserved("account", x) + (IF Site("account", req[r].obj) = x THEN 0 ELSE 0)
    <3>1. Reserved("account", x) \in Int /\ Reserved("account", x)' = Reserved("account", x)
      BY <1>2, Typed DEF Reserved
    <3> QED
      BY <3>1
  <2>2. Held("account", r) \in Nat
    BY <1>2, HeldIs
  <2>3. Held("account", r)' = Held("account", r) + 0
    BY <2>2
  <2> QED
    BY <1>2, <2>1, <2>3, HoldFollows
<1> QED
  BY <1>3, <1>4 DEF RowsFollow, Levels

\* One on the account's.
LEMMA AccountFollows ==
  ASSUME FInv, FInv', NEW r \in Requests, NEW c, NEW d \in Int,
         req[r].obj \in Object, req'[r].obj = req[r].obj, UNCHANGED bucket,
         account' = [account EXCEPT ![Owner[BucketOf(req[r].obj)]] = c],
         c.reserved = account[Owner[BucketOf(req[r].obj)]].reserved + d,
         Held("account", r)' = Held("account", r) + d,
         Held("bucket", r)' = Held("bucket", r)
  PROVE  RowsFollow(r)
<1>1. account \in [Users -> AccountColumns]
  BY DEF FInv, TypeOK, QuotaTypeOK
<1>2. "bucket" \in Levels /\ "account" \in Levels
  BY DEF Levels
<1>3. ASSUME NEW k \in Kinds, NEW x \in Sites("account")
      PROVE  RowFollows(k, "account", x, r)
  <2>1. Reserved("account", x)'
          = Reserved("account", x) + (IF Site("account", req[r].obj) = x THEN d ELSE 0)
    <3>1. x \in Users /\ account[x].reserved \in Int
      BY <1>1 DEF Sites, AccountColumns
    <3> QED
      BY <1>1, <3>1 DEF Reserved, Site
  <2> QED
    BY <1>2, <2>1, HoldFollows
<1>4. ASSUME NEW k \in Kinds, NEW x \in Sites("bucket")
      PROVE  RowFollows(k, "bucket", x, r)
  <2>1. Reserved("bucket", x)'
          = Reserved("bucket", x) + (IF Site("bucket", req[r].obj) = x THEN 0 ELSE 0)
    <3>1. Reserved("bucket", x) \in Int /\ Reserved("bucket", x)' = Reserved("bucket", x)
      BY <1>2, Typed DEF Reserved
    <3> QED
      BY <3>1
  <2>2. Held("bucket", r) \in Nat
    BY <1>2, HeldIs
  <2>3. Held("bucket", r)' = Held("bucket", r) + 0
    BY <2>2
  <2> QED
    BY <1>2, <2>1, <2>3, HoldFollows
<1> QED
  BY <1>3, <1>4 DEF RowsFollow, Levels

\* The statements that only hold or take bytes.
LEMMA ReservedMoves ==
  /\ \A c \in BucketColumns, n \in Int :
       /\ Hold(c, n).reserved = c.reserved + n
       /\ c.reserved >= n => Unhold(c, n).reserved = c.reserved + (-n)
       /\ \A d : c.reserved >= n => CommitColumns(c, n, d).reserved = c.reserved + (-n)
  /\ \A c \in AccountColumns, n \in Int :
       /\ Hold(c, n).reserved = c.reserved + n
       /\ c.reserved >= n => Unhold(c, n).reserved = c.reserved + (-n)
       /\ c.reserved >= n => Spend(c, n).reserved = c.reserved + (-n)
<1>1. ASSUME NEW c \in BucketColumns, NEW n \in Int
      PROVE  /\ Hold(c, n).reserved = c.reserved + n
             /\ c.reserved >= n => Unhold(c, n).reserved = c.reserved + (-n)
             /\ \A d : c.reserved >= n => CommitColumns(c, n, d).reserved = c.reserved + (-n)
  BY DEF BucketColumns, Hold, Unhold, CommitColumns
<1>2. ASSUME NEW c \in AccountColumns, NEW n \in Int
      PROVE  /\ Hold(c, n).reserved = c.reserved + n
             /\ c.reserved >= n => Unhold(c, n).reserved = c.reserved + (-n)
             /\ c.reserved >= n => Spend(c, n).reserved = c.reserved + (-n)
  BY DEF AccountColumns, Hold, Unhold, Spend
<1> QED
  BY <1>1, <1>2

\* And those that settle or credit move nothing that is reserved.
LEMMA ReservedStays ==
  /\ \A c \in BucketColumns, n \in Int : \A d :
       /\ SettleColumns(c, n, d).reserved = c.reserved
       /\ CreditColumns(c, n).reserved = c.reserved
  /\ \A c \in AccountColumns, n \in Int : Adjust(c, n).reserved = c.reserved
<1>1. ASSUME NEW c \in BucketColumns, NEW n \in Int, NEW d
      PROVE  /\ SettleColumns(c, n, d).reserved = c.reserved
             /\ CreditColumns(c, n).reserved = c.reserved
  BY DEF BucketColumns, SettleColumns, CreditColumns
<1>2. ASSUME NEW c \in AccountColumns, NEW n \in Int
      PROVE  Adjust(c, n).reserved = c.reserved
  BY DEF AccountColumns, Adjust
<1> QED
  BY <1>1, <1>2

\* The rows of a request at an object, and its hold in them.
LEMMA AtHand ==
  ASSUME FInv, HoldsOK, NEW r \in Requests, req[r].obj \in Object
  PROVE  /\ BucketOf(req[r].obj) \in Buckets /\ Owner[BucketOf(req[r].obj)] \in Users
         /\ bucket[BucketOf(req[r].obj)] \in BucketColumns
         /\ account[Owner[BucketOf(req[r].obj)]] \in AccountColumns
         /\ bucket[BucketOf(req[r].obj)].reserved >= Held("bucket", r)
         /\ account[Owner[BucketOf(req[r].obj)]].reserved >= Held("account", r)
<1> DEFINE b == BucketOf(req[r].obj)
           a == Owner[b]
<1>1. b \in Buckets /\ a \in Users /\ req[r].obj # Nowhere
  BY ItsBucket
<1>2. bucket \in [Buckets -> BucketColumns] /\ account \in [Users -> AccountColumns]
  BY DEF FInv, TypeOK, QuotaTypeOK
<1>3. /\ "bucket" \in Levels /\ b \in Sites("bucket") /\ Site("bucket", req[r].obj) = b
      /\ "account" \in Levels /\ a \in Sites("account") /\ Site("account", req[r].obj) = a
  BY <1>1 DEF Levels, Sites, Site
<1> HIDE DEF b, a
<1>4. /\ HeldAt("bucket", b, r) = Held("bucket", r)
      /\ HeldAt("account", a, r) = Held("account", r)
  BY <1>1, <1>3 DEF HeldAt
<1>5. /\ Reserved("bucket", b) >= HeldAt("bucket", b, r)
      /\ Reserved("account", a) >= HeldAt("account", a, r)
  BY <1>3, HoldThere
<1>6. bucket[b].reserved >= Held("bucket", r) /\ account[a].reserved >= Held("account", r)
  BY <1>4, <1>5 DEF Reserved
<1> QED
  BY <1>1, <1>2, <1>6 DEF b, a

\* The statement a write or a part begins a procedure with.
LEMMA CallsFollow ==
  ASSUME FInv, FInv', HoldsOK, NEW r \in Requests, UNCHANGED mvars,
         CallReserve(r) \/ Account(r) \/ GiveBack(r)
  PROVE  RowsFollow(r)
<1> USE DEF At
<1> DEFINE o == req[r].obj
           b == BucketOf(o)
           n == req[r].delta
           c == bucket[b]
<1>1. /\ Placed(req[r], call[r], mp[r]) /\ n \in Int /\ -n \in Int
      /\ TypeOK /\ live = Buckets /\ call \in [Requests -> Call]
      /\ bucket \in [Buckets -> BucketColumns]
  BY Here DEF QuotaTypeOK
<1>2. req[r].pc \in {"reserve", "account", "release"} /\ o \in Object
  <2>1. req[r].pc \in {"reserve", "account", "release"}
    BY DEF CallReserve, Account, GiveBack
  <2> QED
    BY <1>1, <2>1 DEF Placed, SubjectOf, Resting
<1>3. /\ b \in Buckets /\ c \in BucketColumns
      /\ c.reserved >= Held("bucket", r)
  BY <1>2, AtHand
<1>4. {"admit", "commit", "abort"} \subseteq AllPcs
  BY DEF AllPcs, WritePcs
<1>5. /\ Held("bucket", r) = HoldOf("bucket", req[r], call[r])
      /\ Held("account", r) = HoldOf("account", req[r], call[r])
      /\ Held("bucket", r)' = HoldOf("bucket", req'[r], call'[r])
      /\ Held("account", r)' = HoldOf("account", req'[r], call'[r])
  BY HeldIs, HeldIsNext DEF Levels
<1>6. CASE CallReserve(r)
  <2>1. /\ req[r].pc = "reserve" /\ Reserve(r, b, n) /\ n >= 0
        /\ req'[r].pc = "admit" /\ Same(req'[r], req[r])
    BY <1>1, <1>4, <1>6, GoesOn DEF CallReserve, Placed, SubjectOf
  <2>2. Held("bucket", r) = 0 /\ Held("account", r) = 0
    BY <1>5, <2>1 DEF HoldOf
  <2>3. CASE HasRoom(c, n)
    <3>1. /\ bucket' = [bucket EXCEPT ![b] = Hold(c, n)]
          /\ call'[r].at = "reserve_user" /\ UNCHANGED account
      BY <1>1, <1>3, <2>1, <2>3 DEF Reserve, UpdateBucket, Frame
    <3>2. Held("bucket", r)' = n /\ Held("account", r)' = 0
      BY <1>1, <1>5, <2>1, <3>1 DEF HoldOf, Same
    <3>3. Hold(c, n).reserved = c.reserved + n
      BY <1>1, <1>3, ReservedMoves
    <3>4. /\ req'[r].obj = o
          /\ Held("bucket", r)' = Held("bucket", r) + n
          /\ Held("account", r)' = Held("account", r)
      BY <1>1, <2>1, <2>2, <3>2 DEF Same
    <3> HIDE DEF n
    <3> QED
      BY <1>1, <1>2, <3>1, <3>3, <3>4, BucketFollows
  <2>4. CASE ~HasRoom(c, n)
    <3>1. UNCHANGED <<bucket, account>> /\ call'[r].at = "failed"
      BY <1>1, <1>3, <2>1, <2>4 DEF Reserve, Frame
    <3>2. Empty(req[r], call[r]) /\ Empty(req'[r], call'[r])
      BY <2>1, <3>1 DEF Empty
    <3> QED
      BY <3>1, <3>2, EmptyFollows
  <2> QED
    BY <2>3, <2>4
<1>7. CASE Account(r)
  <2>1. /\ req[r].pc = "account"
        /\ req'[r].pc = "commit" /\ Same(req'[r], req[r])
        /\ IF n > 0 THEN Commit(r, b, n, req[r].new) ELSE Settle(r, b, n, req[r].new)
    BY <1>1, <1>4, <1>7, GoesOn DEF Account
  <2>2. CASE n > 0
    <3>1. Held("bucket", r) = n /\ Held("account", r) = n
      BY <1>5, <2>1, <2>2 DEF HoldOf
    <3>2. /\ bucket' = [bucket EXCEPT ![b] = CommitColumns(c, n, req[r].new)]
          /\ call'[r].at = "commit_user" /\ UNCHANGED account
      BY <1>1, <1>3, <2>1, <2>2 DEF Commit, UpdateBucket, Frame
    <3>3. Held("bucket", r)' = 0 /\ Held("account", r)' = n
      BY <1>1, <1>5, <2>1, <2>2, <3>2 DEF HoldOf, Same
    <3>4. CommitColumns(c, n, req[r].new).reserved = c.reserved + (-n)
      BY <1>1, <1>3, <3>1, ReservedMoves
    <3>5. /\ req'[r].obj = o
          /\ Held("bucket", r)' = Held("bucket", r) + (-n)
          /\ Held("account", r)' = Held("account", r)
      BY <1>1, <2>1, <3>1, <3>3 DEF Same
    <3> HIDE DEF n
    <3> QED
      BY <1>1, <1>2, <3>2, <3>4, <3>5, BucketFollows
  <2>3. CASE ~(n > 0)
    <3>1. UNCHANGED <<bucket, account>>
      BY <2>1, <2>3 DEF Settle
    <3>2. Held("bucket", r) = 0 /\ Held("account", r) = 0
      BY <1>5, <2>3 DEF HoldOf
    <3>3. Held("bucket", r)' = 0 /\ Held("account", r)' = 0
      BY <1>5, <2>1, <2>3 DEF HoldOf, Same
    <3> QED
      BY <3>1, <3>2, <3>3, HoldStays DEF RowsFollow, Levels
  <2> QED
    BY <2>2, <2>3
<1>8. CASE GiveBack(r)
  <2>1. /\ req[r].pc = "release" /\ Release(r, b, n) /\ n > 0
        /\ req'[r].pc = "abort" /\ Same(req'[r], req[r])
    BY <1>1, <1>4, <1>8, GoesOn DEF GiveBack, Placed, SubjectOf
  <2>2. Held("bucket", r) = n /\ Held("account", r) = n
    BY <1>5, <2>1 DEF HoldOf
  <2>3. /\ bucket' = [bucket EXCEPT ![b] = Unhold(c, n)]
        /\ call'[r].at = "release_user" /\ UNCHANGED account
    BY <1>1, <1>3, <2>1 DEF Release, UpdateBucket, Frame
  <2>4. Held("bucket", r)' = 0 /\ Held("account", r)' = n
    BY <1>1, <1>5, <2>1, <2>3 DEF HoldOf, Same
  <2>5. Unhold(c, n).reserved = c.reserved + (-n)
    BY <1>1, <1>3, <2>2, ReservedMoves
  <2>6. /\ req'[r].obj = o
        /\ Held("bucket", r)' = Held("bucket", r) + (-n)
        /\ Held("account", r)' = Held("account", r)
    BY <1>1, <2>1, <2>2, <2>4 DEF Same
  <2> HIDE DEF n
  <2> QED
    BY <1>1, <1>2, <2>3, <2>5, <2>6, BucketFollows
<1> QED
  BY <1>6, <1>7, <1>8

\* The other statements of a procedure, called by a write or a delete or for a part.
LEMMA ContinueFollows ==
  ASSUME FInv, FInv', HoldsOK, NEW r \in Requests, UNCHANGED ovars, Continue(r), ~Through(r)
  PROVE  RowsFollow(r)
<1> USE DEF At, AtStatement
<1> DEFINE o == req[r].obj
           b == BucketOf(o)
           a == Owner[b]
           n == req[r].delta
           c == bucket[b]
           d == account[a]
<1>1. /\ Placed(req[r], call[r], mp[r]) /\ n \in Int /\ -n \in Int
      /\ QuotaTypeOK /\ live = Buckets /\ call \in [Requests -> Call]
      /\ bucket \in [Buckets -> BucketColumns] /\ account \in [Users -> AccountColumns]
      /\ req'[r] = req[r] /\ req'[r].obj = o
  BY Here DEF QuotaTypeOK, ovars
<1>2. call[r].at \in Pending
  BY DEF Continue, ReserveUser, Unreserve, ReleaseUser, CommitUser, SettleBucket, SettleUser,
       CreditBucket, CreditUser, Pending
<1>3. req[r].pc \in {"admit", "commit", "abort", "credited"}
  <2>1. req[r].pc \in Waiting
    BY <1>1, <1>2 DEF Placed, CallAt, Pending, Ended
  <2>2. req[r].pc \in {"difference", "drop"} => Through(r)
    BY <1>1 DEF Placed, OpAt, Through, Working, Active, Resting, Enders, UploadOps, UploadOnlyOps
  <2> QED
    BY <2>1, <2>2 DEF Waiting
<1>4. o \in Object /\ call[r].bucket = b
  BY <1>1, <1>3 DEF Placed, SubjectOf, CallAt, Resting, Waiting
<1>5. /\ b \in Buckets /\ a \in Users /\ c \in BucketColumns /\ d \in AccountColumns
      /\ c.reserved >= Held("bucket", r) /\ d.reserved >= Held("account", r)
  BY <1>4, AtHand
<1>6. /\ Held("bucket", r) = HoldOf("bucket", req[r], call[r])
      /\ Held("account", r) = HoldOf("account", req[r], call[r])
      /\ Held("bucket", r)' = HoldOf("bucket", req[r], call'[r])
      /\ Held("account", r)' = HoldOf("account", req[r], call'[r])
  BY <1>1, HeldIs, HeldIsNext DEF Levels
<1>7. \A at : Goto(r, at) => call'[r].at = at
  BY <1>1 DEF Goto, Call
<1>8. CASE ReserveUser(r)
  <2>1. req[r].pc = "admit" /\ call[r].at = "reserve_user" /\ call[r].bytes = n /\ n >= 0
    BY <1>1, <1>3, <1>8 DEF ReserveUser, Placed, CallAt
  <2>2. Held("bucket", r) = n /\ Held("account", r) = 0
    BY <1>1, <1>6, <2>1 DEF HoldOf
  <2>3. CASE HasRoom(d, n)
    <3>1. /\ account' = [account EXCEPT ![a] = Hold(d, n)]
          /\ call'[r].at = "ok" /\ UNCHANGED bucket
      BY <1>4, <1>7, <1>8, <2>1, <2>3 DEF ReserveUser, UpdateOwner
    <3>2. Held("bucket", r)' = n /\ Held("account", r)' = n
      BY <1>1, <1>6, <2>1, <3>1 DEF HoldOf
    <3>3. Hold(d, n).reserved = d.reserved + n
      BY <1>1, <1>5, ReservedMoves
    <3>4. Held("bucket", r)' = Held("bucket", r) /\ Held("account", r)' = Held("account", r) + n
      BY <1>1, <2>2, <3>2
    <3> HIDE DEF n
    <3> QED
      BY <1>1, <1>4, <3>1, <3>3, <3>4, AccountFollows
  <2>4. CASE ~HasRoom(d, n)
    <3>1. UNCHANGED <<bucket, account>> /\ call'[r].at = "unreserve"
      BY <1>4, <1>7, <1>8, <2>1, <2>4 DEF ReserveUser
    <3>2. Held("bucket", r)' = n /\ Held("account", r)' = 0
      BY <1>1, <1>6, <2>1, <3>1 DEF HoldOf
    <3> QED
      BY <1>1, <2>2, <3>1, <3>2, HoldStays DEF RowsFollow, Levels
  <2> QED
    BY <2>3, <2>4
<1>9. CASE Unreserve(r)
  <2>1. req[r].pc = "admit" /\ call[r].at = "unreserve" /\ call[r].bytes = n /\ n >= 0
    BY <1>1, <1>3, <1>9 DEF Unreserve, Placed, CallAt
  <2>2. Held("bucket", r) = n /\ Held("account", r) = 0
    BY <1>1, <1>6, <2>1 DEF HoldOf
  <2>3. /\ bucket' = [bucket EXCEPT ![b] = Unhold(c, n)]
        /\ call'[r].at = "failed" /\ UNCHANGED account
    BY <1>1, <1>4, <1>5, <1>7, <1>9, <2>1 DEF Unreserve, UpdateBucket
  <2>4. Held("bucket", r)' = 0 /\ Held("account", r)' = 0
    BY <1>1, <1>6, <2>1, <2>3 DEF HoldOf
  <2>5. Unhold(c, n).reserved = c.reserved + (-n)
    BY <1>1, <1>5, <2>2, ReservedMoves
  <2>6. Held("bucket", r)' = Held("bucket", r) + (-n) /\ Held("account", r)' = Held("account", r)
    BY <1>1, <2>2, <2>4
  <2> HIDE DEF n
  <2> QED
    BY <1>1, <1>4, <2>3, <2>5, <2>6, BucketFollows
<1>10. CASE ReleaseUser(r) \/ CommitUser(r)
  <2>1. /\ call[r].at \in {"release_user", "commit_user"}
        /\ req[r].pc \in {"commit", "abort"} /\ call[r].bytes = n /\ n > 0
    BY <1>1, <1>3, <1>10 DEF ReleaseUser, CommitUser, Placed, CallAt
  <2>2. Held("bucket", r) = 0 /\ Held("account", r) = n
    BY <1>1, <1>6, <2>1 DEF HoldOf
  <2>3. PICK e \in {Unhold(d, n), Spend(d, n)} :
          /\ account' = [account EXCEPT ![a] = e]
          /\ call'[r].at = "ok" /\ UNCHANGED bucket
    BY <1>4, <1>7, <1>10, <2>1 DEF ReleaseUser, CommitUser, UpdateOwner
  <2>4. Held("bucket", r)' = 0 /\ Held("account", r)' = 0
    BY <1>1, <1>6, <2>1, <2>3 DEF HoldOf
  <2>5. e.reserved = d.reserved + (-n)
    BY <1>1, <1>5, <2>2, <2>3, ReservedMoves
  <2>6. Held("bucket", r)' = Held("bucket", r) /\ Held("account", r)' = Held("account", r) + (-n)
    BY <1>1, <2>2, <2>4
  <2> HIDE DEF n
  <2> QED
    BY <1>1, <1>4, <2>3, <2>5, <2>6, AccountFollows
<1>11. CASE SettleBucket(r) \/ SettleUser(r) \/ CreditBucket(r) \/ CreditUser(r)
  <2>1. /\ call[r].at \in {"settle_bucket", "settle_user", "credit_bucket", "credit_user"}
        /\ call'[r].at \in {"settle_user", "credit_user", "ok"}
    BY <1>7, <1>11 DEF SettleBucket, SettleUser, CreditBucket, CreditUser
  <2>2. /\ req[r].pc \in {"commit", "credited"}
        /\ req[r].pc = "commit" => ~(n > 0)
    BY <1>1, <1>3, <2>1 DEF Placed, CallAt
  <2>3. /\ Held("bucket", r) = 0 /\ Held("account", r) = 0
        /\ Held("bucket", r)' = 0 /\ Held("account", r)' = 0
    BY <1>6, <2>2 DEF HoldOf
  <2>4. PICK z \in Int : z = 0
    OBVIOUS
  <2>5. /\ Held("bucket", r)' = Held("bucket", r) + z
        /\ Held("account", r)' = Held("account", r) + z
    BY <2>3, <2>4
  <2>6. CASE SettleBucket(r) \/ CreditBucket(r)
    <3>1. call[r].bytes \in Int
      BY <1>1 DEF Call
    <3>2. PICK e \in {SettleColumns(c, call[r].bytes, call[r].objects),
                      CreditColumns(c, call[r].bytes)} :
            bucket' = [bucket EXCEPT ![b] = e] /\ UNCHANGED account
      BY <1>1, <1>4, <1>5, <2>6 DEF SettleBucket, CreditBucket, UpdateBucket
    <3>3. e.reserved = c.reserved + z
      <4>1. e.reserved = c.reserved
        BY <1>5, <3>1, <3>2, ReservedStays
      <4>2. c.reserved \in Int
        BY <1>5 DEF BucketColumns
      <4> QED
        BY <4>1, <4>2, <2>4
    <3> QED
      BY <1>1, <1>4, <2>3, <2>5, <3>2, <3>3, BucketFollows
  <2>7. CASE SettleUser(r) \/ CreditUser(r)
    <3>1. call[r].bytes \in Int /\ -call[r].bytes \in Int
      BY <1>1 DEF Call
    <3>2. PICK m \in Int : account' = [account EXCEPT ![a] = Adjust(d, m)] /\ UNCHANGED bucket
      BY <1>4, <2>7, <3>1 DEF SettleUser, CreditUser, UpdateOwner
    <3>3. Adjust(d, m).reserved = d.reserved + z
      <4>1. Adjust(d, m).reserved = d.reserved
        BY <1>5, <3>2, ReservedStays
      <4>2. d.reserved \in Int
        BY <1>5 DEF AccountColumns
      <4> QED
        BY <4>1, <4>2, <2>4
    <3> QED
      BY <1>1, <1>4, <2>3, <2>5, <3>2, <3>3, AccountFollows
  <2> QED
    BY <1>11, <2>6, <2>7
<1> QED
  BY <1>8, <1>9, <1>10, <1>11 DEF Continue

\* A step of a request that ends an upload moves the rows as what the upload keeps.
EnderGoes(r) ==
  /\ Through(r) /\ Through(r)' /\ UNCHANGED <<upload, parts, mp>> /\ req'[r].obj = req[r].obj
  /\ \A l \in Levels : \A x \in Sites(l) :
       /\ Spent(l, r) => Spent(l, r)'
       /\ Reserved(l, x)' = IF Site(l, req[r].obj) = x /\ ~Spent(l, r) /\ Spent(l, r)'
                              THEN Reserved(l, x) - mp[r].held ELSE Reserved(l, x)

\* What it is about.
LEMMA EnderAt ==
  ASSUME FInv, UploadsApart, HoldsOK, NEW r \in Requests, Through(r), req[r].obj \in Object
  PROVE  LET b == BucketOf(req[r].obj) IN
         /\ b \in Buckets /\ Owner[b] \in Users
         /\ bucket[b] \in BucketColumns /\ account[Owner[b]] \in AccountColumns
         /\ ~Spent("bucket", r) => bucket[b].reserved >= mp[r].held
         /\ ~Spent("account", r) => account[Owner[b]].reserved >= mp[r].held
<1> DEFINE b == BucketOf(req[r].obj)
           a == Owner[b]
<1>1. /\ b \in Buckets /\ a \in Users
      /\ bucket[b] \in BucketColumns /\ account[a] \in AccountColumns
  BY AtHand
<1>2. /\ "bucket" \in Levels /\ Site("bucket", req[r].obj) = b
      /\ "account" \in Levels /\ Site("account", req[r].obj) = a
  BY DEF Levels, Site
<1> HIDE DEF b, a
<1>3. ~Spent("bucket", r) => bucket[b].reserved >= mp[r].held
  <2>1. ~Spent("bucket", r) => Reserved("bucket", b) >= mp[r].held
    BY <1>2, EnderFinds
  <2> QED
    BY <2>1 DEF Reserved
<1>4. ~Spent("account", r) => account[a].reserved >= mp[r].held
  <2>1. ~Spent("account", r) => Reserved("account", a) >= mp[r].held
    BY <1>2, EnderFinds
  <2> QED
    BY <2>1 DEF Reserved
<1> QED
  BY <1>1, <1>3, <1>4 DEF b, a

\* A statement on its bucket's row, on its account's, and one that moves no hold.
LEMMA TakesFromBucket ==
  ASSUME FInv, NEW r \in Requests, Through(r), Through(r)', UNCHANGED <<upload, parts, mp>>,
         req'[r].obj = req[r].obj, NEW c,
         bucket' = [bucket EXCEPT ![BucketOf(req[r].obj)] = c], UNCHANGED account,
         c.reserved = bucket[BucketOf(req[r].obj)].reserved - mp[r].held,
         ~Spent("bucket", r), Spent("bucket", r)', ~Spent("account", r), ~Spent("account", r)'
  PROVE  EnderGoes(r)
<1>1. bucket \in [Buckets -> BucketColumns]
  BY DEF FInv, TypeOK, QuotaTypeOK
<1> QED
  BY <1>1 DEF EnderGoes, Levels, Sites, Site, Reserved

\* It takes the hold from the account's row.
LEMMA TakesFromAccount ==
  ASSUME FInv, NEW r \in Requests, Through(r), Through(r)', UNCHANGED <<upload, parts, mp>>,
         req'[r].obj = req[r].obj, NEW c,
         account' = [account EXCEPT ![Owner[BucketOf(req[r].obj)]] = c], UNCHANGED bucket,
         c.reserved = account[Owner[BucketOf(req[r].obj)]].reserved - mp[r].held,
         Spent("bucket", r), Spent("bucket", r)', ~Spent("account", r), Spent("account", r)'
  PROVE  EnderGoes(r)
<1>1. account \in [Users -> AccountColumns]
  BY DEF FInv, TypeOK, QuotaTypeOK
<1> QED
  BY <1>1 DEF EnderGoes, Levels, Sites, Site, Reserved

\* It takes nothing from either.
LEMMA TakesNothing ==
  ASSUME FInv, NEW r \in Requests, Through(r), Through(r)', UNCHANGED <<upload, parts, mp>>,
         req'[r].obj = req[r].obj,
         \A b \in Buckets : bucket'[b].reserved = bucket[b].reserved,
         \A u \in Users : account'[u].reserved = account[u].reserved,
         \A l \in Levels : Spent(l, r) <=> Spent(l, r)'
  PROVE  EnderGoes(r)
  BY DEF EnderGoes, Levels, Sites, Site, Reserved

\* The statements its procedures go on with.
LEMMA ContinueEnds ==
  ASSUME FInv, FInv', UploadsApart, UploadsApart', HoldsOK, NEW r \in Requests,
         UNCHANGED ovars, UNCHANGED mvars, Continue(r), Through(r)
  PROVE  EnderGoes(r)
<1> USE DEF At, AtStatement
<1> DEFINE o == req[r].obj
           b == BucketOf(o)
           a == Owner[b]
           n == mp[r].held
           c == bucket[b]
           d == account[a]
<1>1. /\ Placed(req[r], call[r], mp[r]) /\ n \in Int
      /\ QuotaTypeOK /\ live = Buckets /\ call \in [Requests -> Call]
      /\ bucket \in [Buckets -> BucketColumns] /\ account \in [Users -> AccountColumns]
      /\ req' = req /\ UNCHANGED <<upload, parts, mp>>
  BY Here DEF QuotaTypeOK, ovars, mvars
<1>2. call[r].at \in Pending
  BY DEF Continue, ReserveUser, Unreserve, ReleaseUser, CommitUser, SettleBucket, SettleUser,
       CreditBucket, CreditUser, Pending
<1>3. req[r].pc \in {"difference", "drop"} /\ req'[r].pc = req[r].pc
  <2>1. req[r].pc \in Waiting
    BY <1>1, <1>2 DEF Placed, CallAt, Pending, Ended
  <2>2. req[r].op \in Enders
    BY DEF Through
  <2>3. req[r].pc \notin {"admit", "commit", "abort", "credited"}
    BY <1>1, <2>2 DEF Placed, OpAt, Enders, WriteOps, PartOps, DeletePcs
  <2> QED
    BY <1>1, <2>1, <2>3 DEF Waiting
<1>4. o \in Object /\ call[r].bucket = b
  BY <1>1, <1>3 DEF Placed, SubjectOf, CallAt, Resting, Waiting
<1>5. Through(r)' /\ Spent("bucket", r) /\ Spent("bucket", r)'
  BY <1>1, <1>3 DEF Through, Working, Active, Spent
<1>6. /\ b \in Buckets /\ a \in Users /\ c \in BucketColumns /\ d \in AccountColumns
      /\ ~Spent("account", r) => d.reserved >= n
  BY <1>4, EnderAt
<1>7. \A at : Goto(r, at) => call'[r].at = at
  BY <1>1 DEF Goto, Call
<1>8. CASE ReleaseUser(r) \/ CommitUser(r)
  <2>1. call[r].at \in {"release_user", "commit_user"} /\ call[r].bytes = n
    BY <1>1, <1>3, <1>8 DEF ReleaseUser, CommitUser, Placed, CallAt
  <2>2. PICK e \in {Unhold(d, n), Spend(d, n)} :
          /\ account' = [account EXCEPT ![a] = e]
          /\ call'[r].at = "ok" /\ UNCHANGED bucket
    BY <1>4, <1>7, <1>8, <2>1 DEF ReleaseUser, CommitUser, UpdateOwner
  <2>3. ~Spent("account", r) /\ Spent("account", r)'
    BY <1>3, <2>1, <2>2 DEF Spent
  <2>4. e.reserved = d.reserved - n
    <3>1. e.reserved = d.reserved + (-n) /\ d.reserved \in Int
      BY <1>1, <1>6, <2>2, <2>3, ReservedMoves DEF AccountColumns
    <3> QED
      BY <1>1, <3>1
  <2> QED
    BY <1>1, <1>5, <2>2, <2>3, <2>4, TakesFromAccount
<1>9. CASE SettleBucket(r) \/ SettleUser(r)
  <2>1. /\ call[r].at \in {"settle_bucket", "settle_user"}
        /\ call'[r].at \in {"settle_user", "ok"}
    BY <1>7, <1>9 DEF SettleBucket, SettleUser
  <2>2. Spent("account", r) /\ Spent("account", r)'
    BY <1>3, <2>1 DEF Spent
  <2>3. call[r].bytes \in Int
    BY <1>1 DEF Call
  <2>4. /\ bucket' = bucket \/ bucket' = [bucket EXCEPT ![b] =
                                            SettleColumns(c, call[r].bytes, call[r].objects)]
        /\ account' = account \/ account' = [account EXCEPT ![a] = Adjust(d, call[r].bytes)]
    BY <1>1, <1>4, <1>9 DEF SettleBucket, SettleUser, UpdateBucket, UpdateOwner
  <2>5. /\ SettleColumns(c, call[r].bytes, call[r].objects).reserved = c.reserved
        /\ Adjust(d, call[r].bytes).reserved = d.reserved
    BY <1>6, <2>3, ReservedStays
  <2>6. /\ \A y \in Buckets : bucket'[y].reserved = bucket[y].reserved
        /\ \A y \in Users : account'[y].reserved = account[y].reserved
    BY <1>1, <2>4, <2>5
  <2> QED
    BY <1>1, <1>5, <2>2, <2>6, TakesNothing DEF Levels
<1>10. ~(ReserveUser(r) \/ Unreserve(r) \/ CreditBucket(r) \/ CreditUser(r))
  BY <1>1, <1>3 DEF Placed, CallAt, Ended, ReserveUser, Unreserve, CreditBucket, CreditUser
<1> QED
  BY <1>8, <1>9, <1>10 DEF Continue

\* The statements they begin with.
LEMMA EndsBegin ==
  ASSUME FInv, FInv', UploadsApart, UploadsApart', HoldsOK, NEW r \in Requests,
         LetGo(r) \/ CommitParts(r) \/ SettleDifference(r)
  PROVE  EnderGoes(r)
<1> USE DEF At, AtStatement
<1> DEFINE o == req[r].obj
           b == BucketOf(o)
           n == mp[r].held
           c == bucket[b]
<1>1. /\ Placed(req[r], call[r], mp[r]) /\ n \in Int
      /\ TypeOK /\ live = Buckets /\ call \in [Requests -> Call]
      /\ bucket \in [Buckets -> BucketColumns] /\ account \in [Users -> AccountColumns]
      /\ UNCHANGED <<upload, parts, mp>>
  <2>1. UNCHANGED <<upload, parts, mp>>
    BY DEF LetGo, CommitParts, SettleDifference, mvars
  <2> QED
    BY <2>1, Here DEF QuotaTypeOK
<1>2. /\ req[r].pc \in {"letgo", "account", "difference"} /\ o \in Object
      /\ req[r].op \in Enders
      /\ {"drop", "difference"} \subseteq AllPcs
  <2>1. req[r].pc \in {"letgo", "account", "difference"} /\ req[r].op \in Enders
    BY <1>1 DEF LetGo, CommitParts, SettleDifference, Placed, OpAt, Enders
  <2> QED
    BY <1>1, <2>1 DEF Placed, SubjectOf, Resting, AllPcs, UploadPcs
<1>3. Through(r)
  BY <1>2 DEF Through, Working, Active, Resting, Enders, UploadOps, UploadOnlyOps
<1>4. /\ b \in Buckets /\ c \in BucketColumns
      /\ ~Spent("bucket", r) => c.reserved >= n
  BY <1>2, <1>3, EnderAt
<1>5. ASSUME Same(req'[r], req[r]), req'[r].pc \in {"difference", "drop"}
      PROVE  Through(r)' /\ req'[r].obj = o
  BY <1>2, <1>5 DEF Through, Working, Active, Resting, Enders, UploadOps, UploadOnlyOps, Same
<1>6. CASE LetGo(r)
  <2>1. /\ req[r].pc = "letgo" /\ Release(r, b, n) /\ Goes(r, "drop")
    BY <1>1, <1>4, <1>6 DEF LetGo
  <2>2. Same(req'[r], req[r]) /\ req'[r].pc = "drop"
    BY <1>1, <1>2, <2>1, GoesOn
  <2>3. /\ bucket' = [bucket EXCEPT ![b] = Unhold(c, n)]
        /\ call'[r].at = "release_user" /\ UNCHANGED account
    BY <1>1, <1>4, <2>1 DEF Release, UpdateBucket, Frame
  <2>4. /\ ~Spent("bucket", r) /\ Spent("bucket", r)'
        /\ ~Spent("account", r) /\ ~Spent("account", r)'
    BY <2>1, <2>2, <2>3 DEF Spent
  <2>5. Unhold(c, n).reserved = c.reserved - n
    <3>1. Unhold(c, n).reserved = c.reserved + (-n) /\ c.reserved \in Int
      BY <1>1, <1>4, <2>4, ReservedMoves DEF BucketColumns
    <3> QED
      BY <1>1, <3>1
  <2> QED
    BY <1>1, <1>3, <1>5, <2>2, <2>3, <2>4, <2>5, TakesFromBucket
<1>7. CASE CommitParts(r)
  <2>1. /\ req[r].pc = "account" /\ Commit(r, b, n, 1) /\ Goes(r, "difference")
    BY <1>1, <1>4, <1>7 DEF CommitParts
  <2>2. Same(req'[r], req[r]) /\ req'[r].pc = "difference"
    BY <1>1, <1>2, <2>1, GoesOn
  <2>3. /\ bucket' = [bucket EXCEPT ![b] = CommitColumns(c, n, 1)]
        /\ call'[r].at = "commit_user" /\ UNCHANGED account
    BY <1>1, <1>4, <2>1 DEF Commit, UpdateBucket, Frame
  <2>4. /\ ~Spent("bucket", r) /\ Spent("bucket", r)'
        /\ ~Spent("account", r) /\ ~Spent("account", r)'
    BY <2>1, <2>2, <2>3 DEF Spent
  <2>5. CommitColumns(c, n, 1).reserved = c.reserved - n
    <3>1. CommitColumns(c, n, 1).reserved = c.reserved + (-n) /\ c.reserved \in Int
      BY <1>1, <1>4, <2>4, ReservedMoves DEF BucketColumns
    <3> QED
      BY <1>1, <3>1
  <2> QED
    BY <1>1, <1>3, <1>5, <2>2, <2>3, <2>4, <2>5, TakesFromBucket
<1>8. CASE SettleDifference(r)
  <2>1. /\ req[r].pc = "difference" /\ call[r].at = "ok" /\ Goes(r, "drop")
        /\ Settle(r, b, req[r].size - n, 0)
    BY <1>8 DEF SettleDifference
  <2>2. Same(req'[r], req[r]) /\ req'[r].pc = "drop"
    BY <1>1, <1>2, <2>1, GoesOn
  <2>3. call'[r].at \in {"ok", "settle_bucket", "failed"} /\ UNCHANGED <<bucket, account>>
    BY <1>1, <2>1 DEF Settle, Frame
  <2>4. \A l \in Levels : Spent(l, r) /\ Spent(l, r)'
    BY <2>1, <2>2, <2>3 DEF Spent
  <2> QED
    BY <1>1, <1>3, <1>5, <2>2, <2>3, <2>4, TakesNothing
<1> QED
  BY <1>6, <1>7, <1>8

----------------------------------------------------------------------------
(* The other steps of uploads: no row moves.                               *)

\* A request starts on an upload.
LEMMA StartUploadHolds ==
  ASSUME FInv, FInv', NEW r \in Requests, Together(r), StartUpload(r)
  PROVE  RowsFollow(r) /\ \A v \in Uploads, k \in Kinds : Spares(k, r, v)
<1> DEFINE fits == /\ UNCHANGED qvars /\ UNCHANGED upload /\ ~Active(r)
                   /\ \/ req'[r].pc \in {"open", "reserve", "source", "forget", "assemble"}
                      \/ req'[r] = req[r]
                   /\ \A v \in Uploads : upload[v] = Absent \/ parts'[v] = parts[v]
<1>1. fits
  <2>1. PICK u \in Uploads :
          \/ \E o \in Object : StartCreate(r, u, o)
          \/ \E p \in PartNumbers : \/ \E n \in PartSizes : StartPart(r, u, p, n)
                                    \/ \E s \in Object : StartPartCopy(r, u, p, s)
          \/ StartAbort(r, u) \/ StartComplete(r, u)
    BY DEF StartUpload
  <2>2. ASSUME NEW o \in Object, StartCreate(r, u, o)
        PROVE  fits
    <3>1. \/ Begun(r, u, "create", "open")
          \/ UNCHANGED <<req, mp, upload, qvars>> /\ ~Active(r) /\ faults' # 0
      BY <2>2, CreateBegun
    <3>2. \A v \in Uploads : upload[v] = Absent \/ parts'[v] = parts[v]
      BY <2>2 DEF StartCreate, FInv, TypeOK
    <3> QED
      BY <3>1, <3>2 DEF Begun
  <2>3. ASSUME NEW op, NEW pc \in {"reserve", "source", "forget", "assemble"},
               BegunOnRow(r, u, op, pc)
        PROVE  fits
    BY <2>3 DEF BegunOnRow, Begun
  <2> HIDE DEF fits
  <2>4. ASSUME NEW p \in PartNumbers,
               \/ \E n \in PartSizes : StartPart(r, u, p, n)
               \/ \E s \in Object : StartPartCopy(r, u, p, s)
        PROVE  fits
    BY <2>3, <2>4, PartBegun
  <2>5. CASE StartAbort(r, u) \/ StartComplete(r, u)
    BY <2>3, <2>5, EndBegun
  <2> QED
    BY <2>1, <2>2, <2>4, <2>5
<1>2. Empty(req[r], call[r])
  BY <1>1 DEF Empty, Active, Resting
<1>3. Empty(req'[r], call'[r])
  BY <1>1 DEF Empty, Active, Resting
<1>4. ~Through(r) /\ ~Through(r)'
  <2>1. ~Through(r)
    BY <1>1 DEF Through, Working
  <2>2. req'[r].pc \in {"open", "reserve", "source"} => ~Through(r)'
    <3>1. Placed(req'[r], call'[r], mp'[r])
      BY DEF Together
    <3> QED
      BY <3>1 DEF Placed, OpAt, Through, Enders, WriteOps, PartOps
  <2>3. req'[r].pc \in {"forget", "assemble"} => ~Through(r)'
    BY DEF Through
  <2>4. req'[r] = req[r] => ~Through(r)'
    BY <1>1 DEF Through, Working, Active
  <2> QED
    BY <1>1, <2>1, <2>2, <2>3, <2>4
<1>5. \A v \in Uploads, k \in Kinds : Spares(k, r, v)
  BY <1>1, <1>4, IdleSpares
<1> QED
  BY <1>1, <1>2, <1>3, <1>5, EmptyFollows DEF qvars

\* The row of an upload is made: it keeps nothing yet.
LEMMA InsertUploadHolds ==
  ASSUME FInv, FInv', UploadsApart, NEW r \in Requests, Together(r), InsertUpload(r)
  PROVE  /\ RowsFollow(r)
         /\ \A k \in Kinds, l \in Levels, v \in Uploads : \A x : KeptEases(k, l, x, v)
<1>1. PICK u : u = mp[r].upload
  OBVIOUS
<1>2. /\ req[r].pc = "open" /\ req'[r].pc \in {"ok", "err"} /\ UNCHANGED qvars /\ UNCHANGED parts
      /\ upload' = [upload EXCEPT ![u] = [obj |-> req[r].obj, reserved |-> 0]]
  BY <1>1, UploadMoves DEF InsertUpload, At
<1>3. u \in Uploads /\ upload[u] = Absent /\ ~Through(r) /\ ~Through(r)'
  <2>1. /\ Working(r) /\ req[r].op = "create" /\ u \in Uploads
    BY <1>1, <1>2, ItsUpload, UploadMoves DEF At, UploadOps, UploadOnlyOps
  <2>2. upload[u] = Absent
    BY <1>1, <2>1 DEF UploadsApart, ApartAt
  <2> QED
    BY <1>2, <2>1, <2>2 DEF Through, Working, Active, Resting, Enders
<1>4. Empty(req[r], call[r]) /\ Empty(req'[r], call'[r])
  BY <1>2 DEF Empty
<1>5. ASSUME NEW k \in Kinds, NEW l \in Levels, NEW v \in Uploads, NEW x
      PROVE  KeptEases(k, l, x, v)
  <2>1. CASE v = u
    <3>1. upload'[u].reserved = 0
      BY <1>2, <1>3 DEF FInv, TypeOK
    <3>2. Kept(k, l, x, v) = 0 /\ Kept(k, l, x, v)' = 0
      BY <1>3, <2>1, <3>1 DEF Kept
    <3> QED
      BY <3>2 DEF KeptEases, Bears
  <2>2. CASE v # u
    <3>1. upload'[v] = upload[v]
      BY <1>2, <2>2 DEF FInv, TypeOK
    <3> QED
      BY <1>2, <1>3, <3>1, IdleSpares, SparesEases
  <2> QED
    BY <2>1, <2>2
<1> QED
  BY <1>2, <1>4, <1>5, EmptyFollows DEF qvars

\* The steps of a part up to its row.
LEMMA PartHolds ==
  ASSUME FInv, FInv', NEW r \in Requests, Together(r), ReadSource(r) \/ SendPart(r)
  PROVE  RowsFollow(r) /\ \A v \in Uploads, k \in Kinds : Spares(k, r, v)
<1> USE DEF At
<1>1. /\ TypeOK /\ Placed(req[r], call[r], mp[r]) /\ {"add"} \subseteq AllPcs
  BY Here DEF AllPcs, UploadPcs
<1>2. /\ UNCHANGED qvars /\ UNCHANGED upload
      /\ \A v \in Uploads : parts'[v] # Absent => parts[v] # Absent
  <2>1. UNCHANGED qvars /\ UNCHANGED upload
    BY DEF ReadSource, SendPart, mvars
  <2>2. UNCHANGED parts \/ (parts[mp[r].upload] # Absent /\ PartStored(r))
    BY DEF ReadSource, SendPart, Storable, mvars
  <2> QED
    BY <2>1, <2>2 DEF PartStored, FInv, TypeOK
<1>3. ~Through(r) /\ ~Through(r)'
  <2>1. req[r].op \in PartOps /\ req'[r].op = req[r].op
    BY <1>1, UploadMoves DEF ReadSource, SendPart, Placed, OpAt, PartOps
  <2> QED
    BY <2>1 DEF Through, Enders, PartOps
<1>4. \A v \in Uploads, k \in Kinds : Spares(k, r, v)
  BY <1>2, <1>3, IdleSpares
<1>5. CASE ReadSource(r)
  <2>1. req[r].pc = "source" /\ req'[r].pc \in {"reserve", "err"}
    BY <1>5, UploadMoves DEF ReadSource
  <2>2. Empty(req[r], call[r]) /\ Empty(req'[r], call'[r])
    BY <2>1 DEF Empty
  <2> QED
    BY <1>2, <1>4, <2>2, EmptyFollows DEF qvars
<1>6. CASE SendPart(r)
  <2>1. /\ Admitted(r)
        /\ Goes(r, "add") \/ GiveUp(r)
    BY <1>6 DEF SendPart
  <2>2. /\ Same(req'[r], req[r])
        /\ \/ req'[r].pc = "add"
           \/ req'[r].pc = IF req[r].delta > 0 THEN "release" ELSE "err"
    BY <1>1, <2>1, GoesOn, GivesUp
  <2> QED
    BY <1>2, <1>4, <2>1, <2>2, SameFollows
<1> QED
  BY <1>5, <1>6

\* What the store is asked for an upload that ends: whoever it lets through gets the hold
\* of the parts it forgets.
LEMMA AskStoreHolds ==
  ASSUME FInv, FInv', NEW r \in Requests, Together(r), AskStore(r)
  PROVE  RowsFollow(r) /\ \A v \in Uploads, k \in Kinds : Spares(k, r, v)
<1> USE DEF At
<1>1. /\ UNCHANGED qvars /\ UNCHANGED <<upload, mp>>
      /\ req[r].pc \in {"forget", "assemble", "head"}
      /\ req'[r].pc \in {"letgo", "head", "update", "err"}
  BY UploadMoves DEF AskStore, ForgetParts, Assemble, Assembled, HeadObject, mvars
<1>2. \A l \in Levels : Held(l, r) = 0 /\ Held(l, r)' = 0
  <2>1. /\ Working(r) /\ req'[r].op = req[r].op
        /\ req[r].op \in {"abort", "complete"}
    BY <1>1, UploadMoves, ItsUpload DEF AskStore
  <2>2. req[r].op \in UploadOps \ PartOps
    BY <2>1 DEF UploadOps, UploadOnlyOps, PartOps
  <2> QED
    BY <2>1, <2>2, ThroughHoldsNothing, ThroughHoldsNothingNext
<1>3. RowsFollow(r)
  BY <1>1, <1>2, HoldStays DEF RowsFollow, qvars
<1>4. ASSUME NEW v \in Uploads, NEW k \in Kinds
      PROVE  Spares(k, r, v)
  <2>1. \/ UNCHANGED parts
        \/ /\ parts[mp[r].upload] # Absent
           /\ parts' = [parts EXCEPT ![mp[r].upload] = Absent]
    BY DEF AskStore, ForgetParts, Assemble, Assembled, HeadObject, mvars
  <2>2. \A l \in Levels : ~Takes(l, r, v) /\ ~Takes(l, r, v)'
    BY <1>1 DEF Takes, Spent
  <2>3. parts'[v] # Absent => parts[v] # Absent
    BY <2>1 DEF FInv, TypeOK
  <2>4. On(r, v)' => mp[r].upload = v
    BY <1>1 DEF On
  <2>5. CASE UNCHANGED parts
    <3>1. CASE HeadObject(r)
      <4>1. GoesOnOrLeaves(r)
        BY <3>1, UploadMoves DEF GoesOnOrLeaves, HeadObject, Through
      <4> QED
        BY <1>1, <2>5, <4>1, PlainSpares
    <3>2. CASE ForgetParts(r) \/ Assemble(r)
      <4>1. parts[mp[r].upload] # Absent \/ req'[r].pc = "err"
        <5>1. TypeOK /\ {"letgo", "head", "err"} \subseteq AllPcs
          BY Here DEF AllPcs, UploadPcs, Resting
        <5> QED
          BY <3>2, <5>1, GoesOn DEF ForgetParts, Assemble, Assembled
      <4>2. \A l \in Levels : Gets(l, r, v)' => parts[v] # Absent
        BY <2>4, <4>1 DEF Gets, Through, Working, Active, Resting
      <4> QED
        BY <1>1, <2>2, <2>3, <4>2 DEF Spares
    <3> QED
      BY <3>1, <3>2 DEF AskStore
  <2>6. CASE parts[mp[r].upload] # Absent
    <3>1. \A l \in Levels : Gets(l, r, v)' => parts[v] # Absent
      BY <2>4, <2>6 DEF Gets
    <3> QED
      BY <1>1, <2>2, <2>3, <3>1 DEF Spares
  <2> QED
    BY <2>1, <2>5, <2>6
<1> QED
  BY <1>3, <1>4

\* An upload's row goes once its hold has.
LEMMA DropUploadHolds ==
  ASSUME FInv, FInv', UploadsApart, NEW r \in Requests, Together(r), DropUpload(r)
  PROVE  /\ RowsFollow(r)
         /\ \A k \in Kinds, l \in Levels, v \in Uploads : \A x : KeptEases(k, l, x, v)
<1> USE DEF At
<1>1. PICK u : u = mp[r].upload
  OBVIOUS
<1>2. /\ req[r].pc = "drop" /\ req[r].op \in Enders
      /\ call[r].at = "ok"
      /\ upload' = [upload EXCEPT ![u] = Absent]
      /\ UNCHANGED <<bucket, account, parts, mp>>
  <2>1. Placed(req[r], call[r], mp[r])
    BY Here
  <2> QED
    BY <1>1, <2>1 DEF DropUpload, Drop, Placed, OpAt, CallAt
<1>3. /\ Working(r) /\ Through(r) /\ u \in Uploads /\ req'[r].op = req[r].op
      /\ req[r].op \in UploadOps \ PartOps
  <2>1. Working(r) /\ req'[r].op = req[r].op
    BY UploadMoves
  <2>2. Through(r) /\ req[r].op \in UploadOps \ PartOps
    BY <1>2, <2>1 DEF Through, Enders, UploadOps, UploadOnlyOps, PartOps
  <2> QED
    BY <1>1, <2>1, <2>2, ItsUpload
<1>4. \A l \in Levels : Held(l, r) = 0 /\ Held(l, r)' = 0
  BY <1>3, ThroughHoldsNothing, ThroughHoldsNothingNext
<1>5. RowsFollow(r)
  BY <1>2, <1>4, HoldStays DEF RowsFollow
<1>6. ASSUME NEW k \in Kinds, NEW l \in Levels, NEW v \in Uploads, NEW x
      PROVE  KeptEases(k, l, x, v)
  <2>1. CASE v = u
    <3>1. Spent(l, r)
      BY <1>2 DEF Spent
    <3>2. Kept(k, l, x, v) = 0
      BY <1>1, <1>3, <2>1, <3>1, KeptThrough
    <3>3. upload'[v] = Absent
      BY <1>2, <1>3, <2>1 DEF FInv, TypeOK
    <3>4. Kept(k, l, x, v)' = 0
      BY <3>3 DEF Kept
    <3> QED
      BY <3>2, <3>4 DEF KeptEases, Bears
  <2>2. CASE v # u
    <3>1. upload'[v] = upload[v] /\ parts'[v] = parts[v] /\ mp'[r].upload = u
      BY <1>1, <1>2, <2>2 DEF FInv, TypeOK
    <3> QED
      BY <1>1, <2>2, <3>1, FarSpares, SparesEases
  <2> QED
    BY <2>1, <2>2
<1> QED
  BY <1>5, <1>6

\* A part's hold goes over to its upload.
LEMMA AddReservedHolds ==
  ASSUME FInv, FInv', UploadsApart, NEW r \in Requests, Together(r), AddReserved(r),
         NEW k \in Kinds, NEW l \in Levels, NEW x \in Sites(l)
  PROVE  HoldMoves(k, l, x, r)
<1> USE DEF At
<1>1. PICK u : u = mp[r].upload
  OBVIOUS
<1>2. PICK n : n = req[r].size
  OBVIOUS
<1>3. /\ req[r].pc = "add" /\ req[r].op \in PartOps /\ req[r].delta = n /\ n \in Nat
      /\ req'[r].pc \in {"ok", "err"}
      /\ UNCHANGED <<bucket, account, parts, mp>>
      /\ u \in Uploads /\ Working(r)
  <2>1. Placed(req[r], call[r], mp[r]) /\ req[r].size \in Nat
    BY Here
  <2> QED
    BY <1>1, <1>2, <2>1, UploadMoves DEF AddReserved, Drop, Placed, OpAt, SubjectOf, UploadOps,
         UploadOnlyOps
<1>4. /\ upload[u] # Absent /\ req[r].obj = upload[u].obj
      /\ \A q \in Requests : On(q, u) => req[q].op \in PartOps
  BY <1>1, <1>3 DEF UploadsApart, ApartAt, PartOps
<1>5. upload' = [upload EXCEPT ![u].reserved = @ + n]
  BY <1>1, <1>2, <1>4 DEF AddReserved
<1>6. /\ upload[u].obj \in Object /\ upload[u].reserved \in Nat
      /\ upload'[u] # Absent /\ upload'[u].obj = upload[u].obj
      /\ upload'[u].reserved = upload[u].reserved + n
      /\ \A v \in Uploads \ {u} : upload'[v] = upload[v]
  <2>1. /\ upload[u] \in [obj : Object, reserved : Nat]
        /\ upload \in [Uploads -> [obj : Object, reserved : Nat] \cup {Absent}]
    BY <1>3, <1>4, UploadRow DEF FInv, TypeOK
  <2>2. [upload[u] EXCEPT !.reserved = @ + n] \in [obj : Object, reserved : Nat]
    BY <1>3, <2>1
  <2>3. upload'[u] = [upload[u] EXCEPT !.reserved = @ + n]
    BY <1>3, <1>5, <2>1
  <2> QED
    BY <1>5, <2>1, <2>2, <2>3, AbsentUploadAssumption
<1>7. HeldAt(l, x, r) = (IF Site(l, upload[u].obj) = x THEN n ELSE 0) /\ HeldAt(l, x, r)' = 0
  <2>1. Held(l, r) = n
    <3>1. HoldOf(l, req[r], call[r]) = n
      BY <1>3 DEF HoldOf
    <3> QED
      BY <3>1, HeldIs
  <2>2. Held(l, r)' = 0
    <3>1. HoldOf(l, req'[r], call'[r]) = 0
      BY <1>3 DEF HoldOf
    <3> QED
      BY <3>1, HeldIsNext
  <2>3. req[r].obj # Nowhere
    BY <1>4, <1>6, ItsBucket
  <2> QED
    BY <1>4, <2>1, <2>2, <2>3 DEF HeldAt
<1>8. ~Through(r) /\ ~Through(r)'
  BY <1>3 DEF Through, Working, Active, Resting, Enders, PartOps
<1>9. \A q \in Requests : /\ ~Gets(l, q, u) /\ ~Takes(l, q, u)
                          /\ ~Gets(l, q, u)' /\ ~Takes(l, q, u)'
  <2>1. \A q \in Requests : On(q, u) => ~Through(q)
    BY <1>4 DEF Through, Enders, PartOps
  <2>2. ASSUME NEW q \in Requests
        PROVE  On(q, u)' => ~Through(q)'
    BY <1>8, <2>1, OthersStay
  <2> QED
    BY <2>1, <2>2 DEF Gets, Takes
<1>10. Keeps(k, l, u)' <=> Keeps(k, l, u)
  BY <1>3, <1>9 DEF Keeps
<1>11. Keeps(k, l, u) \/ k = "low"
  BY <1>9 DEF Keeps, Kinds
<1>12. /\ Kept(k, l, x, u) = IF Site(l, upload[u].obj) = x /\ Keeps(k, l, u)
                               THEN upload[u].reserved ELSE 0
       /\ Kept(k, l, x, u)' = IF Site(l, upload[u].obj) = x /\ Keeps(k, l, u)
                                THEN upload[u].reserved + n ELSE 0
  BY <1>4, <1>6, <1>10 DEF Kept, Site
<1>13. Reserved(l, x)' = Reserved(l, x) /\ Reserved(l, x) \in Int
  BY <1>3, Typed DEF Reserved
<1>14. KeptTraded(k, l, x, r, u)
  <2>1. CASE Site(l, upload[u].obj) = x /\ Keeps(k, l, u)
    BY <1>3, <1>6, <1>7, <1>12, <1>13, <2>1 DEF KeptTraded, Bears
  <2>2. CASE Site(l, upload[u].obj) = x /\ ~Keeps(k, l, u)
    BY <1>3, <1>6, <1>7, <1>11, <1>12, <1>13, <2>2 DEF KeptTraded, Bears
  <2>3. CASE Site(l, upload[u].obj) # x
    BY <1>3, <1>6, <1>7, <1>12, <1>13, <2>3 DEF KeptTraded, Bears
  <2> QED
    BY <2>1, <2>2, <2>3
<1>15. ASSUME NEW v \in Uploads \ {u}
       PROVE  KeptEases(k, l, x, v)
  BY <1>3, <1>6, <1>8, IdleSpares, SparesEases
<1> QED
  BY <1>3, <1>14, <1>15 DEF HoldMoves

----------------------------------------------------------------------------
(* Every step.                                                             *)

\* Faults are only ever counted up.
LEMMA FaultsGrow ==
  ASSUME FInv, NEW r \in Requests, Step(r), faults' = 0
  PROVE  faults = 0
<1>1. faults \in Nat
  BY DEF FInv
<1>2. UNCHANGED faults \/ Fault
  <2>1. CASE ObjectStep(r)
    BY <2>1 DEF ObjectStep, Start, StartPut, StartCopy, StartDelete, StartBatch, Answered,
         AnswerLost, Refused, Proceed, CopyBegin, CallReserve, RefuseWrite, UpdateRow, RereadRow,
         InsertRow, Account, GiveBack, AnswerWrite, FindRow, RemoveRow, CallCredit, Credited,
         ovars, SendWrite, WriteRowFails, Crash
  <2>2. CASE UploadStep(r)
    BY <2>2 DEF UploadStep, StartUpload, StartCreate, StartPart, StartPartCopy, StartAbort,
         StartComplete, ProceedUpload, InsertUpload, ReadSource, AddReserved, LetGo, DropUpload,
         CommitParts, SettleDifference, SendPart, AskStore, ForgetParts, Assemble, HeadObject
  <2> QED
    BY <2>1, <2>2 DEF Step
<1> QED
  BY <1>1, <1>2 DEF Fault

\* What is reserved, held and kept moves together at every step.
LEMMA StepMoves ==
  ASSUME SerialKeys, FInv, FInv', UploadsApart, UploadsApart', HoldsOK,
         NEW r \in Requests, Step(r), Together(r),
         NEW k \in Kinds, NEW l \in Levels, NEW x \in Sites(l), k = "exact" => faults' = 0
  PROVE  HoldMoves(k, l, x, r)
<1>1. ASSUME RowsFollow(r), \A v \in Uploads : Spares(k, r, v)
      PROVE  HoldMoves(k, l, x, r)
  BY <1>1, SparesEases DEF RowsFollow, HoldMoves
<1>2. ASSUME EnderGoes(r)
      PROVE  HoldMoves(k, l, x, r)
  BY <1>2, EnderMoves DEF EnderGoes
<1>3. CASE ObjectStep(r) /\ UNCHANGED mvars
  <2>1. CASE Through(r) /\ Continue(r) /\ UNCHANGED ovars
    BY <1>2, <1>3, <2>1, ContinueEnds
  <2>2. CASE ~(Through(r) /\ Continue(r) /\ UNCHANGED ovars)
    <3>1. \A v \in Uploads : Spares(k, r, v)
      BY <1>3, <2>2, ObjectSpares
    <3>2. RowsFollow(r)
      <4>1. CASE \/ Start(r) \/ CopyBegin(r) \/ FindRow(r) \/ RemoveRow(r) \/ CallCredit(r)
                 \/ Credited(r) \/ RowStep(r) \/ SendWrite(r)
        BY <1>3, <4>1, QuietFollows
      <4>2. CASE RefuseWrite(r) \/ AnswerWrite(r) \/ Crash(r)
        BY <4>2, AnswersFollow
      <4>3. CASE CallReserve(r) \/ Account(r) \/ GiveBack(r)
        BY <1>3, <4>3, CallsFollow
      <4>4. CASE Continue(r) /\ UNCHANGED ovars
        BY <2>2, <4>4, ContinueFollows
      <4> QED
        BY <1>3, <4>1, <4>2, <4>3, <4>4 DEF ObjectStep, Proceed, RowStep
    <3> QED
      BY <1>1, <3>1, <3>2
  <2> QED
    BY <1>3, <2>1, <2>2
<1>4. CASE UploadStep(r)
  <2>1. CASE StartUpload(r)
    BY <1>1, <2>1, StartUploadHolds
  <2>2. CASE InsertUpload(r) \/ DropUpload(r)
    BY <2>2, InsertUploadHolds, DropUploadHolds DEF RowsFollow, HoldMoves
  <2>3. CASE ReadSource(r) \/ SendPart(r)
    BY <1>1, <2>3, PartHolds
  <2>4. CASE AskStore(r)
    BY <1>1, <2>4, AskStoreHolds
  <2>5. CASE AddReserved(r)
    BY <2>5, AddReservedHolds
  <2>6. CASE LetGo(r) \/ CommitParts(r) \/ SettleDifference(r)
    BY <1>2, <2>6, EndsBegin
  <2> QED
    BY <1>4, <2>1, <2>2, <2>3, <2>4, <2>5, <2>6 DEF UploadStep, ProceedUpload
<1> QED
  BY <1>3, <1>4 DEF Step

----------------------------------------------------------------------------
(* The invariant.                                                          *)

\* Types and places, uploads apart, and holds borne.
HInv == FInv /\ UploadsApart /\ HoldsOK

\* Nothing is held at the start.
LEMMA HInvInit ==
  ASSUME Init
  PROVE  HInv
<1>1. FInv
  BY FInvInit
<1>2. /\ \A r \in Requests : req[r] = NoHandler /\ call[r] = NoCall
      /\ \A u \in Uploads : upload[u] = Absent
      /\ \A b \in Buckets : bucket[b].reserved = 0
      /\ \A u \in Users : account[u].reserved = 0
  BY DEF Init, ObjectsInit, QuotaInit
<1>3. UploadsApart
  BY <1>2 DEF UploadsApart, ApartAt, Working, Active, NoHandler, Resting
<1>4. ASSUME NEW k \in Kinds, NEW l \in Levels, NEW x \in Sites(l)
      PROVE  Bears(k, Reserved(l, x),
                   Total(Holds(l, x), Requests) + Total(Keepings(k, l, x), Uploads))
  <2> DEFINE e == Holds(l, x)
             f == Keepings(k, l, x)
  <2>1. Reserved(l, x) = 0
    BY <1>2 DEF Reserved, Levels, Sites
  <2>2. \A r \in Requests : e[r] = 0
    BY <1>2 DEF Holds, HeldAt, NoHandler
  <2>3. \A u \in Uploads : f[u] = 0
    BY <1>2 DEF Keepings, Kept
  <2>4. IsFiniteSet(Requests) /\ IsFiniteSet(Uploads)
    BY FiniteAssumption, UploadsAssumption
  <2> HIDE DEF e, f
  <2>5. Total(e, Requests) = 0 /\ Total(f, Uploads) = 0
    BY <2>2, <2>3, <2>4, TotalZero
  <2> QED
    BY <2>1, <2>5 DEF Bears, e, f
<1> QED
  BY <1>1, <1>3, <1>4 DEF HInv, HoldsOK

\* One request's step.
LEMMA HInvStep ==
  ASSUME SerialKeys, HInv, NEW r \in Requests, Step(r)
  PROVE  HInv'
<1>1. FInv /\ UploadsApart /\ HoldsOK
  BY DEF HInv
<1>2. FInv' /\ UploadsApart' /\ Together(r)
  BY <1>1, FInvStep, ApartKept, StepTogether
<1>3. ASSUME NEW k \in Kinds, NEW l \in Levels, NEW x \in Sites(l), Counts(k)'
      PROVE  Bears(k, Reserved(l, x)',
                   Total(Holds(l, x)', Requests) + Total(Keepings(k, l, x)', Uploads))
  <2>1. (k = "exact" => faults' = 0) /\ Counts(k)
    BY <1>1, <1>3, FaultsGrow DEF Counts
  <2>2. HoldMoves(k, l, x, r)
    BY <1>1, <1>2, <2>1, StepMoves
  <2> QED
    BY <1>1, <1>2, <2>1, <2>2, HoldsMoved
<1>4. HoldsOK'
  BY <1>3 DEF HoldsOK, Bears, Counts, Sites
<1> QED
  BY <1>2, <1>4 DEF HInv

\* HInv is inductive.
LEMMA HInvKept ==
  ASSUME SerialKeys, HInv, [Next]_vars
  PROVE  HInv'
<1>1. CASE Next
  BY <1>1, NextIsStep, HInvStep
<1>2. CASE UNCHANGED vars
  <2>1. FInv'
    BY <1>2, FInvKept DEF HInv
  <2>2. UploadsApart'
    BY <1>2 DEF HInv, UploadsApart, ApartAt, Working, Active, On, Through, vars, mvars,
         gatewayVars, qvars, ovars
  <2>3. \A l, x : Reserved(l, x)' = Reserved(l, x) /\ Holds(l, x)' = Holds(l, x)
    BY <1>2 DEF Reserved, Holds, HeldAt, Held, HeldByBucket, HeldByAccount, HeldByPart, Growth, At,
         vars, gatewayVars, qvars, ovars
  <2>4. \A k, l, x : Keepings(k, l, x)' = Keepings(k, l, x)
    BY <1>2 DEF Keepings, Kept, Keeps, Gets, Takes, On, Working, Active, Through, Spent, vars,
         mvars, gatewayVars, qvars, ovars
  <2>5. \A k : Counts(k)' = Counts(k)
    BY <1>2 DEF Counts, vars, gatewayVars, ovars
  <2>6. HoldsOK'
    BY <2>3, <2>4, <2>5 DEF HInv, HoldsOK
  <2> QED
    BY <2>1, <2>2, <2>6 DEF HInv
<1> QED
  BY <1>1, <1>2

----------------------------------------------------------------------------
(* The sums of the properties, over all requests and all uploads.          *)

\* What requests hold of each kind.
LEMMA HandlerAmounts ==
  ASSUME FInv, NEW r \in Requests
  PROVE  HeldByBucket(r) \in Nat /\ HeldByAccount(r) \in Nat /\ HeldByPart(r) \in Nat
<1>1. req[r].delta \in Int /\ req[r].size \in Nat
  BY Here
<1> QED
  BY <1>1 DEF HeldByBucket, HeldByAccount, HeldByPart, Growth

\* And uploads, with a row.
WithRow == {u \in Uploads : upload[u] # Absent}

\* What an upload's row says it holds.
HoldOn(u) == upload[u].reserved

\* All these are numbers from 0.
LEMMA UploadAmounts ==
  ASSUME FInv, NEW u \in WithRow
  PROVE  /\ HeldByUpload(u) \in Nat /\ HeldByUploadOnAccount(u) \in Nat
         /\ HoldOn(u) \in Nat
<1>1. upload[u].reserved \in Nat
  BY UploadRow DEF FInv, WithRow
<1> QED
  BY <1>1 DEF HeldByUpload, HeldByUploadOnAccount, HoldOn

\* What a set of requests holds on the bucket's row.
LEMMA BucketSum ==
  ASSUME FInv, NEW S \in SUBSET Requests
  PROVE  MapThenSumSet(HeldByBucket, S)
           = Total([x \in Requests |-> IF x \in S THEN HeldByBucket(x) ELSE 0], Requests)
<1> DEFINE f == [x \in Requests |-> IF x \in S THEN HeldByBucket(x) ELSE 0]
           next(g) == [T \in SUBSET S |-> IF T = {} THEN 0
                        ELSE LET x == CHOOSE x \in T : TRUE IN HeldByBucket(x) + g[T \ {x}]]
           iter == CHOOSE g : g = next(g)
<1>1. IsFiniteSet(S) /\ IsFiniteSet(Requests)
  BY FiniteAssumption, UploadsAssumption, FS_Subset
<1>2. /\ \A x \in S : f[x] = HeldByBucket(x) /\ f[x] \in Int
      /\ \A x \in Requests \ S : f[x] = 0
  BY HandlerAmounts
<1>3. MapThenSumSet(HeldByBucket, S) = iter[S]
  BY DEF MapThenSumSet, MapThenFoldSet
<1>4. \A g : TakesOneByOne(f, g, S) <=> g = next(g)
  <2> HIDE DEF f
  <2>1. \A T \in SUBSET S : T # {} => LET x == CHOOSE x \in T : TRUE IN f[x] = HeldByBucket(x)
    BY <1>2
  <2> QED
    BY <2>1 DEF TakesOneByOne
<1>5. (\E g : TakesOneByOne(f, g, S)) => TakesOneByOne(f, iter, S)
  <2> HIDE DEF f, next
  <2> QED
    BY <1>4
<1> HIDE DEF f, iter
<1>6. iter[S] = Total(f, S)
  BY <1>1, <1>2, <1>5, ChosenIsTotal
<1>7. Total(f, S) = Total(f, Requests)
  BY <1>1, <1>2, TotalPart
<1> QED
  BY <1>3, <1>6, <1>7 DEF f

\* On the account's.
LEMMA AccountSum ==
  ASSUME FInv, NEW S \in SUBSET Requests
  PROVE  MapThenSumSet(HeldByAccount, S)
           = Total([x \in Requests |-> IF x \in S THEN HeldByAccount(x) ELSE 0], Requests)
<1> DEFINE f == [x \in Requests |-> IF x \in S THEN HeldByAccount(x) ELSE 0]
           next(g) == [T \in SUBSET S |-> IF T = {} THEN 0
                        ELSE LET x == CHOOSE x \in T : TRUE IN HeldByAccount(x) + g[T \ {x}]]
           iter == CHOOSE g : g = next(g)
<1>1. IsFiniteSet(S) /\ IsFiniteSet(Requests)
  BY FiniteAssumption, UploadsAssumption, FS_Subset
<1>2. /\ \A x \in S : f[x] = HeldByAccount(x) /\ f[x] \in Int
      /\ \A x \in Requests \ S : f[x] = 0
  BY HandlerAmounts
<1>3. MapThenSumSet(HeldByAccount, S) = iter[S]
  BY DEF MapThenSumSet, MapThenFoldSet
<1>4. \A g : TakesOneByOne(f, g, S) <=> g = next(g)
  <2> HIDE DEF f
  <2>1. \A T \in SUBSET S : T # {} => LET x == CHOOSE x \in T : TRUE IN f[x] = HeldByAccount(x)
    BY <1>2
  <2> QED
    BY <2>1 DEF TakesOneByOne
<1>5. (\E g : TakesOneByOne(f, g, S)) => TakesOneByOne(f, iter, S)
  <2> HIDE DEF f, next
  <2> QED
    BY <1>4
<1> HIDE DEF f, iter
<1>6. iter[S] = Total(f, S)
  BY <1>1, <1>2, <1>5, ChosenIsTotal
<1>7. Total(f, S) = Total(f, Requests)
  BY <1>1, <1>2, TotalPart
<1> QED
  BY <1>3, <1>6, <1>7 DEF f

\* And of parts the store has answered for.
LEMMA PartSum ==
  ASSUME FInv, NEW S \in SUBSET Requests
  PROVE  MapThenSumSet(HeldByPart, S)
           = Total([x \in Requests |-> IF x \in S THEN HeldByPart(x) ELSE 0], Requests)
<1> DEFINE f == [x \in Requests |-> IF x \in S THEN HeldByPart(x) ELSE 0]
           next(g) == [T \in SUBSET S |-> IF T = {} THEN 0
                        ELSE LET x == CHOOSE x \in T : TRUE IN HeldByPart(x) + g[T \ {x}]]
           iter == CHOOSE g : g = next(g)
<1>1. IsFiniteSet(S) /\ IsFiniteSet(Requests)
  BY FiniteAssumption, UploadsAssumption, FS_Subset
<1>2. /\ \A x \in S : f[x] = HeldByPart(x) /\ f[x] \in Int
      /\ \A x \in Requests \ S : f[x] = 0
  BY HandlerAmounts
<1>3. MapThenSumSet(HeldByPart, S) = iter[S]
  BY DEF MapThenSumSet, MapThenFoldSet
<1>4. \A g : TakesOneByOne(f, g, S) <=> g = next(g)
  <2> HIDE DEF f
  <2>1. \A T \in SUBSET S : T # {} => LET x == CHOOSE x \in T : TRUE IN f[x] = HeldByPart(x)
    BY <1>2
  <2> QED
    BY <2>1 DEF TakesOneByOne
<1>5. (\E g : TakesOneByOne(f, g, S)) => TakesOneByOne(f, iter, S)
  <2> HIDE DEF f, next
  <2> QED
    BY <1>4
<1> HIDE DEF f, iter
<1>6. iter[S] = Total(f, S)
  BY <1>1, <1>2, <1>5, ChosenIsTotal
<1>7. Total(f, S) = Total(f, Requests)
  BY <1>1, <1>2, TotalPart
<1> QED
  BY <1>3, <1>6, <1>7 DEF f

\* What a set of uploads holds on the bucket's row.
LEMMA UploadSum ==
  ASSUME FInv, NEW S \in SUBSET Uploads, S \subseteq WithRow
  PROVE  MapThenSumSet(HeldByUpload, S)
           = Total([x \in Uploads |-> IF x \in S THEN HeldByUpload(x) ELSE 0], Uploads)
<1> DEFINE f == [x \in Uploads |-> IF x \in S THEN HeldByUpload(x) ELSE 0]
           next(g) == [T \in SUBSET S |-> IF T = {} THEN 0
                        ELSE LET x == CHOOSE x \in T : TRUE IN HeldByUpload(x) + g[T \ {x}]]
           iter == CHOOSE g : g = next(g)
<1>1. IsFiniteSet(S) /\ IsFiniteSet(Uploads)
  BY FiniteAssumption, UploadsAssumption, FS_Subset
<1>2. /\ \A x \in S : f[x] = HeldByUpload(x) /\ f[x] \in Int
      /\ \A x \in Uploads \ S : f[x] = 0
  BY UploadAmounts
<1>3. MapThenSumSet(HeldByUpload, S) = iter[S]
  BY DEF MapThenSumSet, MapThenFoldSet
<1>4. \A g : TakesOneByOne(f, g, S) <=> g = next(g)
  <2> HIDE DEF f
  <2>1. \A T \in SUBSET S : T # {} => LET x == CHOOSE x \in T : TRUE IN f[x] = HeldByUpload(x)
    BY <1>2
  <2> QED
    BY <2>1 DEF TakesOneByOne
<1>5. (\E g : TakesOneByOne(f, g, S)) => TakesOneByOne(f, iter, S)
  <2> HIDE DEF f, next
  <2> QED
    BY <1>4
<1> HIDE DEF f, iter
<1>6. iter[S] = Total(f, S)
  BY <1>1, <1>2, <1>5, ChosenIsTotal
<1>7. Total(f, S) = Total(f, Uploads)
  BY <1>1, <1>2, TotalPart
<1> QED
  BY <1>3, <1>6, <1>7 DEF f

\* On the account's.
LEMMA UploadAccountSum ==
  ASSUME FInv, NEW S \in SUBSET Uploads, S \subseteq WithRow
  PROVE  MapThenSumSet(HeldByUploadOnAccount, S)
           = Total([x \in Uploads |-> IF x \in S THEN HeldByUploadOnAccount(x) ELSE 0], Uploads)
<1> DEFINE f == [x \in Uploads |-> IF x \in S THEN HeldByUploadOnAccount(x) ELSE 0]
           next(g) == [T \in SUBSET S |-> IF T = {} THEN 0
                        ELSE LET x == CHOOSE x \in T : TRUE IN HeldByUploadOnAccount(x) + g[T \ {x}]]
           iter == CHOOSE g : g = next(g)
<1>1. IsFiniteSet(S) /\ IsFiniteSet(Uploads)
  BY FiniteAssumption, UploadsAssumption, FS_Subset
<1>2. /\ \A x \in S : f[x] = HeldByUploadOnAccount(x) /\ f[x] \in Int
      /\ \A x \in Uploads \ S : f[x] = 0
  BY UploadAmounts
<1>3. MapThenSumSet(HeldByUploadOnAccount, S) = iter[S]
  BY DEF MapThenSumSet, MapThenFoldSet
<1>4. \A g : TakesOneByOne(f, g, S) <=> g = next(g)
  <2> HIDE DEF f
  <2>1. \A T \in SUBSET S : T # {} => LET x == CHOOSE x \in T : TRUE IN f[x] = HeldByUploadOnAccount(x)
    BY <1>2
  <2> QED
    BY <2>1 DEF TakesOneByOne
<1>5. (\E g : TakesOneByOne(f, g, S)) => TakesOneByOne(f, iter, S)
  <2> HIDE DEF f, next
  <2> QED
    BY <1>4
<1> HIDE DEF f, iter
<1>6. iter[S] = Total(f, S)
  BY <1>1, <1>2, <1>5, ChosenIsTotal
<1>7. Total(f, S) = Total(f, Uploads)
  BY <1>1, <1>2, TotalPart
<1> QED
  BY <1>3, <1>6, <1>7 DEF f

\* And what their rows say.
LEMMA HoldSum ==
  ASSUME FInv, NEW S \in SUBSET Uploads, S \subseteq WithRow
  PROVE  MapThenSumSet(HoldOn, S)
           = Total([x \in Uploads |-> IF x \in S THEN HoldOn(x) ELSE 0], Uploads)
<1> DEFINE f == [x \in Uploads |-> IF x \in S THEN HoldOn(x) ELSE 0]
           next(g) == [T \in SUBSET S |-> IF T = {} THEN 0
                        ELSE LET x == CHOOSE x \in T : TRUE IN HoldOn(x) + g[T \ {x}]]
           iter == CHOOSE g : g = next(g)
<1>1. IsFiniteSet(S) /\ IsFiniteSet(Uploads)
  BY FiniteAssumption, UploadsAssumption, FS_Subset
<1>2. /\ \A x \in S : f[x] = HoldOn(x) /\ f[x] \in Int
      /\ \A x \in Uploads \ S : f[x] = 0
  BY UploadAmounts
<1>3. MapThenSumSet(HoldOn, S) = iter[S]
  BY DEF MapThenSumSet, MapThenFoldSet
<1>4. \A g : TakesOneByOne(f, g, S) <=> g = next(g)
  <2> HIDE DEF f
  <2>1. \A T \in SUBSET S : T # {} => LET x == CHOOSE x \in T : TRUE IN f[x] = HoldOn(x)
    BY <1>2
  <2> QED
    BY <2>1 DEF TakesOneByOne
<1>5. (\E g : TakesOneByOne(f, g, S)) => TakesOneByOne(f, iter, S)
  <2> HIDE DEF f, next
  <2> QED
    BY <1>4
<1> HIDE DEF f, iter
<1>6. iter[S] = Total(f, S)
  BY <1>1, <1>2, <1>5, ChosenIsTotal
<1>7. Total(f, S) = Total(f, Uploads)
  BY <1>1, <1>2, TotalPart
<1> QED
  BY <1>3, <1>6, <1>7 DEF f

\* The requests in a bucket, and in an account's.
LEMMA ChargingAt ==
  ASSUME FInv, NEW r \in Requests
  PROVE  /\ \A b : r \in Charging(b) <=> (req[r].obj # Nowhere /\ Site("bucket", req[r].obj) = b)
         /\ \A u : r \in ChargingAny(BucketsOf(u)) <=>
                     (req[r].obj # Nowhere /\ Site("account", req[r].obj) = u)
<1>1. req[r].obj \in Object \cup {Nowhere}
  BY Here DEF AnyHandler, Handler
<1>2. \A b : r \in Charging(b) <=> (req[r].obj # Nowhere /\ BucketOf(req[r].obj) = b)
  BY DEF Charging
<1>3. req[r].obj # Nowhere => BucketOf(req[r].obj) \in Buckets
  BY <1>1, ItsBucket
<1>4. ASSUME NEW u
      PROVE  r \in ChargingAny(BucketsOf(u)) <=>
               (req[r].obj # Nowhere /\ Owner[BucketOf(req[r].obj)] = u)
  BY <1>2, <1>3 DEF ChargingAny, BucketsOf
<1> QED
  BY <1>2, <1>4 DEF Site

\* What requests hold on a bucket's row, and on an account's.
LEMMA RequestSums ==
  ASSUME FInv
  PROVE  /\ \A b : RequestHolds(b) = Total(Holds("bucket", b), Requests)
         /\ \A u : RequestHoldsOnAccount(u) = Total(Holds("account", u), Requests)
<1>1. IsFiniteSet(Requests)
  BY FiniteAssumption
<1>2. ASSUME NEW S \in SUBSET Requests, NEW l \in Levels, NEW x,
             \A r \in Requests : r \in S <=> (req[r].obj # Nowhere /\ Site(l, req[r].obj) = x)
      PROVE  /\ l = "bucket" => MapThenSumSet(HeldByBucket, S) + MapThenSumSet(HeldByPart, S)
                                  = Total(Holds(l, x), Requests)
             /\ l = "account" => MapThenSumSet(HeldByAccount, S) + MapThenSumSet(HeldByPart, S)
                                   = Total(Holds(l, x), Requests)
  <2> DEFINE e == [r \in Requests |-> IF r \in S THEN HeldByBucket(r) ELSE 0]
             a == [r \in Requests |-> IF r \in S THEN HeldByAccount(r) ELSE 0]
             f == [r \in Requests |-> IF r \in S THEN HeldByPart(r) ELSE 0]
             h == Holds(l, x)
  <2>1. /\ MapThenSumSet(HeldByBucket, S) = Total(e, Requests)
        /\ MapThenSumSet(HeldByAccount, S) = Total(a, Requests)
        /\ MapThenSumSet(HeldByPart, S) = Total(f, Requests)
    BY BucketSum, AccountSum, PartSum
  <2>2. \A r \in Requests : e[r] \in Int /\ a[r] \in Int /\ f[r] \in Int
    BY HandlerAmounts
  <2>3. /\ l = "bucket" => \A r \in Requests : h[r] = e[r] + f[r]
        /\ l = "account" => \A r \in Requests : h[r] = a[r] + f[r]
    BY <1>2 DEF Holds, HeldAt, Held
  <2> HIDE DEF e, a, f, h
  <2>4. /\ l = "bucket" => Total(h, Requests) = Total(e, Requests) + Total(f, Requests)
        /\ l = "account" => Total(h, Requests) = Total(a, Requests) + Total(f, Requests)
    BY <1>1, <2>2, <2>3, TotalPlus
  <2> QED
    BY <2>1, <2>4 DEF h
<1>3. ASSUME NEW b
      PROVE  RequestHolds(b) = Total(Holds("bucket", b), Requests)
  <2>1. Charging(b) \in SUBSET Requests
    BY DEF Charging
  <2>2. MapThenSumSet(HeldByBucket, Charging(b)) + MapThenSumSet(HeldByPart, Charging(b))
          = Total(Holds("bucket", b), Requests)
    BY <1>2, <2>1, ChargingAt DEF Levels
  <2> QED
    BY <2>2 DEF RequestHolds
<1>4. ASSUME NEW u
      PROVE  RequestHoldsOnAccount(u) = Total(Holds("account", u), Requests)
  <2>1. ChargingAny(BucketsOf(u)) \in SUBSET Requests
    BY DEF ChargingAny, Charging
  <2>2. MapThenSumSet(HeldByAccount, ChargingAny(BucketsOf(u)))
          + MapThenSumSet(HeldByPart, ChargingAny(BucketsOf(u)))
          = Total(Holds("account", u), Requests)
    BY <1>2, <2>1, ChargingAt DEF Levels
  <2> QED
    BY <2>2 DEF RequestHoldsOnAccount
<1> QED
  BY <1>3, <1>4

\* The uploads of a bucket, and of an account's.
LEMMA OpenAt ==
  ASSUME FInv
  PROVE  /\ \A b : /\ Open(b) \in SUBSET Uploads /\ Open(b) \subseteq WithRow
                   /\ \A v \in Uploads : v \in Open(b) <=>
                        (upload[v] # Absent /\ Site("bucket", upload[v].obj) = b)
         /\ \A u : /\ OpenAny(BucketsOf(u)) \in SUBSET Uploads
                   /\ OpenAny(BucketsOf(u)) \subseteq WithRow
                   /\ \A v \in Uploads : v \in OpenAny(BucketsOf(u)) <=>
                        (upload[v] # Absent /\ Site("account", upload[v].obj) = u)
         /\ \A b : OpenAny({b}) = Open(b)
<1>1. \A b : /\ Open(b) \in SUBSET Uploads /\ Open(b) \subseteq WithRow
             /\ \A v \in Uploads : v \in Open(b) <=>
                  (upload[v] # Absent /\ BucketOf(upload[v].obj) = b)
  BY DEF Open, WithRow
<1>2. \A v \in Uploads : upload[v] # Absent => BucketOf(upload[v].obj) \in Buckets
  BY UploadRow, ItsBucket DEF FInv
<1>3. ASSUME NEW u
      PROVE  /\ OpenAny(BucketsOf(u)) \in SUBSET Uploads
             /\ OpenAny(BucketsOf(u)) \subseteq WithRow
             /\ \A v \in Uploads : v \in OpenAny(BucketsOf(u)) <=>
                  (upload[v] # Absent /\ Owner[BucketOf(upload[v].obj)] = u)
  <2>1. OpenAny(BucketsOf(u)) \in SUBSET Uploads /\ OpenAny(BucketsOf(u)) \subseteq WithRow
    BY <1>1 DEF OpenAny
  <2>2. \A v \in Uploads : v \in OpenAny(BucketsOf(u)) <=>
          (upload[v] # Absent /\ Owner[BucketOf(upload[v].obj)] = u)
    BY <1>1, <1>2 DEF OpenAny, BucketsOf
  <2> QED
    BY <2>1, <2>2
<1>4. \A b : OpenAny({b}) = Open(b)
  BY DEF OpenAny
<1> QED
  BY <1>1, <1>3, <1>4 DEF Site

\* A request takes an upload's hold while it is at the calls that end the upload.
LEMMA EndingTakes ==
  ASSUME FInv, NEW v \in Uploads
  PROVE  /\ Ending(v) = {} <=> \A r \in Requests : ~Takes("bucket", r, v)
         /\ (\A r \in Ending(v) : call[r].at \in {"release_user", "commit_user"})
              <=> \A r \in Requests : ~Takes("account", r, v)
<1>1. \A r \in Requests : r \in Ending(v) <=> (On(r, v) /\ req[r].pc \in {"difference", "drop"})
  BY WorkSets DEF Ending
<1>2. \A r \in Requests : On(r, v) /\ req[r].pc \in {"difference", "drop"} => Through(r)
  <2>1. ASSUME NEW r \in Requests, On(r, v), req[r].pc \in {"difference", "drop"}
        PROVE  Through(r)
    <3>1. Placed(req[r], call[r], mp[r])
      BY Here
    <3> QED
      BY <2>1, <3>1 DEF Placed, OpAt, On, Through, Enders
  <2> QED
    BY <2>1
<1>3. \A r \in Requests : /\ Takes("bucket", r, v) <=> r \in Ending(v)
                          /\ Takes("account", r, v) <=>
                               (r \in Ending(v) /\ call[r].at \notin {"release_user", "commit_user"})
  BY <1>1, <1>2 DEF Takes, Spent
<1>4. Ending(v) \subseteq Requests
  BY DEF Ending, AtWorkOn
<1> QED
  BY <1>3, <1>4

\* What uploads hold on a bucket's row, and on an account's.
LEMMA UploadSums ==
  ASSUME FInv
  PROVE  /\ \A b : MapThenSumSet(HeldByUpload, Open(b))
                     = Total(Keepings("exact", "bucket", b), Uploads)
         /\ \A u : MapThenSumSet(HeldByUploadOnAccount, OpenAny(BucketsOf(u)))
                     = Total(Keepings("exact", "account", u), Uploads)
<1>1. IsFiniteSet(Uploads)
  BY UploadsAssumption
<1>2. \A v \in Uploads : /\ Keeps("exact", "bucket", v) <=> Ending(v) = {}
                         /\ Keeps("exact", "account", v) <=>
                              \A r \in Ending(v) : call[r].at \in {"release_user", "commit_user"}
  BY EndingTakes DEF Keeps
<1>3. ASSUME NEW b
      PROVE  MapThenSumSet(HeldByUpload, Open(b)) = Total(Keepings("exact", "bucket", b), Uploads)
  <2> DEFINE S == Open(b)
             f == [v \in Uploads |-> IF v \in S THEN HeldByUpload(v) ELSE 0]
             h == Keepings("exact", "bucket", b)
  <2>1. /\ S \in SUBSET Uploads /\ S \subseteq WithRow
        /\ \A v \in Uploads : v \in S <=>
             (upload[v] # Absent /\ Site("bucket", upload[v].obj) = b)
    BY OpenAt
  <2> HIDE DEF S
  <2>2. MapThenSumSet(HeldByUpload, S) = Total(f, Uploads)
    BY <2>1, UploadSum
  <2>3. \A v \in Uploads : f[v] \in Int
    BY <2>1, UploadAmounts
  <2>4. \A v \in Uploads : h[v] = f[v]
    BY <1>2, <2>1 DEF Keepings, Kept, HeldByUpload
  <2> HIDE DEF f, h
  <2>5. Total(h, Uploads) = Total(f, Uploads)
    BY <1>1, <2>3, <2>4, TotalSame
  <2> QED
    BY <2>2, <2>5 DEF S, h
<1>4. ASSUME NEW u
      PROVE  MapThenSumSet(HeldByUploadOnAccount, OpenAny(BucketsOf(u)))
               = Total(Keepings("exact", "account", u), Uploads)
  <2> DEFINE S == OpenAny(BucketsOf(u))
             f == [v \in Uploads |-> IF v \in S THEN HeldByUploadOnAccount(v) ELSE 0]
             h == Keepings("exact", "account", u)
  <2>1. /\ S \in SUBSET Uploads /\ S \subseteq WithRow
        /\ \A v \in Uploads : v \in S <=>
             (upload[v] # Absent /\ Site("account", upload[v].obj) = u)
    BY OpenAt
  <2> HIDE DEF S
  <2>2. MapThenSumSet(HeldByUploadOnAccount, S) = Total(f, Uploads)
    BY <2>1, UploadAccountSum
  <2>3. \A v \in Uploads : f[v] \in Int
    BY <2>1, UploadAmounts
  <2>4. \A v \in Uploads : h[v] = f[v]
    BY <1>2, <2>1 DEF Keepings, Kept, HeldByUploadOnAccount
  <2> HIDE DEF f, h
  <2>5. Total(h, Uploads) = Total(f, Uploads)
    BY <1>1, <2>3, <2>4, TotalSame
  <2> QED
    BY <2>2, <2>5 DEF S, h
<1> QED
  BY <1>3, <1>4

\* What the uploads that the store has parts of are to have there.
LEMMA StoredSums ==
  ASSUME FInv, NEW l \in Levels, NEW x, NEW S \in SUBSET Uploads, S \subseteq WithRow,
         \A v \in S : parts[v] # Absent /\ Site(l, upload[v].obj) = x
  PROVE  /\ MapThenSumSet(HoldOn, S) <= Total(Keepings("low", l, x), Uploads)
         /\ MapThenSumSet(HoldOn, S) \in Int /\ Total(Keepings("low", l, x), Uploads) \in Int
<1> DEFINE f == [v \in Uploads |-> IF v \in S THEN HoldOn(v) ELSE 0]
           h == Keepings("low", l, x)
<1>1. IsFiniteSet(Uploads)
  BY UploadsAssumption
<1>2. MapThenSumSet(HoldOn, S) = Total(f, Uploads)
  BY HoldSum
<1>3. \A v \in Uploads : f[v] \in Int /\ h[v] \in Nat /\ h[v] \in Int
  BY UploadAmounts, Typed DEF Keepings
<1>4. \A v \in Uploads : f[v] <= h[v]
  <2>1. ASSUME NEW v \in S
        PROVE  h[v] = HoldOn(v) /\ f[v] = HoldOn(v)
    BY <2>1 DEF Keepings, Kept, Keeps, HoldOn, WithRow
  <2>2. ASSUME NEW v \in Uploads \ S
        PROVE  f[v] = 0
    OBVIOUS
  <2> HIDE DEF f, h
  <2> QED
    BY <1>3, <2>1, <2>2
<1> HIDE DEF f, h
<1>5. Total(f, Uploads) <= Total(h, Uploads)
  BY <1>1, <1>3, <1>4, TotalMono
<1>6. Total(f, Uploads) \in Int /\ Total(h, Uploads) \in Int
  BY <1>1, <1>3, TotalTake
<1> QED
  BY <1>2, <1>5, <1>6 DEF h

----------------------------------------------------------------------------
(* The properties. *)

\* While nothing is lost the reserved columns are what requests in flight and open uploads
\* hold: whatever the parts, and whoever ends an upload, as long as clients do not end one
\* they still send parts of nor write its key meanwhile.
THEOREM MultipartHoldsAccounted == SerialKeys => (Spec => []UploadHoldsAccounted)
<1> SUFFICES ASSUME SerialKeys PROVE Spec => []UploadHoldsAccounted
  OBVIOUS
<1>1. Init => HInv
  BY HInvInit
<1>2. HInv /\ [Next]_vars => HInv'
  BY HInvKept
<1>3. HInv => UploadHoldsAccounted
  <2> SUFFICES ASSUME HInv, faults = 0
               PROVE  /\ \A b \in Buckets : bucket[b].reserved
                           = RequestHolds(b) + MapThenSumSet(HeldByUpload, Open(b))
                      /\ \A u \in Users : account[u].reserved = RequestHoldsOnAccount(u)
                           + MapThenSumSet(HeldByUploadOnAccount, OpenAny(BucketsOf(u)))
    BY DEF UploadHoldsAccounted
  <2>1. FInv /\ HoldsOK /\ Counts("exact") /\ "exact" \in Kinds
    BY DEF HInv, Counts, Kinds
  <2>2. /\ \A b \in Buckets :
             bucket[b].reserved = Total(Holds("bucket", b), Requests)
                                    + Total(Keepings("exact", "bucket", b), Uploads)
        /\ \A u \in Users :
             account[u].reserved = Total(Holds("account", u), Requests)
                                     + Total(Keepings("exact", "account", u), Uploads)
    BY <2>1 DEF HoldsOK, Bears, Levels, Sites, Reserved
  <2> QED
    BY <2>1, <2>2, RequestSums, UploadSums
<1> QED
  BY <1>1, <1>2, <1>3, PTL DEF Spec

\* Whatever is lost, the rows have the holds of the requests in flight and of the uploads
\* whose parts the store still has: of the requests that end an upload it lets one through,
\* and only that one takes the hold.
THEOREM MultipartHoldsKept == SerialKeys => (Spec => []OpenHoldsKept)
<1> SUFFICES ASSUME SerialKeys PROVE Spec => []OpenHoldsKept
  OBVIOUS
<1>1. Init => HInv
  BY HInvInit
<1>2. HInv /\ [Next]_vars => HInv'
  BY HInvKept
<1>3. HInv => OpenHoldsKept
  <2> SUFFICES ASSUME HInv PROVE OpenHoldsKept
    OBVIOUS
  <2>1. FInv /\ HoldsOK /\ Counts("low") /\ "low" \in Kinds
    BY DEF HInv, Counts, Kinds
  <2> DEFINE stored(B) == {u \in OpenAny(B) : parts[u] # Absent}
  <2>2. ASSUME NEW b \in Buckets
        PROVE  bucket[b].reserved >= RequestHolds(b) + MapThenSumSet(HoldOn, stored({b}))
    <3> DEFINE S == stored({b})
    <3>1. /\ S \in SUBSET Uploads /\ S \subseteq WithRow
          /\ \A v \in S : parts[v] # Absent /\ Site("bucket", upload[v].obj) = b
      <4>1. /\ Open(b) \in SUBSET Uploads /\ Open(b) \subseteq WithRow
            /\ \A v \in Uploads : v \in Open(b) <=>
                 (upload[v] # Absent /\ Site("bucket", upload[v].obj) = b)
        BY <2>1, OpenAt
      <4>2. OpenAny({b}) = Open(b)
        BY <2>1, OpenAt
      <4>3. S = {u \in Open(b) : parts[u] # Absent}
        BY <4>2
      <4> HIDE DEF S
      <4> QED
        BY <4>1, <4>3
    <3>2. bucket[b].reserved >= Total(Holds("bucket", b), Requests)
                                  + Total(Keepings("low", "bucket", b), Uploads)
      BY <2>1 DEF HoldsOK, Bears, Levels, Sites, Reserved
    <3> HIDE DEF S
    <3>3. /\ MapThenSumSet(HoldOn, S) <= Total(Keepings("low", "bucket", b), Uploads)
          /\ MapThenSumSet(HoldOn, S) \in Int
          /\ Total(Keepings("low", "bucket", b), Uploads) \in Int
      BY <2>1, <3>1, StoredSums DEF Levels
    <3>4. bucket[b].reserved \in Int /\ Total(Holds("bucket", b), Requests) \in Int
      <4>1. bucket[b].reserved \in Int
        BY <2>1 DEF FInv, TypeOK, QuotaTypeOK, BucketColumns
      <4>2. \A r \in Requests : Holds("bucket", b)[r] \in Int
        BY <2>1, HeldIs DEF Holds, HeldAt, Levels
      <4> QED
        BY <4>1, <4>2, FiniteAssumption, TotalTake
    <3>5. RequestHolds(b) = Total(Holds("bucket", b), Requests)
      BY <2>1, RequestSums
    <3>6. bucket[b].reserved >= RequestHolds(b) + MapThenSumSet(HoldOn, S)
      BY <3>2, <3>3, <3>4, <3>5
    <3> QED
      BY <3>6 DEF S
  <2>3. ASSUME NEW a \in Users
        PROVE  account[a].reserved >=
                 RequestHoldsOnAccount(a) + MapThenSumSet(HoldOn, stored(BucketsOf(a)))
    <3> DEFINE S == stored(BucketsOf(a))
    <3>1. /\ S \in SUBSET Uploads /\ S \subseteq WithRow
          /\ \A v \in S : parts[v] # Absent /\ Site("account", upload[v].obj) = a
      BY <2>1, OpenAt
    <3>2. account[a].reserved >= Total(Holds("account", a), Requests)
                                   + Total(Keepings("low", "account", a), Uploads)
      BY <2>1 DEF HoldsOK, Bears, Levels, Sites, Reserved
    <3> HIDE DEF S
    <3>3. /\ MapThenSumSet(HoldOn, S) <= Total(Keepings("low", "account", a), Uploads)
          /\ MapThenSumSet(HoldOn, S) \in Int
          /\ Total(Keepings("low", "account", a), Uploads) \in Int
      BY <2>1, <3>1, StoredSums DEF Levels
    <3>4. account[a].reserved \in Int /\ Total(Holds("account", a), Requests) \in Int
      <4>1. account[a].reserved \in Int
        BY <2>1 DEF FInv, TypeOK, QuotaTypeOK, AccountColumns
      <4>2. \A r \in Requests : Holds("account", a)[r] \in Int
        BY <2>1, HeldIs DEF Holds, HeldAt, Levels
      <4> QED
        BY <4>1, <4>2, FiniteAssumption, TotalTake
    <3>5. RequestHoldsOnAccount(a) = Total(Holds("account", a), Requests)
      BY <2>1, RequestSums
    <3>6. account[a].reserved >= RequestHoldsOnAccount(a) + MapThenSumSet(HoldOn, S)
      BY <3>2, <3>3, <3>4, <3>5
    <3> QED
      BY <3>6 DEF S
  <2> HIDE DEF stored
  <2> QED
    BY <2>2, <2>3 DEF OpenHoldsKept, HoldOn, stored
<1> QED
  BY <1>1, <1>2, <1>3, PTL DEF Spec
=============================================================================
