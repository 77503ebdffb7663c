-------------------------- MODULE Accounting_proofs --------------------------
(* The object handlers are callers quota.rs expects: they implement its    *)
(* open protocol, so what Quota_proofs shows of that protocol holds of     *)
(* them.  And the counters add up: what is reserved is what the requests   *)
(* in flight hold, what is used is what the object rows say less what is   *)
(* still owed, and the store has nothing beyond it.  The reconcile task    *)
(* beside them is one more such caller, and repairs what has drifted.      *)
(* For every set of buckets, keys and requests and every size.             *)
EXTENDS Reconcile, Quota_proofs, Sums

----------------------------------------------------------------------------
(* The invariant: a handler about to call a quota procedure has an object  *)
(* to name the bucket, and an amount the procedure takes.                  *)

Contents == Sizes \cup {0}

Pcs == Resting \cup WritePcs \cup DeletePcs

\* The size of an object, or of none.
LEMMA ContentsAreSizes == Contents \subseteq Nat
<1>1. 0 \in Nat
  OBVIOUS
<1> QED
  BY <1>1, SizesAssumption DEF Contents

\* Where a handler is at work on one object.
AtObject == WritePcs \cup {"remove", "credit", "credited"}

HandlerOK(h) ==
  /\ h \in Handler(ObjectOps, Pcs)
  /\ h.size \in Contents
  /\ IF h.delta > 0 THEN h.delta \in Bytes ELSE h.delta \in Deltas
  /\ h.op = "copy" => h.src \in Object
  /\ h.pc \in AtObject => h.obj \in Object
  /\ h.pc \in {"reserve", "release"} => h.delta > 0

HandlersOK ==
  /\ req = [r \in Requests |-> req[r]]
  /\ \A r \in Requests : HandlerOK(req[r])

RowsOK == row \in [Object -> Contents \cup {Absent}]

StoreOK ==
  /\ blob \in [Object -> Contents \cup {Absent}]
  /\ faults \in 0 .. MaxFaults

OInv == IInv /\ HandlersOK /\ RowsOK /\ StoreOK

\* What a step does to the quota tables.
QuotaMove == RequestNext \/ UNCHANGED qvars

----------------------------------------------------------------------------
(* Steps of one handler. *)

\* A handler replaced by a well-formed one.
LEMMA HandlerUpdate ==
  ASSUME HandlersOK, NEW r \in Requests, NEW h, HandlerOK(h),
         req' = [req EXCEPT ![r] = h]
  PROVE  HandlersOK'
<1>1. \A q \in Requests : req'[q] = req[q] \/ req'[q] = h
  BY DEF HandlersOK
<1>2. \A q \in Requests : HandlerOK(req'[q])
  BY <1>1 DEF HandlersOK
<1>3. req' = [q \in Requests |-> req'[q]]
  BY DEF HandlersOK
<1> QED
  BY <1>2, <1>3 DEF HandlersOK, HandlerOK

\* A handler that moves on with its object and its amount.
LEMMA HandlerGoes ==
  ASSUME HandlersOK, NEW r \in Requests, NEW pc \in Pcs,
         pc \in AtObject => req[r].pc \in AtObject,
         pc \in {"reserve", "release"} => req[r].delta > 0,
         Goes(r, pc)
  PROVE  HandlersOK'
<1> DEFINE h == [req[r] EXCEPT !.pc = pc]
<1>1. HandlerOK(req[r])
  BY DEF HandlersOK
<1>2. h \in Handler(ObjectOps, Pcs)
  BY <1>1 DEF HandlerOK, Handler
<1>3. /\ h.size = req[r].size /\ h.delta = req[r].delta /\ h.op = req[r].op
      /\ h.src = req[r].src /\ h.obj = req[r].obj /\ h.pc = pc
  BY <1>1 DEF HandlerOK, Handler
<1>4. req' = [req EXCEPT ![r] = h]
  BY DEF Goes
<1> HIDE DEF h
<1>5. HandlerOK(h)
  BY <1>1, <1>2, <1>3 DEF HandlerOK
<1> QED
  BY <1>4, <1>5, HandlerUpdate

\* Giving up is a move on: to the release only if there is a hold.
LEMMA HandlerGivesUp ==
  ASSUME HandlersOK, NEW r \in Requests, req[r].pc \in AtObject, GiveUp(r)
  PROVE  HandlersOK'
<1>1. CASE req[r].delta > 0
  BY <1>1, HandlerGoes DEF GiveUp, Pcs, WritePcs
<1>2. CASE ~(req[r].delta > 0)
  BY <1>2, HandlerGoes DEF GiveUp, Pcs, Resting, AtObject, WritePcs
<1> QED
  BY <1>1, <1>2

\* begin_put: the amount is a difference of two sizes.
LEMMA PutBegins ==
  ASSUME AmountsCovered, HandlersOK, RowsOK, NEW r \in Requests, NEW h,
         HandlerOK(h), h.obj \in Object, BeginPut(r, h)
  PROVE  HandlersOK'
<1> DEFINE delta == h.size - Stored(row[h.obj])
           pc == IF delta > 0 THEN "reserve" ELSE "send"
           new == IF row[h.obj] = Absent THEN 1 ELSE 0
           g == [h EXCEPT !.pc = pc, !.delta = delta, !.new = new]
<1>1. h.size \in Contents /\ Stored(row[h.obj]) \in Contents
  BY DEF HandlerOK, RowsOK, Stored, Contents
<1>2. /\ delta \in Int
      /\ IF delta > 0 THEN delta \in Bytes ELSE delta \in Deltas
  <2> DEFINE old == Stored(row[h.obj])
  <2> HIDE DEF old
  <2>1. h.size \in Contents /\ old \in Contents
    BY <1>1 DEF old
  <2>2. h.size \in Nat /\ old \in Nat
    BY <2>1, ContentsAreSizes
  <2>3. IF h.size > old THEN h.size - old \in Bytes ELSE h.size - old \in Deltas
    BY <2>1 DEF AmountsCovered, Contents
  <2>4. delta = h.size - old
    BY DEF old
  <2> HIDE DEF delta
  <2> QED
    BY <2>2, <2>3, <2>4
<1>3. pc \in Pcs /\ new \in {0, 1} /\ (pc = "reserve" => delta > 0) /\ pc # "release"
  BY DEF Pcs, WritePcs
<1>4. req' = [req EXCEPT ![r] = g]
  BY DEF BeginPut
<1> HIDE DEF delta, pc, new
<1>5. g \in Handler(ObjectOps, Pcs)
  BY <1>2, <1>3 DEF HandlerOK, Handler
<1>6. /\ g.size = h.size /\ g.delta = delta /\ g.op = h.op
      /\ g.src = h.src /\ g.obj = h.obj /\ g.pc = pc
  BY DEF HandlerOK, Handler
<1> HIDE DEF g
<1>7. HandlerOK(g)
  BY <1>2, <1>3, <1>5, <1>6 DEF HandlerOK
<1> QED
  BY <1>4, <1>7, HandlerUpdate

----------------------------------------------------------------------------
(* The quota procedures a handler calls are calls of the open protocol.    *)

\* With an object to name the bucket and an amount the procedure takes.
LEMMA CallAdmitted ==
  ASSUME AmountsCovered, NEW r \in Requests, NEW o \in Object, NEW n, NEW d \in {0, 1},
         \/ n \in Bytes /\ (Reserve(r, BucketOf(o), n) \/ Release(r, BucketOf(o), n)
                           \/ Credit(r, BucketOf(o), n) \/ Commit(r, BucketOf(o), n, d))
         \/ n \in Deltas /\ Settle(r, BucketOf(o), n, d)
  PROVE  RequestNext
<1> DEFINE b == BucketOf(o)
<1>1. b \in Buckets
  BY DEF BucketOf, Object
<1>2. Countable(b)
  BY DEF AmountsCovered, Countable
<1> HIDE DEF b
<1>3. CallQuota(r)
  <2>1. CASE n \in Bytes /\ (Reserve(r, b, n) \/ Release(r, b, n) \/ Credit(r, b, n))
    BY <1>1, <2>1 DEF CallQuota
  <2>2. CASE n \in Bytes /\ Commit(r, b, n, d)
    BY <1>1, <1>2, <2>2 DEF CallQuota
  <2>3. CASE n \in Deltas /\ Settle(r, b, n, d)
    BY <1>1, <1>2, <2>3 DEF CallQuota
  <2> QED
    BY <2>1, <2>2, <2>3 DEF b
<1> QED
  BY <1>3 DEF RequestNext

\* Losing the call a handler is in, if it is in one, is one too.
LEMMA CallLost ==
  ASSUME IInv, NEW r \in Requests, call' = [call EXCEPT ![r] = NoCall],
         UNCHANGED <<live, bucket, account>>
  PROVE  QuotaMove
<1>1. CASE call[r] = NoCall
  BY <1>1 DEF IInv, QuotaTypeOK, QuotaMove, qvars
<1>2. CASE call[r] # NoCall
  BY <1>2 DEF Drop, RequestNext, QuotaMove
<1> QED
  BY <1>1, <1>2

----------------------------------------------------------------------------
(* What each action of a handler does to the tables, the rows, the store    *)
(* and the handler.                                                        *)

ObjectsMove == QuotaMove /\ HandlersOK' /\ RowsOK' /\ StoreOK'

\* A fault, like no fault, keeps the count of faults within its bound.
LEMMA FaultsBounded ==
  ASSUME StoreOK, Fault
  PROVE  faults' \in 0 .. MaxFaults
  BY MaxFaultsAssumption DEF StoreOK, Fault

\* NoHandler, and a delete's handler, are well formed.
LEMMA NewHandlers ==
  ASSUME AmountsCovered
  PROVE  /\ HandlerOK(NoHandler)
         /\ \A objs \in SUBSET Object :
              /\ HandlerOK(DeleteHandler("delete", objs))
              /\ HandlerOK(DeleteHandler("batch", objs))
<1>1. /\ \A m \in Contents : m \in Nat
      /\ 0 \in Contents /\ 0 \in Deltas
  <2>1. 0 \in Sizes \cup {0} /\ ~(0 > 0) /\ 0 - 0 = 0
    OBVIOUS
  <2>2. 0 \in Deltas
    BY <2>1 DEF AmountsCovered
  <2> QED
    BY <2>2, ContentsAreSizes DEF Contents
<1>2. HandlerOK(NoHandler)
  BY <1>1 DEF HandlerOK, Handler, NoHandler, Pcs, Resting, WritePcs, AtObject, ObjectOps
<1>3. ASSUME NEW objs \in SUBSET Object, NEW op \in {"delete", "batch"}
      PROVE  HandlerOK(DeleteHandler(op, objs))
  <2> DEFINE h == DeleteHandler(op, objs)
  <2>1. /\ h.op = op /\ h.pc = "find" /\ h.size = 0 /\ h.delta = 0
        /\ h \in Handler(ObjectOps, Pcs)
    BY <1>2 DEF DeleteHandler, NoHandler, HandlerOK, Handler, ObjectOps, Pcs, DeletePcs
  <2> HIDE DEF h
  <2>2. HandlerOK(h)
    BY <1>1, <2>1 DEF HandlerOK, AtObject, WritePcs
  <2> QED
    BY <2>2 DEF h
<1> QED
  BY <1>2, <1>3

\* The steps that start a request.
LEMMA StartMoves ==
  ASSUME AmountsCovered, OInv, NEW r \in Requests, Start(r)
  PROVE  ObjectsMove
<1> USE DEF OInv, QuotaMove, ObjectsMove
<1>1. ASSUME NEW o \in Object, NEW n \in Sizes, StartPut(r, o, n)
      PROVE  ObjectsMove
  <2> DEFINE h == [NoHandler EXCEPT !.op = "put", !.obj = o, !.size = n]
  <2>1. HandlerOK(h) /\ h.obj \in Object
    BY NewHandlers, SizesAssumption
       DEF HandlerOK, Handler, NoHandler, Contents, ObjectOps
  <2>2. BeginPut(r, h)
    BY <1>1 DEF StartPut
  <2> HIDE DEF h
  <2>3. HandlersOK'
    BY <2>1, <2>2, PutBegins
  <2> QED
    BY <1>1, <2>3 DEF StartPut, RowsOK, StoreOK
<1>2. ASSUME NEW s \in Object, NEW o \in Object, StartCopy(r, s, o)
      PROVE  ObjectsMove
  <2> DEFINE h == [NoHandler EXCEPT !.op = "copy", !.pc = "begin", !.obj = o, !.src = s,
                                    !.size = row[s]]
  <2>1. row[s] \in Contents /\ row[s] \in Nat
    BY <1>2, ContentsAreSizes DEF StartCopy, RowsOK
  <2>2. HandlerOK(h)
    BY <2>1, NewHandlers
       DEF HandlerOK, Handler, NoHandler, ObjectOps, Pcs, WritePcs, AtObject
  <2>3. req' = [req EXCEPT ![r] = h]
    BY <1>2 DEF StartCopy
  <2> HIDE DEF h
  <2>4. HandlersOK'
    BY <2>2, <2>3, HandlerUpdate
  <2> QED
    BY <1>2, <2>4 DEF StartCopy, RowsOK, StoreOK
<1>3. ASSUME NEW objs \in SUBSET Object
      PROVE  Erase(objs) \in [Object -> Contents \cup {Absent}]
  BY DEF Erase, StoreOK
<1>4. ASSUME Goes(r, "err")
      PROVE  HandlersOK'
  BY <1>4, HandlerGoes DEF Pcs, Resting, AtObject, WritePcs
<1>5. ASSUME NEW o \in Object, StartDelete(r, o)
      PROVE  ObjectsMove
  <2>1. HandlersOK'
    <3>1. CASE Goes(r, "err")
      BY <3>1, <1>4
    <3>2. CASE req' = [req EXCEPT ![r] = DeleteHandler("delete", {o})]
      BY <3>2, NewHandlers, HandlerUpdate
    <3> QED
      BY <1>5, <3>1, <3>2 DEF StartDelete
  <2>2. blob' = Erase({o})
    BY <1>5 DEF StartDelete, Answered, AnswerLost
  <2>3. StoreOK'
    BY <1>3, <1>5, <2>2, FaultsBounded DEF StartDelete, Answered, AnswerLost, StoreOK
  <2> QED
    BY <1>5, <2>1, <2>3 DEF StartDelete, RowsOK
<1>6. ASSUME NEW b \in Buckets, NEW objs \in SUBSET ObjectsOf(b), StartBatch(r, b, objs)
      PROVE  ObjectsMove
  <2>1. objs \in SUBSET Object
    BY DEF ObjectsOf
  <2>2. HandlersOK'
    <3>1. CASE Goes(r, "err")
      BY <3>1, <1>4
    <3>2. CASE req' = [req EXCEPT ![r] = DeleteHandler("batch", objs)]
      BY <2>1, <3>2, NewHandlers, HandlerUpdate
    <3> QED
      BY <1>6, <3>1, <3>2 DEF StartBatch
  <2>3. \E gone \in SUBSET objs : blob' = Erase(gone)
    BY <1>6 DEF StartBatch, Answered, AnswerLost
  <2>4. blob' \in [Object -> Contents \cup {Absent}]
    BY <1>3, <2>1, <2>3
  <2>5. StoreOK'
    BY <1>6, <2>4, FaultsBounded DEF StartBatch, Answered, AnswerLost, StoreOK
  <2> QED
    BY <1>6, <2>2, <2>5 DEF StartBatch, RowsOK
<1> QED
  BY <1>1, <1>2, <1>5, <1>6 DEF Start

\* The steps of a write up to the store's answer.
LEMMA AdmissionMoves ==
  ASSUME AmountsCovered, OInv, NEW r \in Requests,
         CopyBegin(r) \/ CallReserve(r) \/ RefuseWrite(r)
  PROVE  ObjectsMove
<1> USE DEF OInv, QuotaMove, ObjectsMove
<1>1. HandlerOK(req[r])
  BY DEF HandlersOK
<1>2. CASE CopyBegin(r)
  <2>1. req[r].obj \in Object
    BY <1>1, <1>2 DEF CopyBegin, At, HandlerOK, AtObject, WritePcs
  <2>2. HandlersOK'
    BY <1>1, <1>2, <2>1, PutBegins DEF CopyBegin
  <2> QED
    BY <1>2, <2>2 DEF CopyBegin, RowsOK, StoreOK
<1>3. CASE CallReserve(r)
  <2>1. req[r].obj \in Object /\ req[r].delta \in Bytes
    BY <1>1, <1>3 DEF CallReserve, At, HandlerOK, AtObject, WritePcs
  <2>2. RequestNext
    BY <1>3, <2>1, CallAdmitted DEF CallReserve
  <2>3. HandlersOK'
    BY <1>3, HandlerGoes DEF CallReserve, At, Pcs, AtObject, WritePcs
  <2> QED
    BY <1>3, <2>2, <2>3 DEF CallReserve, RowsOK, StoreOK
<1>4. CASE RefuseWrite(r)
  <2>1. HandlersOK'
    BY <1>4, HandlerGoes DEF RefuseWrite, Pcs, Resting, AtObject, WritePcs
  <2>2. RequestNext
    BY <1>4 DEF RefuseWrite, RequestNext
  <2> QED
    BY <1>4, <2>1, <2>2 DEF RefuseWrite, RowsOK, StoreOK
<1> QED
  BY <1>2, <1>3, <1>4

\* The write goes to the store.
LEMMA SendMoves ==
  ASSUME OInv, NEW r \in Requests, SendWrite(r)
  PROVE  ObjectsMove
<1> USE DEF OInv, QuotaMove, ObjectsMove
<1>1. HandlerOK(req[r]) /\ req[r].pc \in AtObject
  BY DEF HandlersOK, SendWrite, Admitted, At, AtObject, WritePcs
<1>2. AfterWrite(r) \in [Object -> Contents \cup {Absent}]
  <2>1. CASE req[r].op = "copy"
    <3>1. blob[req[r].src] \in Contents \cup {Absent}
      BY <1>1, <2>1 DEF HandlerOK, StoreOK
    <3> QED
      BY <2>1, <3>1 DEF AfterWrite, StoreOK
  <2>2. CASE req[r].op # "copy"
    BY <1>1, <2>2 DEF AfterWrite, StoreOK, HandlerOK
  <2> QED
    BY <2>1, <2>2
<1>3. StoreOK'
  <2>1. /\ blob' \in {blob, AfterWrite(r)}
        /\ Fault \/ UNCHANGED faults
    BY DEF SendWrite, Answered, Refused, AnswerLost
  <2> QED
    BY <1>2, <2>1, FaultsBounded DEF StoreOK
<1>4. HandlersOK'
  <2>1. CASE GiveUp(r)
    BY <1>1, <2>1, HandlerGivesUp
  <2>2. CASE Goes(r, "update")
    BY <1>1, <2>2, HandlerGoes DEF Pcs, WritePcs
  <2> QED
    BY <2>1, <2>2 DEF SendWrite
<1> QED
  BY <1>3, <1>4 DEF SendWrite, RowsOK

\* The upsert of the object row.
LEMMA RowMoves ==
  ASSUME OInv, NEW r \in Requests,
         UpdateRow(r) \/ RereadRow(r) \/ InsertRow(r) \/ WriteRowFails(r)
  PROVE  ObjectsMove
<1> USE DEF OInv, QuotaMove, ObjectsMove
<1>1. HandlerOK(req[r]) /\ req[r].pc \in AtObject
  BY DEF HandlersOK, UpdateRow, RereadRow, InsertRow, WriteRowFails, At, AtObject, WritePcs
<1>2. ASSUME NEW pc \in {"reread", "insert", "account"}, Goes(r, pc)
      PROVE  HandlersOK'
  BY <1>1, <1>2, HandlerGoes DEF Pcs, WritePcs
<1>3. ASSUME GiveUp(r)
      PROVE  HandlersOK'
  BY <1>1, <1>3, HandlerGivesUp
<1>4. [row EXCEPT ![req[r].obj] = req[r].size] \in [Object -> Contents \cup {Absent}]
  BY <1>1 DEF RowsOK, HandlerOK
<1>5. CASE UpdateRow(r)
  BY <1>2, <1>4, <1>5 DEF UpdateRow, RowsOK, StoreOK
<1>6. CASE RereadRow(r)
  BY <1>2, <1>3, <1>6 DEF RereadRow, RowsOK, StoreOK
<1>7. ASSUME InsertFails(r)
      PROVE  HandlersOK'
  <2>1. CASE req' = [req EXCEPT ![r].pc = "update", ![r].again = TRUE]
    <3> DEFINE h == [req[r] EXCEPT !.pc = "update", !.again = TRUE]
    <3>1. HandlerOK(h)
      BY <1>1 DEF HandlerOK, Handler, Pcs, WritePcs
    <3>2. req' = [req EXCEPT ![r] = h]
      BY <2>1
    <3> HIDE DEF h
    <3> QED
      BY <3>1, <3>2, HandlerUpdate
  <2> QED
    BY <1>3, <1>7, <2>1 DEF InsertFails
<1>8. CASE InsertRow(r)
  <2>1. HandlersOK'
    BY <1>2, <1>7, <1>8 DEF InsertRow
  <2> QED
    BY <1>4, <1>8, <2>1 DEF InsertRow, RowsOK, StoreOK
<1>9. CASE WriteRowFails(r)
  BY <1>3, <1>7, <1>9, FaultsBounded DEF WriteRowFails, RowsOK, StoreOK
<1> QED
  BY <1>5, <1>6, <1>8, <1>9

\* The accounting of a write and its answer.
LEMMA AccountMoves ==
  ASSUME AmountsCovered, OInv, NEW r \in Requests,
         Account(r) \/ GiveBack(r) \/ AnswerWrite(r)
  PROVE  ObjectsMove
<1> USE DEF OInv, QuotaMove, ObjectsMove
<1>1. HandlerOK(req[r]) /\ req[r].new \in {0, 1}
  BY DEF HandlersOK, HandlerOK, Handler
<1>2. CASE Account(r)
  <2>1. req[r].obj \in Object
    BY <1>1, <1>2 DEF Account, At, HandlerOK, AtObject, WritePcs
  <2>2. RequestNext
    <3>1. CASE req[r].delta > 0
      BY <1>1, <1>2, <2>1, <3>1, CallAdmitted DEF Account, HandlerOK
    <3>2. CASE ~(req[r].delta > 0)
      BY <1>1, <1>2, <2>1, <3>2, CallAdmitted DEF Account, HandlerOK
    <3> QED
      BY <3>1, <3>2
  <2>3. HandlersOK'
    BY <1>2, HandlerGoes DEF Account, At, Pcs, AtObject, WritePcs
  <2> QED
    BY <1>2, <2>2, <2>3 DEF Account, RowsOK, StoreOK
<1>3. CASE GiveBack(r)
  <2>1. req[r].obj \in Object /\ req[r].delta \in Bytes
    BY <1>1, <1>3 DEF GiveBack, At, HandlerOK, AtObject, WritePcs
  <2>2. RequestNext
    BY <1>3, <2>1, CallAdmitted DEF GiveBack
  <2>3. HandlersOK'
    BY <1>3, HandlerGoes DEF GiveBack, At, Pcs, AtObject, WritePcs
  <2> QED
    BY <1>3, <2>2, <2>3 DEF GiveBack, RowsOK, StoreOK
<1>4. CASE AnswerWrite(r)
  <2>1. HandlersOK'
    BY <1>4, HandlerGoes DEF AnswerWrite, Pcs, Resting, AtObject, WritePcs
  <2>2. RequestNext
    BY <1>4 DEF AnswerWrite, RequestNext
  <2> QED
    BY <1>4, <2>1, <2>2 DEF AnswerWrite, RowsOK, StoreOK
<1> QED
  BY <1>2, <1>3, <1>4

\* On to the next key of a delete.
LEMMA NextKeyMove ==
  ASSUME AmountsCovered, HandlersOK, NEW r \in Requests, NEW o, NextKey(r, req[r], o)
  PROVE  HandlersOK'
<1> DEFINE pc == IF req[r].keys \ {o} = {} THEN "ok" ELSE "find"
           h == [req[r] EXCEPT !.keys = @ \ {o}, !.obj = Nowhere, !.size = 0, !.pc = pc]
<1>1. HandlerOK(req[r])
  BY DEF HandlersOK
<1>2. pc \in {"ok", "find"}
  OBVIOUS
<1>3. req' = [req EXCEPT ![r] = h]
  BY DEF NextKey
<1>4. 0 \in Contents
  BY DEF Contents
<1> HIDE DEF pc
<1>5. h \in Handler(ObjectOps, Pcs)
  BY <1>1, <1>2 DEF HandlerOK, Handler, Pcs, Resting, DeletePcs
<1>6. /\ h.size = 0 /\ h.delta = req[r].delta /\ h.op = req[r].op
      /\ h.src = req[r].src /\ h.pc = pc
  BY <1>1 DEF HandlerOK, Handler
<1> HIDE DEF h
<1>7. HandlerOK(h)
  BY <1>1, <1>2, <1>4, <1>5, <1>6 DEF HandlerOK, AtObject, WritePcs
<1> QED
  BY <1>3, <1>7, HandlerUpdate

\* The steps of a delete after the store's answer.
LEMMA DeleteMoves ==
  ASSUME AmountsCovered, OInv, NEW r \in Requests,
         FindRow(r) \/ RemoveRow(r) \/ CallCredit(r) \/ Credited(r)
  PROVE  ObjectsMove
<1> USE DEF OInv, QuotaMove, ObjectsMove
<1>1. HandlerOK(req[r])
  BY DEF HandlersOK
<1>2. CASE FindRow(r)
  <2>1. PICK o \in req[r].keys :
          IF row[o] = Absent THEN NextKey(r, req[r], o)
          ELSE req' = [req EXCEPT ![r] =
                 [@ EXCEPT !.pc = "remove", !.obj = o, !.size = row[o]]]
    BY <1>2 DEF FindRow
  <2>2. HandlersOK'
    <3>1. CASE row[o] = Absent
      BY <2>1, <3>1, NextKeyMove
    <3>2. CASE row[o] # Absent
      <4> DEFINE h == [req[r] EXCEPT !.pc = "remove", !.obj = o, !.size = row[o]]
      <4>1. o \in Object
        BY <1>1 DEF HandlerOK, Handler
      <4>2. row[o] \in Contents /\ row[o] \in Nat
        BY <3>2, <4>1, ContentsAreSizes DEF RowsOK
      <4>3. h \in Handler(ObjectOps, Pcs)
        BY <1>1, <4>1, <4>2 DEF HandlerOK, Handler, Pcs, DeletePcs
      <4>4. /\ h.size = row[o] /\ h.delta = req[r].delta /\ h.op = req[r].op
            /\ h.src = req[r].src /\ h.obj = o /\ h.pc = "remove"
        BY <1>1 DEF HandlerOK, Handler
      <4>5. req' = [req EXCEPT ![r] = h]
        BY <2>1, <3>2 DEF HandlersOK
      <4> HIDE DEF h
      <4>6. HandlerOK(h)
        BY <1>1, <4>1, <4>2, <4>3, <4>4 DEF HandlerOK
      <4> QED
        BY <4>5, <4>6, HandlerUpdate
    <3> QED
      BY <3>1, <3>2
  <2> QED
    BY <1>2, <2>2 DEF FindRow, RowsOK, StoreOK
<1>3. CASE RemoveRow(r)
  <2>1. HandlersOK'
    <3>1. CASE Goes(r, "credit")
      BY <1>3, <3>1, HandlerGoes DEF RemoveRow, At, Pcs, DeletePcs, AtObject, WritePcs
    <3>2. CASE NextKey(r, req[r], req[r].obj)
      BY <3>2, NextKeyMove
    <3> QED
      BY <1>3, <3>1, <3>2 DEF RemoveRow
  <2> QED
    BY <1>3, <2>1 DEF RemoveRow, RowsOK, StoreOK
<1>4. CASE CallCredit(r)
  <2>1. req[r].obj \in Object /\ req[r].size \in Bytes
    BY <1>1, <1>4 DEF CallCredit, At, HandlerOK, AtObject, Contents, AmountsCovered
  <2>2. RequestNext
    BY <1>4, <2>1, CallAdmitted DEF CallCredit
  <2>3. HandlersOK'
    BY <1>4, HandlerGoes DEF CallCredit, At, Pcs, DeletePcs, AtObject, WritePcs
  <2> QED
    BY <1>4, <2>2, <2>3 DEF CallCredit, RowsOK, StoreOK
<1>5. CASE Credited(r)
  <2>1. HandlersOK'
    <3>1. CASE Goes(r, "err")
      BY <3>1, HandlerGoes DEF Pcs, Resting, AtObject, WritePcs
    <3>2. CASE NextKey(r, req[r], req[r].obj)
      BY <3>2, NextKeyMove
    <3> QED
      BY <1>5, <3>1, <3>2 DEF Credited
  <2>2. RequestNext
    BY <1>5 DEF Credited, RequestNext
  <2> QED
    BY <1>5, <2>1, <2>2 DEF Credited, RowsOK, StoreOK
<1> QED
  BY <1>2, <1>3, <1>4, <1>5

\* Any step of the handlers.
LEMMA ObjectsStep ==
  ASSUME AmountsCovered, OInv, [ObjectsNext]_gatewayVars
  PROVE  ObjectsMove
<1> USE DEF OInv, QuotaMove, ObjectsMove
<1>1. CASE UNCHANGED gatewayVars
  BY <1>1 DEF gatewayVars, ovars, qvars, HandlersOK, RowsOK, StoreOK
<1>2. ASSUME NEW r \in Requests, Continue(r), UNCHANGED ovars
      PROVE  ObjectsMove
  BY <1>2 DEF ovars, RequestNext, HandlersOK, RowsOK, StoreOK
<1>3. ASSUME NEW r \in Requests, Crash(r)
      PROVE  ObjectsMove
  <2>1. HandlersOK'
    BY <1>3, HandlerGoes DEF Crash, Pcs, Resting, AtObject, WritePcs
  <2>2. QuotaMove
    BY <1>3, CallLost DEF Crash
  <2> QED
    BY <1>3, <2>1, <2>2, FaultsBounded DEF Crash, RowsOK, StoreOK
<1>4. ASSUME NEW r \in Requests, Proceed(r)
      PROVE  ObjectsMove
  BY <1>2, <1>4, AdmissionMoves, RowMoves, AccountMoves, DeleteMoves DEF Proceed
<1>5. ASSUME NEW r \in Requests,
             Start(r) \/ Proceed(r) \/ SendWrite(r) \/ WriteRowFails(r) \/ Crash(r)
      PROVE  ObjectsMove
  BY <1>3, <1>4, <1>5, StartMoves, SendMoves, RowMoves
<1> QED
  BY <1>1, <1>5 DEF ObjectsNext

----------------------------------------------------------------------------
(* The theorems. *)

\* Nothing is stored and no handler is at work at the start.
LEMMA ObjectsInitOK ==
  ASSUME AmountsCovered, ObjectsInit
  PROVE  OInv
<1>1. IInv
  BY InitRows DEF ObjectsInit
<1>2. HandlersOK
  BY NewHandlers DEF ObjectsInit, HandlersOK
<1>3. RowsOK /\ StoreOK
  BY MaxFaultsAssumption DEF ObjectsInit, RowsOK, StoreOK
<1> QED
  BY <1>1, <1>2, <1>3 DEF OInv

\* The invariant is inductive.
LEMMA ObjectsKept ==
  ASSUME AmountsCovered, OInv, [ObjectsNext]_gatewayVars
  PROVE  OInv'
<1>1. ObjectsMove
  BY ObjectsStep
<1>2. [QuotaNext]_qvars
  BY <1>1 DEF ObjectsMove, QuotaMove, QuotaNext
<1>3. IInv'
  BY <1>2, QuotaStep DEF OInv
<1> QED
  BY <1>1, <1>3 DEF OInv, ObjectsMove

\* The handlers, the rows they keep and the procedures they call stay well formed,
\* however many requests interleave and crash, and clients overlap on a key or not.
THEOREM ObjectsTypeCorrect == AmountsCovered => (ObjectsSpec => []ObjectsTypeOK)
<1> SUFFICES ASSUME AmountsCovered PROVE ObjectsSpec => []ObjectsTypeOK
  OBVIOUS
<1>1. ObjectsInit => OInv
  BY ObjectsInitOK
<1>2. OInv /\ [ObjectsNext]_gatewayVars => OInv'
  BY ObjectsKept
<1>3. OInv => ObjectsTypeOK
  <2> SUFFICES ASSUME OInv PROVE ObjectsTypeOK
    OBVIOUS
  <2>1. \A r \in Requests : req[r] \in Handler(ObjectOps, Pcs)
    BY DEF OInv, HandlersOK, HandlerOK
  <2>2. req \in [Requests -> Handler(ObjectOps, Pcs)]
    BY <2>1 DEF OInv, HandlersOK
  <2>3. row \in [Object -> Nat \cup {Absent}] /\ blob \in [Object -> Nat \cup {Absent}]
    BY ContentsAreSizes DEF OInv, RowsOK, StoreOK
  <2> QED
    BY <2>2, <2>3 DEF OInv, IInv, ObjectsTypeOK, StoreOK, Pcs
<1> QED
  BY <1>1, <1>2, <1>3, PTL DEF ObjectsSpec

\* The handlers of PutObject, CopyObject, DeleteObject and DeleteObjects implement the open
\* protocol of quota.rs without its reconcile task: a crash is a caller that goes, and
\* every amount they reserve, release, commit, settle or credit is one the protocol allows.
THEOREM ObjectsImplementAdmission ==
  AmountsCovered => (ObjectsSpec => ImplementsAdmission)
<1> SUFFICES ASSUME AmountsCovered PROVE ObjectsSpec => ImplementsAdmission
  OBVIOUS
<1>1. ObjectsInit => OInv /\ QuotaInit
  BY ObjectsInitOK DEF ObjectsInit
<1>2. OInv /\ [ObjectsNext]_gatewayVars => OInv' /\ [RequestNext]_qvars
  BY ObjectsKept, ObjectsStep DEF ObjectsMove, QuotaMove
<1> QED
  BY <1>1, <1>2, PTL DEF ObjectsSpec, ImplementsAdmission, AdmissionSpec

\* So no handler, and no interleaving of handlers, takes a bucket or an account over its
\* limit, even when two of them overwrite one key at once.
COROLLARY ObjectsWithinQuota ==
  AmountsCovered /\ Shrinking => (ObjectsSpec => []WithinQuota)
<1> SUFFICES ASSUME AmountsCovered, Shrinking PROVE ObjectsSpec => []WithinQuota
  OBVIOUS
<1>1. ObjectsSpec => AdmissionSpec
  BY ObjectsImplementAdmission DEF ImplementsAdmission
<1>2. AdmissionSpec => []WithinQuota
  BY QuotaRespected
<1> QED
  BY <1>1, <1>2

\* And none makes a counter negative.
COROLLARY ObjectsNonNegative == AmountsCovered => (ObjectsSpec => []NonNegative)
<1> SUFFICES ASSUME AmountsCovered PROVE ObjectsSpec => []NonNegative
  OBVIOUS
<1>1. ObjectsSpec => AdmissionSpec
  BY ObjectsImplementAdmission DEF ImplementsAdmission
<1>2. AdmissionSpec => QuotaSpec
  <2>1. [RequestNext]_qvars => [QuotaNext]_qvars
    BY DEF QuotaNext
  <2> QED
    BY <2>1, PTL DEF AdmissionSpec, QuotaSpec
<1>3. QuotaSpec => []NonNegative
  BY CountersNonNegative
<1> QED
  BY <1>1, <1>2, <1>3

----------------------------------------------------------------------------
(* The sums of the properties, over fixed sets. *)

InBucket(r, b) == req[r].obj # Nowhere /\ BucketOf(req[r].obj) = b

InAccount(r, u) == req[r].obj # Nowhere /\ Owner[BucketOf(req[r].obj)] = u

BucketHold(r, b) == IF InBucket(r, b) THEN HeldByBucket(r) ELSE 0
BucketDue(r, b) == IF InBucket(r, b) THEN DueToBucket(r) ELSE 0
BucketAdds(r, b) == IF InBucket(r, b) THEN ObjectsDue(r) ELSE 0
AccountHold(r, u) == IF InAccount(r, u) THEN HeldByAccount(r) ELSE 0
AccountDue(r, u) == IF InAccount(r, u) THEN DueToAccount(r) ELSE 0

BucketHolds(b) == [r \in Requests |-> BucketHold(r, b)]
BucketDues(b) == [r \in Requests |-> BucketDue(r, b)]
BucketAddsAll(b) == [r \in Requests |-> BucketAdds(r, b)]
AccountHolds(u) == [r \in Requests |-> AccountHold(r, u)]
AccountDues(u) == [r \in Requests |-> AccountDue(r, u)]

SizesAt(f, b) == [o \in Object |-> IF BucketOf(o) = b THEN Stored(f[o]) ELSE 0]
SizesOf(f, u) == [o \in Object |-> IF Owner[BucketOf(o)] = u THEN Stored(f[o]) ELSE 0]
RowsIn(b) == [o \in Object |-> IF BucketOf(o) = b /\ row[o] # Absent THEN 1 ELSE 0]

\* What a handler holds and owes is an integer.
LEMMA Amounts ==
  ASSUME HandlersOK, NEW r \in Requests
  PROVE  /\ HeldByBucket(r) \in Nat /\ HeldByAccount(r) \in Nat
         /\ DueToBucket(r) \in Int /\ DueToAccount(r) \in Int /\ ObjectsDue(r) \in Int
<1>1. req[r].delta \in Int /\ req[r].size \in Int /\ req[r].new \in Int
  BY DEF HandlersOK, HandlerOK, Handler
<1> QED
  BY <1>1 DEF HeldByBucket, HeldByAccount, Growth, DueToBucket, DueToAccount, ObjectsDue

\* The requests at an object of a bucket, and of an account's buckets.
LEMMA ChargingSets ==
  ASSUME HandlersOK, NEW r \in Requests
  PROVE  /\ \A b : r \in Charging(b) <=> InBucket(r, b)
         /\ \A u : r \in ChargingAny(BucketsOf(u)) <=> InAccount(r, u)
<1>1. req[r].obj \in Object \cup {Nowhere}
  BY DEF HandlersOK, HandlerOK, Handler
<1>2. \A b : r \in Charging(b) <=> InBucket(r, b)
  BY DEF Charging, InBucket
<1>3. ASSUME NEW u
      PROVE  r \in ChargingAny(BucketsOf(u)) <=> InAccount(r, u)
  <2>1. req[r].obj # Nowhere => BucketOf(req[r].obj) \in Buckets
    BY <1>1 DEF Object, BucketOf
  <2> QED
    BY <1>2, <2>1 DEF ChargingAny, BucketsOf, InBucket, InAccount
<1> QED
  BY <1>2, <1>3

\* What is held on a bucket.
LEMMA BucketHoldsTotal ==
  ASSUME HandlersOK, NEW b
  PROVE  MapThenSumSet(HeldByBucket, Charging(b)) = Total(BucketHolds(b), Requests)
<1> DEFINE S == Charging(b)
           f == BucketHolds(b)
           next(g) == [T \in SUBSET S |-> IF T = {} THEN 0
                        ELSE LET x == CHOOSE x \in T : TRUE IN HeldByBucket(x) + g[T \ {x}]]
           iter == CHOOSE g : g = next(g)
<1>1. S \in SUBSET Requests /\ IsFiniteSet(S) /\ IsFiniteSet(Requests)
  BY FiniteAssumption, FS_Subset DEF Charging
<1>2. /\ \A r \in S : f[r] = HeldByBucket(r) /\ f[r] \in Int
      /\ \A r \in Requests \ S : f[r] = 0
  BY Amounts, ChargingSets DEF BucketHolds, BucketHold, Charging
<1>3. MapThenSumSet(HeldByBucket, S) = iter[S]
  BY DEF MapThenSumSet, MapThenFoldSet
<1>4. \A g : TakesOneByOne(f, g, S) <=> g = next(g)
  <2> HIDE DEF S, f
  <2> QED
    BY <1>2 DEF TakesOneByOne
<1>5. (\E g : TakesOneByOne(f, g, S)) => TakesOneByOne(f, iter, S)
  <2> HIDE DEF S, f, next
  <2> QED
    BY <1>4
<1> HIDE DEF S, f, iter
<1>6. iter[S] = Total(f, S)
  BY <1>1, <1>2, <1>5, ChosenIsTotal
<1>7. Total(f, S) = Total(f, Requests)
  BY <1>1, <1>2, TotalPart
<1> QED
  BY <1>3, <1>6, <1>7 DEF S, f

\* What a bucket's used column is owed.
LEMMA BucketDuesTotal ==
  ASSUME HandlersOK, NEW b
  PROVE  MapThenSumSet(DueToBucket, Charging(b)) = Total(BucketDues(b), Requests)
<1> DEFINE S == Charging(b)
           f == BucketDues(b)
           next(g) == [T \in SUBSET S |-> IF T = {} THEN 0
                        ELSE LET x == CHOOSE x \in T : TRUE IN DueToBucket(x) + g[T \ {x}]]
           iter == CHOOSE g : g = next(g)
<1>1. S \in SUBSET Requests /\ IsFiniteSet(S) /\ IsFiniteSet(Requests)
  BY FiniteAssumption, FS_Subset DEF Charging
<1>2. /\ \A r \in S : f[r] = DueToBucket(r) /\ f[r] \in Int
      /\ \A r \in Requests \ S : f[r] = 0
  BY Amounts, ChargingSets DEF BucketDues, BucketDue, Charging
<1>3. MapThenSumSet(DueToBucket, S) = iter[S]
  BY DEF MapThenSumSet, MapThenFoldSet
<1>4. \A g : TakesOneByOne(f, g, S) <=> g = next(g)
  <2> HIDE DEF S, f
  <2> QED
    BY <1>2 DEF TakesOneByOne
<1>5. (\E g : TakesOneByOne(f, g, S)) => TakesOneByOne(f, iter, S)
  <2> HIDE DEF S, f, next
  <2> QED
    BY <1>4
<1> HIDE DEF S, f, iter
<1>6. iter[S] = Total(f, S)
  BY <1>1, <1>2, <1>5, ChosenIsTotal
<1>7. Total(f, S) = Total(f, Requests)
  BY <1>1, <1>2, TotalPart
<1> QED
  BY <1>3, <1>6, <1>7 DEF S, f

\* What its count column is owed.
LEMMA BucketAddsTotal ==
  ASSUME HandlersOK, NEW b
  PROVE  MapThenSumSet(ObjectsDue, Charging(b)) = Total(BucketAddsAll(b), Requests)
<1> DEFINE S == Charging(b)
           f == BucketAddsAll(b)
           next(g) == [T \in SUBSET S |-> IF T = {} THEN 0
                        ELSE LET x == CHOOSE x \in T : TRUE IN ObjectsDue(x) + g[T \ {x}]]
           iter == CHOOSE g : g = next(g)
<1>1. S \in SUBSET Requests /\ IsFiniteSet(S) /\ IsFiniteSet(Requests)
  BY FiniteAssumption, FS_Subset DEF Charging
<1>2. /\ \A r \in S : f[r] = ObjectsDue(r) /\ f[r] \in Int
      /\ \A r \in Requests \ S : f[r] = 0
  BY Amounts, ChargingSets DEF BucketAddsAll, BucketAdds, Charging
<1>3. MapThenSumSet(ObjectsDue, S) = iter[S]
  BY DEF MapThenSumSet, MapThenFoldSet
<1>4. \A g : TakesOneByOne(f, g, S) <=> g = next(g)
  <2> HIDE DEF S, f
  <2> QED
    BY <1>2 DEF TakesOneByOne
<1>5. (\E g : TakesOneByOne(f, g, S)) => TakesOneByOne(f, iter, S)
  <2> HIDE DEF S, f, next
  <2> QED
    BY <1>4
<1> HIDE DEF S, f, iter
<1>6. iter[S] = Total(f, S)
  BY <1>1, <1>2, <1>5, ChosenIsTotal
<1>7. Total(f, S) = Total(f, Requests)
  BY <1>1, <1>2, TotalPart
<1> QED
  BY <1>3, <1>6, <1>7 DEF S, f

\* What is held on an account.
LEMMA AccountHoldsTotal ==
  ASSUME HandlersOK, NEW u
  PROVE  MapThenSumSet(HeldByAccount, ChargingAny(BucketsOf(u))) = Total(AccountHolds(u), Requests)
<1> DEFINE S == ChargingAny(BucketsOf(u))
           f == AccountHolds(u)
           next(g) == [T \in SUBSET S |-> IF T = {} THEN 0
                        ELSE LET x == CHOOSE x \in T : TRUE IN HeldByAccount(x) + g[T \ {x}]]
           iter == CHOOSE g : g = next(g)
<1>1. S \in SUBSET Requests /\ IsFiniteSet(S) /\ IsFiniteSet(Requests)
  BY FiniteAssumption, FS_Subset DEF ChargingAny, Charging
<1>2. /\ \A r \in S : f[r] = HeldByAccount(r) /\ f[r] \in Int
      /\ \A r \in Requests \ S : f[r] = 0
  BY Amounts, ChargingSets DEF AccountHolds, AccountHold, ChargingAny, Charging
<1>3. MapThenSumSet(HeldByAccount, S) = iter[S]
  BY DEF MapThenSumSet, MapThenFoldSet
<1>4. \A g : TakesOneByOne(f, g, S) <=> g = next(g)
  <2> HIDE DEF S, f
  <2> QED
    BY <1>2 DEF TakesOneByOne
<1>5. (\E g : TakesOneByOne(f, g, S)) => TakesOneByOne(f, iter, S)
  <2> HIDE DEF S, f, next
  <2> QED
    BY <1>4
<1> HIDE DEF S, f, iter
<1>6. iter[S] = Total(f, S)
  BY <1>1, <1>2, <1>5, ChosenIsTotal
<1>7. Total(f, S) = Total(f, Requests)
  BY <1>1, <1>2, TotalPart
<1> QED
  BY <1>3, <1>6, <1>7 DEF S, f

\* What an account's used column is owed.
LEMMA AccountDuesTotal ==
  ASSUME HandlersOK, NEW u
  PROVE  MapThenSumSet(DueToAccount, ChargingAny(BucketsOf(u))) = Total(AccountDues(u), Requests)
<1> DEFINE S == ChargingAny(BucketsOf(u))
           f == AccountDues(u)
           next(g) == [T \in SUBSET S |-> IF T = {} THEN 0
                        ELSE LET x == CHOOSE x \in T : TRUE IN DueToAccount(x) + g[T \ {x}]]
           iter == CHOOSE g : g = next(g)
<1>1. S \in SUBSET Requests /\ IsFiniteSet(S) /\ IsFiniteSet(Requests)
  BY FiniteAssumption, FS_Subset DEF ChargingAny, Charging
<1>2. /\ \A r \in S : f[r] = DueToAccount(r) /\ f[r] \in Int
      /\ \A r \in Requests \ S : f[r] = 0
  BY Amounts, ChargingSets DEF AccountDues, AccountDue, ChargingAny, Charging
<1>3. MapThenSumSet(DueToAccount, S) = iter[S]
  BY DEF MapThenSumSet, MapThenFoldSet
<1>4. \A g : TakesOneByOne(f, g, S) <=> g = next(g)
  <2> HIDE DEF S, f
  <2> QED
    BY <1>2 DEF TakesOneByOne
<1>5. (\E g : TakesOneByOne(f, g, S)) => TakesOneByOne(f, iter, S)
  <2> HIDE DEF S, f, next
  <2> QED
    BY <1>4
<1> HIDE DEF S, f, iter
<1>6. iter[S] = Total(f, S)
  BY <1>1, <1>2, <1>5, ChosenIsTotal
<1>7. Total(f, S) = Total(f, Requests)
  BY <1>1, <1>2, TotalPart
<1> QED
  BY <1>3, <1>6, <1>7 DEF S, f

\* The objects are finitely many.
LEMMA ObjectsFinite == IsFiniteSet(Object)
  BY FiniteAssumption, FS_Product DEF Object

\* What a bucket's objects add up to.
LEMMA SizeInTotal ==
  ASSUME NEW f, \A o \in Object : Stored(f[o]) \in Nat, NEW b
  PROVE  SizeIn(f, b) = Total(SizesAt(f, b), Object)
<1> DEFINE S == ObjectsOf(b)
           s == SizesAt(f, b)
           next(g) == [T \in SUBSET S |-> IF T = {} THEN 0
                        ELSE LET x == CHOOSE x \in T : TRUE IN Stored(f[x]) + g[T \ {x}]]
           iter == CHOOSE g : g = next(g)
<1>1. S \in SUBSET Object /\ IsFiniteSet(S) /\ IsFiniteSet(Object)
  BY ObjectsFinite, FS_Subset DEF ObjectsOf
<1>2. /\ \A o \in S : s[o] = Stored(f[o]) /\ s[o] \in Int
      /\ \A o \in Object \ S : s[o] = 0
  BY DEF SizesAt, ObjectsOf
<1>3. SizeIn(f, b) = iter[S]
  BY DEF SizeIn, MapThenSumSet, MapThenFoldSet
<1>4. \A g : TakesOneByOne(s, g, S) <=> g = next(g)
  <2> HIDE DEF S, s
  <2> QED
    BY <1>2 DEF TakesOneByOne
<1>5. (\E g : TakesOneByOne(s, g, S)) => TakesOneByOne(s, iter, S)
  <2> HIDE DEF S, s, next
  <2> QED
    BY <1>4
<1> HIDE DEF S, s, iter
<1>6. iter[S] = Total(s, S)
  BY <1>1, <1>2, <1>5, ChosenIsTotal
<1>7. Total(s, S) = Total(s, Object)
  BY <1>1, <1>2, TotalPart
<1> QED
  BY <1>3, <1>6, <1>7 DEF s

\* And an account's.
LEMMA SizeOfTotal ==
  ASSUME NEW f, \A o \in Object : Stored(f[o]) \in Nat, NEW u
  PROVE  MapThenSumSet(LAMBDA b : SizeIn(f, b), BucketsOf(u)) = Total(SizesOf(f, u), Object)
<1> DEFINE S == BucketsOf(u)
           s == [b \in S |-> SizeIn(f, b)]
           next(g) == [T \in SUBSET S |-> IF T = {} THEN 0
                        ELSE LET x == CHOOSE x \in T : TRUE IN SizeIn(f, x) + g[T \ {x}]]
           iter == CHOOSE g : g = next(g)
<1>1. IsFiniteSet(S) /\ IsFiniteSet(Object)
  BY ObjectsFinite, FiniteAssumption, FS_Subset DEF BucketsOf
<1>2. ASSUME NEW b \in S
      PROVE  s[b] = SizeIn(f, b) /\ s[b] = Total(SizesAt(f, b), Object) /\ s[b] \in Int
  <2> DEFINE t == SizesAt(f, b)
  <2>1. \A o \in Object : t[o] \in Int
    BY DEF SizesAt
  <2>2. s[b] = Total(t, Object)
    BY SizeInTotal
  <2> HIDE DEF t
  <2>3. Total(t, Object) \in Int
    BY <1>1, <2>1, TotalTake
  <2> QED
    BY <2>2, <2>3 DEF t
<1>3. MapThenSumSet(LAMBDA b : SizeIn(f, b), S) = iter[S]
  BY DEF MapThenSumSet, MapThenFoldSet
<1>4. \A g : TakesOneByOne(s, g, S) <=> g = next(g)
  <2>1. \A b \in S : s[b] = SizeIn(f, b) /\ s[b] \in Int
    BY <1>2
  <2> HIDE DEF S, s
  <2> QED
    BY <2>1 DEF TakesOneByOne
<1>5. (\E g : TakesOneByOne(s, g, S)) => TakesOneByOne(s, iter, S)
  <2> HIDE DEF S, s, next
  <2> QED
    BY <1>4
<1>6. iter[S] = Total(s, S)
  <2> HIDE DEF S, s, iter
  <2> QED
    BY <1>1, <1>2, <1>5, ChosenIsTotal
<1>7. Total(s, S) = Total(SizesOf(f, u), Object)
  <2> DEFINE key == [o \in Object |-> BucketOf(o)]
             v == [o \in Object |-> Stored(f[o])]
             w == SizesOf(f, u)
             part == [b \in S |-> SizesAt(f, b)]
  <2>1. \A o \in Object : v[o] \in Int
    OBVIOUS
  <2>2. /\ \A b \in S : s[b] = Total(part[b], Object)
        /\ \A b \in S, o \in Object : part[b][o] = IF key[o] = b THEN v[o] ELSE 0
    <3>1. \A b \in S : part[b] = SizesAt(f, b)
      OBVIOUS
    <3>2. \A b \in S, o \in Object : part[b][o] = IF key[o] = b THEN v[o] ELSE 0
      BY DEF SizesAt
    <3> HIDE DEF part
    <3> QED
      BY <1>2, <3>1, <3>2
  <2>3. \A o \in Object : w[o] = IF key[o] \in S THEN v[o] ELSE 0
    BY DEF SizesOf, BucketsOf, Object, BucketOf
  <2> HIDE DEF S, s, key, v, w, part
  <2>4. Grouped(Object, S, key, v, part, s, w)
    BY <2>1, <2>2, <2>3 DEF Grouped
  <2>5. Total(s, S) = Total(w, Object)
    BY <1>1, <2>4, TotalByKey
  <2> QED
    BY <2>5 DEF w
<1> QED
  BY <1>3, <1>6, <1>7

\* And how many they are.
LEMMA RowsInTotal ==
  ASSUME NEW b
  PROVE  Cardinality({o \in ObjectsOf(b) : row[o] # Absent}) = Total(RowsIn(b), Object)
<1> DEFINE T == {o \in ObjectsOf(b) : row[o] # Absent}
           f == RowsIn(b)
<1>1. T \in SUBSET Object /\ \A o \in Object : f[o] = IF o \in T THEN 1 ELSE 0
  BY DEF RowsIn, ObjectsOf
<1> HIDE DEF T, f
<1>2. Cardinality(T) = Total(f, Object)
  BY <1>1, ObjectsFinite, TotalOnes
<1> QED
  BY <1>2 DEF T, f

----------------------------------------------------------------------------
(* What a step leaves of a handler.                                        *)

\* All of a handler but where it is.
Same(g, h) ==
  /\ g.op = h.op /\ g.obj = h.obj /\ g.src = h.src /\ g.size = h.size
  /\ g.delta = h.delta /\ g.new = h.new /\ g.keys = h.keys

\* It moves on.
LEMMA GoesOn ==
  ASSUME HandlersOK, NEW r \in Requests, NEW pc, Goes(r, pc)
  PROVE  req'[r].pc = pc /\ Same(req'[r], req[r])
<1>1. req[r] \in Handler(ObjectOps, Pcs) /\ req = [q \in Requests |-> req[q]]
  BY DEF HandlersOK, HandlerOK
<1>2. req'[r] = [req[r] EXCEPT !.pc = pc]
  BY <1>1 DEF Goes
<1> QED
  BY <1>1, <1>2 DEF Handler, Same

\* It gives up.
LEMMA GivesUp ==
  ASSUME HandlersOK, NEW r \in Requests, GiveUp(r)
  PROVE  /\ Same(req'[r], req[r])
         /\ req'[r].pc = IF req[r].delta > 0 THEN "release" ELSE "err"
  BY GoesOn DEF GiveUp

\* A write tries its row again.
LEMMA TriesAgain ==
  ASSUME HandlersOK, NEW r \in Requests,
         req' = [req EXCEPT ![r].pc = "update", ![r].again = TRUE]
  PROVE  req'[r].pc = "update" /\ Same(req'[r], req[r])
<1>1. req[r] \in Handler(ObjectOps, Pcs) /\ req = [q \in Requests |-> req[q]]
  BY DEF HandlersOK, HandlerOK
<1>2. req'[r] = [req[r] EXCEPT !.pc = "update", !.again = TRUE]
  BY <1>1
<1> QED
  BY <1>1, <1>2 DEF Handler, Same

\* A delete is done with a key.
LEMMA KeyDone ==
  ASSUME HandlersOK, NEW r \in Requests, NEW o, NextKey(r, req[r], o)
  PROVE  /\ req'[r].op = req[r].op /\ req'[r].src = req[r].src
         /\ req'[r].delta = req[r].delta /\ req'[r].new = req[r].new
         /\ req'[r].obj = Nowhere /\ req'[r].size = 0
         /\ req'[r].keys = req[r].keys \ {o}
         /\ req'[r].pc = IF req[r].keys \ {o} = {} THEN "ok" ELSE "find"
<1>1. req[r] \in Handler(ObjectOps, Pcs) /\ req = [q \in Requests |-> req[q]]
  BY DEF HandlersOK, HandlerOK
<1> DEFINE pc == IF req[r].keys \ {o} = {} THEN "ok" ELSE "find"
<1>2. req'[r] = [req[r] EXCEPT !.keys = @ \ {o}, !.obj = Nowhere, !.size = 0, !.pc = pc]
  BY <1>1 DEF NextKey
<1> HIDE DEF pc
<1>3. /\ req'[r].op = req[r].op /\ req'[r].src = req[r].src
      /\ req'[r].delta = req[r].delta /\ req'[r].new = req[r].new
      /\ req'[r].obj = Nowhere /\ req'[r].size = 0
      /\ req'[r].keys = req[r].keys \ {o} /\ req'[r].pc = pc
  BY <1>1, <1>2 DEF Handler
<1> QED
  BY <1>3 DEF pc

\* A delete has found a row.
LEMMA RowFound ==
  ASSUME HandlersOK, NEW r \in Requests, FindRow(r)
  PROVE  \E o \in req[r].keys :
           \/ row[o] = Absent /\ NextKey(r, req[r], o)
           \/ /\ row[o] # Absent
              /\ req'[r].pc = "remove" /\ req'[r].obj = o /\ req'[r].size = row[o]
              /\ req'[r].op = req[r].op /\ req'[r].src = req[r].src
              /\ req'[r].delta = req[r].delta /\ req'[r].new = req[r].new
              /\ req'[r].keys = req[r].keys
<1>1. req[r] \in Handler(ObjectOps, Pcs) /\ req = [q \in Requests |-> req[q]]
  BY DEF HandlersOK, HandlerOK
<1>2. PICK o \in req[r].keys :
        IF row[o] = Absent THEN NextKey(r, req[r], o)
        ELSE req' = [req EXCEPT ![r] =
               [@ EXCEPT !.pc = "remove", !.obj = o, !.size = row[o]]]
  BY DEF FindRow
<1>3. CASE row[o] = Absent
  BY <1>2, <1>3
<1>4. CASE row[o] # Absent
  <2>1. req'[r] = [req[r] EXCEPT !.pc = "remove", !.obj = o, !.size = row[o]]
    BY <1>1, <1>2, <1>4
  <2>2. /\ req'[r].pc = "remove" /\ req'[r].obj = o /\ req'[r].size = row[o]
        /\ req'[r].op = req[r].op /\ req'[r].src = req[r].src
        /\ req'[r].delta = req[r].delta /\ req'[r].new = req[r].new
        /\ req'[r].keys = req[r].keys
    BY <1>1, <2>1 DEF Handler
  <2> QED
    BY <1>4, <2>2
<1> QED
  BY <1>3, <1>4

\* What a row or the store has is a size.
LEMMA SizesStored ==
  /\ \A x \in Contents \cup {Absent} : Stored(x) \in Nat
  /\ \A x \in Contents : x \in Nat /\ x # Absent /\ Stored(x) = x
<1>1. \A x \in Contents : x \in Nat /\ x # Absent
  BY ContentsAreSizes, AbsentAssumption
<1> QED
  BY <1>1 DEF Stored

\* A write has read the row it will replace.
LEMMA PutBegun ==
  ASSUME HandlersOK, RowsOK, NEW r \in Requests, NEW h \in Handler(ObjectOps, Pcs),
         h.obj \in Object, BeginPut(r, h)
  PROVE  /\ req'[r].op = h.op /\ req'[r].src = h.src /\ req'[r].obj = h.obj
         /\ req'[r].size = h.size /\ req'[r].keys = h.keys
         /\ req'[r].delta = h.size - Stored(row[h.obj])
         /\ req'[r].delta \in Int
         /\ req'[r].new = IF row[h.obj] = Absent THEN 1 ELSE 0
         /\ req'[r].pc \in {"reserve", "send"}
         /\ req'[r].pc = "send" <=> ~(req'[r].delta > 0)
<1> DEFINE delta == h.size - Stored(row[h.obj])
           pc == IF delta > 0 THEN "reserve" ELSE "send"
           new == IF row[h.obj] = Absent THEN 1 ELSE 0
           g == [h EXCEPT !.pc = pc, !.delta = delta, !.new = new]
<1>1. req'[r] = g
  BY DEF BeginPut, HandlersOK
<1>2. /\ g.pc = pc /\ g.delta = delta /\ g.new = new /\ g.op = h.op /\ g.src = h.src
      /\ g.obj = h.obj /\ g.size = h.size /\ g.keys = h.keys
  BY DEF Handler
<1>3. delta \in Int
  <2>1. row[h.obj] \in Contents \cup {Absent} /\ h.size \in Int
    BY DEF RowsOK, Handler
  <2>2. Stored(row[h.obj]) \in Int
    BY <2>1, SizesStored
  <2> QED
    BY <2>1, <2>2
<1>4. pc \in {"reserve", "send"} /\ (pc = "send" <=> ~(delta > 0))
  OBVIOUS
<1>5. delta = h.size - Stored(row[h.obj]) /\ new = IF row[h.obj] = Absent THEN 1 ELSE 0
  OBVIOUS
<1> HIDE DEF g, pc, delta, new
<1>6. /\ req'[r].op = h.op /\ req'[r].src = h.src /\ req'[r].obj = h.obj
      /\ req'[r].size = h.size /\ req'[r].keys = h.keys
      /\ req'[r].delta = delta /\ req'[r].new = new /\ req'[r].pc = pc
  BY <1>1, <1>2
<1> QED
  BY <1>3, <1>4, <1>5, <1>6

\* A PutObject starts.
LEMMA PutStarts ==
  ASSUME HandlersOK, RowsOK, NEW r \in Requests, NEW o \in Object, NEW n \in Sizes,
         StartPut(r, o, n)
  PROVE  /\ req'[r].op = "put" /\ req'[r].src = Nowhere /\ req'[r].obj = o
         /\ req'[r].size = n /\ req'[r].keys = {}
         /\ req'[r].delta = n - Stored(row[o])
         /\ req'[r].delta \in Int
         /\ req'[r].new = IF row[o] = Absent THEN 1 ELSE 0
         /\ req'[r].pc \in {"reserve", "send"}
         /\ req'[r].pc = "send" <=> ~(req'[r].delta > 0)
<1> DEFINE h == [NoHandler EXCEPT !.op = "put", !.obj = o, !.size = n]
<1>1. /\ h.op = "put" /\ h.obj = o /\ h.size = n /\ h.src = Nowhere /\ h.keys = {}
      /\ h.pc = "idle" /\ h.delta = 0 /\ h.new = 0 /\ h.again = FALSE
  BY DEF NoHandler
<1>2. h \in Handler(ObjectOps, Pcs)
  <2>1. n \in Nat
    BY SizesAssumption
  <2>2. NoHandler \in Handler(ObjectOps, Pcs)
    BY DEF NoHandler, Handler, ObjectOps, Pcs, Resting
  <2> QED
    BY <2>1, <2>2 DEF Handler, ObjectOps
<1>3. BeginPut(r, h)
  BY DEF StartPut
<1> HIDE DEF h
<1> QED
  BY <1>1, <1>2, <1>3, PutBegun

\* A CopyObject starts.
LEMMA CopyStarts ==
  ASSUME HandlersOK, NEW r \in Requests, NEW s \in Object, NEW o \in Object,
         StartCopy(r, s, o)
  PROVE  /\ req'[r].op = "copy" /\ req'[r].pc = "begin" /\ req'[r].obj = o
         /\ req'[r].src = s /\ req'[r].size = row[s] /\ req'[r].delta = 0
         /\ req'[r].keys = {}
  BY DEF StartCopy, NoHandler, HandlersOK

\* A delete starts.
LEMMA DeleteStarts ==
  ASSUME HandlersOK, NEW r \in Requests, NEW op, NEW objs,
         req' = [req EXCEPT ![r] = DeleteHandler(op, objs)]
  PROVE  /\ req'[r].op = op /\ req'[r].pc = "find" /\ req'[r].obj = Nowhere
         /\ req'[r].src = Nowhere /\ req'[r].size = 0 /\ req'[r].delta = 0
         /\ req'[r].keys = objs
  BY DEF DeleteHandler, NoHandler, HandlersOK

----------------------------------------------------------------------------
(* The quota procedure each handler is in: where the two stand together.    *)

CallOK(h, c) ==
  LET called == c.bucket = BucketOf(h.obj) IN
  /\ h.pc = "admit" => /\ c.at \in {"reserve_user", "unreserve", "ok", "failed"}
                       /\ called /\ c.bytes = h.delta /\ h.delta > 0
  /\ h.pc = "commit" => /\ IF h.delta > 0 THEN c.at \in {"commit_user", "ok"}
                           ELSE c.at \in {"settle_bucket", "settle_user", "ok"}
                        /\ called /\ c.bytes = h.delta /\ c.objects = h.new
  /\ h.pc = "abort" => /\ c.at \in {"release_user", "ok"}
                       /\ called /\ c.bytes = h.delta /\ h.delta > 0
  /\ h.pc = "credited" => /\ c.at \in {"credit_bucket", "credit_user", "ok"}
                          /\ called /\ c.bytes = h.size
  /\ h.pc \notin {"admit", "commit", "abort", "credited"} => c.at \in Ended
  /\ h.pc = "send" => h.delta <= 0
  /\ h.pc \in WritePcs => h.op \in WriteOps
  /\ h.pc \in DeletePcs => h.op \in {"delete", "batch"}

CallsOK ==
  /\ live = Buckets
  /\ \A r \in Requests : CallOK(req[r], call[r])

Step(r) == Start(r) \/ Proceed(r) \/ SendWrite(r) \/ WriteRowFails(r) \/ Crash(r)

\* A step changes its own handler and call only, and deletes no bucket.
LEMMA OthersStay ==
  ASSUME OInv, NEW r \in Requests, Step(r)
  PROVE  /\ \A q \in Requests \ {r} : req'[q] = req[q] /\ call'[q] = call[q]
         /\ live' = live
<1> USE DEF Goes, GiveUp, InsertFails, NextKey, Frame, Goto
<1>0. /\ req = [q \in Requests |-> req[q]]
      /\ call \in [Requests -> Call]
  BY DEF OInv, HandlersOK, IInv, QuotaTypeOK
<1>1. ASSUME Start(r)
      PROVE  (\E h : req' = [req EXCEPT ![r] = h]) /\ UNCHANGED <<call, live>>
  BY <1>1 DEF Start, StartDelete, StartPut, StartCopy, StartBatch, BeginPut, qvars
<1>2. CASE Start(r)
  BY <1>0, <1>1, <1>2
<1>3. CASE SendWrite(r) \/ WriteRowFails(r) \/ Crash(r)
  BY <1>0, <1>3 DEF SendWrite, WriteRowFails, Crash, qvars
<1>4. CASE CopyBegin(r) \/ CallReserve(r) \/ RefuseWrite(r)
  BY <1>0, <1>4 DEF CopyBegin, BeginPut, CallReserve, RefuseWrite, Reserve, Drop, qvars
<1>5. CASE UpdateRow(r) \/ RereadRow(r) \/ InsertRow(r)
  BY <1>0, <1>5 DEF UpdateRow, RereadRow, InsertRow, qvars
<1>6. CASE Account(r) \/ GiveBack(r) \/ AnswerWrite(r)
  BY <1>0, <1>6 DEF Account, GiveBack, AnswerWrite, Commit, Settle, Release, Drop
<1>7. CASE FindRow(r) \/ RemoveRow(r) \/ CallCredit(r) \/ Credited(r)
  BY <1>0, <1>7 DEF FindRow, RemoveRow, CallCredit, Credited, Credit, Drop, qvars
<1>8. CASE Continue(r) /\ UNCHANGED ovars
  BY <1>0, <1>8 DEF Continue, ReserveUser, Unreserve, ReleaseUser, CommitUser,
       SettleBucket, SettleUser, CreditBucket, CreditUser, ovars
<1> QED
  BY <1>2, <1>3, <1>4, <1>5, <1>6, <1>7, <1>8 DEF Step, Proceed

\* Where a handler and its call stand after each of its steps.
LEMMA CallMoves ==
  ASSUME OInv, CallsOK, NEW r \in Requests, Step(r)
  PROVE  CallOK(req'[r], call'[r])
<1> USE DEF CallOK, At, WritePcs, DeletePcs, Ended, WriteOps
<1>0. /\ HandlerOK(req[r]) /\ CallOK(req[r], call[r])
      /\ HandlersOK /\ RowsOK /\ call \in [Requests -> Call]
      /\ live = Buckets
      /\ req[r] \in Handler(ObjectOps, Pcs) /\ call[r] \in Call
      /\ req[r].delta \in Int
  BY DEF OInv, HandlersOK, HandlerOK, Handler, IInv, QuotaTypeOK, CallsOK
<1>1. CASE Start(r)
  <2>1. call'[r].at \in Ended
    BY <1>0, <1>1 DEF Start, StartPut, StartCopy, StartDelete, StartBatch, Active, Resting, qvars
  <2>2. ASSUME NEW o \in Object, NEW n \in Sizes, StartPut(r, o, n)
        PROVE  CallOK(req'[r], call'[r])
    BY <1>0, <2>1, <2>2, PutStarts
  <2>3. ASSUME NEW s \in Object, NEW o \in Object, StartCopy(r, s, o)
        PROVE  CallOK(req'[r], call'[r])
    BY <1>0, <2>1, <2>3, CopyStarts
  <2>4. CASE Goes(r, "err")
    BY <1>0, <2>1, <2>4, GoesOn
  <2>5. ASSUME NEW op \in {"delete", "batch"}, NEW objs,
               req' = [req EXCEPT ![r] = DeleteHandler(op, objs)]
        PROVE  CallOK(req'[r], call'[r])
    BY <1>0, <2>1, <2>5, DeleteStarts
  <2> QED
    BY <1>1, <2>2, <2>3, <2>4, <2>5 DEF Start, StartDelete, StartBatch
<1>2. CASE CopyBegin(r)
  BY <1>0, <1>2, PutBegun DEF CopyBegin, qvars, HandlerOK, AtObject
<1>3. CASE CallReserve(r)
  BY <1>0, <1>3, GoesOn DEF CallReserve, Reserve, Frame, HandlerOK, Same
<1>4. CASE RefuseWrite(r)
  BY <1>0, <1>4, GoesOn DEF RefuseWrite, Drop, NoCall
<1>5. CASE SendWrite(r)
  BY <1>0, <1>5, GoesOn, GivesUp DEF SendWrite, Admitted, Writing, Same, qvars
<1>6. CASE UpdateRow(r) \/ RereadRow(r) \/ WriteRowFails(r)
  BY <1>0, <1>6, GoesOn, GivesUp, TriesAgain
     DEF UpdateRow, RereadRow, WriteRowFails, InsertFails, Same, qvars
<1>7. CASE InsertRow(r)
  BY <1>0, <1>7, GoesOn, GivesUp, TriesAgain DEF InsertRow, InsertFails, Same, qvars
<1>8. CASE Account(r)
  BY <1>0, <1>8, GoesOn DEF Account, Commit, Settle, Frame, Same, HandlerOK, AtObject, Object, BucketOf
<1>9. CASE GiveBack(r)
  BY <1>0, <1>9, GoesOn DEF GiveBack, Release, Frame, Same, HandlerOK
<1>10. CASE AnswerWrite(r) \/ Crash(r)
  BY <1>0, <1>10, GoesOn DEF AnswerWrite, Crash, Drop, NoCall
<1>11. ASSUME NEW o, NextKey(r, req[r], o), call'[r].at \in Ended, req[r].pc \in DeletePcs
       PROVE  CallOK(req'[r], call'[r])
  BY <1>0, <1>11, KeyDone
<1>12. CASE FindRow(r)
  <2>1. call'[r].at \in Ended /\ req[r].pc = "find"
    BY <1>0, <1>12 DEF FindRow, qvars
  <2> QED
    BY <1>0, <1>11, <1>12, <2>1, RowFound
<1>13. CASE RemoveRow(r)
  <2>1. call'[r].at \in Ended /\ req[r].pc = "remove"
    BY <1>0, <1>13 DEF RemoveRow, qvars
  <2>2. CASE Goes(r, "credit")
    BY <1>0, <2>1, <2>2, GoesOn DEF Same
  <2> QED
    BY <1>11, <1>13, <2>1, <2>2 DEF RemoveRow
<1>14. CASE CallCredit(r)
  BY <1>0, <1>14, GoesOn DEF CallCredit, Credit, Frame, Same, HandlerOK, AtObject, Object, BucketOf
<1>15. CASE Credited(r)
  <2>1. call'[r].at \in Ended /\ req[r].pc = "credited"
    BY <1>0, <1>15 DEF Credited, Drop, NoCall
  <2>2. CASE Goes(r, "err")
    BY <1>0, <2>1, <2>2, GoesOn
  <2> QED
    BY <1>11, <1>15, <2>1, <2>2 DEF Credited
<1>16. CASE Continue(r) /\ UNCHANGED ovars
  BY <1>0, <1>16 DEF Continue, ReserveUser, Unreserve, ReleaseUser, CommitUser,
       SettleBucket, SettleUser, CreditBucket, CreditUser, ovars, Goto, AtStatement, Call
<1> QED
  BY <1>1, <1>2, <1>3, <1>4, <1>5, <1>6, <1>7, <1>8, <1>9, <1>10, <1>12, <1>13, <1>14,
     <1>15, <1>16 DEF Step, Proceed

\* So they stay together.
LEMMA CallsKept ==
  ASSUME OInv, CallsOK, NEW r \in Requests, Step(r)
  PROVE  CallsOK'
  BY OthersStay, CallMoves DEF CallsOK

----------------------------------------------------------------------------
(* What is reserved is what the requests in flight hold. *)

\* HoldsAccounted, over the sums of this module.
HoldsOK ==
  /\ \A b \in Buckets :
       /\ bucket[b].reserved >= Total(BucketHolds(b), Requests)
       /\ faults = 0 => bucket[b].reserved = Total(BucketHolds(b), Requests)
  /\ \A u \in Users :
       /\ account[u].reserved >= Total(AccountHolds(u), Requests)
       /\ faults = 0 => account[u].reserved = Total(AccountHolds(u), Requests)

\* What a row holds for the others is what it held for them, or more.
OthersHold(rest, next) == next >= rest /\ (faults' = 0 => next = rest)

HoldsMove(r) ==
  /\ \A b \in Buckets : OthersHold(bucket[b].reserved - BucketHold(r, b),
                                   (bucket[b].reserved - BucketHold(r, b))')
  /\ \A u \in Users : OthersHold(account[u].reserved - AccountHold(r, u),
                                 (account[u].reserved - AccountHold(r, u))')

\* A handler's own hold is on both rows.
OwnHeld(r) ==
  /\ \A b \in Buckets : bucket[b].reserved >= BucketHold(r, b)
  /\ \A u \in Users : account[u].reserved >= AccountHold(r, u)

\* The amounts of Amounts, after a step.
LEMMA AmountsNext ==
  ASSUME HandlersOK', NEW r \in Requests
  PROVE  HeldByBucket(r)' \in Nat /\ HeldByAccount(r)' \in Nat
<1>1. req'[r].delta \in Int
  BY DEF HandlersOK, HandlerOK, Handler
<1> QED
  BY <1>1 DEF HeldByBucket, HeldByAccount, Growth

\* It is, as a term of their sums.
LEMMA HoldsCover ==
  ASSUME OInv, HoldsOK, NEW r \in Requests
  PROVE  OwnHeld(r)
<1>0. IsFiniteSet(Requests) /\ QuotaTypeOK /\ HandlersOK
  BY FiniteAssumption DEF OInv, IInv
<1>1. ASSUME NEW b \in Buckets
      PROVE  bucket[b].reserved >= BucketHold(r, b)
  <2> DEFINE f == BucketHolds(b)
  <2>1. f[r] = BucketHold(r, b) /\ \A q \in Requests : f[q] \in Nat
    BY <1>0, Amounts DEF BucketHolds, BucketHold
  <2>2. bucket[b].reserved \in Int /\ bucket[b].reserved >= Total(f, Requests)
    BY <1>0 DEF HoldsOK, QuotaTypeOK, BucketColumns
  <2> HIDE DEF f
  <2>3. f[r] <= Total(f, Requests) /\ Total(f, Requests) \in Nat
    BY <1>0, <2>1, TotalTerm, TotalNat
  <2> QED
    BY <2>1, <2>2, <2>3
<1>2. ASSUME NEW u \in Users
      PROVE  account[u].reserved >= AccountHold(r, u)
  <2> DEFINE f == AccountHolds(u)
  <2>1. f[r] = AccountHold(r, u) /\ \A q \in Requests : f[q] \in Nat
    BY <1>0, Amounts DEF AccountHolds, AccountHold
  <2>2. account[u].reserved \in Int /\ account[u].reserved >= Total(f, Requests)
    BY <1>0 DEF HoldsOK, QuotaTypeOK, AccountColumns
  <2> HIDE DEF f
  <2>3. f[r] <= Total(f, Requests) /\ Total(f, Requests) \in Nat
    BY <1>0, <2>1, TotalTerm, TotalNat
  <2> QED
    BY <2>1, <2>2, <2>3
<1> QED
  BY <1>1, <1>2 DEF OwnHeld

\* The tables stay, and so does the hold.
LEMMA HoldKept ==
  ASSUME OInv, OInv', NEW r \in Requests, UNCHANGED <<bucket, account>>,
         \/ req'[r].obj = req[r].obj
         \/ HeldByBucket(r) = 0 /\ HeldByAccount(r) = 0,
         HeldByBucket(r)' = HeldByBucket(r), HeldByAccount(r)' = HeldByAccount(r)
  PROVE  HoldsMove(r)
<1>1. /\ HeldByBucket(r) \in Nat /\ HeldByAccount(r) \in Nat
      /\ QuotaTypeOK
  BY Amounts DEF OInv, IInv
<1>2. ASSUME NEW b \in Buckets
      PROVE  BucketHold(r, b)' = BucketHold(r, b) /\ BucketHold(r, b) \in Int
  BY <1>1 DEF BucketHold, InBucket
<1>3. ASSUME NEW u \in Users
      PROVE  AccountHold(r, u)' = AccountHold(r, u) /\ AccountHold(r, u) \in Int
  BY <1>1 DEF AccountHold, InAccount
<1>4. /\ \A b \in Buckets : bucket[b].reserved \in Int
      /\ \A u \in Users : account[u].reserved \in Int
  BY <1>1 DEF QuotaTypeOK, BucketColumns, AccountColumns
<1> QED
  BY <1>2, <1>3, <1>4 DEF HoldsMove, OthersHold

\* The handler is gone and its hold with it, but not from the tables.
LEMMA HoldLost ==
  ASSUME OInv, NEW r \in Requests, UNCHANGED <<bucket, account>>,
         HeldByBucket(r)' = 0, HeldByAccount(r)' = 0, faults' # 0
  PROVE  HoldsMove(r)
<1>1. /\ HeldByBucket(r) \in Nat /\ HeldByAccount(r) \in Nat
      /\ QuotaTypeOK
  BY Amounts DEF OInv, IInv
<1>2. ASSUME NEW b \in Buckets
      PROVE  BucketHold(r, b)' = 0 /\ BucketHold(r, b) \in Nat
  BY <1>1 DEF BucketHold, InBucket
<1>3. ASSUME NEW u \in Users
      PROVE  AccountHold(r, u)' = 0 /\ AccountHold(r, u) \in Nat
  BY <1>1 DEF AccountHold, InAccount
<1>4. /\ \A b \in Buckets : bucket[b].reserved \in Int
      /\ \A u \in Users : account[u].reserved \in Int
  BY <1>1 DEF QuotaTypeOK, BucketColumns, AccountColumns
<1> QED
  BY <1>2, <1>3, <1>4 DEF HoldsMove, OthersHold

\* A statement on the bucket's row moves the hold there by what it moves the row.
LEMMA BucketHoldMoves ==
  ASSUME OInv, OInv', NEW r \in Requests, req[r].obj \in Object, req'[r].obj = req[r].obj,
         NEW c, bucket' = [bucket EXCEPT ![BucketOf(req[r].obj)] = c], UNCHANGED account,
         c.reserved - HeldByBucket(r)' = bucket[BucketOf(req[r].obj)].reserved - HeldByBucket(r),
         HeldByAccount(r)' = HeldByAccount(r)
  PROVE  HoldsMove(r)
<1> DEFINE a == BucketOf(req[r].obj)
<1>1. /\ HeldByBucket(r) \in Nat /\ HeldByAccount(r) \in Nat /\ HeldByBucket(r)' \in Nat
      /\ QuotaTypeOK /\ a \in Buckets
      /\ QuotaTypeOK'
  <2>1. HandlersOK' /\ QuotaTypeOK' /\ HandlersOK /\ QuotaTypeOK
    BY DEF OInv, IInv
  <2>2. HeldByBucket(r)' \in Nat
    BY <2>1, AmountsNext
  <2> QED
    BY <2>1, <2>2, Amounts DEF Object, BucketOf
<1>2. ASSUME NEW b \in Buckets
      PROVE  (bucket[b].reserved - BucketHold(r, b))' = bucket[b].reserved - BucketHold(r, b)
  <2>1. CASE b = a
    <3>1. bucket'[b] = c /\ InBucket(r, b) /\ InBucket(r, b)'
      BY <1>1, <2>1, NowhereAssumption DEF QuotaTypeOK, InBucket, Object
    <3> QED
      BY <2>1, <3>1 DEF BucketHold
  <2>2. CASE b # a
    <3>1. bucket'[b] = bucket[b] /\ ~InBucket(r, b) /\ ~InBucket(r, b)'
      BY <1>1, <2>2 DEF QuotaTypeOK, InBucket
    <3> QED
      BY <3>1 DEF BucketHold
  <2> QED
    BY <2>1, <2>2
<1>3. ASSUME NEW u \in Users
      PROVE  AccountHold(r, u)' = AccountHold(r, u) /\ AccountHold(r, u) \in Int
  BY <1>1 DEF AccountHold, InAccount
<1>4. /\ \A b \in Buckets : bucket[b].reserved - BucketHold(r, b) \in Int
      /\ \A u \in Users : account[u].reserved \in Int
  BY <1>1 DEF QuotaTypeOK, BucketColumns, AccountColumns, BucketHold
<1> QED
  BY <1>2, <1>3, <1>4 DEF HoldsMove, OthersHold

\* And a statement on the owner's row.
LEMMA AccountHoldMoves ==
  ASSUME OInv, OInv', NEW r \in Requests, req[r].obj \in Object, req'[r].obj = req[r].obj,
         NEW c, account' = [account EXCEPT ![Owner[BucketOf(req[r].obj)]] = c],
         UNCHANGED bucket,
         c.reserved - HeldByAccount(r)' =
           account[Owner[BucketOf(req[r].obj)]].reserved - HeldByAccount(r),
         HeldByBucket(r)' = HeldByBucket(r)
  PROVE  HoldsMove(r)
<1> DEFINE a == Owner[BucketOf(req[r].obj)]
<1>1. /\ HeldByBucket(r) \in Nat /\ HeldByAccount(r) \in Nat /\ HeldByAccount(r)' \in Nat
      /\ QuotaTypeOK /\ a \in Users
      /\ QuotaTypeOK'
  <2>1. HandlersOK' /\ QuotaTypeOK' /\ HandlersOK /\ QuotaTypeOK
    BY DEF OInv, IInv
  <2>2. HeldByAccount(r)' \in Nat
    BY <2>1, AmountsNext
  <2>3. a \in Users
    BY OwnerAssumption DEF Object, BucketOf
  <2> QED
    BY <2>1, <2>2, <2>3, Amounts
<1>2. ASSUME NEW u \in Users
      PROVE  (account[u].reserved - AccountHold(r, u))' = account[u].reserved - AccountHold(r, u)
  <2>1. CASE u = a
    <3>1. account'[u] = c /\ InAccount(r, u) /\ InAccount(r, u)'
      BY <1>1, <2>1, NowhereAssumption DEF QuotaTypeOK, InAccount, Object
    <3> QED
      BY <2>1, <3>1 DEF AccountHold
  <2>2. CASE u # a
    <3>1. account'[u] = account[u] /\ ~InAccount(r, u) /\ ~InAccount(r, u)'
      BY <1>1, <2>2 DEF QuotaTypeOK, InAccount
    <3> QED
      BY <3>1 DEF AccountHold
  <2> QED
    BY <2>1, <2>2
<1>3. ASSUME NEW b \in Buckets
      PROVE  BucketHold(r, b)' = BucketHold(r, b) /\ BucketHold(r, b) \in Int
  BY <1>1 DEF BucketHold, InBucket
<1>4. /\ \A u \in Users : account[u].reserved - AccountHold(r, u) \in Int
      /\ \A b \in Buckets : bucket[b].reserved \in Int
  BY <1>1 DEF QuotaTypeOK, BucketColumns, AccountColumns, AccountHold
<1> QED
  BY <1>2, <1>3, <1>4 DEF HoldsMove, OthersHold

\* The statements of a handler's own that change no table, and the read of a row that
\* starts a procedure.
LEMMA QuietHolds ==
  ASSUME OInv, OInv', CallsOK, CallsOK', NEW r \in Requests,
         \/ Start(r) \/ CopyBegin(r) \/ RefuseWrite(r) \/ AnswerWrite(r)
         \/ FindRow(r) \/ RemoveRow(r) \/ CallCredit(r) \/ Credited(r)
         \/ UpdateRow(r) \/ RereadRow(r) \/ InsertRow(r) \/ WriteRowFails(r) \/ SendWrite(r)
  PROVE  HoldsMove(r)
<1> USE DEF At, WritePcs, DeletePcs, Ended, WriteOps, HeldByBucket, HeldByAccount, Growth
<1>0. /\ HandlerOK(req[r]) /\ CallOK(req[r], call[r]) /\ CallOK(req'[r], call'[r])
      /\ HandlersOK /\ RowsOK
      /\ req[r] \in Handler(ObjectOps, Pcs)
      /\ req[r].delta \in Int
  BY DEF OInv, HandlersOK, HandlerOK, Handler, CallsOK
<1>1. CASE \/ Start(r) \/ CopyBegin(r) \/ RefuseWrite(r) \/ AnswerWrite(r)
           \/ FindRow(r) \/ RemoveRow(r) \/ CallCredit(r) \/ Credited(r)
  <2>1. UNCHANGED <<bucket, account>>
    BY <1>1 DEF Start, StartPut, StartCopy, StartDelete, StartBatch, CopyBegin, RefuseWrite,
         AnswerWrite, FindRow, RemoveRow, CallCredit, Credited, Credit, Drop, qvars
  <2>2. HeldByBucket(r) = 0 /\ HeldByAccount(r) = 0
    BY <1>0, <1>1 DEF CallOK, Start, StartPut, StartCopy, StartDelete, StartBatch, Active,
         Resting, CopyBegin, RefuseWrite, AnswerWrite, FindRow, RemoveRow, CallCredit, Credited
  <2>3. req'[r].pc \in {"ok", "err", "find", "begin", "reserve", "send", "remove", "credit",
                        "credited"}
    <3>1. CASE Start(r)
      <4>1. ASSUME NEW o \in Object, NEW n \in Sizes, StartPut(r, o, n)
            PROVE  req'[r].pc \in {"reserve", "send"}
        BY <1>0, <4>1, PutStarts
      <4>2. ASSUME NEW s \in Object, NEW o \in Object, StartCopy(r, s, o)
            PROVE  req'[r].pc = "begin"
        BY <1>0, <4>2, CopyStarts
      <4>3. ASSUME NEW op, NEW objs, req' = [req EXCEPT ![r] = DeleteHandler(op, objs)]
            PROVE  req'[r].pc = "find"
        BY <1>0, <4>3, DeleteStarts
      <4>4. ASSUME Goes(r, "err")
            PROVE  req'[r].pc = "err"
        BY <1>0, <4>4, GoesOn
      <4> QED
        BY <3>1, <4>1, <4>2, <4>3, <4>4 DEF Start, StartDelete, StartBatch
    <3>2. CASE CopyBegin(r)
      BY <1>0, <3>2, PutBegun DEF CopyBegin, HandlerOK, AtObject
    <3>3. CASE RefuseWrite(r) \/ AnswerWrite(r) \/ CallCredit(r)
      BY <1>0, <3>3, GoesOn DEF RefuseWrite, AnswerWrite, CallCredit
    <3>4. CASE FindRow(r) \/ RemoveRow(r) \/ Credited(r)
      <4>1. ASSUME NEW o, NextKey(r, req[r], o)
            PROVE  req'[r].pc \in {"ok", "find"}
        BY <1>0, <4>1, KeyDone
      <4>2. CASE FindRow(r)
        BY <1>0, <4>1, <4>2, RowFound
      <4>3. CASE RemoveRow(r)
        BY <1>0, <4>1, <4>3, GoesOn DEF RemoveRow
      <4>4. CASE Credited(r)
        BY <1>0, <4>1, <4>4, GoesOn DEF Credited
      <4> QED
        BY <3>4, <4>2, <4>3, <4>4
    <3> QED
      BY <1>1, <3>1, <3>2, <3>3, <3>4
  <2>4. HeldByBucket(r)' = 0 /\ HeldByAccount(r)' = 0
    BY <1>0, <2>3 DEF CallOK
  <2> QED
    BY <2>1, <2>2, <2>4, HoldKept
<1>2. CASE UpdateRow(r) \/ RereadRow(r) \/ InsertRow(r) \/ WriteRowFails(r) \/ SendWrite(r)
  <2>1. UNCHANGED <<bucket, account, call>>
    BY <1>2 DEF UpdateRow, RereadRow, InsertRow, WriteRowFails, SendWrite, qvars
  <2>2. /\ Same(req'[r], req[r])
        /\ req'[r].pc \in {"update", "insert", "reread", "account", "release"}
             \cup (IF req[r].delta > 0 THEN {} ELSE {"err"})
    BY <1>0, <1>2, GoesOn, GivesUp, TriesAgain
       DEF UpdateRow, RereadRow, InsertRow, InsertFails, WriteRowFails, SendWrite
  <2>3. \/ req[r].pc \in {"update", "insert", "reread"}
        \/ req[r].pc = "send" /\ req[r].delta <= 0
        \/ req[r].pc = "admit" /\ call[r].at = "ok"
    BY <1>0, <1>2 DEF UpdateRow, RereadRow, InsertRow, WriteRowFails, SendWrite, Admitted, CallOK
  <2>4. HeldByBucket(r)' = HeldByBucket(r) /\ HeldByAccount(r)' = HeldByAccount(r)
    <3>1. req'[r].delta = req[r].delta
      BY <2>2 DEF Same
    <3>2. req'[r].pc # "err" => HeldByBucket(r)' = Growth(r) /\ HeldByAccount(r)' = Growth(r)
      BY <2>2, <3>1
    <3>3. HeldByBucket(r) = Growth(r) /\ HeldByAccount(r) = Growth(r)
      BY <1>0, <2>3 DEF CallOK
    <3>4. req'[r].pc = "err" => HeldByBucket(r)' = 0 /\ HeldByAccount(r)' = 0
      BY <1>0 DEF CallOK
    <3>5. req'[r].pc = "err" => Growth(r) = 0
      BY <1>0, <2>2
    <3> QED
      BY <3>2, <3>3, <3>4, <3>5
  <2> QED
    BY <2>1, <2>2, <2>4, HoldKept DEF Same
<1> QED
  BY <1>1, <1>2

\* The statements of the quota procedures: each moves a row by what the handler's hold on
\* it moves, its guard holding because the hold is there.
LEMMA StatementHolds ==
  ASSUME OInv, OInv', CallsOK, CallsOK', NEW r \in Requests, OwnHeld(r),
         \/ CallReserve(r) \/ Account(r) \/ GiveBack(r)
         \/ Continue(r) /\ UNCHANGED ovars
  PROVE  HoldsMove(r)
<1> USE DEF At, WritePcs, DeletePcs, Ended, AtStatement
<1> DEFINE o == req[r].obj
           a == BucketOf(o)
           u == Owner[a]
           n == req[r].delta
<1>0. /\ HandlerOK(req[r]) /\ CallOK(req[r], call[r]) /\ CallOK(req'[r], call'[r])
      /\ HandlersOK /\ live = Buckets /\ call \in [Requests -> Call]
      /\ bucket \in [Buckets -> BucketColumns] /\ account \in [Users -> AccountColumns]
      /\ n \in Int
  BY DEF OInv, IInv, QuotaTypeOK, HandlersOK, HandlerOK, Handler, CallsOK
<1>1. ASSUME o \in Object
      PROVE  /\ a \in Buckets /\ u \in Users /\ InBucket(r, a) /\ InAccount(r, u)
             /\ bucket[a].reserved \in Int /\ account[u].reserved \in Int
             /\ bucket[a] \in BucketColumns /\ account[u] \in AccountColumns
  <2>1. a \in Buckets /\ u \in Users /\ o # Nowhere
    BY <1>1, OwnerAssumption, NowhereAssumption DEF Object, BucketOf
  <2>2. InBucket(r, a) /\ InAccount(r, u)
    BY <2>1 DEF InBucket, InAccount
  <2> HIDE DEF a, u
  <2>3. bucket[a] \in BucketColumns /\ account[u] \in AccountColumns
    BY <1>0, <2>1
  <2>4. bucket[a].reserved \in Int /\ account[u].reserved \in Int
    BY <2>3 DEF BucketColumns, AccountColumns
  <2> QED
    BY <2>1, <2>2, <2>3, <2>4
<1>2. CASE CallReserve(r)
  <2>1. /\ req[r].pc = "reserve" /\ n > 0 /\ o \in Object /\ Reserve(r, a, n)
        /\ req'[r].pc = "admit" /\ Same(req'[r], req[r]) /\ call[r].at \in Ended
    BY <1>0, <1>2, GoesOn DEF CallReserve, HandlerOK, AtObject, CallOK
  <2>2. HeldByBucket(r) = 0 /\ HeldByAccount(r) = 0
    BY <2>1 DEF HeldByBucket, HeldByAccount
  <2>3. CASE HasRoom(bucket[a], n)
    <3>1. /\ bucket' = [bucket EXCEPT ![a] = Hold(bucket[a], n)]
          /\ call'[r].at = "reserve_user" /\ UNCHANGED account
      BY <1>0, <1>1, <2>1, <2>3 DEF Reserve, UpdateBucket, Frame
    <3>2. HeldByBucket(r)' = n /\ HeldByAccount(r)' = 0
      BY <2>1, <3>1 DEF HeldByBucket, HeldByAccount, Growth, Same
    <3>3. Hold(bucket[a], n).reserved = bucket[a].reserved + n
      BY <1>1, <2>1 DEF Hold, BucketColumns
    <3>4. Hold(bucket[a], n).reserved - HeldByBucket(r)'
            = bucket[a].reserved - HeldByBucket(r)
      BY <1>0, <1>1, <2>1, <2>2, <3>2, <3>3
    <3>5. req'[r].obj = o
      BY <2>1 DEF Same
    <3> QED
      BY <2>1, <2>2, <3>1, <3>2, <3>4, <3>5, BucketHoldMoves
  <2>4. CASE ~HasRoom(bucket[a], n)
    <3>1. UNCHANGED <<bucket, account>> /\ call'[r].at = "failed"
      BY <1>0, <2>1, <2>4 DEF Reserve, Frame
    <3>2. HeldByBucket(r)' = 0 /\ HeldByAccount(r)' = 0
      BY <2>1, <3>1 DEF HeldByBucket, HeldByAccount
    <3> QED
      BY <2>1, <2>2, <3>1, <3>2, HoldKept DEF Same
  <2> QED
    BY <2>3, <2>4
<1>3. CASE Account(r)
  <2>1. /\ req[r].pc = "account" /\ o \in Object /\ call[r].at \in Ended
        /\ req'[r].pc = "commit" /\ Same(req'[r], req[r])
    BY <1>0, <1>3, GoesOn DEF Account, HandlerOK, AtObject, CallOK
  <2>2. HeldByBucket(r) = Growth(r) /\ HeldByAccount(r) = Growth(r)
    BY <2>1 DEF HeldByBucket, HeldByAccount
  <2>3. CASE n > 0
    <3>1. /\ bucket' = [bucket EXCEPT ![a] = CommitColumns(bucket[a], n, req[r].new)]
          /\ call'[r].at = "commit_user" /\ UNCHANGED account
      BY <1>0, <1>1, <1>3, <2>1, <2>3 DEF Account, Commit, UpdateBucket, Frame
    <3>2. HeldByBucket(r)' = 0 /\ HeldByAccount(r)' = n /\ Growth(r) = n
      BY <2>1, <2>3, <3>1 DEF HeldByBucket, HeldByAccount, Growth, Same
    <3>3. bucket[a].reserved >= n
      BY <1>1, <2>1, <2>2, <3>2 DEF OwnHeld, BucketHold
    <3>4. CommitColumns(bucket[a], n, req[r].new).reserved = bucket[a].reserved - n
      BY <3>3 DEF CommitColumns
    <3>5. CommitColumns(bucket[a], n, req[r].new).reserved - HeldByBucket(r)'
            = bucket[a].reserved - HeldByBucket(r)
      BY <1>0, <1>1, <2>1, <2>2, <3>2, <3>4
    <3>6. req'[r].obj = o
      BY <2>1 DEF Same
    <3> QED
      BY <2>1, <2>2, <3>1, <3>2, <3>5, <3>6, BucketHoldMoves
  <2>4. CASE ~(n > 0)
    <3>1. UNCHANGED <<bucket, account>> /\ call'[r].at \in {"ok", "settle_bucket", "failed"}
      BY <1>0, <1>3, <2>1, <2>4 DEF Account, Settle, Frame
    <3>2. HeldByBucket(r)' = 0 /\ HeldByAccount(r)' = 0 /\ Growth(r) = 0
      BY <2>1, <2>4, <3>1 DEF HeldByBucket, HeldByAccount, Growth
    <3> QED
      BY <2>1, <2>2, <3>1, <3>2, HoldKept DEF Same
  <2> QED
    BY <2>3, <2>4
<1>4. CASE GiveBack(r)
  <2>1. /\ req[r].pc = "release" /\ n > 0 /\ o \in Object /\ Release(r, a, n)
        /\ req'[r].pc = "abort" /\ Same(req'[r], req[r])
    BY <1>0, <1>4, GoesOn DEF GiveBack, HandlerOK, AtObject
  <2>2. HeldByBucket(r) = n /\ HeldByAccount(r) = n
    BY <2>1 DEF HeldByBucket, HeldByAccount, Growth
  <2>3. /\ bucket' = [bucket EXCEPT ![a] = Unhold(bucket[a], n)]
        /\ call'[r].at = "release_user" /\ UNCHANGED account
    BY <1>0, <1>1, <2>1 DEF Release, UpdateBucket, Frame
  <2>4. HeldByBucket(r)' = 0 /\ HeldByAccount(r)' = n
    BY <2>1, <2>3 DEF HeldByBucket, HeldByAccount, Growth, Same
  <2>5. bucket[a].reserved >= n
    BY <1>1, <2>1, <2>2 DEF OwnHeld, BucketHold
  <2>6. Unhold(bucket[a], n).reserved = bucket[a].reserved - n
    BY <1>1, <2>1, <2>5 DEF Unhold, BucketColumns
  <2>7. Unhold(bucket[a], n).reserved - HeldByBucket(r)'
          = bucket[a].reserved - HeldByBucket(r)
    BY <1>0, <1>1, <2>1, <2>2, <2>4, <2>6
  <2>8. req'[r].obj = o
    BY <2>1 DEF Same
  <2> QED
    BY <2>1, <2>2, <2>3, <2>4, <2>7, <2>8, BucketHoldMoves
<1>5. CASE Continue(r) /\ UNCHANGED ovars
  <2>1. req' = req /\ Growth(r)' = Growth(r)
    BY <1>5 DEF ovars, Growth
  <2>2. CASE ReserveUser(r) \/ Unreserve(r)
    <3>1. /\ req[r].pc = "admit" /\ call[r].bucket = a /\ call[r].bytes = n /\ n > 0
          /\ o \in Object
      BY <1>0, <2>2 DEF CallOK, ReserveUser, Unreserve, HandlerOK, AtObject
    <3>2. Growth(r) = n
      BY <3>1 DEF Growth
    <3>3. CASE Unreserve(r)
      <4>1. /\ bucket' = [bucket EXCEPT ![a] = Unhold(bucket[a], n)] /\ UNCHANGED account
            /\ call[r].at = "unreserve" /\ call'[r].at = "failed"
        BY <1>0, <1>1, <3>1, <3>3 DEF Unreserve, UpdateBucket, Goto, Call
      <4>2. /\ HeldByBucket(r) = n /\ HeldByBucket(r)' = 0
            /\ HeldByAccount(r) = 0 /\ HeldByAccount(r)' = 0
        BY <2>1, <3>1, <3>2, <4>1 DEF HeldByBucket, HeldByAccount
      <4>3. bucket[a].reserved >= n
        BY <1>1, <3>1, <4>2 DEF OwnHeld, BucketHold
      <4>4. Unhold(bucket[a], n).reserved = bucket[a].reserved - n
        BY <1>1, <3>1, <4>3 DEF Unhold, BucketColumns
      <4>5. Unhold(bucket[a], n).reserved - HeldByBucket(r)'
              = bucket[a].reserved - HeldByBucket(r)
        BY <1>0, <1>1, <3>1, <4>2, <4>4
      <4> QED
        BY <2>1, <3>1, <4>1, <4>2, <4>5, BucketHoldMoves
    <3>4. CASE ReserveUser(r) /\ HasRoom(account[u], n)
      <4>1. /\ account' = [account EXCEPT ![u] = Hold(account[u], n)] /\ UNCHANGED bucket
            /\ call[r].at = "reserve_user" /\ call'[r].at = "ok"
        BY <1>0, <1>1, <3>1, <3>4 DEF ReserveUser, UpdateOwner, Goto, Call
      <4>2. /\ HeldByBucket(r) = n /\ HeldByBucket(r)' = n
            /\ HeldByAccount(r) = 0 /\ HeldByAccount(r)' = n
        BY <2>1, <3>1, <3>2, <4>1 DEF HeldByBucket, HeldByAccount
      <4>3. Hold(account[u], n).reserved = account[u].reserved + n
        BY <1>1, <3>1 DEF Hold, AccountColumns
      <4>4. Hold(account[u], n).reserved - HeldByAccount(r)'
              = account[u].reserved - HeldByAccount(r)
        BY <1>0, <1>1, <3>1, <4>2, <4>3
      <4> QED
        BY <2>1, <3>1, <4>1, <4>2, <4>4, AccountHoldMoves
    <3>5. CASE ReserveUser(r) /\ ~HasRoom(account[u], n)
      <4>1. /\ UNCHANGED <<bucket, account>>
            /\ call[r].at = "reserve_user" /\ call'[r].at = "unreserve"
        BY <1>0, <1>1, <3>1, <3>5 DEF ReserveUser, Goto, Call
      <4>2. /\ HeldByBucket(r) = n /\ HeldByBucket(r)' = n
            /\ HeldByAccount(r) = 0 /\ HeldByAccount(r)' = 0
        BY <2>1, <3>1, <3>2, <4>1 DEF HeldByBucket, HeldByAccount
      <4> QED
        BY <2>1, <4>1, <4>2, HoldKept
    <3> QED
      BY <2>2, <3>3, <3>4, <3>5
  <2>3. CASE CommitUser(r) \/ ReleaseUser(r)
    <3>1. /\ req[r].pc \in {"commit", "abort"} /\ call[r].bucket = a /\ call[r].bytes = n
          /\ n > 0 /\ o \in Object /\ call[r].at \in {"commit_user", "release_user"}
      BY <1>0, <2>3 DEF CallOK, CommitUser, ReleaseUser, HandlerOK, AtObject
    <3>2. HeldByBucket(r) = 0 /\ HeldByAccount(r) = n
      BY <3>1 DEF Growth, HeldByBucket, HeldByAccount
    <3>3. account[u].reserved >= n
      BY <1>1, <3>1, <3>2 DEF OwnHeld, AccountHold
    <3>4. \E c : /\ account' = [account EXCEPT ![u] = c] /\ UNCHANGED bucket
                 /\ c.reserved = account[u].reserved - n /\ call'[r].at = "ok"
      <4>1. Unhold(account[u], n).reserved = account[u].reserved - n
        BY <1>1, <3>1, <3>3 DEF Unhold, AccountColumns
      <4>2. Spend(account[u], n).reserved = account[u].reserved - n
        BY <3>3 DEF Spend
      <4> QED
        BY <1>0, <2>3, <3>1, <4>1, <4>2 DEF CommitUser, ReleaseUser, UpdateOwner, Goto, Call
    <3>5. HeldByBucket(r)' = 0 /\ HeldByAccount(r)' = 0
      BY <2>1, <3>1, <3>4 DEF HeldByBucket, HeldByAccount
    <3>6. PICK c : /\ account' = [account EXCEPT ![u] = c] /\ UNCHANGED bucket
                   /\ c.reserved = account[u].reserved - n
      BY <3>4
    <3>7. c.reserved - HeldByAccount(r)' = account[u].reserved - HeldByAccount(r)
      BY <1>0, <1>1, <3>1, <3>2, <3>5, <3>6
    <3> QED
      BY <2>1, <3>1, <3>2, <3>5, <3>6, <3>7, AccountHoldMoves
  <2>4. CASE SettleBucket(r) \/ CreditBucket(r)
    <3>1. /\ req[r].pc \in {"commit", "credited"} /\ call[r].bucket = a /\ o \in Object
          /\ call'[r].at \in {"settle_user", "credit_user"} /\ UNCHANGED account
          /\ call[r].at \in {"settle_bucket", "credit_bucket"}
      BY <1>0, <2>4 DEF CallOK, SettleBucket, CreditBucket, HandlerOK, AtObject, Goto, Call
    <3>2. \E c : bucket' = [bucket EXCEPT ![a] = c] /\ c.reserved = bucket[a].reserved
      <4>1. SettleColumns(bucket[a], call[r].bytes, call[r].objects).reserved
              = bucket[a].reserved
        BY DEF SettleColumns
      <4>2. CreditColumns(bucket[a], call[r].bytes).reserved = bucket[a].reserved
        BY DEF CreditColumns
      <4> QED
        BY <1>0, <1>1, <2>4, <3>1, <4>1, <4>2 DEF SettleBucket, CreditBucket, UpdateBucket
    <3>3. /\ HeldByBucket(r) = 0 /\ HeldByBucket(r)' = 0
          /\ HeldByAccount(r) = 0 /\ HeldByAccount(r)' = 0
      BY <2>1, <3>1 DEF HeldByBucket, HeldByAccount
    <3> QED
      BY <1>0, <1>1, <2>1, <3>1, <3>2, <3>3, BucketHoldMoves
  <2>5. CASE SettleUser(r) \/ CreditUser(r)
    <3>1. /\ req[r].pc \in {"commit", "credited"} /\ call[r].bucket = a /\ o \in Object
          /\ call'[r].at = "ok" /\ UNCHANGED bucket /\ call[r].bytes \in Int
          /\ call[r].at \in {"settle_user", "credit_user"}
      BY <1>0, <2>5 DEF CallOK, SettleUser, CreditUser, HandlerOK, AtObject, Goto, Call
    <3>2. \E c : account' = [account EXCEPT ![u] = c] /\ c.reserved = account[u].reserved
      <4>1. \A k \in Int : Adjust(account[u], k).reserved = account[u].reserved
        BY <1>1, <3>1 DEF Adjust, AccountColumns
      <4> QED
        BY <1>0, <1>1, <2>5, <3>1, <4>1 DEF SettleUser, CreditUser, UpdateOwner
    <3>3. /\ HeldByBucket(r) = 0 /\ HeldByBucket(r)' = 0
          /\ HeldByAccount(r) = 0 /\ HeldByAccount(r)' = 0
      BY <2>1, <3>1 DEF HeldByBucket, HeldByAccount
    <3> QED
      BY <1>0, <1>1, <2>1, <3>1, <3>2, <3>3, AccountHoldMoves
  <2> QED
    BY <1>5, <2>2, <2>3, <2>4, <2>5 DEF Continue
<1> QED
  BY <1>2, <1>3, <1>4, <1>5

\* A step is without fault only after steps without fault.
LEMMA FaultsGrow ==
  ASSUME OInv, NEW r \in Requests, Step(r)
  PROVE  /\ faults' = faults \/ faults' = faults + 1
         /\ faults' = 0 => faults = 0
<1>1. faults \in Nat
  BY MaxFaultsAssumption DEF OInv, StoreOK
<1>2. UNCHANGED faults \/ Fault
  <2>1. CASE Start(r)
    BY <2>1 DEF Start, StartPut, StartCopy, StartDelete, StartBatch, Answered, AnswerLost
  <2>2. CASE SendWrite(r) \/ WriteRowFails(r) \/ Crash(r)
    BY <2>2 DEF SendWrite, WriteRowFails, Crash, Answered, Refused, AnswerLost
  <2>3. CASE Proceed(r)
    BY <2>3 DEF Proceed, CopyBegin, CallReserve, RefuseWrite, UpdateRow, RereadRow, InsertRow,
         Account, GiveBack, AnswerWrite, FindRow, RemoveRow, CallCredit, Credited, ovars
  <2> QED
    BY <2>1, <2>2, <2>3 DEF Step
<1> QED
  BY <1>1, <1>2 DEF Fault

\* Every step moves the rows and the handler's hold together.
LEMMA HoldsStep ==
  ASSUME OInv, OInv', CallsOK, HoldsOK, NEW r \in Requests, Step(r)
  PROVE  HoldsMove(r)
<1>1. CallsOK' /\ OwnHeld(r)
  BY CallsKept, HoldsCover
<1>2. CASE Crash(r)
  <2>1. /\ req'[r].pc = "crashed" /\ call'[r].at = "none"
        /\ UNCHANGED <<bucket, account>> /\ faults' # 0
    <3>1. HandlersOK /\ call \in [Requests -> Call] /\ faults \in Nat
      BY MaxFaultsAssumption DEF OInv, IInv, QuotaTypeOK, StoreOK
    <3> QED
      BY <1>2, <3>1, GoesOn DEF Crash, NoCall, Fault
  <2>2. HeldByBucket(r)' = 0 /\ HeldByAccount(r)' = 0
    BY <2>1 DEF HeldByBucket, HeldByAccount, At
  <2> QED
    BY <2>1, <2>2, HoldLost
<1> QED
  BY <1>1, <1>2, QuietHolds, StatementHolds DEF Step, Proceed

\* So the sums follow the rows.
LEMMA HoldsKept ==
  ASSUME OInv, OInv', CallsOK, HoldsOK, NEW r \in Requests, Step(r)
  PROVE  HoldsOK'
<1>0. /\ IsFiniteSet(Requests) /\ HandlersOK /\ HandlersOK'
      /\ faults' = 0 => faults = 0
      /\ QuotaTypeOK /\ QuotaTypeOK'
  BY FiniteAssumption, FaultsGrow DEF OInv, IInv
<1>1. HoldsMove(r)
  BY HoldsStep
<1>2. ASSUME NEW q \in Requests \ {r}
      PROVE  HeldByBucket(q)' = HeldByBucket(q) /\ HeldByAccount(q)' = HeldByAccount(q)
             /\ req'[q] = req[q]
  BY OthersStay DEF HeldByBucket, HeldByAccount, Growth, At
<1>3. ASSUME NEW b \in Buckets
      PROVE  /\ bucket'[b].reserved >= Total(BucketHolds(b)', Requests)
             /\ faults' = 0 => bucket'[b].reserved = Total(BucketHolds(b)', Requests)
  <2> DEFINE f == BucketHolds(b)
             h == BucketHolds(b)'
  <2>1. \A q \in Requests : f[q] \in Int
    BY <1>0, Amounts DEF BucketHolds, BucketHold
  <2>2. h[r] \in Int /\ f[r] = BucketHold(r, b) /\ h[r] = BucketHold(r, b)'
    BY <1>0, AmountsNext DEF BucketHolds, BucketHold
  <2>3. \A q \in Requests \ {r} : h[q] = f[q]
    BY <1>2 DEF BucketHolds, BucketHold, InBucket
  <2>4. OthersHold(bucket[b].reserved - f[r], bucket'[b].reserved - h[r])
    BY <1>1, <2>2 DEF HoldsMove
  <2>5. /\ bucket[b].reserved >= Total(f, Requests)
        /\ faults = 0 => bucket[b].reserved = Total(f, Requests)
    BY DEF HoldsOK
  <2>6. bucket[b].reserved \in Int /\ bucket'[b].reserved \in Int
    BY <1>0 DEF QuotaTypeOK, BucketColumns
  <2> HIDE DEF f, h
  <2>7. ChangedAt(f, h, r, Requests)
    BY <2>1, <2>2, <2>3 DEF ChangedAt
  <2>8. /\ Total(h, Requests) = Total(f, Requests) + (h[r] - f[r])
        /\ Total(f, Requests) \in Int
    BY <1>0, <2>7, TotalChange
  <2>9. /\ bucket'[b].reserved >= Total(h, Requests)
        /\ faults' = 0 => bucket'[b].reserved = Total(h, Requests)
    BY <1>0, <2>1, <2>2, <2>4, <2>5, <2>6, <2>8 DEF OthersHold
  <2> QED
    BY <2>9 DEF h
<1>4. ASSUME NEW u \in Users
      PROVE  /\ account'[u].reserved >= Total(AccountHolds(u)', Requests)
             /\ faults' = 0 => account'[u].reserved = Total(AccountHolds(u)', Requests)
  <2> DEFINE f == AccountHolds(u)
             h == AccountHolds(u)'
  <2>1. \A q \in Requests : f[q] \in Int
    BY <1>0, Amounts DEF AccountHolds, AccountHold
  <2>2. h[r] \in Int /\ f[r] = AccountHold(r, u) /\ h[r] = AccountHold(r, u)'
    BY <1>0, AmountsNext DEF AccountHolds, AccountHold
  <2>3. \A q \in Requests \ {r} : h[q] = f[q]
    BY <1>2 DEF AccountHolds, AccountHold, InAccount
  <2>4. OthersHold(account[u].reserved - f[r], account'[u].reserved - h[r])
    BY <1>1, <2>2 DEF HoldsMove
  <2>5. /\ account[u].reserved >= Total(f, Requests)
        /\ faults = 0 => account[u].reserved = Total(f, Requests)
    BY DEF HoldsOK
  <2>6. account[u].reserved \in Int /\ account'[u].reserved \in Int
    BY <1>0 DEF QuotaTypeOK, AccountColumns
  <2> HIDE DEF f, h
  <2>7. ChangedAt(f, h, r, Requests)
    BY <2>1, <2>2, <2>3 DEF ChangedAt
  <2>8. /\ Total(h, Requests) = Total(f, Requests) + (h[r] - f[r])
        /\ Total(f, Requests) \in Int
    BY <1>0, <2>7, TotalChange
  <2>9. /\ account'[u].reserved >= Total(h, Requests)
        /\ faults' = 0 => account'[u].reserved = Total(h, Requests)
    BY <1>0, <2>1, <2>2, <2>4, <2>5, <2>6, <2>8 DEF OthersHold
  <2> QED
    BY <2>9 DEF h
<1> QED
  BY <1>3, <1>4 DEF HoldsOK

HInv == OInv /\ CallsOK /\ HoldsOK

\* Nothing is held at the start.
LEMMA HoldsInit ==
  ASSUME AmountsCovered, ObjectsInit
  PROVE  HInv
<1>1. OInv /\ IsFiniteSet(Requests)
  BY ObjectsInitOK, FiniteAssumption
<1>2. CallsOK
  BY DEF ObjectsInit, QuotaInit, CallsOK, CallOK, NoHandler, NoCall, Ended, WritePcs, DeletePcs
<1>3. HoldsOK
  <2>1. \A r \in Requests : HeldByBucket(r) = 0 /\ HeldByAccount(r) = 0
    BY DEF ObjectsInit, QuotaInit, NoHandler, NoCall, HeldByBucket, HeldByAccount, At
  <2>2. ASSUME NEW b
        PROVE  Total(BucketHolds(b), Requests) = 0
    <3> DEFINE f == BucketHolds(b)
    <3>1. \A r \in Requests : f[r] = 0
      BY <2>1 DEF BucketHolds, BucketHold
    <3> HIDE DEF f
    <3>2. Total(f, Requests) = 0
      BY <1>1, <3>1, TotalZero
    <3> QED
      BY <3>2 DEF f
  <2>3. ASSUME NEW u
        PROVE  Total(AccountHolds(u), Requests) = 0
    <3> DEFINE f == AccountHolds(u)
    <3>1. \A r \in Requests : f[r] = 0
      BY <2>1 DEF AccountHolds, AccountHold
    <3> HIDE DEF f
    <3>2. Total(f, Requests) = 0
      BY <1>1, <3>1, TotalZero
    <3> QED
      BY <3>2 DEF f
  <2>4. /\ \A b \in Buckets : bucket[b].reserved = 0
        /\ \A u \in Users : account[u].reserved = 0
    BY DEF ObjectsInit, QuotaInit
  <2> QED
    BY <2>2, <2>3, <2>4 DEF HoldsOK
<1> QED
  BY <1>1, <1>2, <1>3 DEF HInv

\* The invariant is inductive.
LEMMA HInvKept ==
  ASSUME AmountsCovered, HInv, [ObjectsNext]_gatewayVars
  PROVE  HInv'
<1>1. OInv'
  BY ObjectsKept DEF HInv
<1>2. CASE UNCHANGED gatewayVars
  <2>1. CallsOK'
    BY <1>2 DEF HInv, CallsOK, CallOK, gatewayVars, qvars, ovars
  <2>2. HoldsOK'
    BY <1>2 DEF HInv, HoldsOK, BucketHolds, AccountHolds, BucketHold, AccountHold, InBucket,
         InAccount, HeldByBucket, HeldByAccount, Growth, At, gatewayVars, qvars, ovars
  <2> QED
    BY <1>1, <2>1, <2>2 DEF HInv
<1>3. ASSUME NEW r \in Requests, Step(r)
      PROVE  HInv'
  BY <1>1, <1>3, CallsKept, HoldsKept DEF HInv
<1> QED
  BY <1>2, <1>3 DEF ObjectsNext, Step

\* A request in flight finds its hold on both rows, whoever crashes, and while nothing is
\* lost the reserved columns are the holds of the requests in flight: for every set of
\* buckets, keys and requests, with clients that overlap on a key or not.
THEOREM ObjectsHoldsAccounted ==
  AmountsCovered => (ObjectsSpec => []HoldsAccounted)
<1> SUFFICES ASSUME AmountsCovered PROVE ObjectsSpec => []HoldsAccounted
  OBVIOUS
<1>1. ObjectsInit => HInv
  BY HoldsInit
<1>2. HInv /\ [ObjectsNext]_gatewayVars => HInv'
  BY HInvKept
<1>3. HInv => HoldsAccounted
  <2> SUFFICES ASSUME HInv PROVE HoldsAccounted
    OBVIOUS
  <2>1. HandlersOK /\ HoldsOK
    BY DEF HInv, OInv
  <2>2. \A b : MapThenSumSet(HeldByBucket, Charging(b)) = Total(BucketHolds(b), Requests)
    BY <2>1, BucketHoldsTotal
  <2>3. \A u : MapThenSumSet(HeldByAccount, ChargingAny(BucketsOf(u)))
                 = Total(AccountHolds(u), Requests)
    BY <2>1, AccountHoldsTotal
  <2> QED
    BY <2>1, <2>2, <2>3 DEF HoldsAccounted, HoldsOK
<1> QED
  BY <1>1, <1>2, <1>3, PTL DEF ObjectsSpec

----------------------------------------------------------------------------
(* Clients that keep their requests off each other's keys: what a handler  *)
(* remembers of its objects stays true.                                    *)

Apart ==
  \A q, r \in Requests : q # r /\ Active(q) /\ Active(r) => Touches(q) \cap Touches(r) = {}

\* Where a write has its row, and where the store has not had the write.
Written == {"reread", "account", "commit"}
Unsent == {"begin", "reserve", "admit", "send", "release", "abort"}

\* What a write knows of the row it replaces, and of the store.
WriteKnows(r) ==
  LET h == req[r] IN
  Writing(r) /\ Active(r) =>
    /\ h.keys = {} /\ (h.op = "put" => h.src = Nowhere)
    /\ h.size - h.delta >= 0
    /\ h.pc \in {"reserve", "admit", "send", "update", "insert"} =>
         /\ h.delta = h.size - Stored(row[h.obj])
         /\ h.new = IF row[h.obj] = Absent THEN 1 ELSE 0
    /\ h.pc = "insert" => row[h.obj] = Absent
    /\ h.pc \in Written => row[h.obj] = h.size
    /\ h.op = "put" /\ h.pc \in Written \cup {"update", "insert"} => blob[h.obj] = h.size

\* What a delete knows of the row it removes, and of its keys in the store.
DeleteKnows(r) ==
  LET h == req[r] IN
  h.pc \in DeletePcs =>
    /\ h.src = Nowhere
    /\ IF h.pc = "find" THEN h.obj = Nowhere ELSE h.obj \in h.keys
    /\ h.pc = "remove" => row[h.obj] = h.size /\ h.size \in Nat
    /\ h.pc \in {"credit", "credited"} => row[h.obj] = Absent
    /\ h.op = "delete" \/ faults = 0 => \A o \in h.keys : blob[o] = Absent

\* What a write knows of the store while nothing is lost.
StoreKnows(r) ==
  LET h == req[r] IN
  Active(r) /\ faults = 0 =>
    /\ Writing(r) /\ h.pc \in Unsent => row[h.obj] = blob[h.obj]
    /\ h.op = "copy" => row[h.src] = h.size /\ blob[h.src] = h.size
    /\ Writing(r) /\ h.pc \in Written \cup {"update", "insert"} => blob[h.obj] = h.size

Knows(r) == WriteKnows(r) /\ DeleteKnows(r) /\ StoreKnows(r)

\* What is in a handler's fields is what it touches.
LEMMA Touched ==
  ASSUME HandlersOK, CallsOK, NEW r \in Requests, Active(r)
  PROVE  /\ Touches(r) \subseteq Object
         /\ req[r].keys \subseteq Touches(r)
         /\ Writing(r) => req[r].obj \in Touches(r)
         /\ req[r].op = "copy" => req[r].src \in Touches(r)
         /\ req[r].pc \in AtObject /\ req[r].pc \notin WritePcs => ~Writing(r)
<1>1. HandlerOK(req[r]) /\ CallOK(req[r], call[r]) /\ req[r].pc \notin Resting
  BY DEF HandlersOK, CallsOK, Active
<1>2. req[r].pc \in WritePcs \cup DeletePcs
  BY <1>1 DEF HandlerOK, Handler, Pcs
<1>3. Writing(r) => req[r].pc \in WritePcs
  BY <1>1, <1>2 DEF CallOK, Writing, WriteOps
<1>4. Writing(r) => req[r].obj \in Object
  BY <1>1, <1>3 DEF HandlerOK, AtObject
<1>5. req[r].obj # Nowhere /\ Writing(r) => req[r].obj \in Touches(r)
  BY DEF Touches, UploadOnlyOps, PartOps, Writing, WriteOps
<1>6. req[r].op = "copy" => req[r].src \in Touches(r)
  BY <1>1, NowhereAssumption DEF Touches, HandlerOK, Object
<1>7. Touches(r) \subseteq Object
  BY <1>1 DEF HandlerOK, Handler, Touches
<1>8. req[r].pc \in AtObject /\ req[r].pc \notin WritePcs => ~Writing(r)
  BY <1>3
<1>9. Nowhere \notin Object
  BY NowhereAssumption DEF Object
<1> QED
  BY <1>4, <1>5, <1>6, <1>7, <1>8, <1>9 DEF Touches

\* Clients let a new request touch what no other one does.
LEMMA OthersAway ==
  ASSUME SerialKeys, NEW objs, Undisturbed(objs)
  PROVE  \A q \in Requests : Active(q) => Touches(q) \cap objs = {}
  BY DEF Undisturbed

\* What a new request touches no request did, and a request in flight takes up no object.
LEMMA TouchesMove ==
  ASSUME SerialKeys, OInv, CallsOK, NEW r \in Requests, Step(r), Active(r)'
  PROVE  \/ Active(r) /\ Touches(r)' \subseteq Touches(r)
         \/ /\ ~Active(r)
            /\ \A q \in Requests : Active(q) => Touches(q) \cap Touches(r)' = {}
<1> USE DEF At
<1>0. /\ HandlersOK /\ RowsOK /\ CallsOK /\ HandlerOK(req[r]) /\ CallOK(req[r], call[r])
  BY DEF OInv, HandlersOK, CallsOK
<1>1. CASE Start(r)
  <2>1. ~Active(r)
    BY <1>1 DEF Start, StartPut, StartCopy, StartDelete, StartBatch
  <2>2. ASSUME NEW o \in Object, NEW n \in Sizes, StartPut(r, o, n)
        PROVE  Touches(r)' \subseteq {o} /\ Undisturbed({o})
    <3>1. req'[r].obj = o /\ req'[r].src = Nowhere /\ req'[r].keys = {}
      BY <1>0, <2>2, PutStarts
    <3> QED
      BY <2>2, <3>1 DEF StartPut, Touches
  <2>3. ASSUME NEW s \in Object, NEW o \in Object, StartCopy(r, s, o)
        PROVE  Touches(r)' \subseteq {s, o} /\ Undisturbed({s, o})
    <3>1. req'[r].obj = o /\ req'[r].src = s /\ req'[r].keys = {}
      BY <1>0, <2>3, CopyStarts
    <3> QED
      BY <2>3, <3>1 DEF StartCopy, Touches
  <2>4. ~Goes(r, "err")
    BY <1>0, GoesOn DEF Active, Resting
  <2>5. ASSUME NEW op, NEW objs, req' = [req EXCEPT ![r] = DeleteHandler(op, objs)]
        PROVE  Touches(r)' \subseteq objs
    <3>1. req'[r] = DeleteHandler(op, objs)
      BY <1>0, <2>5 DEF HandlersOK
    <3>2. req'[r].obj = Nowhere /\ req'[r].src = Nowhere /\ req'[r].keys = objs
      BY <3>1 DEF DeleteHandler, NoHandler
    <3> QED
      BY <3>2 DEF Touches
  <2>6. ASSUME NEW o \in Object, StartDelete(r, o)
        PROVE  Touches(r)' \subseteq {o} /\ Undisturbed({o})
    BY <2>4, <2>5, <2>6 DEF StartDelete
  <2>7. ASSUME NEW b, NEW objs, StartBatch(r, b, objs)
        PROVE  Touches(r)' \subseteq objs /\ Undisturbed(objs)
    BY <2>4, <2>5, <2>7 DEF StartBatch
  <2>8. \E objs : Touches(r)' \subseteq objs /\ Undisturbed(objs)
    BY <1>1, <2>2, <2>3, <2>6, <2>7 DEF Start
  <2> QED
    BY <2>1, <2>8 DEF Undisturbed
<1>2. ASSUME Same(req'[r], req[r])
      PROVE  Touches(r)' = Touches(r)
  BY <1>2 DEF Same, Touches
<1>3. ASSUME NEW o, NextKey(r, req[r], o)
      PROVE  Touches(r)' \subseteq Touches(r)
  <2>1. /\ req'[r].obj = Nowhere /\ req'[r].src = req[r].src
        /\ req'[r].keys \subseteq req[r].keys
    BY <1>0, <1>3, KeyDone
  <2> QED
    BY <2>1 DEF Touches
<1>4. CASE FindRow(r)
  <2>1. Active(r)
    BY <1>4 DEF FindRow, Active, Resting
  <2>2. PICK o \in req[r].keys :
           \/ NextKey(r, req[r], o)
           \/ /\ req'[r].obj = o /\ req'[r].src = req[r].src /\ req'[r].keys = req[r].keys
    BY <1>0, <1>4, RowFound
  <2>3. Touches(r)' \subseteq Touches(r)
    BY <1>3, <2>2 DEF Touches
  <2> QED
    BY <2>1, <2>3
<1>5. CASE CopyBegin(r)
  <2>1. Active(r) /\ req[r].obj \in Object
    BY <1>0, <1>5 DEF CopyBegin, Active, Resting, HandlerOK, AtObject, WritePcs
  <2>2. /\ req'[r].op = req[r].op /\ req'[r].obj = req[r].obj /\ req'[r].src = req[r].src
        /\ req'[r].keys = req[r].keys
    BY <1>0, <1>5, <2>1, PutBegun DEF CopyBegin, HandlerOK
  <2> QED
    BY <2>1, <2>2 DEF Touches
<1>6. CASE Continue(r) /\ UNCHANGED ovars
  BY <1>6 DEF ovars, Active, Touches
<1>7. CASE Crash(r)
  BY <1>0, <1>7, GoesOn DEF Crash, Active, Resting
<1>8. CASE SendWrite(r) \/ WriteRowFails(r)
  <2>1. Active(r)
    BY <1>8 DEF SendWrite, Admitted, WriteRowFails, Active, Resting
  <2> QED
    BY <1>0, <1>2, <1>8, <2>1, GoesOn, GivesUp, TriesAgain
       DEF SendWrite, WriteRowFails, InsertFails
<1>9. CASE \/ CallReserve(r) \/ RefuseWrite(r) \/ UpdateRow(r) \/ RereadRow(r)
           \/ InsertRow(r) \/ Account(r) \/ GiveBack(r) \/ AnswerWrite(r) \/ CallCredit(r)
  <2>1. Active(r)
    BY <1>9 DEF CallReserve, RefuseWrite, UpdateRow, RereadRow, InsertRow, Account, GiveBack,
         AnswerWrite, CallCredit, Active, Resting
  <2>2. Same(req'[r], req[r])
    BY <1>0, <1>9, GoesOn, GivesUp, TriesAgain
       DEF CallReserve, RefuseWrite, UpdateRow, RereadRow, InsertRow, InsertFails, Account,
         GiveBack, AnswerWrite, CallCredit
  <2> QED
    BY <1>2, <2>1, <2>2
<1>10. CASE RemoveRow(r) \/ Credited(r)
  <2>1. Active(r)
    BY <1>10 DEF RemoveRow, Credited, Active, Resting
  <2> QED
    BY <1>0, <1>2, <1>3, <1>10, <2>1, GoesOn DEF RemoveRow, Credited
<1> QED
  BY <1>1, <1>4, <1>5, <1>6, <1>7, <1>8, <1>9, <1>10 DEF Step, Proceed

\* So the requests in flight stay off each other's objects.
LEMMA ApartKept ==
  ASSUME SerialKeys, OInv, CallsOK, Apart, NEW r \in Requests, Step(r)
  PROVE  Apart'
<1>1. \A q \in Requests \ {r} : (Active(q)' <=> Active(q)) /\ Touches(q)' = Touches(q)
  BY OthersStay DEF Active, Touches
<1>2. Active(r)' => \A q \in Requests \ {r} : Active(q) => Touches(q) \cap Touches(r)' = {}
  BY TouchesMove DEF Apart
<1> QED
  BY <1>1, <1>2 DEF Apart

\* A request in flight changes the rows and the blobs of its own objects only.
LEMMA OwnTouched ==
  ASSUME OInv, CallsOK, NEW r \in Requests, Step(r), Active(r),
         NEW o \in Object \ Touches(r)
  PROVE  row'[o] = row[o] /\ blob'[o] = blob[o]
<1> USE DEF At
<1>0. /\ HandlersOK /\ HandlerOK(req[r]) /\ CallOK(req[r], call[r])
      /\ row \in [Object -> Contents \cup {Absent}]
      /\ blob \in [Object -> Contents \cup {Absent}]
  BY DEF OInv, HandlersOK, CallsOK, RowsOK, StoreOK
<1>1. CASE UpdateRow(r) \/ InsertRow(r) \/ RemoveRow(r)
  <2>1. req[r].obj \in Touches(r)
    <3>1. CASE UpdateRow(r) \/ InsertRow(r)
      BY <1>0, <3>1, Touched DEF UpdateRow, InsertRow, CallOK, WritePcs, Writing
    <3>2. CASE RemoveRow(r)
      <4>1. req[r].op \in {"delete", "batch"} /\ req[r].obj \in Object
        BY <1>0, <3>2 DEF RemoveRow, CallOK, DeletePcs, HandlerOK, AtObject
      <4> QED
        BY <4>1, NowhereAssumption DEF Touches, UploadOnlyOps, PartOps, Object
    <3> QED
      BY <1>1, <3>1, <3>2
  <2> QED
    BY <1>0, <1>1, <2>1 DEF UpdateRow, InsertRow, RemoveRow
<1>2. CASE SendWrite(r)
  <2>1. o # req[r].obj
    BY <1>0, <1>2, Touched DEF SendWrite
  <2>2. AfterWrite(r)[o] = blob[o]
    BY <1>0, <2>1 DEF AfterWrite
  <2> QED
    BY <1>2, <2>2 DEF SendWrite, Answered, Refused, AnswerLost
<1>3. CASE \/ CopyBegin(r) \/ CallReserve(r) \/ RefuseWrite(r) \/ RereadRow(r) \/ Account(r)
           \/ GiveBack(r) \/ AnswerWrite(r) \/ FindRow(r) \/ CallCredit(r) \/ Credited(r)
           \/ WriteRowFails(r) \/ Crash(r) \/ UNCHANGED ovars
  BY <1>3 DEF CopyBegin, CallReserve, RefuseWrite, RereadRow, Account, GiveBack, AnswerWrite,
       FindRow, CallCredit, Credited, WriteRowFails, Crash, ovars
<1>4. ~Start(r)
  BY DEF Start, StartPut, StartCopy, StartDelete, StartBatch
<1> QED
  BY <1>1, <1>2, <1>3, <1>4 DEF Step, Proceed

\* So a step leaves the rows and the blobs of the others' objects alone.
LEMMA OthersUntouched ==
  ASSUME SerialKeys, OInv, CallsOK, Apart, NEW r \in Requests, Step(r),
         NEW q \in Requests \ {r}, Active(q), NEW o \in Touches(q)
  PROVE  row'[o] = row[o] /\ blob'[o] = blob[o]
<1>0. o \in Object /\ blob \in [Object -> Contents \cup {Absent}]
  BY Touched DEF OInv, StoreOK
<1>1. CASE Active(r)
  <2>1. o \notin Touches(r)
    BY <1>1 DEF Apart
  <2> QED
    BY <1>0, <1>1, <2>1, OwnTouched
<1>2. CASE Start(r)
  <2>1. ASSUME NEW objs, NEW gone \in SUBSET objs, Undisturbed(objs), blob' = Erase(gone)
        PROVE  blob'[o] = blob[o]
    <3>1. o \notin gone
      BY <2>1, OthersAway
    <3> QED
      BY <1>0, <2>1, <3>1 DEF Erase
  <2>2. ASSUME NEW x \in Object, StartDelete(r, x)
        PROVE  blob'[o] = blob[o]
    BY <2>1, <2>2 DEF StartDelete, Answered, AnswerLost
  <2>3. ASSUME NEW b, NEW objs, StartBatch(r, b, objs)
        PROVE  blob'[o] = blob[o]
    <3>1. \E gone \in SUBSET objs : blob' = Erase(gone)
      BY <2>3 DEF StartBatch, Answered, AnswerLost
    <3> QED
      BY <2>1, <2>3, <3>1 DEF StartBatch
  <2>4. UNCHANGED row
    BY <1>2 DEF Start, StartPut, StartCopy, StartDelete, StartBatch
  <2>5. ASSUME NEW x, NEW n, StartPut(r, x, n) \/ StartCopy(r, n, x)
        PROVE  blob'[o] = blob[o]
    BY <2>5 DEF StartPut, StartCopy
  <2> QED
    BY <1>2, <2>2, <2>3, <2>4, <2>5 DEF Start
<1>3. CASE ~Active(r) /\ ~Start(r)
  <2>1. req[r].pc \in Resting /\ call[r].at \in Ended
    BY <1>3 DEF Active, Resting, CallsOK, CallOK
  <2>2. ~Continue(r)
    BY <2>1 DEF Continue, ReserveUser, Unreserve, ReleaseUser, CommitUser, SettleBucket,
         SettleUser, CreditBucket, CreditUser, AtStatement, Ended
  <2>3. ~SendWrite(r) /\ ~WriteRowFails(r) /\ ~Crash(r)
    BY <1>3, <2>1 DEF SendWrite, Admitted, At, WriteRowFails, Crash, Resting
  <2>4. ~CopyBegin(r) /\ ~CallReserve(r) /\ ~RefuseWrite(r) /\ ~UpdateRow(r) /\ ~RereadRow(r)
    BY <2>1 DEF CopyBegin, CallReserve, RefuseWrite, UpdateRow, RereadRow, At, Resting
  <2>5. ~InsertRow(r) /\ ~Account(r) /\ ~GiveBack(r) /\ ~AnswerWrite(r)
    BY <2>1 DEF InsertRow, Account, GiveBack, AnswerWrite, At, Resting
  <2>6. ~FindRow(r) /\ ~RemoveRow(r) /\ ~CallCredit(r) /\ ~Credited(r)
    BY <2>1 DEF FindRow, RemoveRow, CallCredit, Credited, At, Resting
  <2> QED
    BY <1>3, <2>2, <2>3, <2>4, <2>5, <2>6 DEF Step, Proceed
<1> QED
  BY <1>1, <1>2, <1>3

\* So what the others know stays true.
LEMMA OthersKnow ==
  ASSUME SerialKeys, OInv, CallsOK, Apart, NEW r \in Requests, Step(r),
         NEW q \in Requests \ {r}, Knows(q)
  PROVE  Knows(q)'
<1>1. req'[q] = req[q] /\ (faults' = 0 => faults = 0)
  BY OthersStay, FaultsGrow
<1>2. CASE ~Active(q)
  BY <1>1, <1>2 DEF Knows, WriteKnows, DeleteKnows, StoreKnows, Active, Writing, Resting, DeletePcs
<1>3. CASE Active(q)
  <2>1. \A o \in Touches(q) : row'[o] = row[o] /\ blob'[o] = blob[o]
    BY <1>3, OthersUntouched
  <2>2. /\ req[q].keys \subseteq Touches(q)
        /\ Writing(q) => req[q].obj \in Touches(q)
        /\ req[q].op = "copy" => req[q].src \in Touches(q)
    BY <1>3, Touched DEF OInv
  <2>3. WriteKnows(q)'
    BY <1>1, <1>3, <2>1, <2>2 DEF Knows, WriteKnows, Active, Writing
  <2>4. DeleteKnows(q)'
    BY <1>1, <1>3, <2>1, <2>2 DEF Knows, DeleteKnows
  <2>5. StoreKnows(q)'
    BY <1>1, <1>3, <2>1, <2>2 DEF Knows, StoreKnows, Active, Writing
  <2> QED
    BY <2>3, <2>4, <2>5 DEF Knows
<1> QED
  BY <1>2, <1>3

\* A new request finds its objects alike in the rows and in the store.
LEMMA FoundAlike ==
  ASSUME SerialKeys, RowsMatchStore, NEW objs, Undisturbed(objs),
         NEW o \in objs \cap Object, faults = 0
  PROVE  row[o] = blob[o]
  BY OthersAway DEF RowsMatchStore

\* What a write learns when it begins.
LEMMA WriteLearns ==
  ASSUME SerialKeys, OInv, OInv', CallsOK, RowsMatchStore, NEW r \in Requests, Knows(r),
         Start(r) \/ CopyBegin(r)
  PROVE  Knows(r)'
<1> USE DEF At
<1>0. /\ HandlersOK /\ RowsOK /\ HandlerOK(req[r]) /\ CallOK(req[r], call[r])
      /\ \A o \in Object : row[o] \in Contents \cup {Absent}
      /\ \A o \in Object : Stored(row[o]) \in Nat
  BY SizesStored DEF OInv, HandlersOK, CallsOK, RowsOK
<1>1. ASSUME NEW o \in Object, NEW n \in Sizes, StartPut(r, o, n)
      PROVE  Knows(r)'
  <2>1. /\ UNCHANGED <<row, blob, faults>>
        /\ req'[r].op = "put" /\ req'[r].obj = o /\ req'[r].size = n /\ req'[r].keys = {}
        /\ req'[r].src = Nowhere
        /\ req'[r].delta = n - Stored(row[o])
        /\ req'[r].new = IF row[o] = Absent THEN 1 ELSE 0
        /\ req'[r].pc \in {"reserve", "send"}
    BY <1>0, <1>1, PutStarts DEF StartPut
  <2>2. faults = 0 => row[o] = blob[o]
    BY <1>1, FoundAlike DEF StartPut
  <2>3. n - (n - Stored(row[o])) >= 0
    BY <1>0, SizesAssumption
  <2>4. WriteKnows(r)'
    BY <2>1, <2>3 DEF WriteKnows, Written
  <2>5. DeleteKnows(r)' /\ StoreKnows(r)'
    BY <2>1, <2>2 DEF DeleteKnows, StoreKnows, Written, Unsent, DeletePcs
  <2> QED
    BY <2>4, <2>5 DEF Knows
<1>2. ASSUME NEW s \in Object, NEW o \in Object, StartCopy(r, s, o)
      PROVE  Knows(r)'
  <2>1. /\ UNCHANGED <<row, blob, faults>> /\ row[s] # Absent
        /\ req'[r].op = "copy" /\ req'[r].obj = o /\ req'[r].src = s /\ req'[r].keys = {}
        /\ req'[r].size = row[s] /\ req'[r].delta = 0 /\ req'[r].pc = "begin"
    BY <1>0, <1>2, CopyStarts DEF StartCopy
  <2>2. faults = 0 => row[o] = blob[o] /\ row[s] = blob[s]
    BY <1>2, FoundAlike DEF StartCopy
  <2>3. row[s] \in Nat
    BY <1>0, <2>1, SizesStored
  <2>4. WriteKnows(r)'
    BY <2>1, <2>3 DEF WriteKnows, Written
  <2>5. DeleteKnows(r)' /\ StoreKnows(r)'
    BY <2>1, <2>2 DEF DeleteKnows, StoreKnows, Written, Unsent, DeletePcs
  <2> QED
    BY <2>4, <2>5 DEF Knows
<1>3. ASSUME Goes(r, "err")
      PROVE  Knows(r)'
  <2>1. req'[r].pc = "err"
    BY <1>0, <1>3, GoesOn
  <2> QED
    BY <2>1 DEF Knows, WriteKnows, DeleteKnows, StoreKnows, Active, Resting, DeletePcs
<1>4. ASSUME NEW op \in {"delete", "batch"}, NEW objs \in SUBSET Object,
             req' = [req EXCEPT ![r] = DeleteHandler(op, objs)],
             blob' = Erase(objs) \/ (op = "batch" /\ faults' # 0)
      PROVE  Knows(r)'
  <2>0. req'[r] = DeleteHandler(op, objs)
    BY <1>0, <1>4 DEF HandlersOK
  <2>1. /\ req'[r].op = op /\ req'[r].pc = "find" /\ req'[r].keys = objs
        /\ req'[r].obj = Nowhere /\ req'[r].src = Nowhere
    BY <2>0 DEF DeleteHandler, NoHandler
  <2>2. blob' = Erase(objs) => \A o \in objs : blob'[o] = Absent
    BY DEF Erase
  <2> QED
    BY <1>4, <2>1, <2>2
       DEF Knows, WriteKnows, DeleteKnows, StoreKnows, Writing, WriteOps, Written, Unsent
<1>5. ASSUME NEW o \in Object, StartDelete(r, o)
      PROVE  Knows(r)'
  BY <1>3, <1>4, <1>5 DEF StartDelete, Answered
<1>6. ASSUME NEW b, NEW objs, StartBatch(r, b, objs)
      PROVE  Knows(r)'
  <2>1. objs \in SUBSET Object /\ faults \in Nat
    BY <1>6, MaxFaultsAssumption DEF StartBatch, ObjectsOf, OInv, StoreOK
  <2>2. Fault => faults' # 0
    BY <2>1 DEF Fault
  <2> QED
    BY <1>3, <1>4, <1>6, <2>1, <2>2 DEF StartBatch, Answered
<1>7. CASE CopyBegin(r)
  <2>1. /\ req[r].obj \in Object /\ req[r].pc = "begin" /\ Active(r) /\ Writing(r)
        /\ BeginPut(r, req[r]) /\ UNCHANGED <<row, blob, faults>>
        /\ req[r] \in Handler(ObjectOps, Pcs) /\ req[r].size \in Nat
    BY <1>0, <1>7
       DEF CopyBegin, HandlerOK, Handler, AtObject, WritePcs, Active, Resting, CallOK, Writing
  <2>2. /\ req'[r].op = req[r].op /\ req'[r].src = req[r].src /\ req'[r].obj = req[r].obj
        /\ req'[r].size = req[r].size /\ req'[r].keys = req[r].keys
        /\ req'[r].delta = req[r].size - Stored(row[req[r].obj])
        /\ req'[r].new = IF row[req[r].obj] = Absent THEN 1 ELSE 0
        /\ req'[r].pc \in {"reserve", "send"}
    BY <1>0, <2>1, PutBegun
  <2>3. req[r].size - (req[r].size - Stored(row[req[r].obj])) >= 0
    BY <1>0, <2>1
  <2>4. WriteKnows(r)'
    BY <2>1, <2>2, <2>3 DEF Knows, WriteKnows, Written
  <2>5. DeleteKnows(r)' /\ StoreKnows(r)'
    BY <2>1, <2>2 DEF Knows, DeleteKnows, StoreKnows, Written, Unsent, DeletePcs, Writing
  <2> QED
    BY <2>4, <2>5 DEF Knows
<1> QED
  BY <1>1, <1>2, <1>5, <1>6, <1>7 DEF Start

\* What a write learns from the store's answer and from its row.
LEMMA WriteKnowsOn ==
  ASSUME SerialKeys, OInv, OInv', CallsOK, NEW r \in Requests, Knows(r),
         \/ SendWrite(r) \/ UpdateRow(r) \/ RereadRow(r) \/ InsertRow(r) \/ WriteRowFails(r)
  PROVE  Knows(r)'
<1> USE DEF At
<1> DEFINE o == req[r].obj
<1>0. /\ HandlersOK /\ HandlerOK(req[r]) /\ CallOK(req[r], call[r]) /\ live = Buckets
      /\ row \in [Object -> Contents \cup {Absent}]
      /\ blob \in [Object -> Contents \cup {Absent}] /\ faults \in Nat
      /\ faults' = 0 => faults = 0
      /\ Fault => faults' # 0
  <2>1. faults \in Nat
    BY MaxFaultsAssumption DEF OInv, StoreOK
  <2>2. Fault => faults' # 0
    BY <2>1 DEF Fault
  <2> QED
    BY <2>1, <2>2, FaultsGrow DEF Step, Proceed, OInv, HandlersOK, CallsOK, RowsOK, StoreOK
<1>1. /\ Writing(r) /\ Active(r) /\ o \in Object /\ req[r].pc \in WritePcs
      /\ req[r].size \in Contents
  <2>1. req[r].pc \in WritePcs
    BY DEF SendWrite, Admitted, UpdateRow, RereadRow, InsertRow, WriteRowFails, WritePcs
  <2> QED
    BY <1>0, <2>1 DEF CallOK, Writing, Active, Resting, WritePcs, HandlerOK, AtObject
<1>2. ASSUME Same(req'[r], req[r]), req'[r].pc = "err"
      PROVE  Knows(r)'
  BY <1>2 DEF Knows, WriteKnows, DeleteKnows, StoreKnows, Active, Resting, DeletePcs
<1>3. ASSUME Same(req'[r], req[r]), req'[r].pc \in {"err", "release"}, faults' # 0
      PROVE  Knows(r)'
  BY <1>1, <1>3
     DEF Knows, WriteKnows, DeleteKnows, StoreKnows, Active, Resting, DeletePcs, Same, Writing,
         Written, Unsent
<1>4. CASE WriteRowFails(r)
  <2>1. CASE GiveUp(r)
    BY <1>0, <1>3, <1>4, <2>1, GivesUp DEF WriteRowFails
  <2>2. CASE /\ req[r].pc = "insert"
             /\ req' = [req EXCEPT ![r].pc = "update", ![r].again = TRUE]
    <3>1. /\ Same(req'[r], req[r]) /\ req'[r].pc = "update"
          /\ UNCHANGED <<row, blob>> /\ faults' # 0
      BY <1>0, <1>4, <2>2, TriesAgain DEF WriteRowFails
    <3>2. WriteKnows(r)'
      BY <1>1, <2>2, <3>1 DEF Knows, WriteKnows, Same, Writing, Written
    <3>3. DeleteKnows(r)' /\ StoreKnows(r)'
      BY <1>1, <2>2, <3>1
         DEF Knows, DeleteKnows, StoreKnows, Same, Writing, Written, Unsent, DeletePcs
    <3> QED
      BY <3>2, <3>3 DEF Knows
  <2> QED
    BY <1>4, <2>1, <2>2 DEF WriteRowFails, InsertFails
<1>5. CASE SendWrite(r)
  <2>1. /\ req[r].pc \in {"send", "admit"} /\ UNCHANGED row
        /\ req[r].delta = req[r].size - Stored(row[o])
        /\ req[r].new = IF row[o] = Absent THEN 1 ELSE 0
    BY <1>1, <1>5 DEF SendWrite, Admitted, Knows, WriteKnows
  <2>2. CASE CanStore(r) /\ AnswerLost(AfterWrite(r)) /\ GiveUp(r)
    BY <1>0, <1>3, <2>2, GivesUp DEF AnswerLost
  <2>3. CASE Refused /\ GiveUp(r)
    <3>1. Same(req'[r], req[r]) /\ req'[r].pc \in {"err", "release"}
      BY <1>0, <2>3, GivesUp
    <3> QED
      BY <1>1, <2>1, <2>3, <3>1
         DEF Knows, WriteKnows, DeleteKnows, StoreKnows, Active, Resting, DeletePcs, Same,
             Writing, Written, Unsent, Refused
  <2>4. CASE CanStore(r) /\ Answered(AfterWrite(r)) /\ Goes(r, "update")
    <3>1. /\ Same(req'[r], req[r]) /\ req'[r].pc = "update" /\ UNCHANGED faults
          /\ blob' = AfterWrite(r)
      BY <1>0, <2>4, GoesOn DEF Answered
    <3>2. req[r].op = "put" \/ faults = 0 => blob'[o] = req[r].size
      BY <1>0, <1>1, <3>1 DEF AfterWrite, Knows, StoreKnows, Writing, WriteOps
    <3>3. req[r].op = "copy" /\ faults = 0 =>
            row[req[r].src] = req[r].size /\ blob'[req[r].src] = req[r].size
      BY <1>0, <1>1, <3>1, <3>2 DEF AfterWrite, Knows, StoreKnows, HandlerOK
    <3>4. WriteKnows(r)'
      BY <1>1, <2>1, <3>1, <3>2 DEF Knows, WriteKnows, Same, Writing, Written
    <3>5. DeleteKnows(r)' /\ StoreKnows(r)'
      BY <1>0, <1>1, <2>1, <3>1, <3>2, <3>3
         DEF DeleteKnows, StoreKnows, Same, Writing, Written, Unsent, DeletePcs
    <3> QED
      BY <3>4, <3>5 DEF Knows
  <2> QED
    BY <1>5, <2>2, <2>3, <2>4 DEF SendWrite
<1>6. CASE UpdateRow(r)
  <2>1. UNCHANGED <<blob, faults>> /\ req[r].pc = "update"
    BY <1>6 DEF UpdateRow
  <2>2. CASE row[o] # Absent
    <3>1. /\ Same(req'[r], req[r]) /\ req'[r].pc = "reread"
          /\ row' = [row EXCEPT ![o] = req[r].size]
      BY <1>0, <1>6, <2>2, GoesOn DEF UpdateRow
    <3>2. row'[o] = req[r].size /\ \A x \in Object : x # o => row'[x] = row[x]
      BY <1>0, <1>1, <3>1
    <3>3. WriteKnows(r)'
      BY <1>1, <2>1, <3>1, <3>2 DEF Knows, WriteKnows, Same, Writing, Written
    <3>4. req[r].op = "copy" /\ faults = 0 =>
            row'[req[r].src] = req[r].size /\ blob[req[r].src] = req[r].size
      BY <1>0, <1>1, <3>2 DEF Knows, StoreKnows, HandlerOK
    <3>5. DeleteKnows(r)' /\ StoreKnows(r)'
      BY <1>1, <2>1, <3>1, <3>4
         DEF Knows, DeleteKnows, StoreKnows, Same, Writing, Written, Unsent, DeletePcs
    <3> QED
      BY <3>3, <3>5 DEF Knows
  <2>3. CASE row[o] = Absent
    <3>1. /\ Same(req'[r], req[r]) /\ req'[r].pc = "insert" /\ UNCHANGED row
      BY <1>0, <1>6, <2>3, GoesOn DEF UpdateRow
    <3> QED
      BY <1>1, <2>1, <2>3, <3>1
         DEF Knows, WriteKnows, DeleteKnows, StoreKnows, Same, Writing, Written, Unsent, DeletePcs
  <2> QED
    BY <2>2, <2>3
<1>7. CASE RereadRow(r)
  <2>1. UNCHANGED <<row, blob, faults>> /\ req[r].pc = "reread"
    BY <1>7 DEF RereadRow
  <2>2. row[o] # Absent
    BY <1>1, <2>1, SizesStored DEF Knows, WriteKnows, Written
  <2>3. Same(req'[r], req[r]) /\ req'[r].pc = "account"
    BY <1>0, <1>7, <2>2, GoesOn DEF RereadRow
  <2> QED
    BY <1>1, <2>1, <2>3
       DEF Knows, WriteKnows, DeleteKnows, StoreKnows, Same, Writing, Written, Unsent, DeletePcs
<1>8. CASE InsertRow(r)
  <2>1. UNCHANGED <<blob, faults>> /\ req[r].pc = "insert"
    BY <1>8 DEF InsertRow
  <2>2. row[o] = Absent /\ BucketOf(o) \in live
    BY <1>0, <1>1, <2>1 DEF Knows, WriteKnows, Object, BucketOf
  <2>3. /\ Same(req'[r], req[r]) /\ req'[r].pc = "account"
        /\ row' = [row EXCEPT ![o] = req[r].size]
    BY <1>0, <1>8, <2>2, GoesOn DEF InsertRow
  <2>4. row'[o] = req[r].size /\ \A x \in Object : x # o => row'[x] = row[x]
    BY <1>0, <1>1, <2>3
  <2>5. WriteKnows(r)'
    BY <1>1, <2>1, <2>3, <2>4 DEF Knows, WriteKnows, Same, Writing, Written
  <2>6. req[r].op = "copy" /\ faults = 0 =>
          row'[req[r].src] = req[r].size /\ blob[req[r].src] = req[r].size
    BY <1>0, <1>1, <2>4 DEF Knows, StoreKnows, HandlerOK
  <2>7. DeleteKnows(r)' /\ StoreKnows(r)'
    BY <1>1, <2>1, <2>3, <2>6
       DEF Knows, DeleteKnows, StoreKnows, Same, Writing, Written, Unsent, DeletePcs
  <2> QED
    BY <2>5, <2>7 DEF Knows
<1> QED
  BY <1>4, <1>5, <1>6, <1>7, <1>8

\* The quota procedures and the answer change nothing a write knows.
LEMMA AccountKnowsOn ==
  ASSUME OInv, CallsOK, NEW r \in Requests, Knows(r),
         \/ CallReserve(r) \/ RefuseWrite(r) \/ Account(r) \/ GiveBack(r) \/ AnswerWrite(r)
         \/ CallCredit(r) \/ Crash(r) \/ UNCHANGED ovars
  PROVE  Knows(r)'
<1> USE DEF At, Knows, WriteKnows, DeleteKnows, StoreKnows
<1>0. HandlersOK /\ CallOK(req[r], call[r])
  BY DEF OInv, CallsOK
<1>1. CASE UNCHANGED ovars
  BY <1>1 DEF ovars, Active, Writing
<1>2. CASE RefuseWrite(r) \/ AnswerWrite(r) \/ Crash(r)
  <2>1. req'[r].pc \in {"ok", "err", "crashed"}
    BY <1>0, <1>2, GoesOn DEF RefuseWrite, AnswerWrite, Crash
  <2> QED
    BY <2>1 DEF Active, Resting, DeletePcs
<1>3. CASE CallReserve(r) \/ Account(r) \/ GiveBack(r)
  <2>1. Same(req'[r], req[r]) /\ UNCHANGED <<row, blob, faults>>
    BY <1>0, <1>3, GoesOn DEF CallReserve, Account, GiveBack
  <2>2. \/ req[r].pc = "reserve" /\ req'[r].pc = "admit"
        \/ req[r].pc = "account" /\ req'[r].pc = "commit"
        \/ req[r].pc = "release" /\ req'[r].pc = "abort"
    BY <1>0, <1>3, GoesOn DEF CallReserve, Account, GiveBack
  <2> QED
    BY <2>1, <2>2 DEF Same, Active, Resting, Writing, Written, Unsent, DeletePcs
<1>4. CASE CallCredit(r)
  <2>1. Same(req'[r], req[r]) /\ UNCHANGED <<row, blob, faults>>
    BY <1>0, <1>4, GoesOn DEF CallCredit
  <2>2. req[r].pc = "credit" /\ req'[r].pc = "credited" /\ ~Writing(r)
    BY <1>0, <1>4, GoesOn DEF CallCredit, CallOK, DeletePcs, Writing, WriteOps
  <2> QED
    BY <2>1, <2>2 DEF Same, Active, Resting, Writing, Written, Unsent, DeletePcs
<1> QED
  BY <1>1, <1>2, <1>3, <1>4

\* What a delete learns from the rows.
LEMMA DeleteKnowsOn ==
  ASSUME OInv, CallsOK, NEW r \in Requests, Knows(r),
         FindRow(r) \/ RemoveRow(r) \/ Credited(r)
  PROVE  Knows(r)'
<1> USE DEF At
<1>0. /\ HandlersOK /\ HandlerOK(req[r]) /\ row \in [Object -> Contents \cup {Absent}]
      /\ req[r].op \in {"delete", "batch"} /\ req[r].pc \in DeletePcs
      /\ UNCHANGED <<blob, faults>>
  <2>1. req[r].pc \in DeletePcs
    BY DEF FindRow, RemoveRow, Credited, DeletePcs
  <2> QED
    BY <2>1 DEF OInv, HandlersOK, RowsOK, CallsOK, CallOK, FindRow, RemoveRow, Credited
<1>1. ASSUME req'[r].op = req[r].op, DeleteKnows(r)'
      PROVE  Knows(r)'
  BY <1>0, <1>1 DEF Knows, WriteKnows, StoreKnows, Writing, WriteOps
<1>2. ASSUME NEW o, NextKey(r, req[r], o)
      PROVE  Knows(r)'
  <2>1. /\ req'[r].op = req[r].op /\ req'[r].keys \subseteq req[r].keys
        /\ req'[r].pc \in {"ok", "find"} /\ req'[r].obj = Nowhere /\ req'[r].src = req[r].src
    BY <1>0, <1>2, KeyDone
  <2>2. req[r].op = "delete" \/ faults = 0 => \A k \in req[r].keys : blob[k] = Absent
    BY <1>0 DEF Knows, DeleteKnows
  <2>3. req'[r].op = "delete" \/ faults' = 0 => \A k \in req'[r].keys : blob'[k] = Absent
    BY <1>0, <2>1, <2>2
  <2>4. DeleteKnows(r)'
    BY <1>0, <2>1, <2>3 DEF Knows, DeleteKnows, DeletePcs
  <2> QED
    BY <1>1, <2>1, <2>4
<1>3. CASE FindRow(r)
  <2>1. PICK o \in req[r].keys :
           \/ row[o] = Absent /\ NextKey(r, req[r], o)
           \/ /\ row[o] # Absent
              /\ req'[r].pc = "remove" /\ req'[r].obj = o /\ req'[r].size = row[o]
              /\ req'[r].op = req[r].op /\ req'[r].keys = req[r].keys
              /\ req'[r].src = req[r].src
    BY <1>0, <1>3, RowFound
  <2>2. CASE row[o] # Absent
    <3>1. row[o] \in Nat /\ UNCHANGED row
      <4>1. o \in Object
        BY <1>0 DEF HandlerOK, Handler
      <4> QED
        BY <1>0, <1>3, <2>2, <4>1, SizesStored DEF FindRow
    <3>2. DeleteKnows(r)'
      BY <1>0, <2>1, <2>2, <3>1 DEF Knows, DeleteKnows
    <3> QED
      BY <1>1, <2>1, <2>2, <3>2
  <2> QED
    BY <1>2, <2>1, <2>2
<1>4. CASE RemoveRow(r)
  <2>1. CASE Goes(r, "credit")
    <3>1. Same(req'[r], req[r]) /\ req'[r].pc = "credit"
      BY <1>0, <2>1, GoesOn
    <3>2. row'[req[r].obj] = Absent /\ req[r].pc = "remove"
      BY <1>0, <1>4 DEF RemoveRow, HandlerOK, AtObject
    <3>3. DeleteKnows(r)'
      BY <1>0, <3>1, <3>2 DEF Knows, DeleteKnows, Same
    <3> QED
      BY <1>1, <3>1, <3>3 DEF Same
  <2> QED
    BY <1>2, <1>4, <2>1 DEF RemoveRow
<1>5. CASE Credited(r)
  <2>1. CASE Goes(r, "err")
    <3>1. Same(req'[r], req[r]) /\ req'[r].pc = "err"
      BY <1>0, <2>1, GoesOn
    <3> QED
      BY <1>1, <3>1 DEF Same, DeleteKnows, DeletePcs
  <2> QED
    BY <1>2, <1>5, <2>1 DEF Credited
<1> QED
  BY <1>3, <1>4, <1>5

\* What every handler knows stays true.
LEMMA KnowsKept ==
  ASSUME SerialKeys, OInv, OInv', CallsOK, Apart, RowsMatchStore,
         \A q \in Requests : Knows(q), NEW r \in Requests, Step(r)
  PROVE  \A q \in Requests : Knows(q)'
<1>1. Knows(r)'
  BY WriteLearns, WriteKnowsOn, AccountKnowsOn, DeleteKnowsOn DEF Step, Proceed
<1> QED
  BY <1>1, OthersKnow

\* A write whose row and store agree, and what a delete touches.
LEMMA KnownAlike ==
  ASSUME OInv, CallsOK, NEW r \in Requests, Knows(r), Active(r)
  PROVE  /\ Writing(r) /\ faults = 0 /\ req[r].pc \notin {"update", "insert"} =>
              \A o \in Touches(r) : row[o] = blob[o]
         /\ req[r].pc \in DeletePcs => Touches(r) = req[r].keys
<1>0. HandlerOK(req[r]) /\ CallOK(req[r], call[r])
  BY DEF OInv, HandlersOK, CallsOK
<1>1. ASSUME Writing(r), faults = 0, req[r].pc \notin {"update", "insert"},
             NEW o \in Touches(r)
      PROVE  row[o] = blob[o]
  <2>1. req[r].pc \in WritePcs
    BY <1>0, <1>1 DEF CallOK, HandlerOK, Handler, Pcs, Active, Writing, WriteOps
  <2>2. row[req[r].obj] = blob[req[r].obj]
    BY <1>1, <2>1 DEF Knows, WriteKnows, StoreKnows, WritePcs, Unsent, Written
  <2>3. o = req[r].obj \/ (req[r].op = "copy" /\ o = req[r].src)
    BY <1>1 DEF Knows, WriteKnows, Touches, Writing, WriteOps
  <2> QED
    BY <1>1, <2>2, <2>3 DEF Knows, StoreKnows
<1>2. ASSUME req[r].pc \in DeletePcs
      PROVE  Touches(r) = req[r].keys
  BY <1>0, <1>2 DEF Knows, DeleteKnows, Touches, CallOK, UploadOnlyOps, PartOps
<1> QED
  BY <1>1, <1>2

\* An object no request is left at is alike in the row and in the store.
LEMMA RestKept ==
  ASSUME SerialKeys, OInv, OInv', CallsOK, Apart, RowsMatchStore,
         NEW r \in Requests, Knows(r), Step(r)
  PROVE  RowsMatchStore'
<1> USE DEF At
<1>0. /\ HandlersOK /\ RowsOK /\ HandlerOK(req[r]) /\ CallOK(req[r], call[r])
      /\ live = Buckets /\ faults \in Nat
      /\ row \in [Object -> Contents \cup {Absent}]
      /\ blob \in [Object -> Contents \cup {Absent}]
      /\ faults' = 0 => faults = 0
      /\ \A q \in Requests \ {r} : req'[q] = req[q]
  BY MaxFaultsAssumption, FaultsGrow, OthersStay DEF OInv, HandlersOK, CallsOK, RowsOK, StoreOK
<1>1. SUFFICES ASSUME NEW o \in Object, faults' = 0,
                      \A q \in Requests : Active(q)' => o \notin Touches(q)'
               PROVE  row'[o] = blob'[o]
  BY DEF RowsMatchStore
<1>2. ~Fault
  BY <1>0, <1>1 DEF Fault
<1>3. \A q \in Requests \ {r} : Active(q) => o \notin Touches(q)
  BY <1>0, <1>1 DEF Active, Touches
<1>4. ASSUME row'[o] = row[o], blob'[o] = blob[o], ~(Active(r) /\ o \in Touches(r))
      PROVE  row'[o] = blob'[o]
  BY <1>0, <1>1, <1>3, <1>4 DEF RowsMatchStore
<1>5. CASE Start(r)
  <2>1. UNCHANGED row /\ ~Active(r)
    BY <1>5 DEF Start, StartPut, StartCopy, StartDelete, StartBatch
  <2>2. ASSUME NEW op, NEW objs, blob' = Erase(objs),
               req' = [req EXCEPT ![r] = DeleteHandler(op, objs)]
        PROVE  blob'[o] = blob[o]
    <3>1. req'[r] = DeleteHandler(op, objs)
      BY <1>0, <2>2 DEF HandlersOK
    <3>2. req'[r].keys = objs /\ req'[r].pc = "find"
      BY <3>1 DEF DeleteHandler, NoHandler
    <3>3. o \notin objs
      BY <1>1, <3>2 DEF Active, Resting, Touches
    <3> QED
      BY <1>0, <2>2, <3>3 DEF Erase
  <2>3. blob'[o] = blob[o]
    BY <1>2, <1>5, <2>2 DEF Start, StartPut, StartCopy, StartDelete, StartBatch, Answered, AnswerLost
  <2> QED
    BY <1>4, <2>1, <2>3
<1>6. ASSUME Active(r), o \notin Touches(r)
      PROVE  row'[o] = blob'[o]
  BY <1>4, <1>6, OwnTouched
<1>7. ASSUME Same(req'[r], req[r])
      PROVE  ~(Active(r)' /\ o \in Touches(r))
  <2>1. Touches(r)' = Touches(r)
    BY <1>7 DEF Same, Touches
  <2> QED
    BY <1>1, <2>1
<1>8. CASE SendWrite(r) \/ RefuseWrite(r) \/ AnswerWrite(r)
  <2>1. /\ Active(r) /\ Writing(r) /\ UNCHANGED row
        /\ req[r].pc \in {"send", "admit", "commit", "abort"}
    BY <1>0, <1>8 DEF SendWrite, Admitted, RefuseWrite, AnswerWrite, Active, Resting, CallOK,
         WritePcs, Writing
  <2>2. o \in Touches(r) => row[o] = blob[o]
    BY <1>0, <1>1, <2>1, KnownAlike
  <2>3. o \in Touches(r) => UNCHANGED blob
    <3>1. ~(Goes(r, "update") /\ o \in Touches(r))
      BY <1>0, <1>7, GoesOn DEF Active, Resting
    <3> QED
      BY <1>2, <1>8, <3>1 DEF SendWrite, RefuseWrite, AnswerWrite, Refused, AnswerLost
  <2> QED
    BY <1>6, <2>1, <2>2, <2>3
<1>9. CASE UpdateRow(r) \/ RereadRow(r) \/ InsertRow(r)
  <2>1. Active(r) /\ Writing(r) /\ req[r].obj \in Object
    BY <1>0, <1>9 DEF UpdateRow, RereadRow, InsertRow, Active, Resting, CallOK, WritePcs,
         Writing, HandlerOK, AtObject
  <2>2. Same(req'[r], req[r]) /\ req'[r].pc \notin Resting
    <3>1. CASE UpdateRow(r)
      BY <1>0, <3>1, GoesOn DEF UpdateRow, Resting
    <3>2. CASE RereadRow(r)
      <4>1. row[req[r].obj] # Absent
        BY <1>0, <2>1, <3>2, SizesStored DEF RereadRow, Knows, WriteKnows, Written, HandlerOK
      <4> QED
        BY <1>0, <3>2, <4>1, GoesOn DEF RereadRow, Resting
    <3>3. CASE InsertRow(r)
      <4>1. row[req[r].obj] = Absent /\ BucketOf(req[r].obj) \in live
        BY <1>0, <2>1, <3>3 DEF InsertRow, Knows, WriteKnows, Object, BucketOf
      <4> QED
        BY <1>0, <3>3, <4>1, GoesOn DEF InsertRow, Resting
    <3> QED
      BY <1>9, <3>1, <3>2, <3>3
  <2>3. o \notin Touches(r)
    BY <1>7, <2>2 DEF Active
  <2> QED
    BY <1>6, <2>1, <2>3
<1>10. CASE \/ CallReserve(r) \/ Account(r) \/ GiveBack(r) \/ CallCredit(r)
  <2>1. Same(req'[r], req[r]) /\ req'[r].pc \notin Resting /\ Active(r)
    BY <1>0, <1>10, GoesOn
       DEF CallReserve, Account, GiveBack, CallCredit, Active, Resting
  <2>2. o \notin Touches(r)
    BY <1>7, <2>1 DEF Active
  <2> QED
    BY <1>6, <2>1, <2>2
<1>11. CASE CopyBegin(r)
  <2>1. Active(r) /\ req[r].obj \in Object
    BY <1>0, <1>11 DEF CopyBegin, Active, Resting, HandlerOK, AtObject, WritePcs
  <2>2. /\ req'[r].op = req[r].op /\ req'[r].obj = req[r].obj /\ req'[r].src = req[r].src
        /\ req'[r].keys = req[r].keys /\ req'[r].pc \notin Resting
    BY <1>0, <1>11, <2>1, PutBegun DEF CopyBegin, HandlerOK, Resting
  <2>3. Touches(r)' = Touches(r)
    BY <2>2 DEF Touches
  <2> QED
    BY <1>1, <1>6, <2>1, <2>2, <2>3 DEF Active
<1>12. CASE UNCHANGED ovars
  <2>1. Active(r)' = Active(r) /\ Touches(r)' = Touches(r)
    BY <1>12 DEF ovars, Active, Touches
  <2> QED
    BY <1>1, <1>4, <1>12, <2>1 DEF ovars
<1>13. ASSUME NEW k, NextKey(r, req[r], k), k \in req[r].keys, row'[k] = Absent,
              req[r].pc \in DeletePcs, UNCHANGED blob
       PROVE  row'[o] = blob'[o]
  <2>1. Active(r) /\ Touches(r) = req[r].keys
    BY <1>0, <1>13, KnownAlike DEF Active, Resting, DeletePcs
  <2>2. /\ req'[r].src = req[r].src /\ req'[r].obj = Nowhere
        /\ req'[r].keys = req[r].keys \ {k}
        /\ req'[r].pc = IF req[r].keys \ {k} = {} THEN "ok" ELSE "find"
    BY <1>0, <1>13, KeyDone
  <2>3. o \in req[r].keys \ {k} => Active(r)' /\ o \in Touches(r)'
    BY <2>2 DEF Active, Resting, Touches
  <2>4. o \in Touches(r) => o = k
    BY <1>1, <2>1, <2>3
  <2>5. blob[k] = Absent
    BY <1>0, <1>1, <1>13 DEF Knows, DeleteKnows
  <2> QED
    BY <1>6, <1>13, <2>1, <2>4, <2>5
<1>14. CASE FindRow(r)
  <2>1. /\ Active(r) /\ UNCHANGED <<row, blob>> /\ req[r].pc \in DeletePcs
    BY <1>14 DEF FindRow, Active, Resting, DeletePcs
  <2>2. PICK k \in req[r].keys :
           \/ row[k] = Absent /\ NextKey(r, req[r], k)
           \/ /\ req'[r].pc = "remove" /\ req'[r].keys = req[r].keys
    BY <1>0, <1>14, RowFound
  <2>3. CASE row[k] = Absent /\ NextKey(r, req[r], k)
    BY <1>13, <2>1, <2>2, <2>3
  <2>4. CASE req'[r].pc = "remove" /\ req'[r].keys = req[r].keys
    <3>1. Active(r)' /\ req[r].keys \subseteq Touches(r)'
      BY <2>4 DEF Active, Resting, Touches
    <3>2. Touches(r) = req[r].keys
      BY <1>0, <2>1, KnownAlike
    <3> QED
      BY <1>1, <1>6, <2>1, <3>1, <3>2
  <2> QED
    BY <2>2, <2>3, <2>4
<1>15. CASE RemoveRow(r) \/ Credited(r)
  <2>1. /\ Active(r) /\ UNCHANGED blob /\ req[r].pc \in DeletePcs
        /\ req[r].obj \in req[r].keys /\ req[r].obj \in Object /\ row'[req[r].obj] = Absent
    BY <1>0, <1>15 DEF RemoveRow, Credited, Active, Resting, DeletePcs, Knows, DeleteKnows,
         HandlerOK, AtObject
  <2>2. CASE NextKey(r, req[r], req[r].obj)
    BY <1>13, <2>1, <2>2
  <2>3. CASE Goes(r, "credit")
    <3>1. o \notin Touches(r)
      BY <1>0, <1>7, <2>3, GoesOn DEF Active, Resting
    <3> QED
      BY <1>6, <2>1, <3>1
  <2>4. ~(Credited(r) /\ Goes(r, "err"))
    <3>1. Credited(r) => call[r].at = "ok"
      BY <1>0 DEF Credited, CallOK
    <3>2. NextKey(r, req[r], req[r].obj) => req'[r].pc # "err"
      BY <1>0, KeyDone
    <3> QED
      BY <1>0, <3>1, <3>2, GoesOn DEF Credited
  <2> QED
    BY <1>15, <2>2, <2>3, <2>4 DEF RemoveRow, Credited
<1>16. ~WriteRowFails(r) /\ ~Crash(r)
  BY <1>2 DEF WriteRowFails, Crash
<1> QED
  BY <1>5, <1>8, <1>9, <1>10, <1>11, <1>12, <1>14, <1>15, <1>16 DEF Step, Proceed

KInv == HInv /\ Apart /\ (\A r \in Requests : Knows(r)) /\ RowsMatchStore

\* Nothing is known at the start.
LEMMA KnowsInit ==
  ASSUME AmountsCovered, ObjectsInit
  PROVE  KInv
<1>1. HInv
  BY HoldsInit
<1>2. \A r \in Requests : ~Active(r) /\ req[r].pc = "idle"
  BY DEF ObjectsInit, Active, Resting, NoHandler
<1>3. Apart /\ \A r \in Requests : Knows(r)
  BY <1>2 DEF Apart, Knows, WriteKnows, DeleteKnows, StoreKnows, DeletePcs
<1>4. RowsMatchStore
  BY DEF ObjectsInit, RowsMatchStore
<1> QED
  BY <1>1, <1>3, <1>4 DEF KInv

\* The invariant is inductive while clients keep off each other's keys.
LEMMA KInvKept ==
  ASSUME AmountsCovered, SerialKeys, KInv, [ObjectsNext]_gatewayVars
  PROVE  KInv'
<1>1. HInv' /\ OInv'
  BY HInvKept DEF KInv, HInv
<1>2. CASE UNCHANGED gatewayVars
  <2>1. UNCHANGED <<row, blob, req, faults>>
    BY <1>2 DEF gatewayVars, ovars
  <2>2. Apart'
    BY <2>1 DEF KInv, Apart, Active, Touches
  <2>3. \A r \in Requests : Knows(r)'
    BY <2>1 DEF KInv, Knows, WriteKnows, DeleteKnows, StoreKnows, Active, Writing
  <2>4. RowsMatchStore'
    BY <2>1 DEF KInv, RowsMatchStore, Active, Touches
  <2> QED
    BY <1>1, <2>2, <2>3, <2>4 DEF KInv
<1>3. ASSUME NEW r \in Requests, Step(r)
      PROVE  KInv'
  BY <1>1, <1>3, ApartKept, KnowsKept, RestKept DEF KInv, HInv
<1> QED
  BY <1>2, <1>3 DEF ObjectsNext, Step

\* An object no request is left at is in the store with the size its row says, or is in
\* neither, while nothing is lost and clients keep their requests off each other's keys.
THEOREM ObjectsRowsMatchStore ==
  AmountsCovered /\ SerialKeys => (ObjectsSpec => []RowsMatchStore)
<1> SUFFICES ASSUME AmountsCovered, SerialKeys PROVE ObjectsSpec => []RowsMatchStore
  OBVIOUS
<1>1. ObjectsInit => KInv
  BY KnowsInit
<1>2. KInv /\ [ObjectsNext]_gatewayVars => KInv'
  BY KInvKept
<1>3. KInv => RowsMatchStore
  BY DEF KInv
<1> QED
  BY <1>1, <1>2, <1>3, PTL DEF ObjectsSpec

\* The step that answers.
LEMMA AnswerTrue ==
  ASSUME OInv, CallsOK, NEW r \in Requests, Knows(r), Step(r), Active(r), req'[r].pc = "ok"
  PROVE  /\ req[r].op = "put" => /\ row'[req[r].obj] = req[r].size
                                /\ blob'[req[r].obj] = req[r].size
         /\ req[r].op = "delete" => \A o \in req[r].keys : /\ row'[o] = Absent
                                                          /\ blob'[o] = Absent
<1> USE DEF At
<1>0. /\ HandlersOK /\ RowsOK /\ HandlerOK(req[r]) /\ CallOK(req[r], call[r])
      /\ req[r].pc \notin Resting
  BY DEF OInv, HandlersOK, CallsOK, Active
<1>1. CASE AnswerWrite(r)
  <2>1. req[r].pc = "commit" /\ UNCHANGED <<row, blob>>
    BY <1>0, <1>1, GoesOn DEF AnswerWrite
  <2>2. Writing(r)
    BY <1>0, <2>1 DEF CallOK, WritePcs, Writing
  <2> QED
    BY <2>1, <2>2 DEF Knows, WriteKnows, Written, Writing, WriteOps
<1>2. ASSUME NEW k, NextKey(r, req[r], k), row'[k] = Absent, req[r].pc \in DeletePcs,
             UNCHANGED blob
      PROVE  req[r].op = "delete" => \A o \in req[r].keys : row'[o] = Absent /\ blob'[o] = Absent
  <2>1. req[r].keys \ {k} = {}
    BY <1>0, <1>2, KeyDone
  <2> QED
    BY <1>2, <2>1 DEF Knows, DeleteKnows
<1>3. CASE FindRow(r) \/ RemoveRow(r) \/ Credited(r)
  <2>1. req[r].pc \in DeletePcs /\ req[r].op # "put" /\ UNCHANGED blob
    BY <1>0, <1>3 DEF FindRow, RemoveRow, Credited, DeletePcs, CallOK
  <2>2. \E k : NextKey(r, req[r], k) /\ row'[k] = Absent
    <3>1. CASE FindRow(r)
      BY <1>0, <3>1, RowFound DEF FindRow
    <3>2. CASE RemoveRow(r)
      <4>1. req[r].obj \in Object
        BY <1>0, <3>2 DEF RemoveRow, HandlerOK, AtObject
      <4> QED
        BY <1>0, <3>2, <4>1, GoesOn DEF RemoveRow, RowsOK
    <3>3. CASE Credited(r)
      BY <1>0, <3>3, GoesOn DEF Credited, Knows, DeleteKnows, DeletePcs
    <3> QED
      BY <1>3, <3>1, <3>2, <3>3
  <2> QED
    BY <1>2, <2>1, <2>2
<1>4. ~Start(r)
  BY DEF Start, StartPut, StartCopy, StartDelete, StartBatch
<1>5. ~UNCHANGED ovars
  BY <1>0 DEF ovars, Resting
<1>6. ~CopyBegin(r)
  BY <1>0, PutBegun DEF CopyBegin, HandlerOK, AtObject, WritePcs
<1>7. ~(CallReserve(r) \/ RefuseWrite(r) \/ Account(r) \/ GiveBack(r) \/ CallCredit(r) \/ Crash(r))
  BY <1>0, GoesOn DEF CallReserve, RefuseWrite, Account, GiveBack, CallCredit, Crash
<1>8. ~(SendWrite(r) \/ UpdateRow(r) \/ RereadRow(r) \/ InsertRow(r) \/ WriteRowFails(r))
  BY <1>0, GoesOn, GivesUp, TriesAgain
     DEF SendWrite, UpdateRow, RereadRow, InsertRow, InsertFails, WriteRowFails
<1> QED
  BY <1>1, <1>2, <1>3, <1>4, <1>5, <1>6, <1>7, <1>8 DEF Step, Proceed

\* A PutObject is acknowledged only once the row and the store have the object at its size,
\* and a DeleteObject only once neither has it, faults or not, while clients keep their
\* requests off each other's keys.
THEOREM ObjectsAnswersTrue ==
  AmountsCovered /\ SerialKeys => (ObjectsSpec => AnswersTrue)
<1> SUFFICES ASSUME AmountsCovered, SerialKeys PROVE ObjectsSpec => AnswersTrue
  OBVIOUS
<1> DEFINE Told ==
      \A r \in Requests :
        Active(r) /\ req'[r].pc = "ok" =>
          /\ req[r].op = "put" => /\ row'[req[r].obj] = req[r].size
                                 /\ blob'[req[r].obj] = req[r].size
          /\ req[r].op = "delete" => \A o \in req[r].keys : /\ row'[o] = Absent
                                                           /\ blob'[o] = Absent
<1>1. ObjectsInit => KInv
  BY KnowsInit
<1>2. KInv /\ [ObjectsNext]_gatewayVars => KInv'
  BY KInvKept
<1>3. KInv /\ [ObjectsNext]_gatewayVars => [Told]_gatewayVars
  <2> SUFFICES ASSUME KInv, ObjectsNext, NEW r \in Requests, Active(r), req'[r].pc = "ok"
               PROVE  /\ req[r].op = "put" => /\ row'[req[r].obj] = req[r].size
                                             /\ blob'[req[r].obj] = req[r].size
                      /\ req[r].op = "delete" => \A o \in req[r].keys : /\ row'[o] = Absent
                                                                       /\ blob'[o] = Absent
    OBVIOUS
  <2>1. PICK q \in Requests : Step(q)
    BY DEF ObjectsNext, Step
  <2>2. OInv /\ CallsOK /\ Knows(r)
    BY DEF KInv, HInv
  <2>3. q = r
    <3>1. q # r => req'[r] = req[r]
      BY <2>1, <2>2, OthersStay
    <3> QED
      BY <3>1 DEF Active, Resting
  <2> QED
    BY <2>1, <2>2, <2>3, AnswerTrue
<1> QED
  BY <1>1, <1>2, <1>3, PTL DEF ObjectsSpec, AnswersTrue

----------------------------------------------------------------------------
(* What is used is what the rows say, less what is still owed.             *)

\* What a handler owes, by where it and its call are.
OwesBucket(h, c) ==
  IF h.pc \in {"reread", "account"} \/ (h.pc = "commit" /\ c.at = "settle_bucket") THEN h.delta
  ELSE IF h.pc = "credit" \/ c.at = "credit_bucket" THEN -h.size
  ELSE 0

OwesAccount(h, c) ==
  IF h.pc \in {"reread", "account"} \/ c.at \in {"commit_user", "settle_bucket", "settle_user"}
    THEN h.delta
  ELSE IF h.pc = "credit" \/ c.at \in {"credit_bucket", "credit_user"} THEN -h.size
  ELSE 0

OwesObjects(h, c) ==
  IF h.pc \in {"reread", "account"} \/ (h.pc = "commit" /\ c.at = "settle_bucket") THEN h.new
  ELSE IF h.pc = "credit" \/ c.at = "credit_bucket" THEN -1
  ELSE 0

\* No two of the cases of what is due hold at once.
LEMMA Dues ==
  ASSUME NEW r, CallOK(req[r], call[r])
  PROVE  /\ DueToBucket(r) = OwesBucket(req[r], call[r])
         /\ DueToAccount(r) = OwesAccount(req[r], call[r])
         /\ ObjectsDue(r) = OwesObjects(req[r], call[r])
<1> USE DEF At, AtStatement, CallOK, Ended
<1>1. CASE req[r].pc \in {"reread", "account"}
  BY <1>1 DEF DueToBucket, DueToAccount, ObjectsDue, OwesBucket, OwesAccount, OwesObjects
<1>2. CASE req[r].pc = "commit"
  BY <1>2 DEF DueToBucket, DueToAccount, ObjectsDue, OwesBucket, OwesAccount, OwesObjects
<1>3. CASE req[r].pc \in {"credit", "credited"}
  BY <1>3 DEF DueToBucket, DueToAccount, ObjectsDue, OwesBucket, OwesAccount, OwesObjects
<1>4. CASE req[r].pc \notin {"reread", "account", "commit", "credit", "credited"}
  BY <1>4 DEF DueToBucket, DueToAccount, ObjectsDue, OwesBucket, OwesAccount, OwesObjects
<1> QED
  BY <1>1, <1>2, <1>3, <1>4

\* The same after a step.
LEMMA DuesNext ==
  ASSUME NEW r, CallOK(req'[r], call'[r])
  PROVE  /\ DueToBucket(r)' = OwesBucket(req'[r], call'[r])
         /\ DueToAccount(r)' = OwesAccount(req'[r], call'[r])
         /\ ObjectsDue(r)' = OwesObjects(req'[r], call'[r])
<1> USE DEF At, AtStatement, CallOK, Ended
<1>1. CASE req'[r].pc \in {"reread", "account"}
  BY <1>1 DEF DueToBucket, DueToAccount, ObjectsDue, OwesBucket, OwesAccount, OwesObjects
<1>2. CASE req'[r].pc = "commit"
  BY <1>2 DEF DueToBucket, DueToAccount, ObjectsDue, OwesBucket, OwesAccount, OwesObjects
<1>3. CASE req'[r].pc \in {"credit", "credited"}
  BY <1>3 DEF DueToBucket, DueToAccount, ObjectsDue, OwesBucket, OwesAccount, OwesObjects
<1>4. CASE req'[r].pc \notin {"reread", "account", "commit", "credit", "credited"}
  BY <1>4 DEF DueToBucket, DueToAccount, ObjectsDue, OwesBucket, OwesAccount, OwesObjects
<1> QED
  BY <1>1, <1>2, <1>3, <1>4

\* ChargesAccounted, over the sums of this module.
ChargesOK ==
  faults = 0 =>
    /\ \A b \in Buckets :
         /\ bucket[b].used + Total(BucketDues(b), Requests) = Total(SizesAt(row, b), Object)
         /\ bucket[b].count + Total(BucketAddsAll(b), Requests) = Total(RowsIn(b), Object)
    /\ \A u \in Users :
         account[u].used + Total(AccountDues(u), Requests) = Total(SizesOf(row, u), Object)

\* A handler can pay what it owes.
OwnDue(r) ==
  /\ \A b \in Buckets : /\ bucket[b].used + BucketDue(r, b) >= 0
                        /\ bucket[b].count + BucketAdds(r, b) >= 0
  /\ \A u \in Users : account[u].used + AccountDue(r, u) >= 0

\* What a handler owes is owed for its object, whose row bears it.
LEMMA DueBorne ==
  ASSUME OInv, CallsOK, NEW r \in Requests, Knows(r)
  PROVE  LET o == req[r].obj
             owes == \/ OwesBucket(req[r], call[r]) # 0
                     \/ OwesAccount(req[r], call[r]) # 0
                     \/ OwesObjects(req[r], call[r]) # 0 IN
         /\ OwesBucket(req[r], call[r]) \in Int
         /\ OwesAccount(req[r], call[r]) \in Int
         /\ OwesObjects(req[r], call[r]) \in Int
         /\ owes =>
              /\ o \in Object /\ Active(r) /\ o \in Touches(r)
              /\ OwesBucket(req[r], call[r]) <= Stored(row[o])
              /\ OwesAccount(req[r], call[r]) <= Stored(row[o])
              /\ OwesObjects(req[r], call[r]) <= IF row[o] # Absent THEN 1 ELSE 0
<1> USE DEF OwesBucket, OwesAccount, OwesObjects
<1> DEFINE o == req[r].obj
<1>0. /\ HandlerOK(req[r]) /\ CallOK(req[r], call[r]) /\ HandlersOK
      /\ req[r].delta \in Int /\ req[r].size \in Nat /\ req[r].new \in {0, 1}
      /\ row \in [Object -> Contents \cup {Absent}] /\ req[r].size \in Contents
  BY DEF OInv, HandlersOK, HandlerOK, Handler, CallsOK, RowsOK
<1>1. CASE req[r].pc \in Written
  <2>1. /\ Active(r) /\ Writing(r) /\ o \in Object
        /\ row[o] = req[r].size /\ req[r].delta <= req[r].size
    <3>1. /\ Active(r) /\ Writing(r) /\ o \in Object
      BY <1>0, <1>1 DEF Written, Active, Resting, CallOK, WritePcs, Writing, HandlerOK, AtObject
    <3>2. row[o] = req[r].size /\ req[r].size - req[r].delta >= 0
      BY <1>1, <3>1 DEF Knows, WriteKnows
    <3> QED
      BY <1>0, <3>1, <3>2
  <2>2. o \in Touches(r)
    BY <1>0, <2>1, Touched
  <2>3. Stored(row[o]) = req[r].size /\ row[o] # Absent
    BY <1>0, <2>1, SizesStored
  <2>4. /\ OwesBucket(req[r], call[r]) \in {0, req[r].delta}
        /\ OwesAccount(req[r], call[r]) \in {0, req[r].delta}
        /\ OwesObjects(req[r], call[r]) \in {0, req[r].new}
    BY <1>0, <1>1 DEF CallOK, Written, Ended
  <2> HIDE DEF OwesBucket, OwesAccount, OwesObjects
  <2> QED
    BY <1>0, <2>1, <2>2, <2>3, <2>4
<1>2. CASE req[r].pc \in {"credit", "credited"}
  <2>1. /\ Active(r) /\ o \in Object /\ o \in req[r].keys
    BY <1>0, <1>2 DEF Active, Resting, HandlerOK, AtObject, Knows, DeleteKnows, DeletePcs
  <2>2. o \in Touches(r)
    BY <2>1 DEF Touches
  <2>3. Stored(row[o]) \in Nat
    BY <1>0, <2>1, SizesStored
  <2>4. /\ OwesBucket(req[r], call[r]) \in {0, -req[r].size}
        /\ OwesAccount(req[r], call[r]) \in {0, -req[r].size}
        /\ OwesObjects(req[r], call[r]) \in {0, -1}
    BY <1>0, <1>2 DEF CallOK, Ended
  <2> HIDE DEF OwesBucket, OwesAccount, OwesObjects
  <2> QED
    BY <1>0, <2>1, <2>2, <2>3, <2>4
<1>3. CASE req[r].pc \notin Written \cup {"credit", "credited"}
  BY <1>0, <1>3 DEF CallOK, Written, Ended
<1> QED
  BY <1>1, <1>2, <1>3

\* So a handler finds what it takes off the used and the count columns.
LEMMA DuesCover ==
  ASSUME OInv, CallsOK, Apart, \A q \in Requests : Knows(q), ChargesOK, faults = 0,
         NEW r \in Requests
  PROVE  OwnDue(r)
<1> DEFINE key == [q \in Requests |-> req[q].obj]
<1>0. /\ IsFiniteSet(Requests) /\ IsFiniteSet(Object)
      /\ \A o \in Object : Stored(row[o]) \in Nat
      /\ \A q \in Requests : key[q] = req[q].obj
      /\ bucket \in [Buckets -> BucketColumns] /\ account \in [Users -> AccountColumns]
  BY FiniteAssumption, ObjectsFinite, SizesStored DEF OInv, RowsOK, IInv, QuotaTypeOK
<1>1. \A q \in Requests :
        /\ DueToBucket(q) = OwesBucket(req[q], call[q])
        /\ DueToAccount(q) = OwesAccount(req[q], call[q])
        /\ ObjectsDue(q) = OwesObjects(req[q], call[q])
  BY Dues DEF CallsOK
<1>2. ASSUME NEW q \in Requests
      PROVE  /\ DueToBucket(q) \in Int /\ DueToAccount(q) \in Int /\ ObjectsDue(q) \in Int
             /\ DueToBucket(q) # 0 \/ DueToAccount(q) # 0 \/ ObjectsDue(q) # 0 =>
                  /\ req[q].obj \in Object /\ Active(q) /\ req[q].obj \in Touches(q)
                  /\ DueToBucket(q) <= Stored(row[req[q].obj])
                  /\ DueToAccount(q) <= Stored(row[req[q].obj])
                  /\ ObjectsDue(q) <= IF row[req[q].obj] # Absent THEN 1 ELSE 0
  BY <1>1, DueBorne
<1>3. ASSUME NEW q \in Requests, NEW p \in Requests, p # q,
             DueToBucket(p) # 0 \/ DueToAccount(p) # 0 \/ ObjectsDue(p) # 0,
             DueToBucket(q) # 0 \/ DueToAccount(q) # 0 \/ ObjectsDue(q) # 0
      PROVE  req[p].obj # req[q].obj
  BY <1>2, <1>3 DEF Apart
<1> HIDE DEF key
<1>4. ASSUME NEW b \in Buckets
      PROVE  bucket[b].used + BucketDue(r, b) >= 0 /\ bucket[b].count + BucketAdds(r, b) >= 0
  <2> DEFINE f == BucketDues(b)
             g == SizesAt(row, b)
             d == BucketAddsAll(b)
             e == RowsIn(b)
  <2>1. \A q \in Requests : /\ f[q] = IF InBucket(q, b) THEN DueToBucket(q) ELSE 0
                            /\ d[q] = IF InBucket(q, b) THEN ObjectsDue(q) ELSE 0
                            /\ InBucket(q, b) => BucketOf(req[q].obj) = b
    BY DEF BucketDues, BucketDue, BucketAddsAll, BucketAdds, InBucket
  <2>2. \A o \in Object : /\ g[o] = IF BucketOf(o) = b THEN Stored(row[o]) ELSE 0
                          /\ e[o] = IF BucketOf(o) = b /\ row[o] # Absent THEN 1 ELSE 0
    BY DEF SizesAt, RowsIn
  <2>3. /\ bucket[b].used + Total(f, Requests) = Total(g, Object)
        /\ bucket[b].count + Total(d, Requests) = Total(e, Object)
        /\ f[r] = BucketDue(r, b) /\ d[r] = BucketAdds(r, b)
    BY DEF ChargesOK, BucketDues, BucketAddsAll
  <2>4. bucket[b].used \in Int /\ bucket[b].count \in Int
    BY <1>0 DEF BucketColumns
  <2> HIDE DEF f, g, d, e
  <2>5. Borne(Requests, Object, key, f, g)
    BY <1>0, <1>2, <1>3, <2>1, <2>2 DEF Borne
  <2>6. Borne(Requests, Object, key, d, e)
    BY <1>0, <1>2, <1>3, <2>1, <2>2 DEF Borne
  <2>7. \A o \in Object : g[o] \in Nat /\ e[o] \in Nat
    BY <1>0, <2>2
  <2>8. /\ Total(f, Requests) - f[r] <= Total(g, Object)
        /\ Total(f, Requests) \in Int /\ Total(g, Object) \in Int /\ f[r] \in Int
    BY <1>0, <2>5, <2>7, TotalSpared
  <2>9. /\ Total(d, Requests) - d[r] <= Total(e, Object)
        /\ Total(d, Requests) \in Int /\ Total(e, Object) \in Int /\ d[r] \in Int
    BY <1>0, <2>6, <2>7, TotalSpared
  <2> QED
    BY <2>3, <2>4, <2>8, <2>9
<1>5. ASSUME NEW u \in Users
      PROVE  account[u].used + AccountDue(r, u) >= 0
  <2> DEFINE f == AccountDues(u)
             g == SizesOf(row, u)
  <2>1. \A q \in Requests : /\ f[q] = IF InAccount(q, u) THEN DueToAccount(q) ELSE 0
                            /\ InAccount(q, u) => Owner[BucketOf(req[q].obj)] = u
    BY DEF AccountDues, AccountDue, InAccount
  <2>2. \A o \in Object : g[o] = IF Owner[BucketOf(o)] = u THEN Stored(row[o]) ELSE 0
    BY DEF SizesOf
  <2>3. /\ account[u].used + Total(f, Requests) = Total(g, Object)
        /\ f[r] = AccountDue(r, u)
    BY DEF ChargesOK, AccountDues
  <2>4. account[u].used \in Int
    BY <1>0 DEF AccountColumns
  <2> HIDE DEF f, g
  <2>5. Borne(Requests, Object, key, f, g)
    BY <1>0, <1>2, <1>3, <2>1, <2>2 DEF Borne
  <2>6. \A o \in Object : g[o] \in Nat
    BY <1>0, <2>2
  <2>7. /\ Total(f, Requests) - f[r] <= Total(g, Object)
        /\ Total(f, Requests) \in Int /\ Total(g, Object) \in Int /\ f[r] \in Int
    BY <1>0, <2>5, <2>6, TotalSpared
  <2> QED
    BY <2>3, <2>4, <2>7
<1> QED
  BY <1>4, <1>5 DEF OwnDue

\* A step that writes no row keeps what is used with what the handler owes, on every row.
DuesPaid(r) ==
  /\ UNCHANGED row
  /\ \A b \in Buckets :
       /\ (bucket[b].used + BucketDue(r, b))' = bucket[b].used + BucketDue(r, b)
       /\ (bucket[b].count + BucketAdds(r, b))' = bucket[b].count + BucketAdds(r, b)
  /\ \A u \in Users : (account[u].used + AccountDue(r, u))' = account[u].used + AccountDue(r, u)

\* A step that writes one is owed for.
DuesTaken(r) ==
  LET o == req[r].obj IN
  /\ UNCHANGED <<bucket, account>> /\ o \in Object /\ req'[r].obj = o
  /\ \A x \in Object \ {o} : row'[x] = row[x]
  /\ (DueToBucket(r) - Stored(row[o]))' = DueToBucket(r) - Stored(row[o])
  /\ (DueToAccount(r) - Stored(row[o]))' = DueToAccount(r) - Stored(row[o])
  /\ (ObjectsDue(r) - IF row[o] # Absent THEN 1 ELSE 0)'
       = ObjectsDue(r) - IF row[o] # Absent THEN 1 ELSE 0

\* The amounts of Amounts, after a step.
LEMMA DuesTyped ==
  ASSUME HandlersOK', NEW r \in Requests
  PROVE  DueToBucket(r)' \in Int /\ DueToAccount(r)' \in Int /\ ObjectsDue(r)' \in Int
<1>1. req'[r].delta \in Int /\ req'[r].size \in Int /\ req'[r].new \in Int
  BY DEF HandlersOK, HandlerOK, Handler
<1> QED
  BY <1>1 DEF DueToBucket, DueToAccount, ObjectsDue

\* The tables stay, and so do the dues.
LEMMA DueKept ==
  ASSUME OInv, NEW r \in Requests, UNCHANGED <<bucket, account, row>>,
         \/ req'[r].obj = req[r].obj
         \/ DueToBucket(r) = 0 /\ DueToAccount(r) = 0 /\ ObjectsDue(r) = 0,
         DueToBucket(r)' = DueToBucket(r), DueToAccount(r)' = DueToAccount(r),
         ObjectsDue(r)' = ObjectsDue(r)
  PROVE  DuesPaid(r)
<1>1. ASSUME NEW b \in Buckets
      PROVE  BucketDue(r, b)' = BucketDue(r, b) /\ BucketAdds(r, b)' = BucketAdds(r, b)
  BY DEF BucketDue, BucketAdds, InBucket
<1>2. ASSUME NEW u \in Users
      PROVE  AccountDue(r, u)' = AccountDue(r, u)
  BY DEF AccountDue, InAccount
<1> QED
  BY <1>1, <1>2 DEF DuesPaid

\* A statement on the bucket's row pays what it moves the row by.
LEMMA BucketDuePaid ==
  ASSUME OInv, OInv', NEW r \in Requests, req[r].obj \in Object, req'[r].obj = req[r].obj,
         NEW c, bucket' = [bucket EXCEPT ![BucketOf(req[r].obj)] = c],
         UNCHANGED <<account, row>>,
         c.used + DueToBucket(r)' = bucket[BucketOf(req[r].obj)].used + DueToBucket(r),
         c.count + ObjectsDue(r)' = bucket[BucketOf(req[r].obj)].count + ObjectsDue(r),
         DueToAccount(r)' = DueToAccount(r)
  PROVE  DuesPaid(r)
<1> DEFINE a == BucketOf(req[r].obj)
<1>1. bucket \in [Buckets -> BucketColumns] /\ a \in Buckets /\ req[r].obj # Nowhere
  BY NowhereAssumption DEF OInv, IInv, QuotaTypeOK, Object, BucketOf
<1>2. ASSUME NEW b \in Buckets
      PROVE  /\ (bucket[b].used + BucketDue(r, b))' = bucket[b].used + BucketDue(r, b)
             /\ (bucket[b].count + BucketAdds(r, b))' = bucket[b].count + BucketAdds(r, b)
  <2>1. CASE b = a
    <3>1. bucket'[b] = c /\ InBucket(r, b) /\ InBucket(r, b)'
      BY <1>1, <2>1 DEF InBucket
    <3> QED
      BY <2>1, <3>1 DEF BucketDue, BucketAdds
  <2>2. CASE b # a
    <3>1. bucket'[b] = bucket[b] /\ ~InBucket(r, b) /\ ~InBucket(r, b)'
      BY <1>1, <2>2 DEF InBucket
    <3> QED
      BY <3>1 DEF BucketDue, BucketAdds
  <2> QED
    BY <2>1, <2>2
<1>3. ASSUME NEW u \in Users
      PROVE  AccountDue(r, u)' = AccountDue(r, u)
  BY DEF AccountDue, InAccount
<1> QED
  BY <1>2, <1>3 DEF DuesPaid

\* And a statement on the owner's row.
LEMMA AccountDuePaid ==
  ASSUME OInv, OInv', NEW r \in Requests, req[r].obj \in Object, req'[r].obj = req[r].obj,
         NEW c, account' = [account EXCEPT ![Owner[BucketOf(req[r].obj)]] = c],
         UNCHANGED <<bucket, row>>,
         c.used + DueToAccount(r)' =
           account[Owner[BucketOf(req[r].obj)]].used + DueToAccount(r),
         DueToBucket(r)' = DueToBucket(r), ObjectsDue(r)' = ObjectsDue(r)
  PROVE  DuesPaid(r)
<1> DEFINE a == Owner[BucketOf(req[r].obj)]
<1>1. account \in [Users -> AccountColumns] /\ a \in Users /\ req[r].obj # Nowhere
  BY NowhereAssumption, OwnerAssumption DEF OInv, IInv, QuotaTypeOK, Object, BucketOf
<1>2. ASSUME NEW u \in Users
      PROVE  (account[u].used + AccountDue(r, u))' = account[u].used + AccountDue(r, u)
  <2>1. CASE u = a
    <3>1. account'[u] = c /\ InAccount(r, u) /\ InAccount(r, u)'
      BY <1>1, <2>1 DEF InAccount
    <3> QED
      BY <2>1, <3>1 DEF AccountDue
  <2>2. CASE u # a
    <3>1. account'[u] = account[u] /\ ~InAccount(r, u) /\ ~InAccount(r, u)'
      BY <1>1, <2>2 DEF InAccount
    <3> QED
      BY <3>1 DEF AccountDue
  <2> QED
    BY <2>1, <2>2
<1>3. ASSUME NEW b \in Buckets
      PROVE  BucketDue(r, b)' = BucketDue(r, b) /\ BucketAdds(r, b)' = BucketAdds(r, b)
  BY DEF BucketDue, BucketAdds, InBucket
<1> QED
  BY <1>2, <1>3 DEF DuesPaid

\* Where nothing is owed.
LEMMA NothingDue ==
  /\ \A h, c : h.pc \notin {"reread", "account", "credit"}
               /\ c.at \notin {"commit_user", "settle_bucket", "settle_user",
                               "credit_bucket", "credit_user"} =>
       OwesBucket(h, c) = 0 /\ OwesAccount(h, c) = 0 /\ OwesObjects(h, c) = 0
  BY DEF OwesBucket, OwesAccount, OwesObjects

\* The steps of a handler that owes nothing before them and nothing after them.
LEMMA NothingTaken ==
  ASSUME OInv, OInv', CallsOK, CallsOK', NEW r \in Requests,
         \/ Start(r) \/ CopyBegin(r) \/ CallReserve(r) \/ RefuseWrite(r) \/ SendWrite(r)
         \/ GiveBack(r) \/ AnswerWrite(r) \/ FindRow(r) \/ Credited(r)
  PROVE  /\ UNCHANGED row
         /\ DueToBucket(r) = 0 /\ DueToAccount(r) = 0 /\ ObjectsDue(r) = 0
         /\ DueToBucket(r)' = 0 /\ DueToAccount(r)' = 0 /\ ObjectsDue(r)' = 0
<1> USE DEF At
<1>0. /\ HandlerOK(req[r]) /\ CallOK(req[r], call[r]) /\ CallOK(req'[r], call'[r])
      /\ HandlersOK /\ RowsOK /\ req[r] \in Handler(ObjectOps, Pcs)
  BY DEF OInv, HandlersOK, HandlerOK, CallsOK
<1>1. /\ UNCHANGED row
      /\ req[r].pc \notin {"reread", "account", "credit"}
      /\ call[r].at \notin {"commit_user", "settle_bucket", "settle_user",
                            "credit_bucket", "credit_user"}
  BY <1>0 DEF Start, StartPut, StartCopy, StartDelete, StartBatch, Active, Resting, CopyBegin,
       CallReserve, RefuseWrite, SendWrite, Admitted, GiveBack, AnswerWrite, FindRow, Credited,
       CallOK, Ended
<1>2. req'[r].pc \in {"ok", "err", "find", "begin", "reserve", "send", "remove", "admit",
                      "update", "release", "abort"}
  <2>1. CASE Start(r)
    <3>1. ASSUME NEW o \in Object, NEW n \in Sizes, StartPut(r, o, n)
          PROVE  req'[r].pc \in {"reserve", "send"}
      BY <1>0, <3>1, PutStarts
    <3>2. ASSUME NEW s \in Object, NEW o \in Object, StartCopy(r, s, o)
          PROVE  req'[r].pc = "begin"
      BY <1>0, <3>2, CopyStarts
    <3>3. ASSUME NEW op, NEW objs, req' = [req EXCEPT ![r] = DeleteHandler(op, objs)]
          PROVE  req'[r].pc = "find"
      BY <1>0, <3>3, DeleteStarts
    <3>4. ASSUME Goes(r, "err")
          PROVE  req'[r].pc = "err"
      BY <1>0, <3>4, GoesOn
    <3> QED
      BY <2>1, <3>1, <3>2, <3>3, <3>4 DEF Start, StartDelete, StartBatch
  <2>2. CASE CopyBegin(r)
    BY <1>0, <2>2, PutBegun DEF CopyBegin, HandlerOK, AtObject, WritePcs
  <2>3. CASE CallReserve(r) \/ RefuseWrite(r) \/ GiveBack(r) \/ AnswerWrite(r)
    BY <1>0, <2>3, GoesOn DEF CallReserve, RefuseWrite, GiveBack, AnswerWrite
  <2>4. CASE SendWrite(r)
    BY <1>0, <2>4, GoesOn, GivesUp DEF SendWrite
  <2>5. ASSUME NEW o, NextKey(r, req[r], o)
        PROVE  req'[r].pc \in {"ok", "find"}
    BY <1>0, <2>5, KeyDone
  <2>6. CASE FindRow(r)
    BY <1>0, <2>5, <2>6, RowFound
  <2>7. CASE Credited(r)
    BY <1>0, <2>5, <2>7, GoesOn DEF Credited
  <2> QED
    BY <2>1, <2>2, <2>3, <2>4, <2>6, <2>7
<1>3. call'[r].at \notin {"commit_user", "settle_bucket", "settle_user",
                          "credit_bucket", "credit_user"}
  BY <1>0, <1>2 DEF CallOK, Ended
<1>4. /\ OwesBucket(req[r], call[r]) = 0 /\ OwesAccount(req[r], call[r]) = 0
      /\ OwesObjects(req[r], call[r]) = 0
  BY <1>1, NothingDue
<1>5. /\ OwesBucket(req'[r], call'[r]) = 0 /\ OwesAccount(req'[r], call'[r]) = 0
      /\ OwesObjects(req'[r], call'[r]) = 0
  BY <1>2, <1>3, NothingDue
<1> QED
  BY <1>0, <1>1, <1>4, <1>5, Dues, DuesNext

\* A write to the rows is owed for from then on.
LEMMA RowTaken ==
  ASSUME OInv, OInv', CallsOK, CallsOK', NEW r \in Requests, Knows(r),
         UpdateRow(r) \/ RereadRow(r) \/ InsertRow(r) \/ RemoveRow(r)
  PROVE  DuesPaid(r) \/ DuesTaken(r)
<1> USE DEF At
<1> DEFINE o == req[r].obj
<1>0. /\ HandlerOK(req[r]) /\ CallOK(req[r], call[r]) /\ CallOK(req'[r], call'[r])
      /\ HandlersOK /\ req[r].delta \in Int /\ req[r].size \in Nat /\ req[r].new \in {0, 1}
      /\ row \in [Object -> Contents \cup {Absent}] /\ req[r].size \in Contents
      /\ live = Buckets
  BY DEF OInv, HandlersOK, HandlerOK, Handler, CallsOK, RowsOK
<1>1. UNCHANGED <<bucket, account, call>>
  BY DEF UpdateRow, RereadRow, InsertRow, RemoveRow, qvars
<1>2. /\ o \in Object /\ call[r].at \in Ended /\ row[o] \in Contents \cup {Absent}
      /\ Stored(row[o]) \in Nat /\ Stored(req[r].size) = req[r].size /\ req[r].size # Absent
      /\ Stored(Absent) = 0
  <2>1. o \in Object /\ call[r].at \in Ended
    BY <1>0 DEF UpdateRow, RereadRow, InsertRow, RemoveRow, HandlerOK, AtObject, WritePcs, CallOK
  <2>2. Stored(Absent) = 0
    BY DEF Stored
  <2> QED
    BY <1>0, <2>1, <2>2, SizesStored
<1>3. /\ DueToBucket(r) = OwesBucket(req[r], call[r])
      /\ DueToAccount(r) = OwesAccount(req[r], call[r])
      /\ ObjectsDue(r) = OwesObjects(req[r], call[r])
      /\ DueToBucket(r)' = OwesBucket(req'[r], call'[r])
      /\ DueToAccount(r)' = OwesAccount(req'[r], call'[r])
      /\ ObjectsDue(r)' = OwesObjects(req'[r], call'[r])
  BY <1>0, Dues, DuesNext
<1>4. req[r].pc \notin {"reread", "credit"} =>
        DueToBucket(r) = 0 /\ DueToAccount(r) = 0 /\ ObjectsDue(r) = 0
  <2>1. req[r].pc # "account"
    BY DEF UpdateRow, RereadRow, InsertRow, RemoveRow
  <2> QED
    BY <1>2, <1>3, <2>1, NothingDue DEF Ended
<1>5. ASSUME req'[r].pc \in {"reread", "account"}
      PROVE  /\ DueToBucket(r)' = req'[r].delta /\ DueToAccount(r)' = req'[r].delta
             /\ ObjectsDue(r)' = req'[r].new
  BY <1>3, <1>5 DEF OwesBucket, OwesAccount, OwesObjects
<1>6. ASSUME row' = [row EXCEPT ![o] = req[r].size], req'[r].pc \in {"reread", "account"},
             Same(req'[r], req[r]), req[r].pc \in {"update", "insert"}
      PROVE  DuesTaken(r)
  <2>1. /\ req[r].delta = req[r].size - Stored(row[o])
        /\ req[r].new = IF row[o] = Absent THEN 1 ELSE 0
    <3>1. Writing(r) /\ Active(r)
      BY <1>0, <1>6 DEF CallOK, WritePcs, Writing, Active, Resting
    <3> QED
      BY <1>6, <3>1 DEF Knows, WriteKnows
  <2>2. /\ DueToBucket(r)' = req[r].size - Stored(row[o])
        /\ DueToAccount(r)' = req[r].size - Stored(row[o])
        /\ ObjectsDue(r)' = IF row[o] = Absent THEN 1 ELSE 0
        /\ req'[r].obj = o
    BY <1>5, <1>6, <2>1 DEF Same
  <2>3. /\ DueToBucket(r) = 0 /\ DueToAccount(r) = 0 /\ ObjectsDue(r) = 0
    BY <1>4, <1>6
  <2>4. row'[o] = req[r].size /\ \A x \in Object \ {o} : row'[x] = row[x]
    BY <1>0, <1>2, <1>6
  <2>5. Stored(row'[o]) = req[r].size /\ row'[o] # Absent
    BY <1>2, <2>4
  <2>6. (req[r].size - Stored(row[o])) - req[r].size = 0 - Stored(row[o])
    BY <1>0, <1>2
  <2>7. /\ (DueToBucket(r) - Stored(row[o]))' = DueToBucket(r) - Stored(row[o])
        /\ (DueToAccount(r) - Stored(row[o]))' = DueToAccount(r) - Stored(row[o])
    <3>1. (Stored(row[o]))' = req[r].size
      BY <2>2, <2>5 DEF Stored
    <3> QED
      BY <2>2, <2>3, <2>6, <3>1
  <2>8. (ObjectsDue(r) - IF row[o] # Absent THEN 1 ELSE 0)'
          = ObjectsDue(r) - IF row[o] # Absent THEN 1 ELSE 0
    BY <2>2, <2>3, <2>5
  <2> QED
    BY <1>1, <1>2, <2>2, <2>4, <2>7, <2>8 DEF DuesTaken
<1>7. CASE UpdateRow(r)
  <2>1. CASE row[o] # Absent
    BY <1>0, <1>6, <1>7, <2>1, GoesOn DEF UpdateRow
  <2>2. CASE row[o] = Absent
    <3>1. /\ Same(req'[r], req[r]) /\ req'[r].pc = "insert" /\ UNCHANGED row
          /\ req[r].pc = "update"
      BY <1>0, <1>7, <2>2, GoesOn DEF UpdateRow
    <3>2. DueToBucket(r)' = 0 /\ DueToAccount(r)' = 0 /\ ObjectsDue(r)' = 0
      BY <1>1, <1>2, <1>3, <3>1, NothingDue DEF Ended
    <3> QED
      BY <1>1, <1>4, <3>1, <3>2, DueKept
  <2> QED
    BY <2>1, <2>2
<1>8. CASE InsertRow(r)
  <2>1. req[r].pc = "insert" /\ Writing(r) /\ Active(r)
    BY <1>0, <1>8 DEF InsertRow, CallOK, WritePcs, Writing, Active, Resting
  <2>2. row[o] = Absent /\ BucketOf(o) \in live
    BY <1>0, <1>2, <2>1 DEF Knows, WriteKnows, Object, BucketOf
  <2> QED
    BY <1>0, <1>6, <1>8, <2>1, <2>2, GoesOn DEF InsertRow
<1>9. CASE RereadRow(r)
  <2>1. req[r].pc = "reread" /\ Writing(r) /\ Active(r) /\ UNCHANGED row
    BY <1>0, <1>9 DEF RereadRow, CallOK, WritePcs, Writing, Active, Resting
  <2>2. row[o] # Absent
    BY <1>2, <2>1 DEF Knows, WriteKnows, Written
  <2>3. Same(req'[r], req[r]) /\ req'[r].pc = "account"
    BY <1>0, <1>9, <2>2, GoesOn DEF RereadRow
  <2>4. /\ DueToBucket(r) = req[r].delta /\ DueToAccount(r) = req[r].delta
        /\ ObjectsDue(r) = req[r].new
    BY <1>3, <2>1 DEF OwesBucket, OwesAccount, OwesObjects
  <2> QED
    BY <1>1, <1>5, <2>1, <2>3, <2>4, DueKept DEF Same
<1>10. CASE RemoveRow(r)
  <2>1. req[r].pc = "remove" /\ row[o] = req[r].size /\ row' = [row EXCEPT ![o] = Absent]
    BY <1>10 DEF RemoveRow, Knows, DeleteKnows, DeletePcs
  <2>2. Same(req'[r], req[r]) /\ req'[r].pc = "credit"
    BY <1>0, <1>2, <1>10, <2>1, GoesOn DEF RemoveRow
  <2>3. /\ DueToBucket(r)' = -req[r].size /\ DueToAccount(r)' = -req[r].size
        /\ ObjectsDue(r)' = -1 /\ req'[r].obj = o
    <3>1. req'[r].size = req[r].size /\ req'[r].obj = o
      BY <2>2 DEF Same
    <3>2. /\ call'[r].at \in Ended /\ OwesBucket(req'[r], call'[r]) = -req'[r].size
          /\ OwesAccount(req'[r], call'[r]) = -req'[r].size
          /\ OwesObjects(req'[r], call'[r]) = -1
      BY <1>1, <1>2, <2>2 DEF OwesBucket, OwesAccount, OwesObjects, Ended
    <3> QED
      BY <1>3, <3>1, <3>2
  <2>4. DueToBucket(r) = 0 /\ DueToAccount(r) = 0 /\ ObjectsDue(r) = 0
    BY <1>4, <2>1
  <2>5. row'[o] = Absent /\ \A x \in Object \ {o} : row'[x] = row[x]
    BY <1>0, <1>2, <2>1
  <2>6. Stored(row[o]) = req[r].size /\ row[o] # Absent
    BY <1>2, <2>1
  <2>7. /\ (DueToBucket(r) - Stored(row[o]))' = DueToBucket(r) - Stored(row[o])
        /\ (DueToAccount(r) - Stored(row[o]))' = DueToAccount(r) - Stored(row[o])
    <3>1. (Stored(row[o]))' = 0
      BY <1>2, <2>3, <2>5 DEF Stored
    <3>2. (-req[r].size) - 0 = 0 - req[r].size
      BY <1>0
    <3> QED
      BY <2>3, <2>4, <2>6, <3>1, <3>2
  <2>8. (ObjectsDue(r) - IF row[o] # Absent THEN 1 ELSE 0)'
          = ObjectsDue(r) - IF row[o] # Absent THEN 1 ELSE 0
    BY <2>3, <2>4, <2>5, <2>6
  <2> QED
    BY <1>1, <1>2, <2>3, <2>5, <2>7, <2>8 DEF DuesTaken
<1> QED
  BY <1>7, <1>8, <1>9, <1>10

\* The statements of the quota procedures: each pays what it moves its row by, its guard
\* holding because the hold is there or because the row can bear what is due.
LEMMA StatementPays ==
  ASSUME OInv, OInv', CallsOK, CallsOK', NEW r \in Requests, OwnHeld(r), OwnDue(r),
         CallCredit(r) \/ Account(r) \/ (Continue(r) /\ UNCHANGED ovars)
  PROVE  DuesPaid(r)
<1> USE DEF At, AtStatement, Ended, WritePcs, DeletePcs
<1> DEFINE o == req[r].obj
           a == BucketOf(o)
           u == Owner[a]
           n == req[r].delta
           z == req[r].size
           d == req[r].new
<1>0. /\ HandlerOK(req[r]) /\ CallOK(req[r], call[r]) /\ CallOK(req'[r], call'[r])
      /\ HandlersOK /\ live = Buckets /\ call \in [Requests -> Call]
      /\ bucket \in [Buckets -> BucketColumns] /\ account \in [Users -> AccountColumns]
      /\ n \in Int /\ z \in Nat /\ d \in {0, 1} /\ UNCHANGED row
  <2>1. UNCHANGED row
    BY DEF CallCredit, Account, ovars
  <2> QED
    BY <2>1 DEF OInv, IInv, QuotaTypeOK, HandlersOK, HandlerOK, Handler, CallsOK
<1>1. ASSUME o \in Object
      PROVE  /\ a \in Buckets /\ u \in Users /\ InBucket(r, a) /\ InAccount(r, u)
             /\ bucket[a] \in BucketColumns /\ account[u] \in AccountColumns
             /\ bucket[a].reserved \in Int /\ account[u].reserved \in Int
             /\ bucket[a].used \in Int /\ account[u].used \in Int /\ bucket[a].count \in Int
  <2>1. a \in Buckets /\ u \in Users /\ o # Nowhere
    BY <1>1, OwnerAssumption, NowhereAssumption DEF Object, BucketOf
  <2>2. InBucket(r, a) /\ InAccount(r, u)
    BY <2>1 DEF InBucket, InAccount
  <2> HIDE DEF a, u
  <2>3. bucket[a] \in BucketColumns /\ account[u] \in AccountColumns
    BY <1>0, <2>1
  <2> QED
    BY <2>1, <2>2, <2>3 DEF BucketColumns, AccountColumns
<1>2. /\ DueToBucket(r) = OwesBucket(req[r], call[r])
      /\ DueToAccount(r) = OwesAccount(req[r], call[r])
      /\ ObjectsDue(r) = OwesObjects(req[r], call[r])
      /\ DueToBucket(r)' = OwesBucket(req'[r], call'[r])
      /\ DueToAccount(r)' = OwesAccount(req'[r], call'[r])
      /\ ObjectsDue(r)' = OwesObjects(req'[r], call'[r])
  BY <1>0, Dues, DuesNext
<1>3. CASE CallCredit(r)
  <2>1. /\ Same(req'[r], req[r]) /\ req[r].pc = "credit" /\ req'[r].pc = "credited"
        /\ Credit(r, a, z) /\ o \in Object
    BY <1>0, <1>3, GoesOn DEF CallCredit, HandlerOK, AtObject
  <2>2. call'[r].at = "credit_bucket" /\ UNCHANGED <<bucket, account>>
    BY <1>0, <1>1, <2>1 DEF Credit, Frame
  <2>3. /\ OwesBucket(req[r], call[r]) = -z /\ OwesAccount(req[r], call[r]) = -z
        /\ OwesObjects(req[r], call[r]) = -1
    BY <1>0, <2>1 DEF CallOK, OwesBucket, OwesAccount, OwesObjects
  <2>4. /\ OwesBucket(req'[r], call'[r]) = -z /\ OwesAccount(req'[r], call'[r]) = -z
        /\ OwesObjects(req'[r], call'[r]) = -1
    BY <2>1, <2>2 DEF OwesBucket, OwesAccount, OwesObjects, Same
  <2>5. req'[r].obj = req[r].obj
    BY <2>1 DEF Same
  <2> QED
    BY <1>0, <1>2, <2>2, <2>3, <2>4, <2>5, DueKept
<1>4. CASE Account(r)
  <2>1. /\ Same(req'[r], req[r]) /\ req[r].pc = "account" /\ req'[r].pc = "commit"
        /\ o \in Object /\ IF n > 0 THEN Commit(r, a, n, d) ELSE Settle(r, a, n, d)
    BY <1>0, <1>4, GoesOn DEF Account, HandlerOK, AtObject
  <2>2. /\ OwesBucket(req[r], call[r]) = n /\ OwesAccount(req[r], call[r]) = n
        /\ OwesObjects(req[r], call[r]) = d
    BY <2>1 DEF OwesBucket, OwesAccount, OwesObjects
  <2>3. req'[r].obj = o /\ req'[r].delta = n /\ req'[r].new = d
    BY <2>1 DEF Same
  <2>4. CASE n > 0
    <3>1. /\ bucket' = [bucket EXCEPT ![a] = CommitColumns(bucket[a], n, d)]
          /\ call'[r].at = "commit_user" /\ UNCHANGED account
      BY <1>0, <1>1, <2>1, <2>4 DEF Commit, UpdateBucket, Frame
    <3>2. bucket[a].reserved >= n
      <4>1. HeldByBucket(r) = n
        BY <2>1, <2>4 DEF HeldByBucket, Growth
      <4> QED
        BY <1>1, <2>1, <4>1 DEF OwnHeld, BucketHold
    <3>3. /\ CommitColumns(bucket[a], n, d).used = bucket[a].used + n
          /\ CommitColumns(bucket[a], n, d).count = bucket[a].count + d
      BY <3>2 DEF CommitColumns
    <3>4. /\ OwesBucket(req'[r], call'[r]) = 0 /\ OwesAccount(req'[r], call'[r]) = n
          /\ OwesObjects(req'[r], call'[r]) = 0
      BY <2>1, <2>3, <3>1 DEF OwesBucket, OwesAccount, OwesObjects
    <3>5. /\ CommitColumns(bucket[a], n, d).used + DueToBucket(r)'
               = bucket[a].used + DueToBucket(r)
          /\ CommitColumns(bucket[a], n, d).count + ObjectsDue(r)'
               = bucket[a].count + ObjectsDue(r)
          /\ DueToAccount(r)' = DueToAccount(r)
      BY <1>0, <1>1, <1>2, <2>1, <2>2, <3>3, <3>4
    <3> QED
      BY <1>0, <2>1, <2>3, <3>1, <3>5, BucketDuePaid
  <2>5. CASE ~(n > 0)
    <3>1. /\ UNCHANGED <<bucket, account>>
          /\ call'[r].at = IF n = 0 /\ d = 0 THEN "ok" ELSE "settle_bucket"
      BY <1>0, <1>1, <2>1, <2>5 DEF Settle, Frame
    <3>2. /\ OwesBucket(req'[r], call'[r]) = n /\ OwesAccount(req'[r], call'[r]) = n
          /\ OwesObjects(req'[r], call'[r]) = d
      BY <2>1, <2>3, <3>1 DEF OwesBucket, OwesAccount, OwesObjects
    <3> QED
      BY <1>0, <1>2, <2>2, <2>3, <3>1, <3>2, DueKept
  <2> QED
    BY <2>4, <2>5
<1>5. CASE Continue(r) /\ UNCHANGED ovars
  <2>1. req' = req
    BY <1>5 DEF ovars
  <2>2. CASE ReserveUser(r) \/ Unreserve(r)
    <3>1. req[r].pc = "admit" /\ call[r].bucket = a /\ o \in Object
      BY <1>0, <2>2 DEF CallOK, ReserveUser, Unreserve, HandlerOK, AtObject
    <3>2. call'[r].at \in {"ok", "failed", "unreserve"}
      BY <1>0, <2>2 DEF ReserveUser, Unreserve, Goto, Call
    <3>3. /\ DueToBucket(r) = 0 /\ DueToAccount(r) = 0 /\ ObjectsDue(r) = 0
      BY <1>2, <2>2, <3>1, NothingDue DEF ReserveUser, Unreserve
    <3>4. /\ DueToBucket(r)' = 0 /\ DueToAccount(r)' = 0 /\ ObjectsDue(r)' = 0
      BY <1>2, <2>1, <3>1, <3>2, NothingDue
    <3>5. CASE Unreserve(r)
      <4>1. bucket' = [bucket EXCEPT ![a] = Unhold(bucket[a], call[r].bytes)] /\ UNCHANGED account
        BY <1>0, <1>1, <3>1, <3>5 DEF Unreserve, UpdateBucket
      <4>2. /\ Unhold(bucket[a], call[r].bytes).used = bucket[a].used
            /\ Unhold(bucket[a], call[r].bytes).count = bucket[a].count
        BY <1>1, <3>1 DEF Unhold, BucketColumns
      <4> QED
        BY <1>0, <2>1, <3>1, <3>3, <3>4, <4>1, <4>2, BucketDuePaid
    <3>6. CASE ReserveUser(r)
      <4>1. \E c : account' = [account EXCEPT ![u] = c] /\ c.used = account[u].used /\ UNCHANGED bucket
        <5>1. CASE HasRoom(account[u], call[r].bytes)
          <6>1. Hold(account[u], call[r].bytes).used = account[u].used
            BY <1>1, <3>1 DEF Hold, AccountColumns
          <6> QED
            BY <3>1, <3>6, <5>1, <6>1 DEF ReserveUser, UpdateOwner
        <5>2. CASE ~HasRoom(account[u], call[r].bytes)
          BY <1>0, <3>1, <3>6, <5>2 DEF ReserveUser
        <5> QED
          BY <5>1, <5>2
      <4> QED
        BY <1>0, <2>1, <3>1, <3>3, <3>4, <4>1, AccountDuePaid
    <3> QED
      BY <2>2, <3>5, <3>6
  <2>3. CASE ReleaseUser(r)
    <3>1. req[r].pc = "abort" /\ call[r].bucket = a /\ o \in Object
      BY <1>0, <2>3 DEF CallOK, ReleaseUser, HandlerOK, AtObject
    <3>2. call'[r].at = "ok"
      BY <1>0, <2>3 DEF ReleaseUser, Goto, Call
    <3>3. /\ DueToBucket(r) = 0 /\ DueToAccount(r) = 0 /\ ObjectsDue(r) = 0
      BY <1>2, <2>3, <3>1, NothingDue DEF ReleaseUser
    <3>4. /\ DueToBucket(r)' = 0 /\ DueToAccount(r)' = 0 /\ ObjectsDue(r)' = 0
      BY <1>2, <2>1, <3>1, <3>2, NothingDue
    <3>5. /\ account' = [account EXCEPT ![u] = Unhold(account[u], call[r].bytes)]
          /\ UNCHANGED bucket
      BY <3>1, <2>3 DEF ReleaseUser, UpdateOwner
    <3>6. Unhold(account[u], call[r].bytes).used = account[u].used
      BY <1>1, <3>1 DEF Unhold, AccountColumns
    <3> QED
      BY <1>0, <2>1, <3>1, <3>3, <3>4, <3>5, <3>6, AccountDuePaid
  <2>4. CASE CommitUser(r)
    <3>1. /\ req[r].pc = "commit" /\ call[r].bucket = a /\ o \in Object /\ n > 0
          /\ call[r].bytes = n /\ call[r].at = "commit_user" /\ call'[r].at = "ok"
      BY <1>0, <2>4 DEF CallOK, CommitUser, HandlerOK, AtObject, Goto, Call
    <3>2. account[u].reserved >= n
      <4>1. HeldByAccount(r) = n
        BY <3>1 DEF HeldByAccount, Growth
      <4> QED
        BY <1>1, <3>1, <4>1 DEF OwnHeld, AccountHold
    <3>3. Spend(account[u], n).used = account[u].used + n
      BY <3>2 DEF Spend
    <3>4. account' = [account EXCEPT ![u] = Spend(account[u], n)] /\ UNCHANGED bucket
      BY <2>4, <3>1 DEF CommitUser, UpdateOwner
    <3>5. /\ OwesBucket(req[r], call[r]) = 0 /\ OwesAccount(req[r], call[r]) = n
          /\ OwesObjects(req[r], call[r]) = 0
          /\ OwesBucket(req'[r], call'[r]) = 0 /\ OwesAccount(req'[r], call'[r]) = 0
          /\ OwesObjects(req'[r], call'[r]) = 0
      BY <2>1, <3>1 DEF OwesBucket, OwesAccount, OwesObjects
    <3>6. Spend(account[u], n).used + DueToAccount(r)' = account[u].used + DueToAccount(r)
      BY <1>0, <1>1, <1>2, <3>1, <3>3, <3>5
    <3> QED
      BY <1>0, <1>2, <2>1, <3>1, <3>4, <3>5, <3>6, AccountDuePaid
  <2>5. CASE SettleBucket(r)
    <3>1. /\ req[r].pc = "commit" /\ call[r].bucket = a /\ o \in Object
          /\ call[r].bytes = n /\ call[r].objects = d
          /\ call[r].at = "settle_bucket" /\ call'[r].at = "settle_user"
      BY <1>0, <2>5 DEF CallOK, SettleBucket, HandlerOK, AtObject, Goto, Call
    <3>2. /\ OwesBucket(req[r], call[r]) = n /\ OwesAccount(req[r], call[r]) = n
          /\ OwesObjects(req[r], call[r]) = d
          /\ OwesBucket(req'[r], call'[r]) = 0 /\ OwesAccount(req'[r], call'[r]) = n
          /\ OwesObjects(req'[r], call'[r]) = 0
      BY <2>1, <3>1 DEF OwesBucket, OwesAccount, OwesObjects
    <3>3. bucket[a].used + n >= 0
      BY <1>1, <1>2, <3>1, <3>2 DEF OwnDue, BucketDue
    <3>4. /\ SettleColumns(bucket[a], n, d).used = bucket[a].used + n
          /\ SettleColumns(bucket[a], n, d).count = bucket[a].count + d
      BY <3>3 DEF SettleColumns
    <3>5. /\ bucket' = [bucket EXCEPT ![a] = SettleColumns(bucket[a], n, d)]
          /\ UNCHANGED account
      BY <1>0, <1>1, <2>5, <3>1 DEF SettleBucket, UpdateBucket
    <3>6. /\ SettleColumns(bucket[a], n, d).used + DueToBucket(r)'
               = bucket[a].used + DueToBucket(r)
          /\ SettleColumns(bucket[a], n, d).count + ObjectsDue(r)'
               = bucket[a].count + ObjectsDue(r)
      BY <1>0, <1>1, <1>2, <3>1, <3>2, <3>4
    <3> QED
      BY <1>0, <1>2, <2>1, <3>1, <3>2, <3>5, <3>6, BucketDuePaid
  <2>6. CASE CreditBucket(r)
    <3>1. /\ req[r].pc = "credited" /\ call[r].bucket = a /\ o \in Object
          /\ call[r].bytes = z
          /\ call[r].at = "credit_bucket" /\ call'[r].at = "credit_user"
      BY <1>0, <2>6 DEF CallOK, CreditBucket, HandlerOK, AtObject, Goto, Call
    <3>2. /\ OwesBucket(req[r], call[r]) = -z /\ OwesAccount(req[r], call[r]) = -z
          /\ OwesObjects(req[r], call[r]) = -1
          /\ OwesBucket(req'[r], call'[r]) = 0 /\ OwesAccount(req'[r], call'[r]) = -z
          /\ OwesObjects(req'[r], call'[r]) = 0
      BY <2>1, <3>1 DEF OwesBucket, OwesAccount, OwesObjects
    <3>3. bucket[a].used + (-z) >= 0 /\ bucket[a].count + (-1) >= 0
      BY <1>1, <1>2, <3>1, <3>2 DEF OwnDue, BucketDue, BucketAdds
    <3>4. bucket[a].used >= z /\ bucket[a].count >= 1
      BY <1>0, <1>1, <3>1, <3>3
    <3>5. /\ CreditColumns(bucket[a], z).used = bucket[a].used - z
          /\ CreditColumns(bucket[a], z).count = bucket[a].count - 1
      BY <3>4 DEF CreditColumns
    <3>6. /\ bucket' = [bucket EXCEPT ![a] = CreditColumns(bucket[a], z)]
          /\ UNCHANGED account
      BY <1>0, <1>1, <2>6, <3>1 DEF CreditBucket, UpdateBucket
    <3>7. /\ CreditColumns(bucket[a], z).used + DueToBucket(r)'
               = bucket[a].used + DueToBucket(r)
          /\ CreditColumns(bucket[a], z).count + ObjectsDue(r)'
               = bucket[a].count + ObjectsDue(r)
      BY <1>0, <1>1, <1>2, <3>1, <3>2, <3>5
    <3> QED
      BY <1>0, <1>2, <2>1, <3>1, <3>2, <3>6, <3>7, BucketDuePaid
  <2>7. CASE SettleUser(r) \/ CreditUser(r)
    <3>1. /\ call[r].bucket = a /\ o \in Object /\ call'[r].at = "ok"
          /\ \/ req[r].pc = "commit" /\ call[r].at = "settle_user" /\ call[r].bytes = n
             \/ req[r].pc = "credited" /\ call[r].at = "credit_user" /\ call[r].bytes = z
      BY <1>0, <2>7 DEF CallOK, SettleUser, CreditUser, HandlerOK, AtObject, Goto, Call
    <3> DEFINE k == IF req[r].pc = "commit" THEN n ELSE -z
    <3>2. /\ OwesBucket(req[r], call[r]) = 0 /\ OwesAccount(req[r], call[r]) = k
          /\ OwesObjects(req[r], call[r]) = 0
          /\ OwesBucket(req'[r], call'[r]) = 0 /\ OwesAccount(req'[r], call'[r]) = 0
          /\ OwesObjects(req'[r], call'[r]) = 0
      BY <2>1, <3>1 DEF OwesBucket, OwesAccount, OwesObjects
    <3>3. account' = [account EXCEPT ![u] = Adjust(account[u], k)] /\ UNCHANGED bucket
      BY <2>7, <3>1 DEF SettleUser, CreditUser, UpdateOwner
    <3>4. k \in Int
      BY <1>0
    <3> HIDE DEF k
    <3>5. account[u].used + k >= 0
      BY <1>1, <1>2, <3>1, <3>2 DEF OwnDue, AccountDue
    <3>6. Adjust(account[u], k).used = account[u].used + k
      BY <1>1, <3>1, <3>5 DEF Adjust, AccountColumns
    <3>7. Adjust(account[u], k).used + DueToAccount(r)' = account[u].used + DueToAccount(r)
      BY <1>1, <1>2, <3>1, <3>2, <3>4, <3>6
    <3> QED
      BY <1>0, <1>2, <2>1, <3>1, <3>2, <3>3, <3>7, AccountDuePaid
  <2> QED
    BY <1>5, <2>2, <2>3, <2>4, <2>5, <2>6, <2>7 DEF Continue
<1> QED
  BY <1>3, <1>4, <1>5

\* Every step without fault pays what it moves, or is owed for.
LEMMA ChargesStep ==
  ASSUME OInv, OInv', CallsOK, HoldsOK, ChargesOK, Apart, \A q \in Requests : Knows(q),
         NEW r \in Requests, Step(r), faults' = 0
  PROVE  DuesPaid(r) \/ DuesTaken(r)
<1>1. CallsOK' /\ OwnHeld(r) /\ faults = 0
  BY CallsKept, HoldsCover, FaultsGrow
<1>2. OwnDue(r)
  BY <1>1, DuesCover
<1>3. ~WriteRowFails(r) /\ ~Crash(r)
  BY <1>1 DEF WriteRowFails, Crash, Fault
<1>4. CASE \/ Start(r) \/ CopyBegin(r) \/ RefuseWrite(r) \/ SendWrite(r)
           \/ AnswerWrite(r) \/ FindRow(r) \/ Credited(r)
  <2>1. UNCHANGED <<bucket, account>>
    BY <1>4 DEF Start, StartPut, StartCopy, StartDelete, StartBatch, CopyBegin, RefuseWrite,
         SendWrite, AnswerWrite, FindRow, Credited, Drop, qvars
  <2> QED
    BY <1>1, <1>4, <2>1, NothingTaken, DueKept
<1>5. CASE CallReserve(r) \/ GiveBack(r)
  <2>1. /\ UNCHANGED <<row, account>> /\ req[r].obj \in Object /\ req'[r].obj = req[r].obj
        /\ req[r].delta \in Int /\ BucketOf(req[r].obj) \in Buckets
    <3>1. HandlersOK /\ req[r].obj \in Object /\ req[r].delta \in Int
      BY <1>5 DEF OInv, HandlersOK, HandlerOK, Handler, AtObject, WritePcs, CallReserve, GiveBack, At
    <3> QED
      BY <1>5, <3>1, GoesOn DEF CallReserve, GiveBack, Reserve, Release, Same, Object, BucketOf
  <2> DEFINE a == BucketOf(req[r].obj)
             n == req[r].delta
  <2>2. \/ UNCHANGED bucket
        \/ \E c : /\ bucket' = [bucket EXCEPT ![a] = c]
                  /\ c.used = bucket[a].used /\ c.count = bucket[a].count
    <3>1. bucket[a] \in BucketColumns
      BY <2>1 DEF OInv, IInv, QuotaTypeOK
    <3>2. /\ Hold(bucket[a], n).used = bucket[a].used
          /\ Hold(bucket[a], n).count = bucket[a].count
          /\ Unhold(bucket[a], n).used = bucket[a].used
          /\ Unhold(bucket[a], n).count = bucket[a].count
      BY <3>1 DEF Hold, Unhold, BucketColumns
    <3> QED
      BY <1>5, <3>2 DEF CallReserve, GiveBack, Reserve, Release, UpdateBucket
  <2>3. /\ DueToBucket(r) = 0 /\ DueToAccount(r) = 0 /\ ObjectsDue(r) = 0
        /\ DueToBucket(r)' = 0 /\ DueToAccount(r)' = 0 /\ ObjectsDue(r)' = 0
    BY <1>1, <1>5, NothingTaken
  <2>4. CASE UNCHANGED bucket
    BY <2>1, <2>3, <2>4, DueKept
  <2>5. CASE \E c : /\ bucket' = [bucket EXCEPT ![a] = c]
                    /\ c.used = bucket[a].used /\ c.count = bucket[a].count
    BY <2>1, <2>3, <2>5, BucketDuePaid
  <2> QED
    BY <2>2, <2>4, <2>5
<1>6. CASE UpdateRow(r) \/ RereadRow(r) \/ InsertRow(r) \/ RemoveRow(r)
  BY <1>1, <1>6, RowTaken
<1>7. CASE CallCredit(r) \/ Account(r) \/ (Continue(r) /\ UNCHANGED ovars)
  BY <1>1, <1>2, <1>7, StatementPays
<1> QED
  BY <1>3, <1>4, <1>5, <1>6, <1>7 DEF Step, Proceed

\* So what is used and what is owed follow the rows.
LEMMA ChargesKept ==
  ASSUME OInv, OInv', CallsOK, HoldsOK, ChargesOK, Apart, \A q \in Requests : Knows(q),
         NEW r \in Requests, Step(r)
  PROVE  ChargesOK'
<1> SUFFICES ASSUME faults' = 0
             PROVE  /\ \A b \in Buckets :
                         /\ bucket'[b].used + Total(BucketDues(b)', Requests)
                              = Total(SizesAt(row', b), Object)
                         /\ bucket'[b].count + Total(BucketAddsAll(b)', Requests)
                              = Total(RowsIn(b)', Object)
                    /\ \A u \in Users :
                         account'[u].used + Total(AccountDues(u)', Requests)
                           = Total(SizesOf(row', u), Object)
  BY DEF ChargesOK
<1>0. /\ IsFiniteSet(Requests) /\ IsFiniteSet(Object) /\ HandlersOK /\ HandlersOK'
      /\ faults = 0
      /\ row \in [Object -> Contents \cup {Absent}] /\ row' \in [Object -> Contents \cup {Absent}]
      /\ bucket \in [Buckets -> BucketColumns] /\ account \in [Users -> AccountColumns]
      /\ bucket' \in [Buckets -> BucketColumns] /\ account' \in [Users -> AccountColumns]
  BY FiniteAssumption, ObjectsFinite, FaultsGrow DEF OInv, IInv, RowsOK, QuotaTypeOK
<1>1. DuesPaid(r) \/ DuesTaken(r)
  BY ChargesStep
<1> DEFINE x == req[r].obj
<1>2. ASSUME NEW q \in Requests \ {r}
      PROVE  /\ DueToBucket(q)' = DueToBucket(q) /\ DueToAccount(q)' = DueToAccount(q)
             /\ ObjectsDue(q)' = ObjectsDue(q) /\ req'[q] = req[q]
  BY OthersStay DEF DueToBucket, DueToAccount, ObjectsDue, At, AtStatement
<1>3. /\ \A o \in Object : Stored(row[o]) \in Int /\ Stored(row'[o]) \in Int
      /\ \A b \in Buckets : /\ bucket[b].used \in Int /\ bucket'[b].used \in Int
                            /\ bucket[b].count \in Int /\ bucket'[b].count \in Int
      /\ \A u \in Users : account[u].used \in Int /\ account'[u].used \in Int
  BY <1>0, SizesStored DEF BucketColumns, AccountColumns
<1>4. DuesTaken(r) =>
        /\ UNCHANGED <<bucket, account>> /\ x \in Object /\ x # Nowhere /\ req'[r].obj = x
        /\ \A o \in Object \ {x} : row'[o] = row[o]
        /\ DueToBucket(r)' - Stored(row'[x]) = DueToBucket(r) - Stored(row[x])
        /\ DueToAccount(r)' - Stored(row'[x]) = DueToAccount(r) - Stored(row[x])
        /\ ObjectsDue(r)' - (IF row'[x] # Absent THEN 1 ELSE 0)
             = ObjectsDue(r) - IF row[x] # Absent THEN 1 ELSE 0
  BY NowhereAssumption DEF DuesTaken, Object, Stored
<1>5. ASSUME NEW b \in Buckets
      PROVE  /\ bucket'[b].used + Total(BucketDues(b)', Requests) = Total(SizesAt(row', b), Object)
             /\ bucket'[b].count + Total(BucketAddsAll(b)', Requests) = Total(RowsIn(b)', Object)
  <2> DEFINE f == BucketDues(b)
             h == BucketDues(b)'
             s == SizesAt(row, b)
             t == SizesAt(row', b)
             d == BucketAddsAll(b)
             e == BucketAddsAll(b)'
             v == RowsIn(b)
             w == RowsIn(b)'
  <2>1. \A q \in Requests : f[q] \in Int /\ h[q] \in Int /\ d[q] \in Int /\ e[q] \in Int
    BY <1>0, Amounts, DuesTyped DEF BucketDues, BucketDue, BucketAddsAll, BucketAdds
  <2>2. /\ f[r] = BucketDue(r, b) /\ h[r] = BucketDue(r, b)'
        /\ d[r] = BucketAdds(r, b) /\ e[r] = BucketAdds(r, b)'
    BY DEF BucketDues, BucketAddsAll
  <2>3. \A q \in Requests \ {r} : h[q] = f[q] /\ e[q] = d[q]
    BY <1>2 DEF BucketDues, BucketDue, BucketAddsAll, BucketAdds, InBucket
  <2>4. /\ bucket[b].used + Total(f, Requests) = Total(s, Object)
        /\ bucket[b].count + Total(d, Requests) = Total(v, Object)
    BY <1>0 DEF ChargesOK
  <2>5. \A o \in Object : /\ s[o] = IF BucketOf(o) = b THEN Stored(row[o]) ELSE 0
                          /\ t[o] = IF BucketOf(o) = b THEN Stored(row'[o]) ELSE 0
                          /\ v[o] = IF BucketOf(o) = b /\ row[o] # Absent THEN 1 ELSE 0
                          /\ w[o] = IF BucketOf(o) = b /\ row'[o] # Absent THEN 1 ELSE 0
    BY DEF SizesAt, RowsIn
  <2>6. CASE DuesPaid(r)
    <3>1. /\ bucket'[b].used + h[r] = bucket[b].used + f[r]
          /\ bucket'[b].count + e[r] = bucket[b].count + d[r]
          /\ UNCHANGED row
      BY <2>2, <2>6 DEF DuesPaid
    <3> HIDE DEF f, h, s, t, d, e, v, w
    <3>2. /\ Follows(Requests, Object, f, h, s, t, r, bucket[b].used, bucket'[b].used)
          /\ Follows(Requests, Object, d, e, v, w, r, bucket[b].count, bucket'[b].count)
      BY <1>3, <2>1, <2>3, <2>5, <3>1 DEF Follows
    <3>3. bucket'[b].used + Total(h, Requests) = Total(t, Object)
      BY <1>0, <2>4, <3>2, TotalsFollow
    <3>4. bucket'[b].count + Total(e, Requests) = Total(w, Object)
      BY <1>0, <2>4, <3>2, TotalsFollow
    <3> QED
      BY <3>3, <3>4 DEF h, t, e, w
  <2>7. CASE DuesTaken(r)
    <3>1. /\ BucketOf(x) = b =>
               /\ f[r] = DueToBucket(r) /\ h[r] = DueToBucket(r)'
               /\ d[r] = ObjectsDue(r) /\ e[r] = ObjectsDue(r)'
          /\ BucketOf(x) # b => f[r] = 0 /\ h[r] = 0 /\ d[r] = 0 /\ e[r] = 0
      BY <1>4, <2>2, <2>7 DEF BucketDue, BucketAdds, InBucket
    <3> HIDE DEF f, h, s, t, d, e, v, w
    <3>2. /\ bucket'[b].used = bucket[b].used /\ bucket'[b].count = bucket[b].count
          /\ x \in Object /\ \A o \in Object \ {x} : t[o] = s[o] /\ w[o] = v[o]
      BY <1>4, <2>5, <2>7
    <3>3. h[r] - t[x] = f[r] - s[x] /\ e[r] - w[x] = d[r] - v[x]
      BY <1>4, <2>5, <2>7, <3>1, <3>2
    <3>4. /\ Follows(Requests, Object, f, h, s, t, r, bucket[b].used, bucket'[b].used)
          /\ Follows(Requests, Object, d, e, v, w, r, bucket[b].count, bucket'[b].count)
      <4> HIDE DEF x
      <4> QED
        BY <1>3, <2>1, <2>3, <2>5, <3>2, <3>3 DEF Follows
    <3>5. bucket'[b].used + Total(h, Requests) = Total(t, Object)
      BY <1>0, <2>4, <3>4, TotalsFollow
    <3>6. bucket'[b].count + Total(e, Requests) = Total(w, Object)
      BY <1>0, <2>4, <3>4, TotalsFollow
    <3> QED
      BY <3>5, <3>6 DEF h, t, e, w
  <2> QED
    BY <1>1, <2>6, <2>7
<1>6. ASSUME NEW u \in Users
      PROVE  account'[u].used + Total(AccountDues(u)', Requests) = Total(SizesOf(row', u), Object)
  <2> DEFINE f == AccountDues(u)
             h == AccountDues(u)'
             s == SizesOf(row, u)
             t == SizesOf(row', u)
  <2>1. \A q \in Requests : f[q] \in Int /\ h[q] \in Int
    BY <1>0, Amounts, DuesTyped DEF AccountDues, AccountDue
  <2>2. f[r] = AccountDue(r, u) /\ h[r] = AccountDue(r, u)'
    BY DEF AccountDues
  <2>3. \A q \in Requests \ {r} : h[q] = f[q]
    BY <1>2 DEF AccountDues, AccountDue, InAccount
  <2>4. account[u].used + Total(f, Requests) = Total(s, Object)
    BY <1>0 DEF ChargesOK
  <2>5. \A o \in Object : /\ s[o] = IF Owner[BucketOf(o)] = u THEN Stored(row[o]) ELSE 0
                          /\ t[o] = IF Owner[BucketOf(o)] = u THEN Stored(row'[o]) ELSE 0
    BY DEF SizesOf
  <2>6. CASE DuesPaid(r)
    <3>1. account'[u].used + h[r] = account[u].used + f[r] /\ UNCHANGED row
      BY <2>2, <2>6 DEF DuesPaid
    <3> HIDE DEF f, h, s, t
    <3>2. Follows(Requests, Object, f, h, s, t, r, account[u].used, account'[u].used)
      BY <1>3, <2>1, <2>3, <2>5, <3>1 DEF Follows
    <3>3. account'[u].used + Total(h, Requests) = Total(t, Object)
      BY <1>0, <2>4, <3>2, TotalsFollow
    <3> QED
      BY <3>3 DEF h, t
  <2>7. CASE DuesTaken(r)
    <3>1. /\ Owner[BucketOf(x)] = u => f[r] = DueToAccount(r) /\ h[r] = DueToAccount(r)'
          /\ Owner[BucketOf(x)] # u => f[r] = 0 /\ h[r] = 0
      BY <1>4, <2>2, <2>7 DEF AccountDue, InAccount
    <3> HIDE DEF f, h, s, t
    <3>2. /\ account'[u].used = account[u].used
          /\ x \in Object /\ \A o \in Object \ {x} : t[o] = s[o]
      BY <1>4, <2>5, <2>7
    <3>3. h[r] - t[x] = f[r] - s[x]
      BY <1>4, <2>5, <2>7, <3>1, <3>2
    <3>4. Follows(Requests, Object, f, h, s, t, r, account[u].used, account'[u].used)
      <4> HIDE DEF x
      <4> QED
        BY <1>3, <2>1, <2>3, <2>5, <3>2, <3>3 DEF Follows
    <3>5. account'[u].used + Total(h, Requests) = Total(t, Object)
      BY <1>0, <2>4, <3>4, TotalsFollow
    <3> QED
      BY <3>5 DEF h, t
  <2> QED
    BY <1>1, <2>6, <2>7
<1> QED
  BY <1>5, <1>6

CInv == KInv /\ ChargesOK

\* Nothing is stored and nothing is owed at the start.
LEMMA ChargesInit ==
  ASSUME AmountsCovered, ObjectsInit
  PROVE  CInv
<1>0. KInv /\ IsFiniteSet(Requests) /\ IsFiniteSet(Object)
  BY KnowsInit, FiniteAssumption, ObjectsFinite
<1>1. /\ \A r \in Requests : /\ DueToBucket(r) = 0 /\ DueToAccount(r) = 0 /\ ObjectsDue(r) = 0
                             /\ req[r].obj = Nowhere
      /\ \A o \in Object : row[o] = Absent /\ Stored(row[o]) = 0
      /\ \A b \in Buckets : bucket[b].used = 0 /\ bucket[b].count = 0
      /\ \A u \in Users : account[u].used = 0
  BY DEF ObjectsInit, QuotaInit, NoHandler, NoCall, DueToBucket, DueToAccount, ObjectsDue, At,
       AtStatement, Stored
<1>2. ASSUME NEW f, NEW S, IsFiniteSet(S), \A x \in S : f[x] = 0
      PROVE  Total(f, S) = 0
  BY <1>2, TotalZero
<1>3. ASSUME NEW b \in Buckets
      PROVE  /\ Total(BucketDues(b), Requests) = 0 /\ Total(BucketAddsAll(b), Requests) = 0
             /\ Total(SizesAt(row, b), Object) = 0 /\ Total(RowsIn(b), Object) = 0
  <2> DEFINE f == BucketDues(b)
             d == BucketAddsAll(b)
             s == SizesAt(row, b)
             v == RowsIn(b)
  <2>1. /\ \A r \in Requests : f[r] = 0 /\ d[r] = 0
        /\ \A o \in Object : s[o] = 0 /\ v[o] = 0
    BY <1>1 DEF BucketDues, BucketDue, BucketAddsAll, BucketAdds, SizesAt, RowsIn
  <2> HIDE DEF f, d, s, v
  <2>2. /\ Total(f, Requests) = 0 /\ Total(d, Requests) = 0
        /\ Total(s, Object) = 0 /\ Total(v, Object) = 0
    BY <1>0, <1>2, <2>1
  <2> QED
    BY <2>2 DEF f, d, s, v
<1>4. ASSUME NEW u \in Users
      PROVE  Total(AccountDues(u), Requests) = 0 /\ Total(SizesOf(row, u), Object) = 0
  <2> DEFINE f == AccountDues(u)
             s == SizesOf(row, u)
  <2>1. (\A r \in Requests : f[r] = 0) /\ (\A o \in Object : s[o] = 0)
    BY <1>1 DEF AccountDues, AccountDue, SizesOf
  <2> HIDE DEF f, s
  <2>2. Total(f, Requests) = 0 /\ Total(s, Object) = 0
    BY <1>0, <1>2, <2>1
  <2> QED
    BY <2>2 DEF f, s
<1> QED
  BY <1>0, <1>1, <1>3, <1>4 DEF CInv, ChargesOK

\* The invariant is inductive while clients keep off each other's keys.
LEMMA CInvKept ==
  ASSUME AmountsCovered, SerialKeys, CInv, [ObjectsNext]_gatewayVars
  PROVE  CInv'
<1>1. KInv'
  BY KInvKept DEF CInv
<1>2. CASE UNCHANGED gatewayVars
  <2>1. /\ bucket' = bucket /\ account' = account /\ call' = call
        /\ row' = row /\ req' = req /\ faults' = faults
    BY <1>2 DEF gatewayVars, qvars, ovars
  <2>2. ASSUME NEW b
        PROVE  /\ BucketDues(b)' = BucketDues(b) /\ BucketAddsAll(b)' = BucketAddsAll(b)
               /\ RowsIn(b)' = RowsIn(b)
    <3>1. BucketDues(b)' = BucketDues(b)
      BY <2>1 DEF BucketDues, BucketDue, InBucket, DueToBucket, At, AtStatement
    <3>2. BucketAddsAll(b)' = BucketAddsAll(b)
      BY <2>1 DEF BucketAddsAll, BucketAdds, InBucket, ObjectsDue, At, AtStatement
    <3> QED
      BY <2>1, <3>1, <3>2 DEF RowsIn
  <2>3. ASSUME NEW u
        PROVE  AccountDues(u)' = AccountDues(u)
    BY <2>1 DEF AccountDues, AccountDue, InAccount, DueToAccount, At, AtStatement
  <2>4. ChargesOK'
    BY <2>1, <2>2, <2>3 DEF CInv, ChargesOK
  <2> QED
    BY <1>1, <2>4 DEF CInv
<1>3. ASSUME NEW r \in Requests, Step(r)
      PROVE  CInv'
  BY <1>1, <1>3, ChargesKept DEF CInv, KInv, HInv
<1> QED
  BY <1>2, <1>3 DEF ObjectsNext, Step

\* The counters as the properties sum them.
LEMMA ChargesSummed ==
  ASSUME CInv
  PROVE  ChargesAccounted
<1> SUFFICES ASSUME faults = 0
             PROVE  /\ \A b \in Buckets :
                         /\ bucket[b].used + MapThenSumSet(DueToBucket, Charging(b))
                              = SizeIn(row, b)
                         /\ bucket[b].count + MapThenSumSet(ObjectsDue, Charging(b))
                              = Cardinality({o \in ObjectsOf(b) : row[o] # Absent})
                    /\ \A u \in Users :
                         account[u].used + MapThenSumSet(DueToAccount, ChargingAny(BucketsOf(u)))
                           = MapThenSumSet(LAMBDA b : SizeIn(row, b), BucketsOf(u))
  BY DEF ChargesAccounted
<1>1. HandlersOK /\ ChargesOK /\ \A o \in Object : Stored(row[o]) \in Nat
  BY SizesStored DEF CInv, KInv, HInv, OInv, RowsOK
<1>2. ASSUME NEW b
      PROVE  /\ MapThenSumSet(DueToBucket, Charging(b)) = Total(BucketDues(b), Requests)
             /\ MapThenSumSet(ObjectsDue, Charging(b)) = Total(BucketAddsAll(b), Requests)
             /\ SizeIn(row, b) = Total(SizesAt(row, b), Object)
             /\ Cardinality({o \in ObjectsOf(b) : row[o] # Absent}) = Total(RowsIn(b), Object)
  BY <1>1, BucketDuesTotal, BucketAddsTotal, SizeInTotal, RowsInTotal
<1>3. ASSUME NEW u
      PROVE  /\ MapThenSumSet(DueToAccount, ChargingAny(BucketsOf(u)))
                  = Total(AccountDues(u), Requests)
             /\ MapThenSumSet(LAMBDA b : SizeIn(row, b), BucketsOf(u))
                  = Total(SizesOf(row, u), Object)
  BY <1>1, AccountDuesTotal, SizeOfTotal
<1> QED
  BY <1>1, <1>2, <1>3 DEF ChargesOK

\* While nothing is lost and clients keep their requests off each other's keys, every byte
\* and every object is charged once, at both levels, and credited once.
THEOREM ObjectsChargesAccounted ==
  AmountsCovered /\ SerialKeys => (ObjectsSpec => []ChargesAccounted)
<1> SUFFICES ASSUME AmountsCovered, SerialKeys PROVE ObjectsSpec => []ChargesAccounted
  OBVIOUS
<1>1. ObjectsInit => CInv
  BY ChargesInit
<1>2. CInv /\ [ObjectsNext]_gatewayVars => CInv'
  BY CInvKept
<1>3. CInv => ChargesAccounted
  BY ChargesSummed
<1> QED
  BY <1>1, <1>2, <1>3, PTL DEF ObjectsSpec

\* Nothing is owed at rest.
LEMMA RestCharged ==
  ASSUME CInv
  PROVE  ChargedAtRest
<1> SUFFICES ASSUME faults = 0, Quiet PROVE Charged
  BY DEF ChargedAtRest
<1>0. /\ ChargesOK /\ CallsOK /\ IsFiniteSet(Requests)
      /\ bucket \in [Buckets -> BucketColumns] /\ account \in [Users -> AccountColumns]
      /\ \A o \in Object : Stored(row[o]) \in Nat
  BY FiniteAssumption, SizesStored DEF CInv, KInv, HInv, OInv, IInv, QuotaTypeOK, RowsOK
<1>1. ASSUME NEW r \in Requests
      PROVE  DueToBucket(r) = 0 /\ DueToAccount(r) = 0 /\ ObjectsDue(r) = 0
  <2>1. req[r].pc \in Resting /\ CallOK(req[r], call[r])
    BY <1>0 DEF Quiet, Active, CallsOK
  <2>2. call[r].at \in Ended
    BY <2>1 DEF CallOK, Resting
  <2> QED
    BY <2>1, <2>2, Dues, NothingDue DEF Resting, Ended
<1>2. ASSUME NEW f, \A r \in Requests : f[r] = 0
      PROVE  Total(f, Requests) = 0
  BY <1>0, <1>2, TotalZero
<1>3. ASSUME NEW b \in Buckets
      PROVE  Total(BucketDues(b), Requests) = 0 /\ Total(BucketAddsAll(b), Requests) = 0
  <2> DEFINE f == BucketDues(b)
             d == BucketAddsAll(b)
  <2>1. \A r \in Requests : f[r] = 0 /\ d[r] = 0
    BY <1>1 DEF BucketDues, BucketDue, BucketAddsAll, BucketAdds
  <2> HIDE DEF f, d
  <2>2. Total(f, Requests) = 0 /\ Total(d, Requests) = 0
    BY <1>2, <2>1
  <2> QED
    BY <2>2 DEF f, d
<1>4. ASSUME NEW u \in Users
      PROVE  Total(AccountDues(u), Requests) = 0
  <2> DEFINE f == AccountDues(u)
  <2>1. \A r \in Requests : f[r] = 0
    BY <1>1 DEF AccountDues, AccountDue
  <2> HIDE DEF f
  <2>2. Total(f, Requests) = 0
    BY <1>2, <2>1
  <2> QED
    BY <2>2 DEF f
<1>5. ASSUME NEW b \in Buckets
      PROVE  /\ bucket[b].used = SizeIn(row, b)
             /\ bucket[b].count = Cardinality({o \in ObjectsOf(b) : row[o] # Absent})
  <2>1. bucket[b].used \in Int /\ bucket[b].count \in Int
    BY <1>0 DEF BucketColumns
  <2>2. /\ bucket[b].used + 0 = Total(SizesAt(row, b), Object)
        /\ bucket[b].count + 0 = Total(RowsIn(b), Object)
    BY <1>0, <1>3 DEF ChargesOK
  <2>3. /\ SizeIn(row, b) = Total(SizesAt(row, b), Object)
        /\ Cardinality({o \in ObjectsOf(b) : row[o] # Absent}) = Total(RowsIn(b), Object)
    BY <1>0, SizeInTotal, RowsInTotal
  <2> QED
    BY <2>1, <2>2, <2>3
<1>6. ASSUME NEW u \in Users
      PROVE  account[u].used = MapThenSumSet(LAMBDA b : SizeIn(row, b), BucketsOf(u))
  <2>1. account[u].used \in Int
    BY <1>0 DEF AccountColumns
  <2>2. account[u].used + 0 = Total(SizesOf(row, u), Object)
    BY <1>0, <1>4 DEF ChargesOK
  <2>3. MapThenSumSet(LAMBDA b : SizeIn(row, b), BucketsOf(u)) = Total(SizesOf(row, u), Object)
    BY <1>0, SizeOfTotal
  <2> QED
    BY <2>1, <2>2, <2>3
<1> QED
  BY <1>5, <1>6 DEF Charged

\* So the counters are what the object rows add up to whenever no request is at work.
COROLLARY ObjectsChargedAtRest ==
  AmountsCovered /\ SerialKeys => (ObjectsSpec => []ChargedAtRest)
<1> SUFFICES ASSUME AmountsCovered, SerialKeys PROVE ObjectsSpec => []ChargedAtRest
  OBVIOUS
<1>1. ObjectsInit => CInv
  BY ChargesInit
<1>2. CInv /\ [ObjectsNext]_gatewayVars => CInv'
  BY CInvKept
<1>3. CInv => ChargedAtRest
  BY RestCharged
<1> QED
  BY <1>1, <1>2, <1>3, PTL DEF ObjectsSpec

----------------------------------------------------------------------------
(* What the store has is what the rows say and what the requests hold, or less. *)

\* What a handler owes beyond what it holds.
NetOfBucket(r) == DueToBucket(r) - HeldByBucket(r)
NetOfAccount(r) == DueToAccount(r) - HeldByAccount(r)

\* What a row says beyond what the store has.
Slack(o) == Stored(row[o]) - Stored(blob[o])

\* A handler owes no more than its object's slack beyond what it holds, and an object it
\* touches and owes nothing for is not larger in the store than its row says.
LEMMA NetBorne ==
  ASSUME OInv, CallsOK, NEW r \in Requests, Knows(r), faults = 0
  PROVE  /\ NetOfBucket(r) \in Int /\ NetOfAccount(r) \in Int
         /\ NetOfBucket(r) # 0 \/ NetOfAccount(r) # 0 =>
              /\ req[r].obj \in Object /\ Active(r) /\ req[r].obj \in Touches(r)
              /\ NetOfBucket(r) <= Slack(req[r].obj)
              /\ NetOfAccount(r) <= Slack(req[r].obj)
         /\ \A o \in Touches(r) :
              Active(r) /\ (o = req[r].obj => NetOfBucket(r) = 0 \/ NetOfAccount(r) = 0)
                => Slack(o) >= 0
<1> USE DEF At
<1> DEFINE x == req[r].obj
           n == req[r].delta
<1>0. /\ HandlerOK(req[r]) /\ CallOK(req[r], call[r]) /\ HandlersOK
      /\ n \in Int /\ req[r].size \in Nat /\ req[r].size \in Contents
      /\ \A o \in Object : Stored(row[o]) \in Nat /\ Stored(blob[o]) \in Nat
      /\ Stored(Absent) = 0 /\ Stored(req[r].size) = req[r].size
  <2>1. Stored(Absent) = 0
    BY DEF Stored
  <2> QED
    BY <2>1, SizesStored
       DEF OInv, HandlersOK, HandlerOK, Handler, CallsOK, RowsOK, StoreOK
<1>1. /\ DueToBucket(r) = OwesBucket(req[r], call[r])
      /\ DueToAccount(r) = OwesAccount(req[r], call[r])
      /\ DueToBucket(r) \in Int /\ DueToAccount(r) \in Int
      /\ HeldByBucket(r) \in Nat /\ HeldByAccount(r) \in Nat
  BY <1>0, Dues, Amounts
<1>2. NetOfBucket(r) \in Int /\ NetOfAccount(r) \in Int
  BY <1>1 DEF NetOfBucket, NetOfAccount
<1>3. CASE req[r].pc \in WritePcs
  <2>1. Active(r) /\ Writing(r)
    BY <1>0, <1>3 DEF CallOK, Active, Resting, WritePcs, Writing
  <2>2. x \in Object /\ x \in Touches(r) /\ Touches(r) \subseteq Object
    BY <1>0, <1>3, <2>1, Touched DEF HandlerOK, AtObject
  <2>3. CASE req[r].pc \in {"update", "insert"}
    <3>1. /\ blob[x] = req[r].size /\ n = req[r].size - Stored(row[x])
          /\ req[r].op = "copy" => row[req[r].src] = blob[req[r].src]
      BY <2>1, <2>3 DEF Knows, WriteKnows, StoreKnows
    <3>2. Slack(x) = -n
      BY <1>0, <2>2, <3>1 DEF Slack
    <3>3. DueToBucket(r) = 0 /\ DueToAccount(r) = 0
      BY <1>0, <1>1, <2>3 DEF OwesBucket, OwesAccount, CallOK, Ended
    <3>4. HeldByBucket(r) = Growth(r) /\ HeldByAccount(r) = Growth(r)
      BY <2>3 DEF HeldByBucket, HeldByAccount
    <3>5. /\ NetOfBucket(r) = -Growth(r) /\ NetOfAccount(r) = -Growth(r)
          /\ Growth(r) = IF n > 0 THEN n ELSE 0
      BY <1>1, <3>3, <3>4 DEF NetOfBucket, NetOfAccount, Growth
    <3>6. ASSUME NEW o \in Touches(r)
          PROVE  o = x \/ Slack(o) = 0
      <4>1. o = x \/ (req[r].op = "copy" /\ o = req[r].src)
        BY <2>1 DEF Knows, WriteKnows, Touches, Writing, WriteOps
      <4> QED
        BY <1>0, <2>2, <3>1, <4>1 DEF Slack
    <3>7. /\ NetOfBucket(r) <= Slack(x) /\ NetOfAccount(r) <= Slack(x)
          /\ NetOfBucket(r) = 0 \/ NetOfAccount(r) = 0 => Slack(x) >= 0
      BY <1>0, <3>2, <3>5
    <3> QED
      BY <1>2, <2>1, <2>2, <3>6, <3>7
  <2>4. CASE req[r].pc \notin {"update", "insert"}
    <3>1. \A o \in Touches(r) : Slack(o) = 0
      BY <1>0, <2>1, <2>2, <2>4, KnownAlike DEF Slack
    <3>2. DueToBucket(r) <= HeldByBucket(r) /\ DueToAccount(r) <= HeldByAccount(r)
      <4>1. CASE req[r].pc \in {"reread", "account"}
        BY <1>0, <1>1, <4>1 DEF OwesBucket, OwesAccount, HeldByBucket, HeldByAccount, Growth
      <4>2. CASE req[r].pc = "commit"
        BY <1>0, <1>1, <4>2 DEF OwesBucket, OwesAccount, HeldByBucket, HeldByAccount, Growth, CallOK
      <4>3. CASE req[r].pc \notin {"reread", "account", "commit"}
        BY <1>0, <1>1, <1>3, <4>3 DEF OwesBucket, OwesAccount, CallOK, Ended, WritePcs
      <4> QED
        BY <4>1, <4>2, <4>3
    <3>3. NetOfBucket(r) <= 0 /\ NetOfAccount(r) <= 0
      BY <1>1, <3>2 DEF NetOfBucket, NetOfAccount
    <3> QED
      BY <1>2, <2>1, <2>2, <3>1, <3>3
  <2> QED
    BY <2>3, <2>4
<1>4. CASE req[r].pc \in DeletePcs
  <2>1. /\ Active(r) /\ Touches(r) = req[r].keys /\ req[r].keys \subseteq Object
        /\ \A o \in req[r].keys : blob[o] = Absent
    <3>1. Active(r)
      BY <1>4 DEF Active, Resting, DeletePcs
    <3> QED
      BY <1>0, <1>4, <3>1, KnownAlike DEF Knows, DeleteKnows, HandlerOK, Handler
  <2>2. \A o \in Touches(r) : Slack(o) >= 0 /\ Slack(o) \in Int
    BY <1>0, <2>1 DEF Slack
  <2>3. NetOfBucket(r) <= 0 /\ NetOfAccount(r) <= 0
    <3>1. DueToBucket(r) <= 0 /\ DueToAccount(r) <= 0
      BY <1>0, <1>1, <1>4 DEF OwesBucket, OwesAccount, CallOK, Ended, DeletePcs
    <3> QED
      BY <1>1, <3>1 DEF NetOfBucket, NetOfAccount
  <2>4. NetOfBucket(r) # 0 \/ NetOfAccount(r) # 0 => x \in req[r].keys
    <3>1. CASE req[r].pc = "find"
      <4>1. DueToBucket(r) = 0 /\ DueToAccount(r) = 0
        BY <1>0, <1>1, <3>1 DEF OwesBucket, OwesAccount, CallOK, Ended
      <4>2. HeldByBucket(r) = 0 /\ HeldByAccount(r) = 0
        BY <1>0, <3>1 DEF HeldByBucket, HeldByAccount, CallOK, Ended
      <4> QED
        BY <4>1, <4>2 DEF NetOfBucket, NetOfAccount
    <3>2. CASE req[r].pc # "find"
      BY <1>4, <3>2 DEF Knows, DeleteKnows
    <3> QED
      BY <3>1, <3>2
  <2> QED
    BY <1>2, <2>1, <2>2, <2>3, <2>4
<1>5. CASE req[r].pc \in Resting
  <2>1. ~Active(r) /\ call[r].at \in Ended
    BY <1>0, <1>5 DEF Active, Resting, CallOK
  <2>2. DueToBucket(r) = 0 /\ DueToAccount(r) = 0
    BY <1>1, <1>5, <2>1 DEF OwesBucket, OwesAccount, Ended, Resting
  <2>3. HeldByBucket(r) = 0 /\ HeldByAccount(r) = 0
    BY <1>5, <2>1 DEF HeldByBucket, HeldByAccount, Ended, Resting
  <2> QED
    BY <1>2, <2>1, <2>2, <2>3 DEF NetOfBucket, NetOfAccount
<1> QED
  BY <1>0, <1>3, <1>4, <1>5 DEF HandlerOK, Handler, Pcs

\* The lists of what is owed beyond what is held, and of the slack.
BucketNets(b) == [r \in Requests |-> BucketDue(r, b) - BucketHold(r, b)]
AccountNets(u) == [r \in Requests |-> AccountDue(r, u) - AccountHold(r, u)]
SlacksIn(b) == [o \in Object |-> IF BucketOf(o) = b THEN Slack(o) ELSE 0]
SlacksOf(u) == [o \in Object |-> IF Owner[BucketOf(o)] = u THEN Slack(o) ELSE 0]

\* So the slack of a bucket's objects, and of an account's, bears what is owed beyond what
\* is held.
LEMMA SlackBears ==
  ASSUME CInv, faults = 0
  PROVE  /\ \A b \in Buckets : Total(BucketNets(b), Requests) <= Total(SlacksIn(b), Object)
         /\ \A u \in Users : Total(AccountNets(u), Requests) <= Total(SlacksOf(u), Object)
<1> DEFINE key == [q \in Requests |-> req[q].obj]
<1>0. /\ IsFiniteSet(Requests) /\ IsFiniteSet(Object) /\ OInv /\ CallsOK
      /\ \A q \in Requests : key[q] = req[q].obj
      /\ Apart /\ RowsMatchStore /\ \A q \in Requests : Knows(q)
      /\ \A o \in Object : Slack(o) \in Int
  BY FiniteAssumption, ObjectsFinite, SizesStored DEF CInv, KInv, HInv, OInv, RowsOK, StoreOK, Slack
<1>1. ASSUME NEW q \in Requests
      PROVE  /\ NetOfBucket(q) \in Int /\ NetOfAccount(q) \in Int
             /\ NetOfBucket(q) # 0 \/ NetOfAccount(q) # 0 =>
                  /\ req[q].obj \in Object /\ Active(q) /\ req[q].obj \in Touches(q)
                  /\ NetOfBucket(q) <= Slack(req[q].obj)
                  /\ NetOfAccount(q) <= Slack(req[q].obj)
             /\ \A o \in Touches(q) :
                  Active(q) /\ (o = req[q].obj => NetOfBucket(q) = 0 \/ NetOfAccount(q) = 0)
                    => Slack(o) >= 0
  BY <1>0, NetBorne
<1>2. ASSUME NEW q \in Requests, NEW p \in Requests, p # q,
             NetOfBucket(p) # 0 \/ NetOfAccount(p) # 0,
             NetOfBucket(q) # 0 \/ NetOfAccount(q) # 0
      PROVE  req[p].obj # req[q].obj
  BY <1>0, <1>1, <1>2 DEF Apart
<1>3. ASSUME NEW o \in Object,
             \A q \in Requests :
               req[q].obj = o => NetOfBucket(q) = 0 \/ NetOfAccount(q) = 0
      PROVE  Slack(o) >= 0
  <2>1. CASE \A q \in Requests : Active(q) => o \notin Touches(q)
    <3>1. row[o] = blob[o] /\ Stored(row[o]) \in Int
      BY <1>0, <2>1, SizesStored DEF RowsMatchStore, OInv, RowsOK
    <3> QED
      BY <3>1 DEF Slack
  <2>2. CASE \E q \in Requests : Active(q) /\ o \in Touches(q)
    BY <1>1, <1>3, <2>2
  <2> QED
    BY <2>1, <2>2
<1> HIDE DEF key
<1>4. ASSUME NEW b \in Buckets
      PROVE  Total(BucketNets(b), Requests) <= Total(SlacksIn(b), Object)
  <2> DEFINE f == BucketNets(b)
             g == SlacksIn(b)
  <2>1. \A q \in Requests : /\ f[q] = IF InBucket(q, b) THEN NetOfBucket(q) ELSE 0
                            /\ InBucket(q, b) <=> req[q].obj # Nowhere /\ BucketOf(req[q].obj) = b
    BY DEF BucketNets, BucketDue, BucketHold, InBucket, NetOfBucket
  <2>2. \A o \in Object : /\ g[o] = IF BucketOf(o) = b THEN Slack(o) ELSE 0
                          /\ o # Nowhere
    BY NowhereAssumption DEF SlacksIn, Object
  <2> HIDE DEF f, g
  <2>3. \A o \in Object : (\A q \in Requests : key[q] = o => f[q] = 0) => g[o] >= 0
    BY <1>0, <1>3, <2>1, <2>2
  <2>4. Borne(Requests, Object, key, f, g)
    BY <1>0, <1>1, <1>2, <2>1, <2>2, <2>3 DEF Borne
  <2>5. Total(f, Requests) <= Total(g, Object)
    BY <1>0, <2>4, TotalBorne
  <2> QED
    BY <2>5 DEF f, g
<1>5. ASSUME NEW u \in Users
      PROVE  Total(AccountNets(u), Requests) <= Total(SlacksOf(u), Object)
  <2> DEFINE f == AccountNets(u)
             g == SlacksOf(u)
  <2>1. \A q \in Requests :
          /\ f[q] = IF InAccount(q, u) THEN NetOfAccount(q) ELSE 0
          /\ InAccount(q, u) <=> req[q].obj # Nowhere /\ Owner[BucketOf(req[q].obj)] = u
    BY DEF AccountNets, AccountDue, AccountHold, InAccount, NetOfAccount
  <2>2. \A o \in Object : /\ g[o] = IF Owner[BucketOf(o)] = u THEN Slack(o) ELSE 0
                          /\ o # Nowhere
    BY NowhereAssumption DEF SlacksOf, Object
  <2> HIDE DEF f, g
  <2>3. \A o \in Object : (\A q \in Requests : key[q] = o => f[q] = 0) => g[o] >= 0
    BY <1>0, <1>3, <2>1, <2>2
  <2>4. Borne(Requests, Object, key, f, g)
    BY <1>0, <1>1, <1>2, <2>1, <2>2, <2>3 DEF Borne
  <2>5. Total(f, Requests) <= Total(g, Object)
    BY <1>0, <2>4, TotalBorne
  <2> QED
    BY <2>5 DEF f, g
<1> QED
  BY <1>4, <1>5

\* The counters, less what is owed and with what is held, cover the store.
LEMMA StoreBorne ==
  ASSUME CInv
  PROVE  StoreCovered
<1> SUFFICES ASSUME faults = 0
             PROVE  /\ \A b \in Buckets : SizeIn(blob, b) <= Load(bucket[b])
                    /\ \A u \in Users :
                         MapThenSumSet(LAMBDA b : SizeIn(blob, b), BucketsOf(u)) <= Load(account[u])
  BY DEF StoreCovered
<1>0. /\ IsFiniteSet(Requests) /\ IsFiniteSet(Object) /\ HandlersOK /\ ChargesOK /\ HoldsOK
      /\ \A o \in Object : Stored(row[o]) \in Nat /\ Stored(blob[o]) \in Nat
      /\ bucket \in [Buckets -> BucketColumns] /\ account \in [Users -> AccountColumns]
  BY FiniteAssumption, ObjectsFinite, SizesStored
     DEF CInv, KInv, HInv, OInv, RowsOK, StoreOK, IInv, QuotaTypeOK
<1>1. ASSUME NEW f, NEW S, IsFiniteSet(S), \A x \in S : f[x] \in Int
      PROVE  Total(f, S) \in Int
  BY <1>1, TotalTake
<1>2. ASSUME NEW b \in Buckets
      PROVE  SizeIn(blob, b) <= Load(bucket[b])
  <2> DEFINE due == BucketDues(b)
             held == BucketHolds(b)
             net == BucketNets(b)
             rows == SizesAt(row, b)
             blobs == SizesAt(blob, b)
             slack == SlacksIn(b)
  <2>1. \A q \in Requests : net[q] \in Int /\ held[q] \in Int /\ due[q] = net[q] + held[q]
    BY <1>0, Amounts DEF BucketDues, BucketHolds, BucketNets, BucketDue, BucketHold
  <2>2. \A o \in Object : /\ slack[o] \in Int /\ blobs[o] \in Int
                          /\ rows[o] = slack[o] + blobs[o]
    BY <1>0 DEF SizesAt, SlacksIn, Slack
  <2>3. /\ bucket[b].used + Total(due, Requests) = Total(rows, Object)
        /\ bucket[b].reserved = Total(held, Requests)
        /\ Total(net, Requests) <= Total(slack, Object)
        /\ SizeIn(blob, b) = Total(blobs, Object)
    BY <1>0, SlackBears, SizeInTotal DEF ChargesOK, HoldsOK
  <2>4. bucket[b].used \in Int /\ bucket[b].reserved \in Int
    BY <1>0 DEF BucketColumns
  <2> HIDE DEF due, held, net, rows, blobs, slack
  <2>5. /\ Total(due, Requests) = Total(net, Requests) + Total(held, Requests)
        /\ Total(net, Requests) \in Int /\ Total(held, Requests) \in Int
    BY <1>0, <1>1, <2>1, TotalPlus
  <2>6. /\ Total(rows, Object) = Total(slack, Object) + Total(blobs, Object)
        /\ Total(slack, Object) \in Int /\ Total(blobs, Object) \in Int
    BY <1>0, <1>1, <2>2, TotalPlus
  <2> QED
    BY <2>3, <2>4, <2>5, <2>6 DEF Load
<1>3. ASSUME NEW u \in Users
      PROVE  MapThenSumSet(LAMBDA b : SizeIn(blob, b), BucketsOf(u)) <= Load(account[u])
  <2> DEFINE due == AccountDues(u)
             held == AccountHolds(u)
             net == AccountNets(u)
             rows == SizesOf(row, u)
             blobs == SizesOf(blob, u)
             slack == SlacksOf(u)
  <2>1. \A q \in Requests : net[q] \in Int /\ held[q] \in Int /\ due[q] = net[q] + held[q]
    BY <1>0, Amounts DEF AccountDues, AccountHolds, AccountNets, AccountDue, AccountHold
  <2>2. \A o \in Object : /\ slack[o] \in Int /\ blobs[o] \in Int
                          /\ rows[o] = slack[o] + blobs[o]
    BY <1>0 DEF SizesOf, SlacksOf, Slack
  <2>3. /\ account[u].used + Total(due, Requests) = Total(rows, Object)
        /\ account[u].reserved = Total(held, Requests)
        /\ Total(net, Requests) <= Total(slack, Object)
        /\ MapThenSumSet(LAMBDA b : SizeIn(blob, b), BucketsOf(u)) = Total(blobs, Object)
    BY <1>0, SlackBears, SizeOfTotal DEF ChargesOK, HoldsOK
  <2>4. account[u].used \in Int /\ account[u].reserved \in Int
    BY <1>0 DEF AccountColumns
  <2> HIDE DEF due, held, net, rows, blobs, slack
  <2>5. /\ Total(due, Requests) = Total(net, Requests) + Total(held, Requests)
        /\ Total(net, Requests) \in Int /\ Total(held, Requests) \in Int
    BY <1>0, <1>1, <2>1, TotalPlus
  <2>6. /\ Total(rows, Object) = Total(slack, Object) + Total(blobs, Object)
        /\ Total(slack, Object) \in Int /\ Total(blobs, Object) \in Int
    BY <1>0, <1>1, <2>2, TotalPlus
  <2> QED
    BY <2>3, <2>4, <2>5, <2>6 DEF Load
<1> QED
  BY <1>2, <1>3

\* While nothing is lost and clients keep their requests off each other's keys, the store
\* has no more than the counters admit, in every bucket and for every account: with
\* ObjectsWithinQuota, no more than the quota allows.
THEOREM ObjectsStoreCovered ==
  AmountsCovered /\ SerialKeys => (ObjectsSpec => []StoreCovered)
<1> SUFFICES ASSUME AmountsCovered, SerialKeys PROVE ObjectsSpec => []StoreCovered
  OBVIOUS
<1>1. ObjectsInit => CInv
  BY ChargesInit
<1>2. CInv /\ [ObjectsNext]_gatewayVars => CInv'
  BY CInvKept
<1>3. CInv => StoreCovered
  BY StoreBorne
<1> QED
  BY <1>1, <1>2, <1>3, PTL DEF ObjectsSpec

\* What the store has stays within the quota.
StoreWithinQuota ==
  faults = 0 =>
    /\ \A b \in Buckets : bucket[b].max = 0 \/ SizeIn(blob, b) <= bucket[b].max
    /\ \A u \in Users :
         \/ account[u].max = 0
         \/ MapThenSumSet(LAMBDA b : SizeIn(blob, b), BucketsOf(u)) <= account[u].max

\* So nothing is stored beyond a limit, of a bucket or of an account, however the writes
\* and the deletes of different keys interleave.
COROLLARY ObjectsStoreWithinQuota ==
  AmountsCovered /\ SerialKeys /\ Shrinking => (ObjectsSpec => []StoreWithinQuota)
<1> SUFFICES ASSUME AmountsCovered, SerialKeys, Shrinking
             PROVE  ObjectsSpec => []StoreWithinQuota
  OBVIOUS
<1>1. ObjectsSpec => []WithinQuota
  BY ObjectsWithinQuota
<1>2. ObjectsSpec => []StoreCovered
  BY ObjectsStoreCovered
<1>3. ObjectsSpec => []ObjectsTypeOK
  BY ObjectsTypeCorrect
<1>4. WithinQuota /\ StoreCovered /\ ObjectsTypeOK => StoreWithinQuota
  <2> SUFFICES ASSUME WithinQuota, StoreCovered, ObjectsTypeOK, faults = 0
               PROVE  /\ \A b \in Buckets : bucket[b].max = 0 \/ SizeIn(blob, b) <= bucket[b].max
                      /\ \A u \in Users :
                           \/ account[u].max = 0
                           \/ MapThenSumSet(LAMBDA b : SizeIn(blob, b), BucketsOf(u))
                                <= account[u].max
    BY DEF StoreWithinQuota
  <2>1. /\ IsFiniteSet(Object) /\ \A o \in Object : Stored(blob[o]) \in Nat
        /\ bucket \in [Buckets -> BucketColumns] /\ account \in [Users -> AccountColumns]
    BY ObjectsFinite DEF ObjectsTypeOK, QuotaTypeOK, Stored
  <2>2. ASSUME NEW b \in Buckets
        PROVE  bucket[b].max = 0 \/ SizeIn(blob, b) <= bucket[b].max
    <3> DEFINE f == SizesAt(blob, b)
    <3>1. \A o \in Object : f[o] \in Int
      BY <2>1 DEF SizesAt
    <3>2. SizeIn(blob, b) = Total(f, Object)
      BY <2>1, SizeInTotal
    <3> HIDE DEF f
    <3>3. Total(f, Object) \in Int
      BY <2>1, <3>1, TotalTake
    <3>4. bucket[b].max \in Int /\ Load(bucket[b]) \in Int
      BY <2>1 DEF BucketColumns, Load
    <3>5. /\ bucket[b].max = 0 \/ Load(bucket[b]) <= bucket[b].max
          /\ SizeIn(blob, b) <= Load(bucket[b])
      BY DEF WithinQuota, Within, StoreCovered
    <3> QED
      BY <3>2, <3>3, <3>4, <3>5
  <2>3. ASSUME NEW u \in Users
        PROVE  \/ account[u].max = 0
               \/ MapThenSumSet(LAMBDA b : SizeIn(blob, b), BucketsOf(u)) <= account[u].max
    <3> DEFINE f == SizesOf(blob, u)
               n == MapThenSumSet(LAMBDA b : SizeIn(blob, b), BucketsOf(u))
    <3>1. \A o \in Object : f[o] \in Int
      BY <2>1 DEF SizesOf
    <3>2. n = Total(f, Object)
      BY <2>1, SizeOfTotal
    <3>3. n <= Load(account[u])
      BY DEF StoreCovered
    <3> HIDE DEF f, n
    <3>4. Total(f, Object) \in Int
      BY <2>1, <3>1, TotalTake
    <3>5. account[u].max \in Int /\ Load(account[u]) \in Int
      BY <2>1 DEF AccountColumns, Load
    <3>6. account[u].max = 0 \/ Load(account[u]) <= account[u].max
      BY DEF WithinQuota, Within
    <3>7. account[u].max = 0 \/ n <= account[u].max
      BY <3>2, <3>3, <3>4, <3>5, <3>6
    <3> QED
      BY <3>7 DEF n
  <2> QED
    BY <2>2, <2>3
<1> QED
  BY <1>1, <1>2, <1>3, <1>4, PTL

----------------------------------------------------------------------------
(* The reconcile task beside the handlers: the transaction of several      *)
(* reads and writes is the one step of quota.rs's open protocol that       *)
(* Quota takes it for, and with no request at work what it commits is      *)
(* exact.                                                                  *)

\* Its amounts are those of the open protocol, which admits every number.
AllAmounts == AmountsCovered /\ Bytes = Nat

Totals == [bytes : Nat, count : Nat]

PassFields == {"pc", "bucket", "account", "todo", "at", "totals", "buckets", "accounts"}

\* A pass: what it has still to look at, and the totals it has written.
PassOK ==
  /\ rec = [f \in PassFields |-> rec[f]]
  /\ rec.pc \in {"idle", "buckets", "accounts"}
  /\ rec.totals \in Totals
  /\ DOMAIN rec.buckets \subseteq Buckets /\ DOMAIN rec.accounts \subseteq Users
  /\ \A b \in DOMAIN rec.buckets : rec.buckets[b] \in Totals
  /\ \A u \in DOMAIN rec.accounts : rec.accounts[u] \in Totals
  /\ Pass("buckets") => rec.todo \subseteq Buckets /\ rec.at \subseteq Buckets
  /\ Pass("accounts") => rec.todo \subseteq Users /\ rec.at \subseteq Users

\* The inductive invariant of handlers, counters and the task.
RInv == OInv /\ CallsOK /\ NonNegative /\ PassOK

\* The sums of one bucket's object rows.
LEMMA RowTotals ==
  ASSUME OInv, NEW b \in Buckets
  PROVE  /\ SizesIn(b) \in Totals
         /\ SizesIn(b).bytes = SizeIn(row, b)
         /\ SizesIn(b).count = Cardinality({o \in ObjectsOf(b) : row[o] # Absent})
<1>1. \A o \in Object : Stored(row[o]) \in Nat
  BY ContentsAreSizes DEF OInv, RowsOK, Stored
<1>2. SizeIn(row, b) \in Nat
  <2> DEFINE f == SizesAt(row, b)
  <2>1. \A o \in Object : f[o] \in Nat
    BY <1>1 DEF SizesAt
  <2>2. SizeIn(row, b) = Total(f, Object)
    BY <1>1, SizeInTotal
  <2> HIDE DEF f
  <2> QED
    BY <2>1, <2>2, ObjectsFinite, TotalNat
<1>3. Cardinality({o \in ObjectsOf(b) : row[o] # Absent}) \in Nat
  <2>1. {o \in ObjectsOf(b) : row[o] # Absent} \subseteq Object
    BY DEF ObjectsOf
  <2> QED
    BY <2>1, ObjectsFinite, FS_Subset, FS_CardinalityType
<1> QED
  BY <1>2, <1>3 DEF SizesIn, Totals

\* The bytes of a bucket as the transaction sees them, and as its rows say.
SeenBytes(b) == IF b \in DOMAIN rec.buckets THEN rec.buckets[b].bytes ELSE bucket[b].used

RowBytesOf(rows, u) == MapThenSumSet(LAMBDA b : SizeIn(rows, b), BucketsOf(u))

RowBytes(u) == RowBytesOf(row, u)

\* An account's sum takes its buckets in an order that does not matter.
LEMMA BytesOfTotal ==
  ASSUME RInv, NEW u \in Users
  PROVE  /\ BytesOf(u) = Total([b \in BucketsOf(u) |-> SeenBytes(b)], BucketsOf(u))
         /\ BytesOf(u) \in Nat
<1> DEFINE S == BucketsOf(u)
           s == [b \in S |-> SeenBytes(b)]
           next(g) == [T \in SUBSET S |-> IF T = {} THEN 0
                        ELSE LET x == CHOOSE x \in T : TRUE IN SeenBytes(x) + g[T \ {x}]]
           iter == CHOOSE g : g = next(g)
<1>1. IsFiniteSet(S) /\ S \subseteq Buckets /\ S \cap live = S
  BY FiniteAssumption, FS_Subset DEF BucketsOf, RInv, CallsOK
<1>2. \A b \in S : s[b] = SeenBytes(b) /\ s[b] \in Nat
  <2>1. \A b \in S : bucket[b].used \in Nat
    <3>1. \A b \in Buckets : bucket[b] \in BucketColumns /\ bucket[b].used >= 0
      BY DEF RInv, OInv, IInv, QuotaTypeOK, NonNegative
    <3>2. \A c \in BucketColumns : c.used >= 0 => c.used \in Nat
      BY DEF BucketColumns
    <3> HIDE DEF S
    <3> QED
      BY <1>1, <3>1, <3>2
  <2>2. \A b \in DOMAIN rec.buckets : rec.buckets[b].bytes \in Nat
    BY DEF RInv, PassOK, Totals
  <2> QED
    BY <2>1, <2>2 DEF SeenBytes
<1>3. BytesOf(u) = iter[S]
  BY <1>1 DEF BytesOf, SeenBytes, MapThenSumSet, MapThenFoldSet
<1>4. \A g : TakesOneByOne(s, g, S) <=> g = next(g)
  <2> HIDE DEF S, s
  <2> QED
    BY <1>2 DEF TakesOneByOne
<1>5. (\E g : TakesOneByOne(s, g, S)) => TakesOneByOne(s, iter, S)
  <2> HIDE DEF S, s, next
  <2> QED
    BY <1>4
<1>6. iter[S] = Total(s, S) /\ Total(s, S) \in Nat
  <2> HIDE DEF S, s, iter
  <2> QED
    BY <1>1, <1>2, <1>5, ChosenIsTotal, TotalNat
<1> QED
  BY <1>3, <1>6

\* And the sum of what its buckets' rows add up to.
LEMMA RowBytesTotal ==
  ASSUME OInv, NEW u \in Users
  PROVE  /\ RowBytes(u) = Total([b \in BucketsOf(u) |-> SizeIn(row, b)], BucketsOf(u))
         /\ IsFiniteSet(BucketsOf(u)) /\ \A b \in BucketsOf(u) : SizeIn(row, b) \in Nat
<1> DEFINE S == BucketsOf(u)
           s == [b \in S |-> SizeIn(row, b)]
           next(g) == [T \in SUBSET S |-> IF T = {} THEN 0
                        ELSE LET x == CHOOSE x \in T : TRUE IN SizeIn(row, x) + g[T \ {x}]]
           iter == CHOOSE g : g = next(g)
<1>1. IsFiniteSet(S) /\ S \subseteq Buckets
  BY FiniteAssumption, FS_Subset DEF BucketsOf
<1>2. \A b \in S : s[b] = SizeIn(row, b) /\ s[b] \in Nat
  <2>1. \A b \in S : SizeIn(row, b) \in Nat
    BY <1>1, RowTotals DEF Totals
  <2> QED
    BY <2>1
<1>3. RowBytes(u) = iter[S]
  BY DEF RowBytes, RowBytesOf, MapThenSumSet, MapThenFoldSet
<1>4. \A g : TakesOneByOne(s, g, S) <=> g = next(g)
  <2> HIDE DEF S, s
  <2> QED
    BY <1>2 DEF TakesOneByOne
<1>5. (\E g : TakesOneByOne(s, g, S)) => TakesOneByOne(s, iter, S)
  <2> HIDE DEF S, s, next
  <2> QED
    BY <1>4
<1>6. iter[S] = Total(s, S)
  <2> HIDE DEF S, s, iter
  <2> QED
    BY <1>1, <1>2, <1>5, ChosenIsTotal
<1> QED
  BY <1>1, <1>2, <1>3, <1>6

\* No pass is under way at the start.
LEMMA NoPassOK ==
  ASSUME rec = NoPass
  PROVE  PassOK
<1>1. /\ DOMAIN rec.buckets = {} /\ DOMAIN rec.accounts = {}
      /\ rec.pc = "idle" /\ rec.totals \in Totals
  BY DEF NoPass, NoTotals, Totals
<1>2. rec = [f \in PassFields |-> rec[f]]
  BY DEF NoPass, PassFields
<1> QED
  BY <1>1, <1>2 DEF PassOK, Pass

\* A step of the pass that does not commit.
LEMMA PassGoesOn ==
  ASSUME RInv,
         \/ \E b \in Buckets : RecScan(b)
         \/ \E u \in Users : RecSum(u)
         \/ RecBegin \/ RecFix \/ RecAccounts \/ RecCharge
  PROVE  PassOK' /\ UNCHANGED gatewayVars
<1> USE DEF Pass, PassFields
<1>0. PassOK /\ live = Buckets
  BY DEF RInv, CallsOK
<1>1. ASSUME NEW b \in Buckets, RecScan(b) PROVE PassOK'
  <2>1. SizesIn(b) \in Totals
    BY RowTotals DEF RInv
  <2> QED
    BY <1>0, <1>1, <2>1 DEF RecScan, PassOK
<1>2. ASSUME NEW u \in Users, RecSum(u) PROVE PassOK'
  <2>1. [bytes |-> BytesOf(u), count |-> 0] \in Totals
    BY BytesOfTotal DEF Totals
  <2> QED
    BY <1>0, <1>2, <2>1 DEF RecSum, PassOK
<1>3. CASE RecBegin
  <2>1. NoPass.totals \in Totals /\ DOMAIN NoPass.buckets = {} /\ DOMAIN NoPass.accounts = {}
    BY DEF NoPass, NoTotals, Totals
  <2>2. rec' = [NoPass EXCEPT !.pc = "buckets", !.bucket = bucket, !.todo = live]
    BY <1>3 DEF RecBegin
  <2>3. /\ rec'.pc = "buckets" /\ rec'.todo = Buckets /\ rec'.at = {}
        /\ rec'.totals = NoPass.totals /\ rec'.buckets = NoPass.buckets
        /\ rec'.accounts = NoPass.accounts
        /\ rec' = [f \in PassFields |-> rec'[f]]
    BY <1>0, <2>2 DEF NoPass
  <2> QED
    BY <1>3, <2>1, <2>3 DEF PassOK, RecBegin
<1>4. CASE RecFix
  BY <1>0, <1>4 DEF RecFix, PassOK, NoTotals, Totals
<1>5. CASE RecAccounts
  BY <1>0, <1>5 DEF RecAccounts, PassOK
<1>6. CASE RecCharge
  BY <1>0, <1>6 DEF RecCharge, PassOK, NoTotals, Totals
<1>7. UNCHANGED gatewayVars
  BY DEF RecScan, RecSum, RecBegin, RecFix, RecAccounts, RecCharge
<1> QED
  BY <1>1, <1>2, <1>3, <1>4, <1>5, <1>6, <1>7

\* Its commit is the one step in which the open protocol recomputes.
LEMMA PassCommits ==
  ASSUME AllAmounts, RInv, RecCommit
  PROVE  ReconcileNext
<1> DEFINE B == DOMAIN rec.buckets
           U == DOMAIN rec.accounts
           used == [b \in B |-> rec.buckets[b].bytes]
           count == [b \in B |-> rec.buckets[b].count]
           usedUser == [u \in U |-> rec.accounts[u].bytes]
<1>1. B \in SUBSET Buckets /\ U \in SUBSET Users
  BY DEF RInv, PassOK
<1>2. used \in [B -> Bytes] /\ count \in [B -> Bytes] /\ usedUser \in [U -> Bytes]
  BY DEF RInv, PassOK, Totals, AllAmounts
<1>3. Recompute(B, used, count, U, usedUser)
  BY DEF RecCommit
<1> HIDE DEF B, U, used, count, usedUser
<1> QED
  BY <1>1, <1>2, <1>3 DEF ReconcileNext

\* Any step is one of the open protocol, or changes none of its rows.
LEMMA ReconcileStep ==
  ASSUME AllAmounts, RInv, [Next]_vars
  PROVE  [QuotaNext]_qvars /\ RInv'
<1>0. OInv /\ CallsOK /\ NonNegative /\ PassOK /\ IInv /\ AmountsCovered
  BY DEF RInv, OInv, AllAmounts
<1>1. CASE ObjectsNext /\ UNCHANGED rec
  <2>1. ObjectsMove
    BY <1>0, <1>1, ObjectsStep
  <2>2. [QuotaNext]_qvars
    BY <2>1 DEF ObjectsMove, QuotaMove, QuotaNext
  <2>3. OInv' /\ NonNegative'
    BY <1>0, <1>1, <2>2, ObjectsKept, QuotaStep
  <2>4. CallsOK'
    BY <1>0, <1>1, CallsKept DEF ObjectsNext, Step
  <2>5. PassOK'
    BY <1>0, <1>1 DEF PassOK, Pass
  <2> QED
    BY <2>2, <2>3, <2>4, <2>5 DEF RInv
<1>2. CASE UNCHANGED gatewayVars /\ PassOK'
  <2>1. UNCHANGED qvars /\ UNCHANGED ovars
    BY <1>2 DEF gatewayVars
  <2>2. OInv'
    BY <1>0, <1>2, ObjectsKept
  <2>3. NonNegative' /\ CallsOK'
    BY <1>0, <2>1 DEF qvars, ovars, NonNegative, CallsOK
  <2> QED
    BY <1>2, <2>1, <2>2, <2>3 DEF RInv
<1>3. CASE RecCommit
  <2>1. QuotaNext
    BY <1>3, PassCommits DEF QuotaNext
  <2>2. IInv' /\ NonNegative'
    BY <1>0, <2>1, QuotaStep
  <2>3. UNCHANGED ovars /\ UNCHANGED <<live, call>> /\ rec' = NoPass
    BY <1>3 DEF RecCommit, Recompute
  <2>4. OInv' /\ CallsOK'
    BY <1>0, <2>2, <2>3 DEF ovars, OInv, HandlersOK, RowsOK, StoreOK, CallsOK
  <2>5. PassOK'
    <3>1. /\ DOMAIN rec'.buckets = {} /\ DOMAIN rec'.accounts = {}
          /\ rec'.pc = "idle" /\ rec'.totals \in Totals
      BY <2>3 DEF NoPass, NoTotals, Totals
    <3>2. rec' = [f \in PassFields |-> rec'[f]]
      BY <2>3 DEF NoPass, PassFields
    <3> QED
      BY <3>1, <3>2 DEF PassOK, Pass
  <2> QED
    BY <2>1, <2>2, <2>4, <2>5 DEF RInv
<1>4. CASE RecRollback
  <2>1. UNCHANGED <<row, blob, req, qvars>> /\ Fault /\ rec' = NoPass
    BY <1>4 DEF RecRollback
  <2>2. faults' \in 0 .. MaxFaults
    BY <1>0, <2>1, FaultsBounded DEF OInv
  <2>3. IInv' /\ NonNegative' /\ CallsOK' /\ HandlersOK' /\ RowsOK' /\ UNCHANGED qvars
    <3>1. QuotaTypeOK' /\ Arguments' /\ NonNegative'
      BY <1>0, <2>1 DEF qvars, IInv, QuotaTypeOK, Arguments, NonNegative
    <3>2. CallsOK' /\ HandlersOK' /\ RowsOK' /\ UNCHANGED qvars
      BY <1>0, <2>1 DEF qvars, CallsOK, OInv, HandlersOK, RowsOK
    <3> QED
      BY <3>1, <3>2 DEF IInv
  <2>4. StoreOK'
    BY <1>0, <2>1, <2>2 DEF OInv, StoreOK
  <2>5. PassOK'
    <3>1. /\ DOMAIN rec'.buckets = {} /\ DOMAIN rec'.accounts = {}
          /\ rec'.pc = "idle" /\ rec'.totals \in Totals
      BY <2>1 DEF NoPass, NoTotals, Totals
    <3>2. rec' = [f \in PassFields |-> rec'[f]]
      BY <2>1 DEF NoPass, PassFields
    <3> QED
      BY <3>1, <3>2 DEF PassOK, Pass
  <2> QED
    BY <2>3, <2>4, <2>5 DEF RInv, OInv
<1>5. CASE UNCHANGED vars
  BY <1>0, <1>2, <1>5 DEF vars, PassOK, Pass
<1>6. CASE \/ \E b \in Buckets : RecScan(b)
           \/ \E u \in Users : RecSum(u)
           \/ RecBegin \/ RecFix \/ RecAccounts \/ RecCharge
  BY <1>2, <1>6, PassGoesOn
<1> QED
  BY <1>1, <1>3, <1>4, <1>5, <1>6 DEF Next, RecStep

\* Nobody is at work and no pass is under way at the start.
LEMMA ReconcileInit ==
  ASSUME AllAmounts, Init
  PROVE  RInv /\ QuotaInit
<1>1. HInv
  BY HoldsInit DEF Init, AllAmounts
<1>2. NonNegative /\ QuotaInit
  BY InitRows DEF Init, ObjectsInit
<1> QED
  BY <1>1, <1>2, NoPassOK DEF Init, RInv, HInv

\* Handlers and the reconcile task together implement the open protocol of quota.rs: the
\* task's transaction, which reads bucket after bucket and account after account while
\* requests go on, is to them the one step that writes totals and clears holds, and a task
\* that dies leaves nothing behind.
THEOREM ReconcileImplementsQuota == AllAmounts => (Spec => QuotaSpec)
<1> SUFFICES ASSUME AllAmounts PROVE Spec => QuotaSpec
  OBVIOUS
<1>1. Init => RInv /\ QuotaInit
  BY ReconcileInit
<1>2. RInv /\ [Next]_vars => RInv' /\ [QuotaNext]_qvars
  BY ReconcileStep
<1> QED
  BY <1>1, <1>2, PTL DEF Spec, QuotaSpec

\* So no counter goes negative, whatever holds the task clears under a request's feet.
COROLLARY ReconcileNonNegative == AllAmounts => (Spec => []NonNegative)
<1> SUFFICES ASSUME AllAmounts PROVE Spec => []NonNegative
  OBVIOUS
<1>1. Spec => QuotaSpec
  BY ReconcileImplementsQuota
<1> QED
  BY <1>1, CountersNonNegative

\* And no request's statement takes a row up to anything above its limit, though the task
\* may have written down more than that.
COROLLARY ReconcileAdmitsGrowth == AllAmounts /\ Shrinking => (Spec => GrowthAdmitted)
<1> SUFFICES ASSUME AllAmounts, Shrinking PROVE Spec => GrowthAdmitted
  OBVIOUS
<1>1. Spec => QuotaSpec
  BY ReconcileImplementsQuota
<1> QED
  BY <1>1, RequestsAdmitGrowth

----------------------------------------------------------------------------
(* What a pass repairs. *)

\* A bucket's row, and an account's, says what the object rows do.
BucketExact(b) ==
  /\ bucket[b].used = SizesIn(b).bytes /\ bucket[b].count = SizesIn(b).count
  /\ bucket[b].reserved = 0

AccountExact(u) == account[u].used = RowBytes(u) /\ account[u].reserved = 0

\* And so it will once the pass has committed.
BucketDone(b) == IF b \in DOMAIN rec.buckets THEN rec.buckets[b] = SizesIn(b) ELSE BucketExact(b)

AccountDone(u) ==
  IF u \in DOMAIN rec.accounts THEN rec.accounts[u].bytes = RowBytes(u) ELSE AccountExact(u)

\* A pass that began with nobody at work.
PassFits ==
  /\ Pass("buckets") => DOMAIN rec.accounts = {}
  /\ Pass("buckets") =>
       /\ rec.bucket = bucket /\ rec.at \cap rec.todo = {}
       /\ DOMAIN rec.buckets \cap (rec.todo \cup rec.at) = {}
       /\ \A b \in rec.at : rec.totals = SizesIn(b)
       /\ \A b \in Buckets \ (rec.todo \cup rec.at) : BucketDone(b)
  /\ Pass("accounts") =>
       /\ rec.account = account /\ rec.at \cap rec.todo = {}
       /\ DOMAIN rec.accounts \cap (rec.todo \cup rec.at) = {}
       /\ \A b \in Buckets : BucketDone(b)
       /\ \A u \in rec.at : rec.totals.bytes = RowBytes(u)
       /\ \A u \in Users \ (rec.todo \cup rec.at) : AccountDone(u)

\* The counters are exact when every row's are.
LEMMA ExactByRows ==
  /\ Exact <=> (\A b \in Buckets : BucketExact(b)) /\ (\A u \in Users : AccountExact(u))
  /\ Exact' <=> (\A b \in Buckets : BucketExact(b)') /\ (\A u \in Users : AccountExact(u)')
<1>1. /\ Charged <=> /\ \A b \in Buckets : /\ bucket[b].used = SizesIn(b).bytes
                                          /\ bucket[b].count = SizesIn(b).count
                     /\ \A u \in Users : account[u].used = RowBytes(u)
      /\ Charged' <=> /\ \A b \in Buckets : /\ bucket'[b].used = SizesIn(b)'.bytes
                                           /\ bucket'[b].count = SizesIn(b)'.count
                      /\ \A u \in Users : account'[u].used = RowBytes(u)'
  BY DEF Charged, SizesIn, RowBytes, RowBytesOf, MapThenSumSet, MapThenFoldSet
<1> QED
  BY <1>1 DEF Exact, BucketExact, AccountExact

\* A step that leaves the object rows alone leaves what they add up to.
LEMMA RowsKept ==
  ASSUME row' = row
  PROVE  \A b : SizesIn(b)' = SizesIn(b) /\ RowBytes(b)' = RowBytes(b)
BY DEF SizesIn, RowBytes

\* Clients that stay at rest write no row and charge nothing.
LEMMA QuietObjects ==
  ASSUME CallsOK, Quiet, Quiet', ObjectsNext
  PROVE  UNCHANGED <<row, bucket, account>>
<1>1. PICK r \in Requests :
        Start(r) \/ Proceed(r) \/ SendWrite(r) \/ WriteRowFails(r) \/ Crash(r)
  BY DEF ObjectsNext
<1>2. CASE Start(r)
  BY <1>2 DEF Start, StartPut, StartCopy, StartDelete, StartBatch, qvars
<1>3. req[r].pc \in Resting /\ call[r].at \in Ended
  BY DEF CallsOK, CallOK, Quiet, Active, Resting
<1>4. ~(SendWrite(r) \/ WriteRowFails(r) \/ Crash(r))
  BY <1>3 DEF SendWrite, Admitted, At, WriteRowFails, Crash, Active, Resting
<1>5. ~Continue(r)
  BY <1>3 DEF Continue, ReserveUser, Unreserve, ReleaseUser, CommitUser, SettleBucket, SettleUser,
              CreditBucket, CreditUser, AtStatement, Ended
<1>6. ~Proceed(r)
  BY <1>3, <1>5 DEF Proceed, CopyBegin, CallReserve, RefuseWrite, UpdateRow, RereadRow, InsertRow,
                    Account, GiveBack, AnswerWrite, FindRow, RemoveRow, CallCredit, Credited, At,
                    Resting
<1> QED
  BY <1>1, <1>2, <1>4, <1>6

\* Once every bucket is dealt with, what the pass adds up for an account is what its
\* buckets' rows come to.
LEMMA SumsRight ==
  ASSUME RInv, NEW u \in Users, \A b \in Buckets : BucketDone(b)
  PROVE  BytesOf(u) = RowBytes(u)
<1>0. \A b \in Buckets : SeenBytes(b) = SizeIn(row, b) /\ SizeIn(row, b) \in Nat
  <2>1. ASSUME NEW b \in Buckets PROVE SeenBytes(b) = SizeIn(row, b) /\ SizeIn(row, b) \in Nat
    <3>1. SizesIn(b).bytes = SizeIn(row, b) /\ SizesIn(b) \in Totals
      BY RowTotals DEF RInv
    <3>2. SeenBytes(b) = SizesIn(b).bytes
      BY DEF SeenBytes, BucketDone, BucketExact
    <3>3. SizesIn(b).bytes \in Nat
      BY <3>1 DEF Totals
    <3> QED
      BY <3>1, <3>2, <3>3
  <2> QED
    BY <2>1
<1> DEFINE S == BucketsOf(u)
           f == [b \in S |-> SizeIn(row, b)]
           h == [b \in S |-> SeenBytes(b)]
<1>1. \A b \in S : f[b] \in Int /\ h[b] = f[b]
  <2>1. ASSUME NEW b \in S PROVE f[b] \in Int /\ h[b] = f[b]
    <3>1. b \in Buckets
      BY DEF BucketsOf
    <3>2. SeenBytes(b) = SizeIn(row, b) /\ SizeIn(row, b) \in Int
      BY <1>0, <3>1
    <3>3. f[b] = SizeIn(row, b) /\ h[b] = SeenBytes(b)
      OBVIOUS
    <3> HIDE DEF f, h
    <3> QED
      BY <3>2, <3>3
  <2> HIDE DEF S, f, h
  <2> QED
    BY <2>1
<1>2. IsFiniteSet(S) /\ BytesOf(u) = Total(h, S) /\ RowBytes(u) = Total(f, S)
  BY BytesOfTotal, RowBytesTotal DEF RInv
<1> HIDE DEF S, f, h
<1>3. Total(h, S) = Total(f, S)
  BY <1>1, <1>2, TotalSame
<1> QED
  BY <1>2, <1>3

\* One that leaves the counters alone as well leaves them right.
LEMMA CountersKept ==
  ASSUME UNCHANGED <<row, bucket, account>>
  PROVE  /\ \A b : SizesIn(b)' = SizesIn(b) /\ BucketExact(b)' = BucketExact(b)
         /\ \A u : RowBytes(u)' = RowBytes(u) /\ AccountExact(u)' = AccountExact(u)
         /\ Exact' = Exact
<1>1. /\ \A b : SizesIn(b)' = SizesIn(b) /\ BucketExact(b)' = BucketExact(b)
      /\ \A u : RowBytes(u)' = RowBytes(u) /\ AccountExact(u)' = AccountExact(u)
  BY RowsKept DEF BucketExact, AccountExact
<1> QED
  BY <1>1, ExactByRows DEF Exact

\* A pass that nobody disturbs stays right, and its commit leaves every counter exact.
LEMMA PassRight ==
  ASSUME RInv, PassFits, RecStep
  PROVE  PassFits' /\ (RecCommit => Exact') /\ (Exact => Exact')
<1> USE DEF Pass
<1>0. PassOK /\ live = Buckets /\ rec = [f \in PassFields |-> rec[f]]
  BY DEF RInv, CallsOK, PassOK
<1>1. ASSUME UNCHANGED gatewayVars
      PROVE  /\ UNCHANGED <<row, bucket, account>> /\ (Exact => Exact')
             /\ \A b : SizesIn(b)' = SizesIn(b) /\ BucketExact(b)' = BucketExact(b)
             /\ \A u : RowBytes(u)' = RowBytes(u) /\ AccountExact(u)' = AccountExact(u)
  <2>1. UNCHANGED <<row, bucket, account>>
    BY <1>1 DEF gatewayVars, qvars, ovars
  <2> QED
    BY <2>1, CountersKept
<1>2. ASSUME NEW b \in Buckets, RecScan(b) PROVE PassFits'
  <2> DEFINE keeps == rec'.at = {} /\ BucketExact(b)
             fixes == rec'.at = {b} /\ rec'.totals = SizesIn(b)
  <2>1. /\ rec.pc = "buckets" /\ rec.at = {} /\ b \in rec.todo /\ UNCHANGED gatewayVars
        /\ rec'.pc = "buckets" /\ rec'.todo = rec.todo \ {b} /\ rec'.bucket = rec.bucket
        /\ rec'.buckets = rec.buckets /\ rec'.accounts = rec.accounts
        /\ keeps \/ fixes
    <3>1. rec.bucket = bucket
      BY <1>2 DEF RecScan, PassFits
    <3> QED
      BY <1>0, <1>2, <3>1 DEF RecScan, PassFields, BucketExact
  <2>2. /\ UNCHANGED <<row, bucket>>
        /\ \A c : SizesIn(c)' = SizesIn(c) /\ BucketExact(c)' = BucketExact(c)
    BY <1>1, <2>1
  <2>3. \A c \in Buckets : BucketDone(c)' = BucketDone(c)
    BY <2>1, <2>2 DEF BucketDone
  <2>4. /\ \A c \in Buckets \ rec.todo : BucketDone(c)
        /\ rec.bucket = bucket /\ DOMAIN rec.buckets \cap rec.todo = {}
        /\ DOMAIN rec.accounts = {}
    BY <2>1 DEF PassFits
  <2>5. keeps => BucketDone(b)
    BY <2>1, <2>4 DEF BucketDone
  <2> QED
    BY <2>1, <2>2, <2>3, <2>4, <2>5 DEF PassFits
<1>3. ASSUME RecFix PROVE PassFits'
  <2>1. /\ rec.pc = "buckets" /\ UNCHANGED gatewayVars
        /\ rec'.pc = "buckets" /\ rec'.todo = rec.todo /\ rec'.at = {}
        /\ rec'.bucket = rec.bucket /\ rec'.accounts = rec.accounts
        /\ DOMAIN rec'.buckets = DOMAIN rec.buckets \cup rec.at
        /\ \A b \in DOMAIN rec'.buckets :
              rec'.buckets[b] = IF b \in rec.at THEN rec.totals ELSE rec.buckets[b]
    BY <1>0, <1>3 DEF RecFix, PassFields
  <2>2. /\ UNCHANGED <<row, bucket>>
        /\ \A c : SizesIn(c)' = SizesIn(c) /\ BucketExact(c)' = BucketExact(c)
    BY <1>1, <2>1
  <2>3. /\ \A c \in Buckets \ (rec.todo \cup rec.at) : BucketDone(c)
        /\ rec.bucket = bucket /\ DOMAIN rec.buckets \cap (rec.todo \cup rec.at) = {}
        /\ DOMAIN rec.accounts = {} /\ rec.at \cap rec.todo = {}
        /\ \A b \in rec.at : rec.totals = SizesIn(b)
    BY <2>1 DEF PassFits
  <2>4. \A c \in Buckets \ rec.todo : BucketDone(c)'
    BY <2>1, <2>2, <2>3 DEF BucketDone
  <2> QED
    BY <2>1, <2>2, <2>3, <2>4 DEF PassFits
<1>4. ASSUME RecAccounts PROVE PassFits'
  <2>1. /\ rec.pc = "buckets" /\ rec.at = {} /\ rec.todo = {} /\ UNCHANGED gatewayVars
        /\ rec'.pc = "accounts" /\ rec'.todo = Users /\ rec'.at = rec.at
        /\ rec'.account = account /\ rec'.buckets = rec.buckets
        /\ rec'.accounts = rec.accounts
    BY <1>0, <1>4 DEF RecAccounts, PassFields
  <2>2. /\ UNCHANGED <<row, bucket, account>>
        /\ \A c : SizesIn(c)' = SizesIn(c) /\ BucketExact(c)' = BucketExact(c)
    BY <1>1, <2>1
  <2>3. \A c \in Buckets : BucketDone(c)'
    <3>1. \A c \in Buckets : BucketDone(c)
      BY <2>1 DEF PassFits
    <3> QED
      BY <2>1, <2>2, <3>1 DEF BucketDone
  <2> QED
    BY <2>1, <2>2, <2>3 DEF PassFits
<1>5. ASSUME NEW u \in Users, RecSum(u) PROVE PassFits'
  <2> DEFINE keeps == rec'.at = {} /\ AccountExact(u)
             fixes == rec'.at = {u} /\ rec'.totals.bytes = RowBytes(u)
  <2>0. BytesOf(u) = RowBytes(u)
    BY <1>5, SumsRight DEF RecSum, PassFits
  <2>1. /\ rec.pc = "accounts" /\ rec.at = {} /\ u \in rec.todo /\ UNCHANGED gatewayVars
        /\ rec'.pc = "accounts" /\ rec'.todo = rec.todo \ {u} /\ rec'.account = rec.account
        /\ rec'.buckets = rec.buckets /\ rec'.accounts = rec.accounts
        /\ keeps \/ fixes
    <3>1. rec.account = account
      BY <1>5 DEF RecSum, PassFits
    <3> QED
      BY <1>0, <1>5, <2>0, <3>1 DEF RecSum, PassFields, AccountExact
  <2>2. /\ UNCHANGED <<row, bucket, account>>
        /\ \A c : SizesIn(c)' = SizesIn(c) /\ BucketExact(c)' = BucketExact(c)
        /\ \A v : RowBytes(v)' = RowBytes(v) /\ AccountExact(v)' = AccountExact(v)
    BY <1>1, <2>1
  <2>3. /\ \A c \in Buckets : BucketDone(c)' = BucketDone(c)
        /\ \A v \in Users : AccountDone(v)' = AccountDone(v)
    BY <2>1, <2>2 DEF BucketDone, AccountDone
  <2>4. /\ \A v \in Users \ rec.todo : AccountDone(v)
        /\ \A c \in Buckets : BucketDone(c)
        /\ rec.account = account /\ DOMAIN rec.accounts \cap rec.todo = {}
    BY <2>1 DEF PassFits
  <2>5. keeps => AccountDone(u)
    BY <2>1, <2>4 DEF AccountDone
  <2> QED
    BY <2>1, <2>2, <2>3, <2>4, <2>5 DEF PassFits
<1>6. ASSUME RecCharge PROVE PassFits'
  <2>1. /\ rec.pc = "accounts" /\ UNCHANGED gatewayVars
        /\ rec'.pc = "accounts" /\ rec'.todo = rec.todo /\ rec'.at = {}
        /\ rec'.account = rec.account /\ rec'.buckets = rec.buckets
        /\ DOMAIN rec'.accounts = DOMAIN rec.accounts \cup rec.at
        /\ \A u \in DOMAIN rec'.accounts :
              rec'.accounts[u] = IF u \in rec.at THEN rec.totals ELSE rec.accounts[u]
    BY <1>0, <1>6 DEF RecCharge, PassFields
  <2>2. /\ UNCHANGED <<row, bucket, account>>
        /\ \A c : SizesIn(c)' = SizesIn(c) /\ BucketExact(c)' = BucketExact(c)
        /\ \A v : RowBytes(v)' = RowBytes(v) /\ AccountExact(v)' = AccountExact(v)
    BY <1>1, <2>1
  <2>3. /\ \A v \in Users \ (rec.todo \cup rec.at) : AccountDone(v)
        /\ \A c \in Buckets : BucketDone(c)
        /\ rec.account = account /\ DOMAIN rec.accounts \cap (rec.todo \cup rec.at) = {}
        /\ rec.at \cap rec.todo = {}
        /\ \A v \in rec.at : rec.totals.bytes = RowBytes(v)
    BY <2>1 DEF PassFits
  <2>4. \A v \in Users \ rec.todo : AccountDone(v)'
    BY <2>1, <2>2, <2>3 DEF AccountDone
  <2>5. \A c \in Buckets : BucketDone(c)'
    BY <2>1, <2>2, <2>3 DEF BucketDone
  <2> QED
    BY <2>1, <2>2, <2>3, <2>4, <2>5 DEF PassFits
<1>7. ASSUME RecBegin PROVE PassFits'
  <2>1. /\ UNCHANGED gatewayVars /\ rec'.pc = "buckets" /\ rec'.bucket = bucket
        /\ rec'.todo = Buckets /\ rec'.at = {}
        /\ DOMAIN rec'.buckets = {} /\ DOMAIN rec'.accounts = {}
    BY <1>0, <1>7 DEF RecBegin, NoPass
  <2> QED
    BY <1>1, <2>1 DEF PassFits
<1>8. ASSUME RecCommit PROVE PassFits' /\ Exact'
  <2>1. /\ rec.pc = "accounts" /\ rec.at = {} /\ rec.todo = {} /\ row' = row
        /\ rec' = NoPass
        /\ bucket' = [b \in Buckets |->
             IF b \in DOMAIN rec.buckets
               THEN Recomputed(bucket[b], rec.buckets[b].bytes, rec.buckets[b].count)
               ELSE bucket[b]]
        /\ account' = [u \in Users |->
             IF u \in DOMAIN rec.accounts THEN RecomputedUser(account[u], rec.accounts[u].bytes)
               ELSE account[u]]
    BY <1>0, <1>8 DEF RecCommit, Recompute, ovars
  <2>2. /\ \A b \in Buckets : BucketDone(b)
        /\ \A u \in Users : AccountDone(u)
    BY <2>1 DEF PassFits
  <2>3. ASSUME NEW b \in Buckets
        PROVE  /\ bucket'[b].used = SizesIn(b).bytes /\ bucket'[b].count = SizesIn(b).count
               /\ bucket'[b].reserved = 0
    BY <2>1, <2>2 DEF BucketDone, BucketExact, Recomputed
  <2>4. ASSUME NEW u \in Users
        PROVE  account'[u].used = RowBytes(u) /\ account'[u].reserved = 0
    BY <2>1, <2>2 DEF AccountDone, AccountExact, RecomputedUser
  <2>5. \A c : SizesIn(c)' = SizesIn(c) /\ RowBytes(c)' = RowBytes(c)
    BY <2>1, RowsKept
  <2>6. Exact'
    BY <2>3, <2>4, <2>5, ExactByRows DEF BucketExact, AccountExact
  <2>7. PassFits'
    BY <2>1 DEF PassFits, NoPass
  <2> QED
    BY <2>6, <2>7
<1>9. RecCommit \/ UNCHANGED gatewayVars
  BY DEF RecStep, RecScan, RecSum, RecBegin, RecFix, RecAccounts, RecCharge
<1> QED
  BY <1>1, <1>2, <1>3, <1>4, <1>5, <1>6, <1>7, <1>8, <1>9 DEF RecStep

\* The same of any step that leaves clients at rest.
LEMMA RepairStep ==
  ASSUME RInv, PassFits, Quiet, Quiet', [Next]_vars
  PROVE  PassFits' /\ [RecCommit => Exact']_vars /\ (Exact => Exact')
<1> USE DEF Pass
<1>1. CASE UNCHANGED <<row, bucket, account, rec>>
  <2>1. /\ \A b : SizesIn(b)' = SizesIn(b) /\ BucketExact(b)' = BucketExact(b)
        /\ \A u : RowBytes(u)' = RowBytes(u) /\ AccountExact(u)' = AccountExact(u)
        /\ (Exact => Exact')
    BY <1>1, CountersKept
  <2>2. /\ \A b : BucketDone(b)' = BucketDone(b)
        /\ \A u : AccountDone(u)' = AccountDone(u)
    BY <1>1, <2>1 DEF BucketDone, AccountDone
  <2>3. PassFits'
    BY <1>1, <2>1, <2>2 DEF PassFits
  <2>4. RecCommit => Exact'
    BY <2>3, PassRight DEF RecStep
  <2> QED
    BY <2>1, <2>3, <2>4
<1>2. CASE RecStep
  BY <1>2, PassRight
<1>3. CASE RecRollback
  <2>1. UNCHANGED <<row, bucket, account>> /\ rec' = NoPass
    BY <1>3 DEF RecRollback, qvars
  <2>2. PassFits' /\ (Exact => Exact')
    BY <2>1, CountersKept DEF PassFits, NoPass
  <2>3. RecCommit => Exact'
    BY PassRight DEF RecStep
  <2> QED
    BY <2>2, <2>3
<1>4. CASE ObjectsNext /\ UNCHANGED rec
  BY <1>1, <1>4, QuietObjects DEF RInv
<1>5. CASE UNCHANGED vars
  BY <1>1, <1>5 DEF vars, gatewayVars, qvars, ovars
<1> QED
  BY <1>2, <1>3, <1>4, <1>5 DEF Next

\* Once clients have stopped and no pass is under way that began before, every pass that
\* commits leaves every counter exact and every hold cleared, whatever the counters were,
\* and exact they stay through all further passes.  (That there is such a pass is
\* DriftRepaired's fairness.)
THEOREM ReconcileRepairs ==
  AllAmounts =>
    (Spec => [](Pass("idle") /\ []Quiet => [][RecCommit => Exact']_vars /\ [](Exact => []Exact)))
<1> SUFFICES ASSUME AllAmounts
             PROVE  Spec => [](Pass("idle") /\ []Quiet => [][RecCommit => Exact']_vars
                                                            /\ [](Exact => []Exact))
  OBVIOUS
<1>1. Init => RInv
  BY ReconcileInit
<1>2. RInv /\ [Next]_vars => RInv'
  BY ReconcileStep
<1>3. RInv /\ Pass("idle") => PassFits
  BY DEF Pass, PassFits
<1>4. RInv /\ PassFits /\ Quiet /\ Quiet' /\ [Next]_vars
        => PassFits' /\ [RecCommit => Exact']_vars /\ (Exact => Exact')
  BY RepairStep
<1> QED
  BY <1>1, <1>2, <1>3, <1>4, PTL DEF Spec
=============================================================================
