---------------------------- MODULE Coverage_proofs ----------------------------
(* What the counters say of uploads and of the objects beside them, while  *)
(* nothing is lost, clients keep their requests off each other's keys and  *)
(* only complete onto fresh ones: every byte of an object row is charged   *)
(* once, and what the store has, parts and objects that have no row yet    *)
(* included, is covered by what the counters admit, which no statement     *)
(* takes over a limit; and, whatever is lost, no counter goes negative and *)
(* quota.rs is called only as its open protocol allows.                    *)
(* For every set of buckets, keys, uploads and requests and any sizes.     *)
EXTENDS Multipart_proofs

----------------------------------------------------------------------------
(* What a step makes of its request, the rows and the store, while nothing *)
(* is lost.                                                                *)

Deletes == {"delete", "batch"}

Completing(r) == req[r].op = "complete"

\* Where a request goes that changes no object and no upload.
Passes ==
  {<<"reserve", "admit">>, <<"admit", "release">>, <<"admit", "err">>, <<"send", "release">>,
   <<"send", "err">>, <<"update", "insert">>, <<"reread", "account">>, <<"account", "commit">>,
   <<"release", "abort">>, <<"commit", "ok">>, <<"commit", "err">>, <<"abort", "err">>,
   <<"credit", "credited">>, <<"source", "err">>, <<"forget", "err">>, <<"letgo", "drop">>,
   <<"assemble", "err">>, <<"head", "err">>, <<"account", "difference">>,
   <<"difference", "drop">>} \cup {<<pc, pc>> : pc \in Waiting}

\* The rows, the store and the uploads stay, and what requests read of those.
AllStay == UNCHANGED <<row, blob, upload, parts, mp>>

PassesOn(r) ==
  /\ <<req[r].pc, req'[r].pc>> \in Passes /\ Same(req'[r], req[r]) /\ AllStay
  /\ At(r, "update") => row[req[r].obj] = Absent

\* All of a handler but where it is and the amounts.
Alike(g, h) == g.op = h.op /\ g.obj = h.obj /\ g.src = h.src /\ g.keys = h.keys

\* A write has read the row it will replace.
RowRead(g) ==
  /\ g.delta = g.size - Stored(row[g.obj])
  /\ g.new = IF row[g.obj] = Absent THEN 1 ELSE 0
  /\ g.pc \in {"reserve", "send"}

BeginsPut(r) ==
  LET g == req'[r] IN
  /\ ~Active(r) /\ AllStay /\ RowRead(g) /\ Undisturbed({g.obj})
  /\ g.op = "put" /\ g.obj \in Object /\ g.src = Nowhere /\ g.keys = {}

BeginsCopy(r) ==
  LET g == req'[r] IN
  /\ ~Active(r) /\ AllStay /\ Undisturbed({g.src, g.obj})
  /\ g.op = "copy" /\ g.pc = "begin" /\ g.obj \in Object /\ g.src \in Object /\ g.keys = {}
  /\ row[g.src] # Absent /\ g.size = row[g.src] /\ g.delta = 0

BeginsWriting(r) ==
  /\ At(r, "begin") /\ AllStay /\ RowRead(req'[r])
  /\ Alike(req'[r], req[r]) /\ req'[r].size = req[r].size

Sends(r) ==
  /\ Writing(r) /\ req[r].pc \in {"admit", "send"} /\ req'[r].pc = "update"
  /\ Same(req'[r], req[r]) /\ UNCHANGED <<row, upload, parts, mp>>
  /\ blob' = [blob EXCEPT ![req[r].obj] = req[r].size]

\* An update finds a row, an insert none.
WritesRow(r) ==
  /\ \/ At(r, "update") /\ req'[r].pc = "reread" /\ row[req[r].obj] # Absent
     \/ At(r, "insert") /\ req'[r].pc = "account" /\ row[req[r].obj] = Absent
  /\ Same(req'[r], req[r]) /\ UNCHANGED <<blob, upload, parts, mp>>
  /\ row' = [row EXCEPT ![req[r].obj] = req[r].size]

BeginsDelete(r) ==
  LET g == req'[r] IN
  /\ ~Active(r) /\ UNCHANGED <<row, upload, parts, mp>> /\ Undisturbed(g.keys)
  /\ g.op \in Deletes /\ g.pc = "find" /\ g.keys \in SUBSET Object
  /\ g.obj = Nowhere /\ g.src = Nowhere /\ blob' = Erase(g.keys)

\* A key that has no row, or has none any more.
SkipsKey(r) ==
  LET g == req'[r] IN
  /\ req[r].pc \in {"find", "credited"} /\ AllStay
  /\ \E o \in req[r].keys : row[o] = Absent /\ g.keys = req[r].keys \ {o}
  /\ g.op = req[r].op /\ g.src = req[r].src /\ g.obj = Nowhere
  /\ g.pc = IF g.keys = {} THEN "ok" ELSE "find"

FindsRow(r) ==
  LET g == req'[r] IN
  /\ At(r, "find") /\ g.pc = "remove" /\ AllStay
  /\ g.obj \in req[r].keys /\ row[g.obj] # Absent /\ g.size = row[g.obj]
  /\ g.op = req[r].op /\ g.src = req[r].src /\ g.keys = req[r].keys

RemovesRow(r) ==
  /\ At(r, "remove") /\ req'[r].pc = "credit"
  /\ Same(req'[r], req[r]) /\ UNCHANGED <<blob, upload, parts, mp>>
  /\ row' = [row EXCEPT ![req[r].obj] = Absent]

\* The shapes of the object verbs' steps.
ObjectShape(r) ==
  \/ PassesOn(r) \/ BeginsPut(r) \/ BeginsCopy(r) \/ BeginsWriting(r) \/ Sends(r)
  \/ WritesRow(r) \/ BeginsDelete(r) \/ SkipsKey(r) \/ FindsRow(r) \/ RemovesRow(r)

\* A request starts on an upload: it opens one, or it found the row.
Opens(r) ==
  LET g == req'[r]
      u == mp'[r].upload IN
  /\ ~Active(r) /\ UNCHANGED <<row, blob, upload>>
  /\ g.op = "create" /\ g.pc = "open" /\ g.src = Nowhere /\ g.keys = {}
  /\ u \in Uploads /\ upload[u] = Absent /\ parts[u] = Absent
  /\ \A q \in Requests : ~On(q, u)
  /\ parts' = [parts EXCEPT ![u] = [p \in PartNumbers |-> Absent]]

Joins(r) ==
  LET g == req'[r]
      u == mp'[r].upload IN
  /\ ~Active(r) /\ UNCHANGED <<row, blob, upload, parts>>
  /\ u \in Uploads /\ upload[u] # Absent /\ g.obj = upload[u].obj /\ g.keys = {}
  /\ \/ g.op = "part" /\ g.pc = "reserve" /\ g.src = Nowhere
     \/ g.op = "partcopy" /\ g.pc = "source" /\ g.src \in Object /\ Undisturbed({g.src})
     \/ g.op = "abort" /\ g.pc = "forget" /\ g.src = Nowhere
     \/ /\ g.op = "complete" /\ g.pc = "assemble" /\ g.src = Nowhere
        /\ NoPartsOf(u) /\ UndisturbedBut(u, g.obj)
        /\ FreshKeys => row[g.obj] = Absent

ReadsSource(r) ==
  LET g == req'[r] IN
  /\ At(r, "source") /\ g.pc = "reserve" /\ AllStay /\ Alike(g, req[r])
  /\ row[g.src] # Absent /\ g.size = row[g.src]

StoresPart(r) ==
  LET u == mp[r].upload IN
  /\ req[r].op \in PartOps /\ At(r, "admit") /\ req'[r].pc = "add"
  /\ Same(req'[r], req[r]) /\ UNCHANGED <<row, blob, upload, mp>>
  /\ parts[u] # Absent /\ parts' = [parts EXCEPT ![u][mp[r].part] = req[r].size]

AddsPart(r) ==
  LET u == mp[r].upload IN
  /\ At(r, "add") /\ req'[r].pc = "ok"
  /\ Same(req'[r], req[r]) /\ UNCHANGED <<row, blob, parts, mp>>
  /\ upload[u] # Absent /\ upload' = [upload EXCEPT ![u].reserved = @ + req[r].size]

InsertsUpload(r) ==
  /\ At(r, "open") /\ req'[r].pc = "ok"
  /\ Same(req'[r], req[r]) /\ UNCHANGED <<row, blob, parts, mp>>
  /\ upload' = [upload EXCEPT ![mp[r].upload] = [obj |-> req[r].obj, reserved |-> 0]]

ForgetsParts(r) ==
  LET u == mp[r].upload IN
  /\ At(r, "forget") /\ req'[r].pc = "letgo"
  /\ Same(req'[r], req[r]) /\ UNCHANGED <<row, blob, upload, mp>>
  /\ parts[u] # Absent /\ parts' = [parts EXCEPT ![u] = Absent]

DropsUpload(r) ==
  /\ At(r, "drop") /\ req'[r].pc = "ok"
  /\ Same(req'[r], req[r]) /\ UNCHANGED <<row, blob, parts, mp>>
  /\ upload' = [upload EXCEPT ![mp[r].upload] = Absent]

Assembles(r) ==
  LET u == mp[r].upload IN
  /\ At(r, "assemble") /\ req'[r].pc = "head"
  /\ Same(req'[r], req[r]) /\ UNCHANGED <<row, upload, mp>> /\ Assembled(r)

ReadsHead(r) ==
  LET g == req'[r] IN
  /\ At(r, "head") /\ g.pc = "update" /\ AllStay /\ Alike(g, req[r])
  /\ blob[g.obj] # Absent /\ g.size = blob[g.obj]

\* The shapes of the steps of uploads.
UploadShape(r) ==
  \/ PassesOn(r) \/ Opens(r) \/ Joins(r) \/ ReadsSource(r) \/ StoresPart(r) \/ AddsPart(r)
  \/ InsertsUpload(r) \/ ForgetsParts(r) \/ DropsUpload(r) \/ Assembles(r) \/ ReadsHead(r)

----------------------------------------------------------------------------
(* What each request knows of its objects. *)

\* A handler's unused fields are empty.
Plain(r) ==
  Active(r) =>
    /\ req[r].op \notin Deletes => req[r].keys = {}
    /\ req[r].op \notin {"copy", "partcopy"} => req[r].src = Nowhere

\* Where a write has its object in the store, and where it has its row.
Sending == {"update", "insert"}
Written == {"reread", "account", "commit"}

WriteKnows(r) ==
  LET h == req[r] IN
  Writing(r) /\ Active(r) =>
    /\ h.size - h.delta >= 0
    /\ h.pc \in {"reserve", "admit", "send"} \cup Sending =>
         /\ h.delta = h.size - Stored(row[h.obj])
         /\ h.new = IF row[h.obj] = Absent THEN 1 ELSE 0
    /\ h.pc = "insert" => row[h.obj] = Absent
    /\ h.pc \in Written => row[h.obj] = h.size
    /\ h.pc \in Written \cup Sending => blob[h.obj] = h.size
    /\ h.op = "copy" => row[h.src] = h.size /\ blob[h.src] = h.size

DeleteKnows(r) ==
  LET h == req[r] IN
  h.pc \in DeletePcs =>
    /\ IF h.pc = "find" THEN h.obj = Nowhere ELSE h.obj \in h.keys
    /\ h.pc = "remove" => row[h.obj] = h.size
    /\ h.pc \in {"credit", "credited"} => row[h.obj] = Absent
    /\ \A o \in h.keys : blob[o] = Absent

PartKnows(r) ==
  LET h == req[r] IN
  Active(r) /\ h.op = "partcopy" /\ h.pc # "source" =>
    row[h.src] = h.size /\ blob[h.src] = h.size

\* Once assembled, an object is no bigger than what its upload holds, and its key was fresh.
CompleteKnows(r) ==
  LET h == req[r]
      m == mp[r] IN
  Active(r) /\ Completing(r) =>
    /\ h.pc = "assemble" /\ parts[m.upload] # Absent => row[h.obj] = Absent
    /\ h.pc # "assemble" => blob[h.obj] # Absent /\ blob[h.obj] <= m.held
    /\ h.pc \in {"head"} \cup Sending => row[h.obj] = Absent
    /\ h.pc \in Sending \cup {"account", "difference", "drop"} => blob[h.obj] = h.size
    /\ h.pc \in {"account", "difference", "drop"} => row[h.obj] = h.size
    /\ h.pc # "reread"

Knows(r) == WriteKnows(r) /\ DeleteKnows(r) /\ PartKnows(r) /\ CompleteKnows(r)

\* What each knows of itself, at one moment.
Aware(r) == Plain(r) /\ Knows(r)


----------------------------------------------------------------------------
(* The steps have these shapes.                                            *)

\* A step after which nothing is lost has lost nothing.
LEMMA NothingLost ==
  ASSUME FInv, faults' = 0
  PROVE  ~Fault
BY DEF FInv, Fault

\* A request moves on and changes nothing else.
LEMMA PassesHere ==
  ASSUME FInv, NEW r \in Requests, NEW pc \in AllPcs, Goes(r, pc), AllStay,
         <<req[r].pc, pc>> \in Passes, At(r, "update") => row[req[r].obj] = Absent
  PROVE  PassesOn(r)
<1>1. req'[r].pc = pc /\ Same(req'[r], req[r])
  BY GoesOn DEF FInv
<1> QED
  BY <1>1 DEF PassesOn

\* A write or a part gives up.
LEMMA GivesUpHere ==
  ASSUME FInv, NEW r \in Requests, GiveUp(r), AllStay, Admitted(r)
  PROVE  PassesOn(r)
<1>1. req[r].pc \in {"send", "admit"}
  BY DEF Admitted, At
<1>2. Same(req'[r], req[r]) /\ req'[r].pc \in {"release", "err"}
  BY GivesUp DEF FInv
<1>3. <<req[r].pc, req'[r].pc>> \in Passes
  BY <1>1, <1>2 DEF Passes
<1> QED
  BY <1>1, <1>2, <1>3 DEF PassesOn, At

\* A procedure goes on.
LEMMA ContinueHere ==
  ASSUME FInv, NEW r \in Requests, Continue(r), UNCHANGED ovars, UNCHANGED mvars
  PROVE  PassesOn(r)
<1>1. call[r].at \notin Ended
  BY DEF Continue, ReserveUser, Unreserve, ReleaseUser, CommitUser, SettleBucket, SettleUser,
         CreditBucket, CreditUser, AtStatement, Ended
<1>2. Placed(req[r], call[r], mp[r])
  BY Here
<1>3. req[r].pc \in Waiting
  BY <1>1, <1>2 DEF Placed, CallAt
<1>4. <<req[r].pc, req[r].pc>> \in Passes
  BY <1>3 DEF Passes
<1>5. req' = req /\ AllStay
  BY DEF ovars, mvars, AllStay
<1>6. req[r].pc # "update"
  BY <1>3 DEF Waiting
<1> QED
  BY <1>4, <1>5, <1>6 DEF PassesOn, Same, At

\* A delete is done with a key.
LEMMA KeyDealt ==
  ASSUME FInv, NEW r \in Requests, NEW o \in req[r].keys, NextKey(r, req[r], o),
         row[o] = Absent, req[r].pc \in {"find", "credited"}, AllStay
  PROVE  SkipsKey(r)
<1> DEFINE pc == IF req[r].keys \ {o} = {} THEN "ok" ELSE "find"
           h == [req[r] EXCEPT !.keys = @ \ {o}, !.obj = Nowhere, !.size = 0, !.pc = pc]
<1>1. req[r] \in AnyHandler /\ req \in [Requests -> AnyHandler]
  BY DEF FInv, TypeOK, AnyHandler, AllOps, AllPcs
<1>2. req' = [req EXCEPT ![r] = h]
  BY DEF NextKey
<1>3. req'[r] = h
  BY <1>1, <1>2
<1> HIDE DEF pc
<1>4. /\ h.op = req[r].op /\ h.src = req[r].src /\ h.obj = Nowhere
      /\ h.keys = req[r].keys \ {o} /\ h.pc = pc
  BY <1>1 DEF AnyHandler, Handler
<1> HIDE DEF h
<1> QED
  BY <1>3, <1>4 DEF SkipsKey, pc

\* A write has read the row it will replace.
LEMMA PutRead ==
  ASSUME FInv, NEW r \in Requests, NEW h \in AnyHandler, h.obj \in Object, BeginPut(r, h)
  PROVE  /\ RowRead(req'[r])
         /\ Alike(req'[r], h) /\ req'[r].size = h.size
<1> DEFINE delta == h.size - Stored(row[h.obj])
           pc == IF delta > 0 THEN "reserve" ELSE "send"
           new == IF row[h.obj] = Absent THEN 1 ELSE 0
           g == [h EXCEPT !.pc = pc, !.delta = delta, !.new = new]
<1>1. req \in [Requests -> AnyHandler]
  BY DEF FInv, TypeOK, AnyHandler, AllOps, AllPcs
<1>2. req'[r] = g
  BY <1>1 DEF BeginPut
<1>3. pc \in {"reserve", "send"}
  OBVIOUS
<1> HIDE DEF delta, pc, new
<1>4. /\ g.op = h.op /\ g.src = h.src /\ g.obj = h.obj /\ g.keys = h.keys /\ g.size = h.size
      /\ g.delta = delta /\ g.pc = pc /\ g.new = new
  BY DEF AnyHandler, Handler
<1> HIDE DEF g
<1> QED
  BY <1>2, <1>3, <1>4 DEF RowRead, Alike, delta, new

\* The new handlers of the object verbs have no keys but a delete's.
LEMMA NewPut ==
  ASSUME NEW o \in Object, NEW n \in Nat,
         NEW h, h = [NoHandler EXCEPT !.op = "put", !.obj = o, !.size = n]
  PROVE  Fresh(h, "put", "idle", o, Nowhere) /\ h.keys = {} /\ h.size = n
<1>1. Fresh(h, "put", "idle", o, Nowhere)
  BY NewHandler DEF Fresh, AnyHandler, Handler, AllOps, ObjectOps, AllPcs, WritePcs
<1> QED
  BY <1>1 DEF NoHandler

\* A copy's.
CopyHandler(o, s, n) ==
  [NoHandler EXCEPT !.op = "copy", !.pc = "begin", !.obj = o, !.src = s, !.size = n]

\* A copy's handler has no keys either.
LEMMA NewCopy ==
  ASSUME NEW o \in Object, NEW s \in Object, NEW n \in Nat
  PROVE  LET h == CopyHandler(o, s, n) IN
         Fresh(h, "copy", "begin", o, s) /\ h.keys = {} /\ h.size = n /\ h.delta = 0
<1>1. Fresh(CopyHandler(o, s, n), "copy", "begin", o, s)
  BY NewHandler DEF Fresh, AnyHandler, Handler, AllOps, ObjectOps, AllPcs, WritePcs, CopyHandler
<1> QED
  BY <1>1 DEF NoHandler, CopyHandler

\* An object's contents, where there are any.
LEMMA Contents ==
  ASSUME FInv, NEW o \in Object
  PROVE  row[o] \in Nat \cup {Absent} /\ blob[o] \in Nat \cup {Absent}
BY DEF FInv, TypeOK

\* The objects a request is about.
LEMMA ItsObjects ==
  ASSUME FInv, NEW r \in Requests
  PROVE  /\ req[r].pc \notin Resting \cup {"find"} => req[r].obj \in Object
         /\ req[r].op \in {"copy", "partcopy"} => req[r].src \in Object
         /\ req[r].keys \in SUBSET Object
         /\ req[r].size \in Nat /\ req[r].size # Absent
         /\ req[r].op \in AllOps /\ req[r].pc \in AllPcs
<1>1. req[r] \in AnyHandler /\ Placed(req[r], call[r], mp[r])
  BY Here
<1>2. req[r].size \in Nat /\ req[r].keys \in SUBSET Object /\ req[r].op \in AllOps
      /\ req[r].pc \in AllPcs
  BY <1>1 DEF AnyHandler, Handler
<1> QED
  BY <1>1, <1>2, AbsentAssumption DEF Placed, SubjectOf

\* What is known of a request after a step.
LEMMA HereNext ==
  ASSUME FInv', NEW r \in Requests
  PROVE  /\ req'[r] \in AnyHandler /\ req'[r].size \in Nat /\ req'[r].delta \in Int
         /\ Placed(req'[r], call'[r], mp'[r])
<1>1. req'[r] \in AnyHandler
  BY DEF FInv, TypeOK, AnyHandler, AllOps, AllPcs
<1>2. Placed(req'[r], call'[r], mp'[r])
  BY DEF FInv, PlacedOK
<1> QED
  BY <1>1, <1>2 DEF AnyHandler, Handler

\* An object verb starts.
LEMMA StartShape ==
  ASSUME FInv, NEW r \in Requests, Start(r), UNCHANGED mvars, faults' = 0
  PROVE  ObjectShape(r)
<1>1. ~Fault /\ ~Active(r)
  BY NothingLost DEF Start, StartDelete, StartPut, StartCopy, StartBatch
<1>2. UNCHANGED <<upload, parts, mp>>
  BY DEF mvars
<1>3. req \in [Requests -> AnyHandler]
  BY DEF FInv, TypeOK, AnyHandler, AllOps, AllPcs
<1>4. ASSUME NEW op \in Deletes, NEW objs \in SUBSET Object, Undisturbed(objs),
             req' = [req EXCEPT ![r] = DeleteHandler(op, objs)], blob' = Erase(objs),
             UNCHANGED row
      PROVE  BeginsDelete(r)
  <2>1. req'[r] = DeleteHandler(op, objs)
    BY <1>3, <1>4
  <2>2. /\ DeleteHandler(op, objs).op = op /\ DeleteHandler(op, objs).pc = "find"
        /\ DeleteHandler(op, objs).keys = objs /\ DeleteHandler(op, objs).obj = Nowhere
        /\ DeleteHandler(op, objs).src = Nowhere
    BY DEF DeleteHandler, NoHandler
  <2> QED
    BY <1>1, <1>2, <1>4, <2>1, <2>2 DEF BeginsDelete
<1>5. ASSUME NEW o \in Object, StartDelete(r, o)
      PROVE  BeginsDelete(r)
  BY <1>1, <1>4, <1>5 DEF StartDelete, AnswerLost, Answered, Deletes
<1>6. ASSUME NEW b \in Buckets, NEW objs \in SUBSET ObjectsOf(b), StartBatch(r, b, objs)
      PROVE  BeginsDelete(r)
  <2>1. objs \in SUBSET Object
    BY DEF ObjectsOf, Object
  <2> QED
    BY <1>1, <1>4, <1>6, <2>1 DEF StartBatch, AnswerLost, Answered, Deletes
<1>7. ASSUME NEW o \in Object, NEW n \in Sizes, StartPut(r, o, n)
      PROVE  BeginsPut(r)
  <2> DEFINE h == [NoHandler EXCEPT !.op = "put", !.obj = o, !.size = n]
  <2>1. n \in Nat
    BY SizesAssumption
  <2>2. Fresh(h, "put", "idle", o, Nowhere) /\ h.keys = {}
    BY <2>1, NewPut
  <2>3. BeginPut(r, h) /\ Undisturbed({o}) /\ UNCHANGED <<row, blob>>
    BY <1>7 DEF StartPut
  <2> HIDE DEF h
  <2>4. RowRead(req'[r]) /\ Alike(req'[r], h)
    BY <2>2, <2>3, PutRead DEF Fresh
  <2> QED
    BY <1>1, <1>2, <2>2, <2>3, <2>4 DEF BeginsPut, AllStay, Fresh, Alike
<1>8. ASSUME NEW s \in Object, NEW o \in Object, StartCopy(r, s, o)
      PROVE  BeginsCopy(r)
  <2>1. PICK n \in Nat : n = row[s] /\ n # Absent
    BY <1>8, Contents, AbsentAssumption DEF StartCopy
  <2> DEFINE h == CopyHandler(o, s, n)
  <2>2. Fresh(h, "copy", "begin", o, s) /\ h.keys = {} /\ h.size = n /\ h.delta = 0
    BY <2>1, NewCopy
  <2>3. req' = [req EXCEPT ![r] = h] /\ Undisturbed({s, o}) /\ UNCHANGED <<row, blob>>
    BY <1>8, <2>1 DEF StartCopy, CopyHandler
  <2>4. req'[r] = h
    BY <1>3, <2>3
  <2> HIDE DEF h
  <2> QED
    BY <1>1, <1>2, <2>1, <2>2, <2>3, <2>4 DEF BeginsCopy, AllStay, Fresh
<1> QED
  BY <1>5, <1>6, <1>7, <1>8 DEF Start, ObjectShape

\* The steps of a write up to its row.
LEMMA SendShape ==
  ASSUME FInv, NEW r \in Requests, UNCHANGED mvars, Knows(r), Plain(r), faults' = 0,
         CopyBegin(r) \/ SendWrite(r)
  PROVE  ObjectShape(r)
<1>1. ~Fault /\ UNCHANGED <<upload, parts, mp>> /\ req[r] \in AnyHandler
  BY NothingLost, Here DEF mvars
<1>2. CASE CopyBegin(r)
  <2>1. BeginPut(r, req[r]) /\ At(r, "begin") /\ AllStay
    BY <1>1, <1>2 DEF CopyBegin, AllStay
  <2>2. req[r].obj \in Object
    BY <2>1, ItsObjects DEF At, Resting
  <2>3. RowRead(req'[r]) /\ Alike(req'[r], req[r]) /\ req'[r].size = req[r].size
    BY <1>1, <2>1, <2>2, PutRead
  <2> QED
    BY <2>1, <2>3 DEF BeginsWriting, ObjectShape
<1>3. CASE SendWrite(r)
  <2>1. Writing(r) /\ Admitted(r) /\ UNCHANGED row
    BY <1>3 DEF SendWrite
  <2>2. req[r].pc \in {"admit", "send"} /\ Active(r) /\ req[r].op \in WriteOps
    BY <2>1 DEF Admitted, At, Active, Resting, Writing
  <2>3. CASE Refused /\ GiveUp(r)
    BY <1>1, <2>1, <2>3, GivesUpHere DEF Refused, AllStay, ObjectShape
  <2>4. CASE CanStore(r) /\ Answered(AfterWrite(r)) /\ Goes(r, "update")
    <3>1. req[r].op = "copy" => blob[req[r].src] = req[r].size
      BY <2>1, <2>2 DEF Knows, WriteKnows
    <3>2. blob' = [blob EXCEPT ![req[r].obj] = req[r].size]
      BY <2>4, <3>1 DEF Answered, AfterWrite
    <3>3. req'[r].pc = "update" /\ Same(req'[r], req[r])
      BY <2>4, GoesOn DEF FInv, AllPcs, WritePcs
    <3> QED
      BY <1>1, <2>1, <2>2, <3>2, <3>3 DEF Sends, ObjectShape
  <2> QED
    BY <1>1, <1>3, <2>3, <2>4 DEF SendWrite, AnswerLost
<1> QED
  BY <1>2, <1>3

\* The row of a write or of a completed upload is written.
LEMMA RowShape ==
  ASSUME FInv, NEW r \in Requests, UNCHANGED mvars, Knows(r), faults' = 0,
         UpdateRow(r) \/ RereadRow(r) \/ InsertRow(r)
  PROVE  ObjectShape(r)
<1>1. UNCHANGED <<upload, parts, mp, blob>> /\ live = Buckets
  BY Here DEF mvars, UpdateRow, RereadRow, InsertRow
<1>2. req[r].pc \in {"update", "reread", "insert"}
  BY DEF UpdateRow, RereadRow, InsertRow, At
<1>3. /\ Active(r) /\ req[r].op \in WriteOps \cup {"complete"}
      /\ req[r].obj \in Object /\ req[r].size \in Nat /\ req[r].size # Absent
      /\ BucketOf(req[r].obj) \in Buckets
  BY <1>2, ItsObjects, ItsBucket, Here DEF Active, Resting, Placed, OpAt
<1>4. /\ req[r].pc = "insert" => row[req[r].obj] = Absent
      /\ req[r].pc = "reread" => row[req[r].obj] # Absent
  BY <1>3 DEF Knows, WriteKnows, CompleteKnows, Writing, Completing, Written, Sending
<1>5. {"insert", "reread", "account"} \subseteq AllPcs
  BY DEF AllPcs, WritePcs
<1>6. CASE UpdateRow(r)
  <2>1. CASE row[req[r].obj] # Absent
    <3>1. At(r, "update") /\ Goes(r, "reread")
          /\ row' = [row EXCEPT ![req[r].obj] = req[r].size]
      BY <1>6, <2>1 DEF UpdateRow
    <3>2. req'[r].pc = "reread" /\ Same(req'[r], req[r])
      BY <1>5, <3>1, GoesOn DEF FInv
    <3> QED
      BY <1>1, <2>1, <3>1, <3>2 DEF WritesRow, ObjectShape
  <2>2. CASE row[req[r].obj] = Absent
    <3>1. At(r, "update") /\ Goes(r, "insert") /\ AllStay
      BY <1>1, <1>6, <2>2 DEF UpdateRow, AllStay
    <3>2. <<req[r].pc, "insert">> \in Passes
      BY <3>1 DEF At, Passes
    <3> QED
      BY <1>5, <2>2, <3>1, <3>2, PassesHere DEF ObjectShape
  <2> QED
    BY <2>1, <2>2
<1>7. CASE RereadRow(r)
  <2>1. At(r, "reread") /\ Goes(r, "account") /\ AllStay
    BY <1>1, <1>4, <1>7 DEF RereadRow, AllStay, At
  <2>2. <<req[r].pc, "account">> \in Passes /\ ~At(r, "update")
    BY <2>1 DEF At, Passes
  <2> QED
    BY <1>5, <2>1, <2>2, PassesHere DEF ObjectShape
<1>8. CASE InsertRow(r)
  <2>1. At(r, "insert") /\ Goes(r, "account") /\ row[req[r].obj] = Absent
        /\ row' = [row EXCEPT ![req[r].obj] = req[r].size]
    BY <1>1, <1>3, <1>4, <1>8 DEF InsertRow, At
  <2>2. req'[r].pc = "account" /\ Same(req'[r], req[r])
    BY <1>5, <2>1, GoesOn DEF FInv
  <2> QED
    BY <1>1, <2>1, <2>2 DEF WritesRow, ObjectShape
<1> QED
  BY <1>6, <1>7, <1>8

\* The calls of the object verbs, and the answers of writes.
LEMMA CallShape ==
  ASSUME FInv, NEW r \in Requests, UNCHANGED mvars,
         CallReserve(r) \/ RefuseWrite(r) \/ Account(r) \/ GiveBack(r) \/ AnswerWrite(r)
           \/ CallCredit(r)
  PROVE  ObjectShape(r)
<1>1. AllStay
  BY DEF mvars, AllStay, CallReserve, RefuseWrite, Account, GiveBack, AnswerWrite, CallCredit
<1>2. PICK pc \in {"admit", "err", "ok", "commit", "abort", "credited"} : Goes(r, pc)
  BY DEF CallReserve, RefuseWrite, Account, GiveBack, AnswerWrite, CallCredit
<1>3. pc \in AllPcs /\ {"admit", "err", "ok", "commit", "abort", "credited"} \subseteq AllPcs
  BY <1>2 DEF AllPcs, WritePcs, DeletePcs, Resting
<1>4. ASSUME NEW x \in {"admit", "err", "ok", "commit", "abort", "credited"}, Goes(r, x),
             <<req[r].pc, x>> \in Passes, req[r].pc # "update"
      PROVE  ObjectShape(r)
  BY <1>1, <1>3, <1>4, PassesHere DEF ObjectShape, At
<1>5. CASE CallReserve(r)
  <2>1. Goes(r, "admit") /\ req[r].pc = "reserve"
    BY <1>5 DEF CallReserve, At
  <2> QED
    BY <1>4, <2>1 DEF Passes
<1>6. CASE RefuseWrite(r)
  <2>1. Goes(r, "err") /\ req[r].pc = "admit"
    BY <1>6 DEF RefuseWrite, At
  <2> QED
    BY <1>4, <2>1 DEF Passes
<1>7. CASE Account(r)
  <2>1. Goes(r, "commit") /\ req[r].pc = "account"
    BY <1>7 DEF Account, At
  <2> QED
    BY <1>4, <2>1 DEF Passes
<1>8. CASE GiveBack(r)
  <2>1. Goes(r, "abort") /\ req[r].pc = "release"
    BY <1>8 DEF GiveBack, At
  <2> QED
    BY <1>4, <2>1 DEF Passes
<1>9. CASE AnswerWrite(r)
  <2>1. (req[r].pc = "commit" /\ (Goes(r, "ok") \/ Goes(r, "err")))
        \/ (req[r].pc = "abort" /\ Goes(r, "err"))
    BY <1>9 DEF AnswerWrite, At
  <2> QED
    BY <1>4, <2>1 DEF Passes
<1>10. CASE CallCredit(r)
  <2>1. Goes(r, "credited") /\ req[r].pc = "credit"
    BY <1>10 DEF CallCredit, At
  <2> QED
    BY <1>4, <2>1 DEF Passes
<1> QED
  BY <1>5, <1>6, <1>7, <1>8, <1>9, <1>10

\* The other steps of a delete.
LEMMA DeleteShape ==
  ASSUME FInv, NEW r \in Requests, UNCHANGED mvars, Knows(r), FindRow(r) \/ RemoveRow(r) \/ Credited(r)
  PROVE  ObjectShape(r)
<1>1. UNCHANGED <<upload, parts, mp, blob>> /\ req[r].pc \in DeletePcs
  BY DEF mvars, FindRow, RemoveRow, Credited, At, DeletePcs
<1>2. req[r] \in AnyHandler /\ req \in [Requests -> AnyHandler]
  BY DEF FInv, TypeOK, AnyHandler, AllOps, AllPcs
<1>3. CASE FindRow(r)
  <2>1. AllStay /\ req[r].pc = "find"
    BY <1>1, <1>3 DEF FindRow, AllStay, At
  <2>2. PICK o \in req[r].keys :
          IF row[o] = Absent THEN NextKey(r, req[r], o)
          ELSE req' = [req EXCEPT ![r] =
                 [@ EXCEPT !.pc = "remove", !.obj = o, !.size = row[o]]]
    BY <1>3 DEF FindRow
  <2>3. CASE row[o] = Absent
    BY <2>1, <2>2, <2>3, KeyDealt DEF ObjectShape
  <2>4. CASE row[o] # Absent
    <3>1. req'[r] = [req[r] EXCEPT !.pc = "remove", !.obj = o, !.size = row[o]]
      BY <1>2, <2>2, <2>4
    <3>2. /\ req'[r].pc = "remove" /\ req'[r].obj = o /\ req'[r].size = row[o]
          /\ req'[r].op = req[r].op /\ req'[r].src = req[r].src /\ req'[r].keys = req[r].keys
      BY <1>2, <3>1 DEF AnyHandler, Handler
    <3> QED
      BY <2>1, <2>2, <2>4, <3>2 DEF FindsRow, ObjectShape, At
  <2> QED
    BY <2>3, <2>4
<1>4. CASE RemoveRow(r)
  <2>1. At(r, "remove") /\ row' = [row EXCEPT ![req[r].obj] = Absent]
    BY <1>4 DEF RemoveRow
  <2>2. row[req[r].obj] # Absent
    BY <1>1, <2>1, ItsObjects DEF Knows, DeleteKnows, At
  <2>3. Goes(r, "credit")
    BY <1>4, <2>2 DEF RemoveRow
  <2>4. req'[r].pc = "credit" /\ Same(req'[r], req[r])
    BY <2>3, GoesOn DEF FInv, AllPcs, DeletePcs
  <2> QED
    BY <1>1, <2>1, <2>4 DEF RemovesRow, ObjectShape
<1>5. CASE Credited(r)
  <2>1. AllStay /\ req[r].pc = "credited"
    BY <1>1, <1>5 DEF Credited, AllStay, At
  <2>2. call[r].at # "failed"
    BY <2>1, Here DEF Placed, CallAt
  <2>3. NextKey(r, req[r], req[r].obj)
    BY <1>5, <2>2 DEF Credited
  <2>4. req[r].obj \in req[r].keys /\ row[req[r].obj] = Absent
    BY <1>1, <2>1 DEF Knows, DeleteKnows
  <2> QED
    BY <2>1, <2>3, <2>4, KeyDealt DEF ObjectShape
<1> QED
  BY <1>3, <1>4, <1>5

\* So every step of an object verb has one of these shapes.
LEMMA ObjectShapes ==
  ASSUME FInv, NEW r \in Requests, ObjectStep(r), UNCHANGED mvars, Plain(r), Knows(r),
         faults' = 0
  PROVE  ObjectShape(r)
<1>1. ~Fault
  BY NothingLost
<1>2. ~WriteRowFails(r) /\ ~Crash(r)
  BY <1>1 DEF WriteRowFails, Crash
<1>3. CASE Start(r)
  BY <1>3, StartShape
<1>4. CASE CopyBegin(r) \/ SendWrite(r)
  BY <1>4, SendShape
<1>5. CASE UpdateRow(r) \/ RereadRow(r) \/ InsertRow(r)
  BY <1>5, RowShape
<1>6. CASE CallReserve(r) \/ RefuseWrite(r) \/ Account(r) \/ GiveBack(r) \/ AnswerWrite(r)
             \/ CallCredit(r)
  BY <1>6, CallShape
<1>7. CASE FindRow(r) \/ RemoveRow(r) \/ Credited(r)
  BY <1>7, DeleteShape
<1>8. CASE Continue(r) /\ UNCHANGED ovars
  BY <1>8, ContinueHere DEF ObjectShape
<1> QED
  BY <1>2, <1>3, <1>4, <1>5, <1>6, <1>7, <1>8 DEF ObjectStep, Proceed

\* The new handlers of uploads have no keys, and no source but a copied part's.
LEMMA NewFields ==
  ASSUME FInv, NEW r \in Requests, NEW u \in Uploads
  PROVE  /\ \A o \in Object : StartCreate(r, u, o) /\ ~Fault =>
              req'[r].keys = {} /\ req'[r].src = Nowhere
         /\ \A p \in PartNumbers : \A n \in PartSizes : StartPart(r, u, p, n) =>
              req'[r].keys = {} /\ req'[r].src = Nowhere
         /\ \A p \in PartNumbers : \A s \in Object : StartPartCopy(r, u, p, s) =>
              req'[r].keys = {} /\ req'[r].src = s
         /\ StartAbort(r, u) \/ StartComplete(r, u) =>
              req'[r].keys = {} /\ req'[r].src = Nowhere
<1>1. req \in [Requests -> AnyHandler]
  BY DEF FInv, TypeOK, AnyHandler, AllOps, AllPcs
<1>2. ASSUME NEW op, NEW pc, NEW o, req' = [req EXCEPT ![r] =
               [NoHandler EXCEPT !.op = op, !.pc = pc, !.obj = o]]
      PROVE  req'[r].keys = {} /\ req'[r].src = Nowhere
  BY <1>1, <1>2 DEF NoHandler
<1>3. ASSUME NEW o \in Object, StartCreate(r, u, o), ~Fault
      PROVE  req'[r].keys = {} /\ req'[r].src = Nowhere
  <2>1. req' = [req EXCEPT ![r] = [NoHandler EXCEPT !.op = "create", !.pc = "open", !.obj = o]]
    BY <1>3 DEF StartCreate
  <2> QED
    BY <1>1, <2>1 DEF NoHandler
<1>4. ASSUME NEW p \in PartNumbers, NEW n \in PartSizes, StartPart(r, u, p, n)
      PROVE  req'[r].keys = {} /\ req'[r].src = Nowhere
  BY <1>1, <1>4 DEF StartPart, PartHandler, NoHandler
<1>5. ASSUME NEW p \in PartNumbers, NEW s \in Object, StartPartCopy(r, u, p, s)
      PROVE  req'[r].keys = {} /\ req'[r].src = s
  BY <1>1, <1>5 DEF StartPartCopy, PartHandler, NoHandler
<1>6. ASSUME StartAbort(r, u) \/ StartComplete(r, u)
      PROVE  req'[r].keys = {} /\ req'[r].src = Nowhere
  BY <1>2, <1>6 DEF StartAbort, StartComplete
<1> QED
  BY <1>3, <1>4, <1>5, <1>6

\* A request starts on an upload.
LEMMA StartUploadShape ==
  ASSUME FInv, NEW r \in Requests, StartUpload(r), faults' = 0
  PROVE  UploadShape(r)
<1>1. ~Fault
  BY NothingLost
<1>2. PICK u \in Uploads :
        \/ \E o \in Object : StartCreate(r, u, o)
        \/ \E p \in PartNumbers : \/ \E n \in PartSizes : StartPart(r, u, p, n)
                                  \/ \E s \in Object : StartPartCopy(r, u, p, s)
        \/ StartAbort(r, u) \/ StartComplete(r, u)
  BY DEF StartUpload
<1>3. ASSUME NEW o \in Object, StartCreate(r, u, o)
      PROVE  Opens(r)
  <2>1. Begun(r, u, "create", "open")
    BY <1>3, CreateBegun
  <2>2. /\ upload[u] = Absent /\ parts[u] = Absent /\ AtWorkOn(u) = {}
        /\ parts' = [parts EXCEPT ![u] = [p \in PartNumbers |-> Absent]]
        /\ UNCHANGED <<row, blob, upload>>
    BY <1>3 DEF StartCreate
  <2>3. \A q \in Requests : ~On(q, u)
    BY <2>2, WorkSets
  <2>4. req'[r].keys = {} /\ req'[r].src = Nowhere
    BY <1>1, <1>3, NewFields
  <2> QED
    BY <2>1, <2>2, <2>3, <2>4 DEF Begun, Opens
<1>4. ASSUME NEW op, NEW pc, BegunOnRow(r, u, op, pc), UNCHANGED <<row, blob>>,
             req'[r].keys = {},
             \/ op = "part" /\ pc = "reserve" /\ req'[r].src = Nowhere
             \/ /\ op = "partcopy" /\ pc = "source" /\ req'[r].src \in Object
                /\ Undisturbed({req'[r].src})
             \/ op = "abort" /\ pc = "forget" /\ req'[r].src = Nowhere
             \/ /\ op = "complete" /\ pc = "assemble" /\ req'[r].src = Nowhere
                /\ NoPartsOf(u) /\ UndisturbedBut(u, upload[u].obj)
                /\ FreshKeys => row[upload[u].obj] = Absent
      PROVE  Joins(r)
  BY <1>4 DEF BegunOnRow, Begun, Joins
<1>5. ASSUME NEW p \in PartNumbers, NEW n \in PartSizes, StartPart(r, u, p, n)
      PROVE  Joins(r)
  <2>1. BegunOnRow(r, u, "part", "reserve") /\ req'[r].keys = {} /\ req'[r].src = Nowhere
    BY <1>5, PartBegun, NewFields
  <2>2. UNCHANGED <<row, blob>>
    BY <1>5 DEF StartPart
  <2> QED
    BY <1>4, <2>1, <2>2
<1>6. ASSUME NEW p \in PartNumbers, NEW s \in Object, StartPartCopy(r, u, p, s)
      PROVE  Joins(r)
  <2>1. BegunOnRow(r, u, "partcopy", "source") /\ req'[r].keys = {} /\ req'[r].src = s
    BY <1>6, PartBegun, NewFields
  <2>2. UNCHANGED <<row, blob>> /\ Undisturbed({s})
    BY <1>6 DEF StartPartCopy
  <2> QED
    BY <1>4, <2>1, <2>2
<1>7. ASSUME StartAbort(r, u)
      PROVE  Joins(r)
  <2>1. BegunOnRow(r, u, "abort", "forget") /\ req'[r].keys = {} /\ req'[r].src = Nowhere
    BY <1>7, EndBegun, NewFields
  <2>2. UNCHANGED <<row, blob>>
    BY <1>7 DEF StartAbort
  <2> QED
    BY <1>4, <2>1, <2>2
<1>8. ASSUME StartComplete(r, u)
      PROVE  Joins(r)
  <2>1. BegunOnRow(r, u, "complete", "assemble") /\ req'[r].keys = {} /\ req'[r].src = Nowhere
    BY <1>8, EndBegun, NewFields
  <2>2. /\ UNCHANGED <<row, blob>> /\ NoPartsOf(u) /\ UndisturbedBut(u, upload[u].obj)
        /\ FreshKeys => row[upload[u].obj] = Absent
    BY <1>8 DEF StartComplete
  <2> QED
    BY <1>4, <2>1, <2>2
<1> QED
  BY <1>2, <1>3, <1>5, <1>6, <1>7, <1>8 DEF UploadShape

\* The steps of parts.
LEMMA PartShape ==
  ASSUME FInv, UploadsApart, NEW r \in Requests, Knows(r), faults' = 0,
         ReadSource(r) \/ SendPart(r) \/ AddReserved(r)
  PROVE  UploadShape(r)
<1>1. ~Fault /\ TypeOK /\ req[r] \in AnyHandler /\ req \in [Requests -> AnyHandler]
  BY NothingLost, Here DEF TypeOK, AnyHandler, AllOps, AllPcs
<1>2. CASE ReadSource(r)
  <2>1. At(r, "source") /\ AllStay
    BY <1>2 DEF ReadSource, AllStay, mvars
  <2>2. CASE row[req[r].src] = Absent
    <3>1. Goes(r, "err")
      BY <1>2, <2>2 DEF ReadSource
    <3>2. <<req[r].pc, "err">> \in Passes /\ "err" \in AllPcs /\ ~At(r, "update")
      BY <2>1 DEF At, Passes, AllPcs, Resting
    <3> QED
      BY <2>1, <3>1, <3>2, PassesHere DEF UploadShape
  <2>3. CASE row[req[r].src] # Absent
    <3> DEFINE n == row[req[r].src]
    <3>1. req' = [req EXCEPT ![r] = [@ EXCEPT !.pc = "reserve", !.size = n, !.delta = n]]
      BY <1>2, <2>3 DEF ReadSource
    <3> HIDE DEF n
    <3>2. req'[r] = [req[r] EXCEPT !.pc = "reserve", !.size = n, !.delta = n]
      BY <1>1, <3>1
    <3>3. /\ req'[r].pc = "reserve" /\ req'[r].size = n
          /\ req'[r].op = req[r].op /\ req'[r].obj = req[r].obj /\ req'[r].src = req[r].src
          /\ req'[r].keys = req[r].keys
      BY <1>1, <3>2 DEF AnyHandler, Handler
    <3> QED
      BY <2>1, <2>3, <3>3 DEF n, ReadsSource, Alike, UploadShape
  <2> QED
    BY <2>2, <2>3
<1>3. CASE SendPart(r)
  <2>1. req[r].op \in PartOps /\ Admitted(r) /\ UNCHANGED <<row, blob, upload, mp>>
    BY <1>3 DEF SendPart
  <2>2. req[r].pc = "admit"
    BY <2>1, Here DEF Admitted, At, Placed, OpAt, WriteOps, PartOps
  <2>3. CASE GiveUp(r) /\ UNCHANGED <<parts, faults>>
    BY <2>1, <2>3, GivesUpHere DEF AllStay, UploadShape
  <2>4. CASE Storable(r) /\ PartStored(r) /\ Goes(r, "add")
    <3>1. req[r].op = "partcopy" => blob[req[r].src] = req[r].size
      BY <2>2 DEF Knows, PartKnows, Active, Resting
    <3>2. parts[mp[r].upload] # Absent
          /\ parts' = [parts EXCEPT ![mp[r].upload][mp[r].part] = req[r].size]
      BY <2>4, <3>1 DEF PartStored, Storable
    <3>3. req'[r].pc = "add" /\ Same(req'[r], req[r])
      BY <1>1, <2>4, GoesOn DEF AllPcs, UploadPcs
    <3> QED
      BY <2>1, <2>2, <3>2, <3>3 DEF StoresPart, UploadShape, At
  <2> QED
    BY <1>1, <1>3, <2>3, <2>4 DEF SendPart
<1>4. CASE AddReserved(r)
  <2>1. At(r, "add") /\ UNCHANGED <<row, blob, parts, mp>>
    BY <1>4 DEF AddReserved
  <2>2. req[r].op \in PartOps /\ Working(r)
    BY <2>1, Here DEF Placed, OpAt, At, Working, Active, Resting, UploadOps, UploadOnlyOps
  <2>3. upload[mp[r].upload] # Absent
    BY <2>2 DEF UploadsApart, ApartAt
  <2>4. /\ upload' = [upload EXCEPT ![mp[r].upload].reserved = @ + req[r].size]
        /\ Goes(r, "ok")
    BY <1>4, <2>3 DEF AddReserved
  <2>5. req'[r].pc = "ok" /\ Same(req'[r], req[r])
    BY <1>1, <2>4, GoesOn DEF AllPcs, Resting
  <2> QED
    BY <2>1, <2>3, <2>4, <2>5 DEF AddsPart, UploadShape
<1> QED
  BY <1>2, <1>3, <1>4

\* What is asked of the store for an upload that ends.
LEMMA AskShape ==
  ASSUME FInv, NEW r \in Requests, faults' = 0, AskStore(r)
  PROVE  UploadShape(r)
<1>1. ~Fault /\ TypeOK /\ req[r] \in AnyHandler /\ req \in [Requests -> AnyHandler]
  BY NothingLost, Here DEF TypeOK, AnyHandler, AllOps, AllPcs
<1>2. {"err", "letgo", "head", "update"} \subseteq AllPcs
  BY DEF AllPcs, UploadPcs, Resting, WritePcs
<1>3. ASSUME Goes(r, "err"), AllStay, req[r].pc \in {"forget", "assemble", "head"}
      PROVE  UploadShape(r)
  <2>1. <<req[r].pc, "err">> \in Passes /\ ~At(r, "update")
    BY <1>3 DEF At, Passes
  <2> QED
    BY <1>2, <1>3, <2>1, PassesHere DEF UploadShape
<1>4. CASE ForgetParts(r)
  <2>1. req[r].pc = "forget" /\ UNCHANGED <<row, blob, upload, mp>>
    BY <1>4 DEF ForgetParts, At
  <2>2. CASE Goes(r, "err") /\ UNCHANGED parts
    BY <1>3, <2>1, <2>2 DEF AllStay
  <2>3. CASE /\ parts[mp[r].upload] # Absent
             /\ parts' = [parts EXCEPT ![mp[r].upload] = Absent] /\ Goes(r, "letgo")
    <3>1. req'[r].pc = "letgo" /\ Same(req'[r], req[r])
      BY <1>1, <1>2, <2>3, GoesOn
    <3> QED
      BY <2>1, <2>3, <3>1 DEF ForgetsParts, UploadShape, At
  <2> QED
    BY <1>1, <1>4, <2>2, <2>3 DEF ForgetParts
<1>5. CASE Assemble(r)
  <2>1. req[r].pc = "assemble" /\ UNCHANGED <<row, upload, mp>>
    BY <1>5 DEF Assemble, At
  <2>2. CASE Goes(r, "err") /\ UNCHANGED <<blob, parts>>
    BY <1>3, <2>1, <2>2 DEF AllStay
  <2>3. CASE Assembled(r) /\ Goes(r, "head")
    <3>1. req'[r].pc = "head" /\ Same(req'[r], req[r])
      BY <1>1, <1>2, <2>3, GoesOn
    <3> QED
      BY <2>1, <2>3, <3>1 DEF Assembles, UploadShape, At
  <2> QED
    BY <1>1, <1>5, <2>2, <2>3 DEF Assemble
<1>6. CASE HeadObject(r)
  <2>1. req[r].pc = "head" /\ AllStay
    BY <1>6 DEF HeadObject, At, AllStay, mvars
  <2>2. CASE Goes(r, "err")
    BY <1>3, <2>1, <2>2
  <2>3. CASE /\ blob[req[r].obj] # Absent
             /\ req' = [req EXCEPT ![r].pc = "update", ![r].size = blob[req[r].obj]]
    <3> DEFINE n == blob[req[r].obj]
    <3> HIDE DEF n
    <3>1. req'[r] = [req[r] EXCEPT !.pc = "update", !.size = n]
      BY <1>1, <2>3 DEF n
    <3>2. /\ req'[r].pc = "update" /\ req'[r].size = n
          /\ req'[r].op = req[r].op /\ req'[r].obj = req[r].obj /\ req'[r].src = req[r].src
          /\ req'[r].keys = req[r].keys
      BY <1>1, <3>1 DEF AnyHandler, Handler
    <3> QED
      BY <2>1, <2>3, <3>2 DEF n, ReadsHead, Alike, UploadShape, At
  <2> QED
    BY <1>6, <2>2, <2>3 DEF HeadObject
<1> QED
  BY <1>4, <1>5, <1>6 DEF AskStore

\* And its accounts.
LEMMA EndShape ==
  ASSUME FInv, NEW r \in Requests, faults' = 0,
         InsertUpload(r) \/ LetGo(r) \/ DropUpload(r) \/ CommitParts(r) \/ SettleDifference(r)
  PROVE  UploadShape(r)
<1>1. TypeOK /\ live = Buckets /\ Placed(req[r], call[r], mp[r])
  BY Here
<1>2. {"drop", "ok", "difference"} \subseteq AllPcs
  BY DEF AllPcs, UploadPcs, Resting
<1>3. CASE InsertUpload(r)
  <2>1. /\ At(r, "open") /\ Goes(r, "ok") /\ UNCHANGED <<row, blob, parts, mp>>
        /\ upload' = [upload EXCEPT ![mp[r].upload] = [obj |-> req[r].obj, reserved |-> 0]]
    BY <1>3 DEF InsertUpload
  <2>2. req'[r].pc = "ok" /\ Same(req'[r], req[r])
    BY <1>1, <1>2, <2>1, GoesOn
  <2> QED
    BY <2>1, <2>2 DEF InsertsUpload, UploadShape
<1>4. CASE DropUpload(r)
  <2>1. At(r, "drop") /\ UNCHANGED <<row, blob, parts, mp>>
    BY <1>4 DEF DropUpload
  <2>2. call[r].at # "failed"
    BY <1>1, <2>1 DEF Placed, CallAt, At
  <2>3. upload' = [upload EXCEPT ![mp[r].upload] = Absent] /\ Goes(r, "ok")
    BY <1>4, <2>2 DEF DropUpload
  <2>4. req'[r].pc = "ok" /\ Same(req'[r], req[r])
    BY <1>1, <1>2, <2>3, GoesOn
  <2> QED
    BY <2>1, <2>3, <2>4 DEF DropsUpload, UploadShape
<1>5. CASE LetGo(r) \/ CommitParts(r)
  <2>1. AllStay /\ req[r].pc \in {"letgo", "account"}
    BY <1>5 DEF LetGo, CommitParts, AllStay, mvars, At
  <2>2. req[r].obj \in Object
    BY <2>1, ItsObjects DEF Resting
  <2>3. BucketOf(req[r].obj) \in live
    BY <1>1, <2>2, ItsBucket
  <2>4. \/ Goes(r, "drop") /\ req[r].pc = "letgo"
        \/ Goes(r, "difference") /\ req[r].pc = "account"
    BY <1>5, <2>3 DEF LetGo, CommitParts, At
  <2>5. <<"letgo", "drop">> \in Passes /\ <<"account", "difference">> \in Passes
        /\ ~At(r, "update")
    BY <2>1 DEF Passes, At
  <2> QED
    BY <1>2, <2>1, <2>4, <2>5, PassesHere DEF UploadShape
<1>6. CASE SettleDifference(r)
  <2>1. AllStay /\ req[r].pc = "difference" /\ Goes(r, "drop")
    BY <1>6 DEF SettleDifference, AllStay, mvars, At
  <2>2. <<"difference", "drop">> \in Passes /\ ~At(r, "update")
    BY <2>1 DEF Passes, At
  <2> QED
    BY <1>2, <2>1, <2>2, PassesHere DEF UploadShape
<1> QED
  BY <1>3, <1>4, <1>5, <1>6

\* So every step of an upload has one of its shapes.
LEMMA UploadShapes ==
  ASSUME FInv, UploadsApart, NEW r \in Requests, UploadStep(r), Knows(r), faults' = 0
  PROVE  UploadShape(r)
  BY StartUploadShape, PartShape, AskShape, EndShape DEF UploadStep, ProceedUpload

\* And every step one of them all.
LEMMA Shapes ==
  ASSUME FInv, UploadsApart, NEW r \in Requests, Step(r), Plain(r), Knows(r), faults' = 0
  PROVE  ObjectShape(r) \/ UploadShape(r)
  BY ObjectShapes, UploadShapes DEF Step

----------------------------------------------------------------------------
(* Requests at work keep off each other's objects. *)

\* What a handler touches.
TouchedBy(h) ==
  h.keys \cup ({IF h.op \in UploadOnlyOps THEN Nowhere ELSE h.obj, h.src} \ {Nowhere})

\* But for those that complete the same upload, which the store tells apart.
KeysApart ==
  \A q, r \in Requests : q # r /\ Active(q) /\ Active(r) =>
    \/ TouchedBy(req[q]) \cap TouchedBy(req[r]) = {}
    \/ Completing(q) /\ Completing(r) /\ mp[q].upload = mp[r].upload

\* What a request is said to touch.
LEMMA TouchesIs ==
  ASSUME NEW r \in Requests
  PROVE  Touches(r) = TouchedBy(req[r])
  BY DEF Touches, TouchedBy

\* A request that goes on touches nothing new.
Steady(r) ==
  /\ Active(r) /\ req'[r].op = req[r].op /\ mp'[r] = mp[r]
  /\ TouchedBy(req'[r]) \subseteq TouchedBy(req[r])

\* One that starts keeps off the others, but for those ending the same upload.
Starting(r) ==
  /\ ~Active(r)
  /\ Active(r)' =>
       \A q \in Requests : q # r /\ Active(q) =>
         \/ TouchedBy(req[q]) \cap TouchedBy(req'[r]) = {}
         \/ Completing(q) /\ req'[r].op = "complete" /\ mp[q].upload = mp'[r].upload

\* Who is where in its handler.
LEMMA WorkingAt ==
  ASSUME FInv, NEW r \in Requests
  PROVE  /\ req[r].pc \in WritePcs \cup DeletePcs \cup UploadPcs => Active(r)
         /\ req[r].pc \in {"begin", "send", "commit"} => Writing(r)
         /\ req[r].pc \in DeletePcs => req[r].op \in Deletes
         /\ req[r].pc \in {"update", "insert", "reread", "account"} => Writing(r) \/ Completing(r)
         /\ Active(r) /\ Completing(r) => Working(r)
         /\ Active(r) /\ Completing(r) /\ ~Through(r) => At(r, "assemble")
<1>1. OpAt(req[r])
  BY Here DEF Placed
<1>2. req[r].pc \in AllPcs
  BY ItsObjects
<1> QED
  BY <1>1, <1>2 DEF OpAt, Active, Resting, WritePcs, DeletePcs, UploadPcs, AllPcs, Writing, WriteOps,
     Deletes, Completing, Working, UploadOps, Through, Enders, At

\* What it touches while it works.
LEMMA TouchedAt ==
  ASSUME FInv, NEW r \in Requests, Active(r)
  PROVE  /\ Writing(r) \/ Completing(r) => req[r].obj \in TouchedBy(req[r]) /\ req[r].obj \in Object
         /\ req[r].keys \subseteq TouchedBy(req[r])
         /\ req[r].op \in {"copy", "partcopy"} =>
              req[r].src \in TouchedBy(req[r]) /\ req[r].src \in Object
<1>1. Writing(r) \/ Completing(r) => req[r].obj \in Object
  <2>1. Writing(r) \/ Completing(r) => req[r].pc # "find"
    BY Here DEF Placed, OpAt, Writing, WriteOps, Completing, DeletePcs
  <2> QED
    BY <2>1, ItsObjects DEF Active
<1>2. req[r].op \in {"copy", "partcopy"} => req[r].src \in Object
  BY ItsObjects
<1>3. Writing(r) \/ Completing(r) => req[r].op \notin UploadOnlyOps
  BY DEF Writing, WriteOps, Completing, UploadOnlyOps, PartOps
<1>4. \A o \in Object : o # Nowhere
  BY ItsBucket
<1> QED
  BY <1>1, <1>2, <1>3, <1>4 DEF TouchedBy

\* The shapes of starting requests are five; the others go on.
LEMMA GoingOn ==
  ASSUME FInv, NEW r \in Requests,
         \/ PassesOn(r) \/ BeginsWriting(r) \/ Sends(r) \/ WritesRow(r) \/ SkipsKey(r)
         \/ FindsRow(r) \/ RemovesRow(r) \/ ReadsSource(r) \/ StoresPart(r) \/ AddsPart(r)
         \/ InsertsUpload(r) \/ ForgetsParts(r) \/ DropsUpload(r) \/ Assembles(r) \/ ReadsHead(r)
  PROVE  Steady(r)
<1>1. ASSUME Same(req'[r], req[r]) \/ Alike(req'[r], req[r])
      PROVE  TouchedBy(req'[r]) = TouchedBy(req[r]) /\ req'[r].op = req[r].op
  BY <1>1 DEF Same, Alike, TouchedBy
<1>2. CASE PassesOn(r)
  <2>1. Active(r)
    BY <1>2 DEF PassesOn, Passes, Active, Resting, Waiting
  <2> QED
    BY <1>1, <1>2, <2>1 DEF PassesOn, AllStay, Steady
<1>3. CASE \/ BeginsWriting(r) \/ Sends(r) \/ WritesRow(r) \/ RemovesRow(r) \/ ReadsSource(r)
           \/ StoresPart(r) \/ AddsPart(r) \/ InsertsUpload(r) \/ ForgetsParts(r) \/ DropsUpload(r)
           \/ Assembles(r) \/ ReadsHead(r)
  <2>1. /\ Same(req'[r], req[r]) \/ Alike(req'[r], req[r])
        /\ mp' = mp
        /\ req[r].pc \in {"begin", "admit", "send", "update", "insert", "remove", "source", "add",
                          "open", "forget", "drop", "assemble", "head"}
    BY <1>3 DEF BeginsWriting, Sends, WritesRow, RemovesRow, ReadsSource, StoresPart, AddsPart,
       InsertsUpload, ForgetsParts, DropsUpload, Assembles, ReadsHead, AllStay, At
  <2>2. Active(r)
    BY <2>1 DEF Active, Resting
  <2> QED
    BY <1>1, <2>1, <2>2 DEF Steady
<1>4. CASE SkipsKey(r)
  <2>1. /\ req[r].pc \in {"find", "credited"} /\ mp' = mp /\ req'[r].op = req[r].op
        /\ req'[r].src = req[r].src /\ req'[r].obj = Nowhere /\ req'[r].keys \subseteq req[r].keys
    BY <1>4 DEF SkipsKey, AllStay
  <2>2. Active(r)
    BY <2>1 DEF Active, Resting
  <2> QED
    BY <2>1, <2>2 DEF Steady, TouchedBy
<1>5. CASE FindsRow(r)
  <2>1. /\ req[r].pc = "find" /\ mp' = mp /\ req'[r].op = req[r].op
        /\ req'[r].src = req[r].src /\ req'[r].obj \in req[r].keys /\ req'[r].keys = req[r].keys
    BY <1>5 DEF FindsRow, AllStay, At
  <2>2. Active(r)
    BY <2>1 DEF Active, Resting
  <2> QED
    BY <2>1, <2>2 DEF Steady, TouchedBy
<1> QED
  BY <1>2, <1>3, <1>4, <1>5

\* A request that starts at objects.
LEMMA StartingApart ==
  ASSUME SerialKeys, FInv, NEW r \in Requests,
         BeginsPut(r) \/ BeginsCopy(r) \/ BeginsDelete(r) \/ Opens(r)
  PROVE  Starting(r)
<1>1. ASSUME NEW O, Undisturbed(O), TouchedBy(req'[r]) \subseteq O, ~Active(r)
      PROVE  Starting(r)
  <2>1. \A q \in Requests : Active(q) => TouchedBy(req[q]) \cap O = {}
    BY <1>1, TouchesIs DEF Undisturbed
  <2> QED
    BY <1>1, <2>1 DEF Starting
<1>2. CASE BeginsPut(r)
  <2>1. TouchedBy(req'[r]) \subseteq {req'[r].obj}
    BY <1>2 DEF BeginsPut, TouchedBy
  <2> QED
    BY <1>1, <1>2, <2>1 DEF BeginsPut
<1>3. CASE BeginsCopy(r)
  <2>1. TouchedBy(req'[r]) \subseteq {req'[r].src, req'[r].obj}
    BY <1>3 DEF BeginsCopy, TouchedBy
  <2> QED
    BY <1>1, <1>3, <2>1 DEF BeginsCopy
<1>4. CASE BeginsDelete(r)
  <2>1. TouchedBy(req'[r]) \subseteq req'[r].keys
    BY <1>4 DEF BeginsDelete, TouchedBy
  <2> QED
    BY <1>1, <1>4, <2>1 DEF BeginsDelete
<1>5. CASE Opens(r)
  <2>1. TouchedBy(req'[r]) = {} /\ ~Active(r)
    BY <1>5 DEF Opens, TouchedBy, UploadOnlyOps
  <2> QED
    BY <2>1 DEF Starting
<1> QED
  BY <1>2, <1>3, <1>4, <1>5

\* A request that starts on an upload's row.
LEMMA JoiningApart ==
  ASSUME SerialKeys, FInv, UploadsApart, NEW r \in Requests, Joins(r),
         \A q \in Requests : Plain(q)
  PROVE  Starting(r)
<1> DEFINE g == req'[r]
           u == mp'[r].upload
<1>1. ~Active(r) /\ u \in Uploads /\ upload[u] # Absent /\ g.keys = {}
  BY DEF Joins
<1>2. CASE g.op \in {"part", "abort"} /\ g.src = Nowhere
  <2>1. TouchedBy(g) = {}
    BY <1>1, <1>2 DEF TouchedBy, UploadOnlyOps, PartOps
  <2> QED
    BY <1>1, <2>1 DEF Starting
<1>3. CASE g.op = "partcopy" /\ Undisturbed({g.src})
  <2>1. TouchedBy(g) \subseteq {g.src}
    BY <1>1, <1>3 DEF TouchedBy, UploadOnlyOps, PartOps
  <2>2. \A q \in Requests : Active(q) => TouchedBy(req[q]) \cap {g.src} = {}
    BY <1>3, TouchesIs DEF Undisturbed
  <2> QED
    BY <1>1, <2>1, <2>2 DEF Starting
<1>4. CASE /\ g.op = "complete" /\ g.src = Nowhere
           /\ NoPartsOf(u) /\ UndisturbedBut(u, g.obj)
  <2>1. TouchedBy(g) \subseteq {g.obj}
    BY <1>1, <1>4 DEF TouchedBy
  <2>2. ASSUME NEW q \in Requests, q # r, Active(q)
        PROVE  \/ TouchedBy(req[q]) \cap TouchedBy(g) = {}
               \/ Completing(q) /\ g.op = "complete" /\ mp[q].upload = u
    <3>1. CASE ~On(q, u)
      <4>1. q \in Requests \ AtWorkOn(u)
        BY <3>1, WorkSets
      <4>2. g.obj \notin TouchedBy(req[q])
        BY <1>4, <2>2, <4>1, TouchesIs DEF UndisturbedBut
      <4> QED
        BY <2>1, <4>2
    <3>2. CASE On(q, u)
      <4>1. q \in AtWorkOn(u) /\ Working(q) /\ mp[q].upload = u
        BY <3>2, WorkSets DEF On
      <4>2. req[q].op \notin PartOps /\ req[q].op \in UploadOps
        BY <1>4, <4>1 DEF NoPartsOf, Working
      <4>3. req[q].op # "create"
        BY <1>1, <4>1 DEF UploadsApart, ApartAt
      <4>4. req[q].op \in {"abort", "complete"}
        BY <4>2, <4>3 DEF UploadOps, UploadOnlyOps
      <4>5. req[q].op = "abort" => TouchedBy(req[q]) = {}
        BY <2>2 DEF Plain, Deletes, TouchedBy, UploadOnlyOps
      <4> QED
        BY <1>4, <4>1, <4>4, <4>5 DEF Completing
    <3> QED
      BY <3>1, <3>2
  <2> QED
    BY <1>1, <2>2 DEF Starting
<1> QED
  BY <1>2, <1>3, <1>4 DEF Joins

\* So a request goes on or keeps off.
LEMMA KeepsOff ==
  ASSUME SerialKeys, FInv, UploadsApart, NEW r \in Requests, ObjectShape(r) \/ UploadShape(r),
         \A q \in Requests : Plain(q)
  PROVE  Steady(r) \/ Starting(r)
  BY GoingOn, StartingApart, JoiningApart DEF ObjectShape, UploadShape

\* Requests at work stay off each other's objects.
LEMMA KeysStayApart ==
  ASSUME NEW r \in Requests, Together(r), KeysApart, Steady(r) \/ Starting(r)
  PROVE  KeysApart'
<1>1. ASSUME NEW q \in Requests, q # r
      PROVE  req'[q] = req[q] /\ mp'[q] = mp[q] /\ (Active(q)' <=> Active(q))
             /\ (Completing(q)' <=> Completing(q))
  BY <1>1, OthersStay DEF Active, Completing
<1>2. ASSUME NEW q \in Requests, q # r, Active(q)', Active(r)'
      PROVE  \/ TouchedBy(req'[q]) \cap TouchedBy(req'[r]) = {}
             \/ Completing(q)' /\ Completing(r)' /\ mp'[q].upload = mp'[r].upload
  BY <1>1, <1>2 DEF KeysApart, Steady, Starting, Completing
<1>3. ASSUME NEW q \in Requests, NEW s \in Requests, q # s, Active(q)', Active(s)'
      PROVE  \/ TouchedBy(req'[q]) \cap TouchedBy(req'[s]) = {}
             \/ Completing(q)' /\ Completing(s)' /\ mp'[q].upload = mp'[s].upload
  <2>1. CASE q # r /\ s # r
    BY <1>1, <1>3, <2>1 DEF KeysApart
  <2>2. CASE s = r
    BY <1>2, <1>3, <2>2
  <2>3. CASE q = r
    BY <1>2, <1>3, <2>3
  <2> QED
    BY <2>1, <2>2, <2>3
<1> QED
  BY <1>3 DEF KeysApart

\* A handler's fields stay plain.
LEMMA PlainStays ==
  ASSUME FInv, NEW r \in Requests, ObjectShape(r) \/ UploadShape(r), Plain(r)
  PROVE  Plain(r)'
<1>1. CASE \/ BeginsPut(r) \/ BeginsCopy(r) \/ BeginsDelete(r) \/ Opens(r) \/ Joins(r)
  <2>1. req'[r].op \notin Deletes => req'[r].keys = {}
    BY <1>1 DEF BeginsPut, BeginsCopy, BeginsDelete, Opens, Joins
  <2>2. req'[r].op \notin {"copy", "partcopy"} => req'[r].src = Nowhere
    BY <1>1 DEF BeginsPut, BeginsCopy, BeginsDelete, Opens, Joins
  <2> QED
    BY <2>1, <2>2 DEF Plain
<1>2. CASE SkipsKey(r) \/ FindsRow(r)
  <2>1. /\ req[r].pc \in DeletePcs
        /\ req'[r].op = req[r].op /\ req'[r].src = req[r].src
    BY <1>2 DEF SkipsKey, FindsRow, At, DeletePcs
  <2> QED
    BY <2>1, WorkingAt DEF Plain
<1>3. CASE ~(\/ BeginsPut(r) \/ BeginsCopy(r) \/ BeginsDelete(r) \/ Opens(r) \/ Joins(r)
             \/ SkipsKey(r) \/ FindsRow(r))
  <2>1. Steady(r)
    BY <1>3, GoingOn DEF ObjectShape, UploadShape
  <2>2. Same(req'[r], req[r]) \/ Alike(req'[r], req[r])
    BY <1>3 DEF ObjectShape, UploadShape, PassesOn, BeginsWriting, Sends, WritesRow, RemovesRow,
       ReadsSource, StoresPart, AddsPart, InsertsUpload, ForgetsParts, DropsUpload, Assembles, ReadsHead
  <2> QED
    BY <2>1, <2>2 DEF Plain, Steady, Same, Alike
<1> QED
  BY <1>1, <1>2, <1>3

----------------------------------------------------------------------------
(* What a step changes of objects is its own request's.                    *)

\* The shapes that leave the rows and the store.
LEMMA QuietShapes ==
  ASSUME NEW r \in Requests, ObjectShape(r) \/ UploadShape(r),
         ~Sends(r), ~WritesRow(r), ~BeginsDelete(r), ~RemovesRow(r), ~Assembles(r)
  PROVE  UNCHANGED <<row, blob>>
  BY DEF ObjectShape, UploadShape, PassesOn, BeginsPut, BeginsCopy, BeginsWriting, SkipsKey,
     FindsRow, Opens, Joins, ReadsSource, StoresPart, AddsPart, InsertsUpload, ForgetsParts,
     DropsUpload, ReadsHead, AllStay

\* The others change the row or the contents of one object, or delete some.
LEMMA OwnObjects ==
  ASSUME FInv, NEW r \in Requests, Knows(r), ObjectShape(r) \/ UploadShape(r), NEW o \in Object,
         row'[o] # row[o] \/ blob'[o] # blob[o]
  PROVE  \/ Active(r) /\ o \in TouchedBy(req[r]) /\ ~Completing(r)
         \/ /\ Active(r) /\ Completing(r) /\ o \in TouchedBy(req[r])
            /\ Assembles(r) \/ WritesRow(r)
         \/ ~Active(r) /\ Active(r)' /\ o \in TouchedBy(req'[r]) /\ ~Completing(r)'
<1>1. CASE Sends(r)
  <2>1. Active(r) /\ Writing(r) /\ ~Completing(r)
    BY <1>1, WorkingAt DEF Sends, WritePcs, Active, Resting, Completing, Writing, WriteOps
  <2>2. o = req[r].obj
    BY <1>1 DEF Sends
  <2> QED
    BY <2>1, <2>2, TouchedAt
<1>2. CASE WritesRow(r)
  <2>1. req[r].pc \in {"update", "insert"} /\ o = req[r].obj
    BY <1>2 DEF WritesRow, At
  <2>2. Active(r) /\ (Writing(r) \/ Completing(r))
    BY <2>1, WorkingAt DEF WritePcs
  <2> QED
    BY <1>2, <2>1, <2>2, TouchedAt
<1>3. CASE BeginsDelete(r)
  <2>1. o \in req'[r].keys
    BY <1>3 DEF BeginsDelete, Erase
  <2>2. ~Active(r) /\ Active(r)' /\ ~Completing(r)'
    BY <1>3 DEF BeginsDelete, Active, Resting, Completing, Deletes
  <2> QED
    BY <2>1, <2>2 DEF TouchedBy
<1>4. CASE RemovesRow(r)
  <2>1. req[r].pc = "remove" /\ o = req[r].obj
    BY <1>4 DEF RemovesRow, At
  <2>2. Active(r) /\ req[r].op \in Deletes /\ req[r].obj \in req[r].keys
    BY <2>1, WorkingAt DEF DeletePcs, Knows, DeleteKnows
  <2> QED
    BY <2>1, <2>2 DEF TouchedBy, Completing, Deletes
<1>5. CASE Assembles(r)
  <2>1. req[r].pc = "assemble" /\ o = req[r].obj
    BY <1>5 DEF Assembles, Assembled, At
  <2>2. Active(r) /\ Completing(r)
    BY <2>1, Here DEF Active, Resting, Completing, Placed, OpAt
  <2> QED
    BY <1>5, <2>1, <2>2, TouchedAt
<1> QED
  BY <1>1, <1>2, <1>3, <1>4, <1>5, QuietShapes

\* A second request to complete an upload waits for a store that has forgotten it.
Waits(q) == Completing(q) /\ At(q, "assemble") /\ parts[mp[q].upload] = Absent

\* What another request touches stays as it is, but where both complete the same upload.
LEMMA OthersUntouched ==
  ASSUME FInv, UploadsApart, KeysApart, KeysApart', NEW r \in Requests, Together(r), Knows(r),
         ObjectShape(r) \/ UploadShape(r), NEW q \in Requests \ {r}, Active(q)
  PROVE  \/ Waits(q)'
         \/ \A o \in TouchedBy(req[q]) : o \in Object => row'[o] = row[o] /\ blob'[o] = blob[o]
<1>1. req'[q] = req[q] /\ mp'[q] = mp[q] /\ Active(q)'
  BY OthersStay DEF Active
<1>2. ASSUME NEW o \in TouchedBy(req[q]), o \in Object, row'[o] # row[o] \/ blob'[o] # blob[o]
      PROVE  Waits(q)'
  <2>1. ~(Active(r) /\ o \in TouchedBy(req[r]) /\ ~Completing(r))
    BY <1>2 DEF KeysApart
  <2>2. ~(Active(r)' /\ o \in TouchedBy(req'[r]) /\ ~Completing(r)')
    BY <1>1, <1>2 DEF KeysApart
  <2>3. /\ Active(r) /\ Completing(r) /\ o \in TouchedBy(req[r])
        /\ Assembles(r) \/ WritesRow(r)
    BY <1>2, <2>1, <2>2, OwnObjects
  <2>4. Completing(q) /\ mp[q].upload = mp[r].upload
    BY <1>2, <2>3 DEF KeysApart
  <2> DEFINE u == mp[r].upload
  <2>5. Working(q) /\ Working(r) /\ On(q, u) /\ On(r, u)
    BY <2>3, <2>4, WorkingAt DEF On
  <2>6. ~Through(q) /\ parts'[u] = Absent
    <3>1. CASE WritesRow(r)
      <4>1. Through(r)
        BY <2>3, <2>5, <3>1 DEF Through, WritesRow, At, Enders, Completing
      <4> QED
        BY <2>5, <3>1, <4>1 DEF UploadsApart, ApartAt, WritesRow
    <3>2. CASE Assembles(r)
      <4>1. parts[u] # Absent /\ parts' = [parts EXCEPT ![u] = Absent]
        BY <3>2 DEF Assembles, Assembled
      <4>2. u \in Uploads /\ parts'[u] = Absent
        BY <2>3, <4>1, ItsUpload DEF Completing, UploadOps, FInv, TypeOK
      <4> QED
        BY <2>5, <4>1, <4>2 DEF UploadsApart, ApartAt, On
    <3> QED
      BY <2>3, <3>1, <3>2
  <2>7. At(q, "assemble")
    BY <2>4, <2>6, WorkingAt
  <2> QED
    BY <1>1, <2>4, <2>6, <2>7 DEF Waits, Completing, At
<1> QED
  BY <1>2

\* The store gets to know parts again of no upload that a request is at work on.
LEMMA PartsReturn ==
  ASSUME FInv, NEW r \in Requests, ObjectShape(r) \/ UploadShape(r), NEW u \in Uploads,
         parts[u] = Absent, parts'[u] # Absent
  PROVE  Opens(r) /\ u = mp'[r].upload /\ \A q \in Requests : ~On(q, u)
<1>1. parts \in [Uploads -> [PartNumbers -> Nat \cup {Absent}] \cup {Absent}]
  BY DEF FInv, TypeOK
<1>2. ~StoresPart(r)
  BY <1>1 DEF StoresPart
<1>3. ~ForgetsParts(r) /\ ~Assembles(r)
  BY <1>1 DEF ForgetsParts, Assembles, Assembled
<1>4. Opens(r)
  BY <1>2, <1>3 DEF ObjectShape, UploadShape, PassesOn, BeginsPut, BeginsCopy, BeginsWriting,
     SkipsKey, FindsRow, Joins, ReadsSource, AddsPart, InsertsUpload, Sends, WritesRow,
     BeginsDelete, RemovesRow, DropsUpload, ReadsHead, AllStay
<1> QED
  BY <1>1, <1>4 DEF Opens

\* So what the others know stays true.
LEMMA OthersKnow ==
  ASSUME FInv, UploadsApart, KeysApart, KeysApart', NEW r \in Requests, Together(r), Knows(r),
         ObjectShape(r) \/ UploadShape(r), NEW q \in Requests \ {r}, Knows(q)
  PROVE  Knows(q)'
<1>1. req'[q] = req[q] /\ mp'[q] = mp[q]
  BY OthersStay
<1>2. CASE ~Active(q)
  <2>1. ~Active(q)' /\ req'[q].pc \notin DeletePcs
    BY <1>1, <1>2, WorkingAt DEF Active
  <2> QED
    BY <2>1 DEF Knows, WriteKnows, DeleteKnows, PartKnows, CompleteKnows
<1>3. CASE Active(q) /\ Waits(q)'
  <2>1. /\ req'[q].op = "complete" /\ req'[q].pc = "assemble" /\ parts'[mp'[q].upload] = Absent
    BY <1>3 DEF Waits, Completing, At
  <2> QED
    BY <2>1 DEF Knows, WriteKnows, DeleteKnows, PartKnows, CompleteKnows, Writing, WriteOps, DeletePcs,
       Sending
<1>4. CASE Active(q) /\ \A o \in TouchedBy(req[q]) : o \in Object => row'[o] = row[o] /\ blob'[o] = blob[o]
  <2>1. /\ Writing(q) \/ Completing(q) =>
             row'[req[q].obj] = row[req[q].obj] /\ blob'[req[q].obj] = blob[req[q].obj]
        /\ req[q].op \in {"copy", "partcopy"} =>
             row'[req[q].src] = row[req[q].src] /\ blob'[req[q].src] = blob[req[q].src]
        /\ \A o \in req[q].keys : row'[o] = row[o] /\ blob'[o] = blob[o]
    BY <1>4, TouchedAt, ItsObjects
  <2>2. WriteKnows(q)'
    BY <1>1, <1>4, <2>1 DEF Knows, WriteKnows, Writing, WriteOps, Active
  <2>3. DeleteKnows(q)'
    BY <1>1, <2>1 DEF Knows, DeleteKnows
  <2>4. PartKnows(q)'
    BY <1>1, <1>4, <2>1 DEF Knows, PartKnows, Active
  <2>5. CompleteKnows(q)'
    <3>1. Completing(q) => (parts'[mp[q].upload] # Absent => parts[mp[q].upload] # Absent)
      <4>1. Completing(q) => Working(q) /\ mp[q].upload \in Uploads
        BY <1>4, WorkingAt, ItsUpload DEF Completing, UploadOps
      <4> QED
        BY <4>1, PartsReturn DEF On
    <3> QED
      BY <1>1, <1>4, <2>1, <3>1 DEF Knows, CompleteKnows, Completing, Active
  <2> QED
    BY <2>2, <2>3, <2>4, <2>5 DEF Knows
<1> QED
  BY <1>2, <1>3, <1>4, OthersUntouched

----------------------------------------------------------------------------
(* The rows fit the store, objects without a row are sheltered by who made *)
(* them, and the parts of an upload are on its row or on their way there.  *)

\* An object's row says what the store has of it.
Fits(o) == row[o] # Absent => blob[o] = row[o]

\* But while a write that has stored it comes to its row, and while it is deleted.
Changing(r, o) ==
  \/ Writing(r) /\ At(r, "update") /\ req[r].obj = o
  \/ req[r].pc \in DeletePcs /\ o \in req[r].keys

RowsFit == \A o \in Object : Fits(o) \/ \E r \in Requests : Changing(r, o)

\* The upload an object was assembled of still has its row and its hold, of which the
\* object is no more; whoever ends it has yet to make the object's row.
Shelters(u, o) ==
  /\ upload[u] # Absent /\ parts[u] = Absent /\ upload[u].obj = o
  /\ blob[o] # Absent /\ blob[o] <= upload[u].reserved
  /\ \A q \in Requests : On(q, u) /\ Through(q) =>
       Completing(q) /\ req[q].pc \notin {"difference", "drop"}

OrphansKept ==
  \A o \in Object : row[o] = Absent /\ blob[o] # Absent =>
    \/ \E u \in Uploads : Shelters(u, o)
    \/ \E r \in Requests : Writing(r) /\ req[r].pc \in Sending /\ req[r].obj = o

\* What a part is about to add to its upload's row, and the bytes of the parts it has.
AddTo(r, u) == IF At(r, "add") /\ mp[r].upload = u THEN req[r].size ELSE 0

Adds(u) == [r \in Requests |-> AddTo(r, u)]

OnRow(u) == IF upload[u] = Absent THEN 0 ELSE upload[u].reserved

PartBytes(u) == [p \in PartNumbers |-> Stored(parts[u][p])]

InParts(u) == Total(PartBytes(u), PartNumbers)

PartsHeld ==
  \A u \in Uploads : parts[u] # Absent => InParts(u) <= OnRow(u) + Total(Adds(u), Requests)

\* All of it, at one moment.
Calm == KeysApart /\ (\A r \in Requests : Aware(r)) /\ RowsFit /\ OrphansKept /\ PartsHeld

\* An upload's row, its parts, and what is being added, are numbers from 0.
LEMMA PartNumbersAre ==
  ASSUME FInv, NEW u \in Uploads
  PROVE  /\ \A r \in Requests : Adds(u)[r] = AddTo(r, u) /\ AddTo(r, u) \in Nat
         /\ Total(Adds(u), Requests) \in Nat
         /\ OnRow(u) \in Nat
         /\ parts[u] # Absent => /\ \A p \in PartNumbers : PartBytes(u)[p] \in Nat
                                 /\ InParts(u) \in Nat
<1>1. ASSUME NEW r \in Requests
      PROVE  Adds(u)[r] = AddTo(r, u) /\ AddTo(r, u) \in Nat
  BY Here DEF Adds, AddTo
<1>2. Total(Adds(u), Requests) \in Nat
  BY <1>1, FiniteAssumption, TotalNat
<1>3. OnRow(u) \in Nat
  BY UploadRow DEF OnRow, FInv
<1>4. ASSUME parts[u] # Absent
      PROVE  (\A p \in PartNumbers : PartBytes(u)[p] \in Nat) /\ InParts(u) \in Nat
  <2>1. \A p \in PartNumbers : parts[u][p] \in Nat \cup {Absent}
    BY <1>4 DEF FInv, TypeOK
  <2>2. \A p \in PartNumbers : PartBytes(u)[p] \in Nat
    BY <2>1 DEF PartBytes, Stored
  <2> QED
    BY <2>2, UploadsAssumption, TotalNat DEF InParts
<1> QED
  BY <1>1, <1>2, <1>3, <1>4

\* An object is made of some of the parts, so it is no bigger than all of them.
LEMMA ListedFits ==
  ASSUME FInv, NEW u \in Uploads, parts[u] # Absent,
         NEW listed \in SUBSET {p \in PartNumbers : parts[u][p] # Absent}
  PROVE  /\ MapThenSumSet(LAMBDA p : parts[u][p], listed) \in Nat
         /\ MapThenSumSet(LAMBDA p : parts[u][p], listed) <= InParts(u)
<1> DEFINE h == [p \in PartNumbers |-> IF p \in listed THEN parts[u][p] ELSE 0]
           f == parts[u]
<1>1. MapThenSumSet(LAMBDA p : parts[u][p], listed) \in Nat
  BY PartsSum DEF FInv
<1>2. \A p \in PartNumbers : parts[u][p] \in Nat \cup {Absent}
  BY DEF FInv, TypeOK
<1>3. \A p \in listed : f[p] \in Int /\ h[p] = f[p]
  BY <1>2
<1>4. \A p \in PartNumbers \ listed : h[p] = 0
  OBVIOUS
<1>5. \A p \in PartNumbers : /\ h[p] \in Int /\ PartBytes(u)[p] \in Int
                             /\ h[p] <= PartBytes(u)[p]
  BY <1>2, AbsentAssumption DEF PartBytes, Stored
<1>6. Total(h, PartNumbers) <= InParts(u)
  <2> HIDE DEF h
  <2> QED
    BY <1>5, UploadsAssumption, TotalMono DEF InParts
<1>7. Total(f, listed) = Total(h, PartNumbers)
  <2> HIDE DEF h, f
  <2> QED
    BY <1>3, <1>4, UploadsAssumption, TotalPart
<1> QED
  BY <1>1, <1>6, <1>7 DEF Total

\* While one ends an upload no part is on its way to the row.
LEMMA NothingAdded ==
  ASSUME FInv, UploadsApart, NEW r \in Requests, Working(r), req[r].op \in Enders
  PROVE  Total(Adds(mp[r].upload), Requests) = 0
<1> DEFINE u == mp[r].upload
<1>1. ASSUME NEW q \in Requests
      PROVE  Adds(u)[q] = 0
  <2>1. ~(At(q, "add") /\ mp[q].upload = u)
    <3>1. SUFFICES ASSUME At(q, "add"), mp[q].upload = u
                   PROVE  FALSE
      OBVIOUS
    <3>2. req[q].op \in PartOps /\ Working(q)
      BY <3>1, ItsUpload DEF At, Working, Active, Resting, UploadOps, UploadOnlyOps
    <3>3. req[r].op \in PartOps
      BY <3>1, <3>2 DEF UploadsApart, ApartAt, On
    <3> QED
      BY <3>3 DEF PartOps, Enders
  <2> QED
    BY <2>1 DEF Adds, AddTo
<1> QED
  BY <1>1, FiniteAssumption, TotalZero

\* What is assembled is no more than what its request has read the upload to hold.
LEMMA AssembledHeld ==
  ASSUME FInv, UploadsApart, PartsHeld, NEW r \in Requests, Assembles(r)
  PROVE  LET u == mp[r].upload
             o == req[r].obj IN
         /\ u \in Uploads /\ o \in Object
         /\ On(r, u) /\ Completing(r) /\ upload[u] # Absent /\ upload[u].obj = o
         /\ mp[r].held = upload[u].reserved
         /\ \E n \in Nat : n <= mp[r].held /\ blob' = [blob EXCEPT ![o] = n]
         /\ parts[u] # Absent /\ parts' = [parts EXCEPT ![u] = Absent]
<1> DEFINE u == mp[r].upload
           o == req[r].obj
<1>1. /\ At(r, "assemble") /\ parts[u] # Absent /\ parts' = [parts EXCEPT ![u] = Absent]
      /\ \E listed \in (SUBSET {p \in PartNumbers : parts[u][p] # Absent}) \ {{}} :
           blob' = [blob EXCEPT ![o] = MapThenSumSet(LAMBDA p : parts[u][p], listed)]
  BY DEF Assembles, Assembled
<1>2. Completing(r) /\ Active(r) /\ u \in Uploads
  BY <1>1, ItsUpload DEF At, Completing, Active, Resting, UploadOps
<1>3. Working(r) /\ On(r, u) /\ o \in Object
  BY <1>2, WorkingAt, TouchedAt DEF On
<1>4. upload[u] # Absent /\ mp[r].held = upload[u].reserved /\ o = upload[u].obj
  BY <1>1, <1>2, <1>3 DEF UploadsApart, ApartAt, Enders, Completing
<1>5. InParts(u) <= upload[u].reserved
  <2>1. Total(Adds(u), Requests) = 0
    BY <1>2, <1>3, NothingAdded DEF Enders, Completing
  <2> QED
    BY <1>1, <1>2, <1>4, <2>1, PartNumbersAre DEF PartsHeld, OnRow
<1>6. PICK listed \in SUBSET {p \in PartNumbers : parts[u][p] # Absent} :
        blob' = [blob EXCEPT ![o] = MapThenSumSet(LAMBDA p : parts[u][p], listed)]
  BY <1>1
<1>7. PICK n : n = MapThenSumSet(LAMBDA p : parts[u][p], listed)
  OBVIOUS
<1>8. n \in Nat /\ n <= InParts(u)
  BY <1>1, <1>2, <1>7, ListedFits
<1>9. blob' = [blob EXCEPT ![o] = n]
  BY <1>6, <1>7
<1>10. n <= mp[r].held
  <2>1. InParts(u) \in Nat /\ upload[u].reserved \in Nat
    BY <1>1, <1>2, <1>4, PartNumbersAre, UploadRow DEF FInv
  <2> QED
    BY <1>4, <1>5, <1>8, <2>1
<1> QED
  BY <1>1, <1>2, <1>3, <1>4, <1>8, <1>9, <1>10

\* An object nobody else is at work on fits its row.
LEMMA FitsAlone ==
  ASSUME FInv, RowsFit, NEW o \in Object,
         \A q \in Requests : Active(q) /\ o \in TouchedBy(req[q]) => ~Writing(q) /\ req[q].pc \notin DeletePcs
  PROVE  Fits(o)
<1>1. ASSUME NEW q \in Requests, Changing(q, o)
      PROVE  FALSE
  <2>1. Active(q)
    BY <1>1 DEF Changing, Active, Resting, At, DeletePcs
  <2>2. o \in TouchedBy(req[q]) /\ (Writing(q) \/ req[q].pc \in DeletePcs)
    BY <1>1, <2>1, TouchedAt DEF Changing
  <2> QED
    BY <2>1, <2>2
<1> QED
  BY <1>1 DEF RowsFit

----------------------------------------------------------------------------
(* What a request knows of its objects stays true of its own steps.        *)

\* Which shapes the steps of a handler have.
LEMMA ShapesByOp ==
  ASSUME FInv, NEW r \in Requests, ObjectShape(r) \/ UploadShape(r)
  PROVE  /\ Writing(r)' => \/ PassesOn(r) \/ BeginsPut(r) \/ BeginsCopy(r) \/ BeginsWriting(r)
                           \/ Sends(r) \/ WritesRow(r)
         /\ req'[r].op \in Deletes => \/ PassesOn(r) \/ BeginsDelete(r) \/ SkipsKey(r)
                                      \/ FindsRow(r) \/ RemovesRow(r)
         /\ req'[r].op \in PartOps => \/ PassesOn(r) \/ Joins(r) \/ ReadsSource(r)
                                      \/ StoresPart(r) \/ AddsPart(r)
         /\ Completing(r)' => \/ PassesOn(r) \/ Joins(r) \/ WritesRow(r) \/ DropsUpload(r)
                              \/ Assembles(r) \/ ReadsHead(r)
         /\ req'[r].op = "abort" => \/ PassesOn(r) \/ Joins(r) \/ ForgetsParts(r) \/ DropsUpload(r)
         /\ req'[r].op = "create" => PassesOn(r) \/ Opens(r) \/ InsertsUpload(r)
<1>1. OpAt(req[r])
  BY Here DEF Placed
<1>2. ~Opens(r) \/ req'[r].op = "create"
  BY DEF Opens
<1>3. ~Joins(r) \/ req'[r].op \in {"part", "partcopy", "abort", "complete"}
  BY DEF Joins
<1>4. ~BeginsPut(r) \/ req'[r].op = "put"
  BY DEF BeginsPut
<1>5. ~BeginsCopy(r) \/ req'[r].op = "copy"
  BY DEF BeginsCopy
<1>6. ~BeginsDelete(r) \/ req'[r].op \in Deletes
  BY DEF BeginsDelete
<1>7. ~(BeginsWriting(r) \/ Sends(r)) \/ req'[r].op \in WriteOps
  BY <1>1 DEF BeginsWriting, Sends, Alike, Same, Writing, OpAt, At, WriteOps
<1>8. ~WritesRow(r) \/ req'[r].op \in WriteOps \cup {"complete"}
  BY <1>1 DEF WritesRow, Same, OpAt, At, WriteOps
<1>9. ~(SkipsKey(r) \/ FindsRow(r) \/ RemovesRow(r)) \/ req'[r].op \in Deletes
  BY <1>1 DEF SkipsKey, FindsRow, RemovesRow, Same, OpAt, At, DeletePcs, Deletes
<1>10. ~(ReadsSource(r) \/ StoresPart(r) \/ AddsPart(r)) \/ req'[r].op \in PartOps
  BY <1>1 DEF ReadsSource, StoresPart, AddsPart, Alike, Same, OpAt, At, PartOps
<1>11. ~InsertsUpload(r) \/ req'[r].op = "create"
  BY <1>1 DEF InsertsUpload, Same, OpAt, At
<1>12. ~ForgetsParts(r) \/ req'[r].op = "abort"
  BY <1>1 DEF ForgetsParts, Same, OpAt, At
<1>13. ~DropsUpload(r) \/ req'[r].op \in Enders
  BY <1>1 DEF DropsUpload, Same, OpAt, At
<1>14. ~(Assembles(r) \/ ReadsHead(r)) \/ req'[r].op = "complete"
  BY <1>1 DEF Assembles, ReadsHead, Alike, Same, OpAt, At
<1> QED
  BY <1>2, <1>3, <1>4, <1>5, <1>6, <1>7, <1>8, <1>9, <1>10, <1>11, <1>12, <1>13, <1>14
     DEF ObjectShape, UploadShape, Writing, WriteOps, Deletes, PartOps, Completing, Enders

\* A write's.
LEMMA WriteKnowsOn ==
  ASSUME FInv, FInv', RowsFit, NEW r \in Requests, ObjectShape(r) \/ UploadShape(r), Knows(r),
         SerialKeys
  PROVE  WriteKnows(r)'
<1> SUFFICES ASSUME Writing(r)', Active(r)'
             PROVE  WriteKnows(r)'
  BY DEF WriteKnows
<1> DEFINE g == req'[r]
           h == req[r]
<1>0. /\ h.size \in Nat /\ h.delta \in Int /\ g.size \in Nat /\ g.delta \in Int
      /\ h.obj \in Object \/ ~Active(r) \/ ~Writing(r)
      /\ h.op = "copy" => h.src \in Object
  BY Here, TouchedAt, ItsObjects, HereNext
<1>1. CASE PassesOn(r)
  <2>1. /\ Same(g, h) /\ AllStay /\ <<h.pc, g.pc>> \in Passes
        /\ h.pc = "update" => row[h.obj] = Absent
    BY <1>1 DEF PassesOn, At
  <2>2. Active(r) /\ Writing(r)
    BY <2>1 DEF Same, Writing, Passes, Active, Resting, Waiting
  <2>3. WriteKnows(r)
    BY DEF Knows
  <2>4. /\ g.pc \in {"reserve", "admit", "send"} \cup Sending =>
             h.pc \in {"reserve", "admit", "send"} \cup Sending
        /\ g.pc = "insert" => row[h.obj] = Absent
        /\ g.pc \in Written => h.pc \in Written
        /\ g.pc \in Written \cup Sending => h.pc \in Written \cup Sending
    BY <2>1, <2>2, <2>3 DEF Passes, Waiting, Sending, Written, WriteKnows
  <2> QED
    BY <2>1, <2>2, <2>3, <2>4 DEF WriteKnows, Same, AllStay
<1>2. CASE BeginsPut(r)
  <2>1. /\ AllStay /\ RowRead(g) /\ g.op = "put"
    BY <1>2 DEF BeginsPut
  <2>2. g.obj \in Object
    BY <1>2 DEF BeginsPut
  <2>3. Stored(row[g.obj]) \in Nat
    BY <2>2, Contents DEF Stored
  <2> QED
    BY <1>0, <2>1, <2>3 DEF WriteKnows, RowRead, AllStay, Sending, Written
<1>3. CASE BeginsCopy(r)
  <2>1. /\ AllStay /\ g.op = "copy" /\ g.pc = "begin" /\ g.src \in Object
        /\ row[g.src] # Absent /\ g.size = row[g.src] /\ g.delta = 0
        /\ Undisturbed({g.src, g.obj})
    BY <1>3 DEF BeginsCopy
  <2>2. \A q \in Requests : Active(q) => g.src \notin TouchedBy(req[q])
    BY <2>1, TouchesIs DEF Undisturbed
  <2>3. blob[g.src] = row[g.src]
    BY <2>1, <2>2, FitsAlone DEF Fits
  <2> QED
    BY <1>0, <2>1, <2>3 DEF WriteKnows, AllStay, Sending, Written
<1>4. CASE BeginsWriting(r)
  <2>1. /\ AllStay /\ RowRead(g) /\ Alike(g, h) /\ g.size = h.size /\ h.pc = "begin"
    BY <1>4 DEF BeginsWriting, At
  <2>2. Active(r) /\ Writing(r)
    BY <2>1 DEF Alike, Writing, Active, Resting
  <2>3. h.op = "copy" => row[h.src] = h.size /\ blob[h.src] = h.size
    BY <2>2 DEF Knows, WriteKnows
  <2>4. Stored(row[g.obj]) \in Nat
    BY <1>0, <2>1, <2>2, Contents DEF Stored, Alike
  <2> QED
    BY <1>0, <2>1, <2>3, <2>4 DEF WriteKnows, RowRead, AllStay, Sending, Written, Alike
<1>5. CASE Sends(r)
  <2>1. /\ Writing(r) /\ h.pc \in {"admit", "send"} /\ g.pc = "update" /\ Same(g, h)
        /\ row' = row /\ blob' = [blob EXCEPT ![h.obj] = h.size]
    BY <1>5 DEF Sends
  <2>2. Active(r)
    BY <2>1 DEF Active, Resting
  <2>3. WriteKnows(r)
    BY DEF Knows
  <2>4. blob'[h.obj] = h.size /\ (h.op = "copy" => blob'[h.src] = h.size)
    BY <1>0, <2>1, <2>2, <2>3 DEF WriteKnows, FInv, TypeOK
  <2> QED
    BY <1>0, <2>1, <2>2, <2>3, <2>4 DEF WriteKnows, Same, Sending, Written
<1>6. CASE WritesRow(r)
  <2>1. /\ h.pc \in Sending /\ g.pc \in {"reread", "account"} /\ Same(g, h)
        /\ blob' = blob /\ row' = [row EXCEPT ![h.obj] = h.size]
    BY <1>6 DEF WritesRow, At, Sending
  <2>2. Active(r) /\ Writing(r)
    BY <2>1 DEF Active, Resting, Same, Writing, Sending
  <2>3. WriteKnows(r)
    BY DEF Knows
  <2>4. row'[h.obj] = h.size /\ (h.op = "copy" => row'[h.src] = h.size)
    BY <1>0, <2>1, <2>2, <2>3 DEF WriteKnows, FInv, TypeOK
  <2>5. blob'[h.obj] = h.size /\ h.size - h.delta >= 0
        /\ (h.op = "copy" => blob'[h.src] = h.size)
    BY <2>1, <2>2, <2>3 DEF WriteKnows
  <2> QED
    BY <2>1, <2>4, <2>5 DEF WriteKnows, Same, Sending, Written
<1> QED
  BY <1>1, <1>2, <1>3, <1>4, <1>5, <1>6, ShapesByOp

\* A delete's.
LEMMA DeleteKnowsOn ==
  ASSUME FInv, FInv', NEW r \in Requests, ObjectShape(r) \/ UploadShape(r), Knows(r)
  PROVE  DeleteKnows(r)'
<1> SUFFICES ASSUME req'[r].pc \in DeletePcs
             PROVE  DeleteKnows(r)'
  BY DEF DeleteKnows
<1> DEFINE g == req'[r]
           h == req[r]
<1>0. g.op \in Deletes
  BY HereNext DEF Placed, OpAt, Deletes
<1>1. CASE PassesOn(r)
  <2>1. /\ Same(g, h) /\ AllStay /\ <<h.pc, g.pc>> \in Passes
    BY <1>1 DEF PassesOn
  <2>2. h.pc \in {"credit", "credited"} /\ g.pc = "credited"
    BY <2>1 DEF Passes, Waiting, DeletePcs
  <2> QED
    BY <2>1, <2>2 DEF Knows, DeleteKnows, Same, AllStay, DeletePcs
<1>2. CASE BeginsDelete(r)
  <2>1. g.pc = "find" /\ g.obj = Nowhere /\ g.keys \in SUBSET Object /\ blob' = Erase(g.keys)
    BY <1>2 DEF BeginsDelete
  <2>2. \A o \in g.keys : blob'[o] = Absent
    BY <2>1 DEF Erase
  <2> QED
    BY <2>1, <2>2 DEF DeleteKnows
<1>3. CASE SkipsKey(r)
  <2>1. h.pc \in DeletePcs /\ g.keys \subseteq h.keys /\ g.obj = Nowhere /\ blob' = blob
        /\ g.pc \in {"ok", "find"}
    BY <1>3 DEF SkipsKey, AllStay, DeletePcs
  <2>2. g.pc = "find"
    BY <2>1 DEF DeletePcs
  <2> QED
    BY <2>1, <2>2 DEF Knows, DeleteKnows
<1>4. CASE FindsRow(r)
  <2>1. h.pc \in DeletePcs /\ g.keys = h.keys /\ g.obj \in h.keys /\ blob' = blob /\ row' = row
        /\ g.pc = "remove" /\ g.size = row[g.obj]
    BY <1>4 DEF FindsRow, AllStay, DeletePcs, At
  <2> QED
    BY <2>1 DEF Knows, DeleteKnows
<1>5. CASE RemovesRow(r)
  <2>1. h.pc = "remove" /\ Same(g, h) /\ blob' = blob /\ g.pc = "credit"
        /\ row' = [row EXCEPT ![h.obj] = Absent]
    BY <1>5 DEF RemovesRow, At
  <2>2. h.obj \in h.keys /\ \A o \in h.keys : blob[o] = Absent
    BY <2>1 DEF Knows, DeleteKnows, DeletePcs
  <2>3. row'[h.obj] = Absent
    BY <2>1, <2>2, ItsObjects DEF FInv, TypeOK
  <2> QED
    BY <2>1, <2>2, <2>3 DEF DeleteKnows, Same
<1> QED
  BY <1>0, <1>1, <1>2, <1>3, <1>4, <1>5, ShapesByOp

\* A part's.
LEMMA PartKnowsOn ==
  ASSUME FInv, FInv', RowsFit, KeysApart, NEW r \in Requests, ObjectShape(r) \/ UploadShape(r),
         Knows(r)
  PROVE  PartKnows(r)'
<1> SUFFICES ASSUME Active(r)', req'[r].op = "partcopy", req'[r].pc # "source"
             PROVE  row'[req'[r].src] = req'[r].size /\ blob'[req'[r].src] = req'[r].size
  BY DEF PartKnows
<1> DEFINE g == req'[r]
           h == req[r]
<1>1. CASE PassesOn(r) \/ StoresPart(r)
  <2>1. Same(g, h) /\ UNCHANGED <<row, blob>> /\ h.pc # "source" /\ Active(r)
    BY <1>1 DEF PassesOn, StoresPart, Passes, AllStay, Active, Resting, Waiting, At
  <2> QED
    BY <2>1 DEF Same, Knows, PartKnows
<1>2. CASE Joins(r)
  BY <1>2 DEF Joins
<1>3. CASE AddsPart(r)
  BY <1>3 DEF AddsPart, Active, Resting
<1>4. CASE ReadsSource(r)
  <2>1. h.pc = "source" /\ h.op = "partcopy" /\ AllStay /\ g.src = h.src /\ row[h.src] # Absent
        /\ g.size = row[h.src]
    BY <1>4 DEF ReadsSource, Alike, At
  <2>2. Active(r) /\ h.src \in Object /\ h.src \in TouchedBy(h) /\ ~Completing(r)
        /\ ~Writing(r) /\ h.pc \notin DeletePcs
    BY <2>1, TouchedAt DEF Active, Resting, Completing, Writing, WriteOps, DeletePcs
  <2>3. \A q \in Requests : Active(q) /\ h.src \in TouchedBy(req[q]) => q = r
    BY <2>2 DEF KeysApart
  <2>4. Fits(h.src)
    BY <2>2, <2>3, FitsAlone
  <2> QED
    BY <2>1, <2>4 DEF Fits, AllStay
<1> QED
  BY <1>1, <1>2, <1>3, <1>4, ShapesByOp DEF PartOps

\* And that of a request that completes an upload.
LEMMA CompleteKnowsOn ==
  ASSUME FInv, FInv', UploadsApart, PartsHeld, FreshKeys, NEW r \in Requests, ObjectShape(r) \/ UploadShape(r),
         Knows(r)
  PROVE  CompleteKnows(r)'
<1> SUFFICES ASSUME Active(r)', Completing(r)'
             PROVE  CompleteKnows(r)'
  BY DEF CompleteKnows
<1> DEFINE g == req'[r]
           h == req[r]
           m == mp[r]
<1>0. CompleteKnows(r)
  BY DEF Knows
<1>1. CASE PassesOn(r)
  <2>1. /\ Same(g, h) /\ AllStay /\ <<h.pc, g.pc>> \in Passes
    BY <1>1 DEF PassesOn
  <2>2. Active(r) /\ Completing(r)
    BY <2>1 DEF Same, Completing, Passes, Active, Resting, Waiting
  <2>3. OpAt(g) /\ OpAt(h)
    BY Here, HereNext DEF Placed
  <2>4. /\ g.pc # "assemble" /\ h.pc # "assemble" /\ g.pc # "reread"
        /\ g.pc \in {"head"} \cup Sending => h.pc \in {"head"} \cup Sending
        /\ g.pc \in Sending \cup {"account", "difference", "drop"} =>
             h.pc \in Sending \cup {"account", "difference", "drop"}
        /\ g.pc \in {"account", "difference", "drop"} => h.pc \in {"account", "difference", "drop"}
    BY <1>0, <2>1, <2>2, <2>3 DEF Passes, Waiting, Sending, CompleteKnows, Completing, OpAt, Active, Resting,
       Same
  <2> QED
    BY <1>0, <2>1, <2>2, <2>4 DEF CompleteKnows, Same, AllStay
<1>2. CASE Joins(r)
  <2>1. g.pc = "assemble" /\ row' = row /\ row[g.obj] = Absent
    BY <1>2 DEF Joins, Completing
  <2> QED
    BY <2>1 DEF CompleteKnows, Sending
<1>3. CASE WritesRow(r)
  <2>1. /\ h.pc \in Sending /\ g.pc \in {"reread", "account"} /\ Same(g, h)
        /\ blob' = blob /\ row' = [row EXCEPT ![h.obj] = h.size] /\ mp' = mp
        /\ h.pc = "update" => row[h.obj] # Absent
        /\ h.pc = "insert" => g.pc = "account"
    BY <1>3 DEF WritesRow, At, Sending
  <2>2. Active(r) /\ Completing(r)
    BY <2>1 DEF Active, Resting, Same, Completing, Sending
  <2>3. h.pc = "insert" /\ g.pc = "account"
    BY <1>0, <2>1, <2>2 DEF CompleteKnows, Sending
  <2>4. row'[h.obj] = h.size
    BY <2>1, <2>2, TouchedAt DEF FInv, TypeOK
  <2> QED
    BY <1>0, <2>1, <2>2, <2>3, <2>4 DEF CompleteKnows, Same, Sending
<1>4. CASE DropsUpload(r)
  BY <1>4 DEF DropsUpload, Active, Resting
<1>5. CASE Assembles(r)
  <2>1. h.pc = "assemble" /\ g.pc = "head" /\ Same(g, h) /\ row' = row /\ mp' = mp
    BY <1>5 DEF Assembles, At, Assembled
  <2>2. parts[m.upload] # Absent /\ h.obj \in Object /\ Completing(r)
    BY <1>5, AssembledHeld
  <2>3. row[h.obj] = Absent
    BY <1>0, <2>1, <2>2 DEF CompleteKnows, Active, Resting
  <2>4. PICK n \in Nat : n <= m.held /\ blob' = [blob EXCEPT ![h.obj] = n]
    BY <1>5, AssembledHeld
  <2>5. blob'[h.obj] # Absent /\ blob'[h.obj] <= m.held
    BY <2>2, <2>4, AbsentAssumption DEF FInv, TypeOK
  <2> QED
    BY <2>1, <2>3, <2>5 DEF CompleteKnows, Same, Sending
<1>6. CASE ReadsHead(r)
  <2>1. h.pc = "head" /\ g.pc = "update" /\ Alike(g, h) /\ AllStay /\ g.size = blob[g.obj]
    BY <1>6 DEF ReadsHead, At
  <2>2. Active(r) /\ Completing(r)
    BY <2>1 DEF Active, Resting, Alike, Completing
  <2> QED
    BY <1>0, <2>1, <2>2 DEF CompleteKnows, Alike, Sending, AllStay
<1> QED
  BY <1>1, <1>2, <1>3, <1>4, <1>5, <1>6, ShapesByOp

\* So what it knows stays true.
LEMMA OwnKnows ==
  ASSUME SerialKeys, FreshKeys, FInv, FInv', UploadsApart, Calm, NEW r \in Requests,
         ObjectShape(r) \/ UploadShape(r)
  PROVE  Knows(r)'
<1>1. Knows(r) /\ RowsFit /\ KeysApart /\ PartsHeld
  BY DEF Calm, Aware
<1> QED
  BY <1>1, WriteKnowsOn, DeleteKnowsOn, PartKnowsOn, CompleteKnowsOn DEF Knows

----------------------------------------------------------------------------
(* And the rows still fit the store.                                       *)

\* Every row fits, or its object is being changed.
LEMMA RowsFitOn ==
  ASSUME FInv, FInv', UploadsApart, Calm, NEW r \in Requests, Together(r),
         ObjectShape(r) \/ UploadShape(r)
  PROVE  RowsFit'
<1> DEFINE g == req'[r]
           h == req[r]
<1>0. Knows(r) /\ RowsFit /\ PartsHeld
  BY DEF Calm, Aware
<1>1. ASSUME NEW q \in Requests, q # r, NEW o
      PROVE  Changing(q, o)' <=> Changing(q, o)
  BY <1>1, OthersStay DEF Changing, Writing, At
<1>2. ASSUME NEW o \in Object, row'[o] = row[o], blob'[o] = blob[o],
             Changing(r, o) => Changing(r, o)' \/ Fits(o)
      PROVE  Fits(o)' \/ \E q \in Requests : Changing(q, o)'
  BY <1>0, <1>1, <1>2 DEF RowsFit, Fits
<1>3. SUFFICES ASSUME NEW o \in Object
               PROVE  Fits(o)' \/ \E q \in Requests : Changing(q, o)'
  BY DEF RowsFit
<1>4. CASE Sends(r)
  <2>1. /\ Writing(r) /\ h.pc \in {"admit", "send"} /\ g.pc = "update" /\ Same(g, h)
        /\ row' = row /\ blob' = [blob EXCEPT ![h.obj] = h.size]
    BY <1>4 DEF Sends
  <2>2. CASE o = h.obj
    BY <2>1, <2>2 DEF Changing, Same, Writing, At
  <2>3. CASE o # h.obj
    BY <1>2, <2>1, <2>3 DEF Changing, At, DeletePcs
  <2> QED
    BY <2>2, <2>3
<1>5. CASE WritesRow(r)
  <2>1. /\ h.pc \in Sending /\ blob' = blob /\ row' = [row EXCEPT ![h.obj] = h.size]
    BY <1>5 DEF WritesRow, At, Sending
  <2>2. Active(r) /\ (Writing(r) \/ Completing(r))
    BY <2>1, WorkingAt DEF Sending, WritePcs
  <2>3. blob[h.obj] = h.size
    BY <1>0, <2>1, <2>2 DEF Knows, WriteKnows, CompleteKnows
  <2>4. CASE o = h.obj
    BY <2>1, <2>3, <2>4 DEF Fits, FInv, TypeOK
  <2>5. CASE o # h.obj
    BY <1>2, <2>1, <2>5 DEF Changing, At, DeletePcs, Sending
  <2> QED
    BY <2>4, <2>5
<1>6. CASE BeginsDelete(r)
  <2>1. g.pc = "find" /\ row' = row /\ blob' = Erase(g.keys) /\ ~Active(r)
    BY <1>6 DEF BeginsDelete
  <2>2. CASE o \in g.keys
    BY <2>1, <2>2 DEF Changing, DeletePcs
  <2>3. CASE o \notin g.keys
    BY <1>2, <2>1, <2>3 DEF Changing, At, DeletePcs, Erase, Active, Resting
  <2> QED
    BY <2>2, <2>3
<1>7. CASE RemovesRow(r)
  <2>1. h.pc = "remove" /\ g.pc = "credit" /\ Same(g, h) /\ blob' = blob
        /\ row' = [row EXCEPT ![h.obj] = Absent]
    BY <1>7 DEF RemovesRow, At
  <2>2. CASE o = h.obj
    BY <2>1, <2>2 DEF Fits, FInv, TypeOK
  <2>3. CASE o # h.obj
    BY <1>2, <2>1, <2>3 DEF Changing, At, DeletePcs, Same
  <2> QED
    BY <2>2, <2>3
<1>8. CASE Assembles(r)
  <2>1. h.pc = "assemble" /\ row' = row
    BY <1>8 DEF Assembles, At
  <2>2. PICK n \in Nat : blob' = [blob EXCEPT ![h.obj] = n]
    BY <1>0, <1>8, AssembledHeld
  <2>3. row[h.obj] = Absent
    BY <1>0, <1>8, <2>1, AssembledHeld DEF Knows, CompleteKnows, Active, Resting
  <2>4. CASE o = h.obj
    BY <2>1, <2>3, <2>4 DEF Fits
  <2>5. CASE o # h.obj
    BY <1>2, <2>1, <2>2, <2>5 DEF Changing, At, DeletePcs
  <2> QED
    BY <2>4, <2>5
<1>9. CASE ~(Sends(r) \/ WritesRow(r) \/ BeginsDelete(r) \/ RemovesRow(r) \/ Assembles(r))
  <2>1. UNCHANGED <<row, blob>>
    BY <1>9, QuietShapes
  <2>2. ASSUME Changing(r, o)
        PROVE  Changing(r, o)' \/ Fits(o)
    <3>1. h.pc \in {"update"} \cup DeletePcs
      BY <2>2 DEF Changing, At
    <3>2. PassesOn(r) \/ SkipsKey(r) \/ FindsRow(r)
      BY <1>9, <3>1 DEF ObjectShape, UploadShape, BeginsPut, BeginsCopy, BeginsWriting, Opens, Joins,
         ReadsSource, StoresPart, AddsPart, InsertsUpload, ForgetsParts, DropsUpload, ReadsHead, At,
         Active, Resting, DeletePcs
    <3>3. CASE PassesOn(r)
      <4>1. /\ <<h.pc, g.pc>> \in Passes /\ Same(g, h)
            /\ h.pc = "update" => row[h.obj] = Absent
        BY <3>3 DEF PassesOn, At
      <4>2. h.pc \in DeletePcs => g.pc \in DeletePcs
        BY <4>1 DEF Passes, Waiting, DeletePcs
      <4>3. h.pc = "update" => Fits(o)
        BY <2>2, <4>1 DEF Changing, Fits, At, DeletePcs
      <4> QED
        BY <2>2, <4>1, <4>2, <4>3 DEF Changing, Same, At
    <3>4. CASE SkipsKey(r)
      <4>1. /\ \E s \in h.keys : row[s] = Absent /\ g.keys = h.keys \ {s}
            /\ h.pc \in {"find", "credited"}
            /\ g.pc = IF g.keys = {} THEN "ok" ELSE "find"
        BY <3>4 DEF SkipsKey
      <4>2. PICK s \in h.keys : row[s] = Absent /\ g.keys = h.keys \ {s}
        BY <4>1
      <4>3. o \in h.keys
        BY <2>2, <4>1 DEF Changing, At, DeletePcs
      <4>4. CASE o = s
        BY <4>2, <4>4 DEF Fits
      <4>5. CASE o # s
        <5>1. o \in g.keys
          BY <4>2, <4>3, <4>5
        <5>2. g.pc = "find"
          BY <4>1, <5>1
        <5> QED
          BY <5>1, <5>2 DEF Changing, DeletePcs
      <4> QED
        BY <4>4, <4>5
    <3>5. CASE FindsRow(r)
      BY <2>2, <3>5 DEF FindsRow, Changing, At, DeletePcs
    <3> QED
      BY <3>2, <3>3, <3>4, <3>5
  <2> QED
    BY <1>2, <2>1, <2>2
<1> QED
  BY <1>4, <1>5, <1>6, <1>7, <1>8, <1>9

----------------------------------------------------------------------------
(* Objects without a row stay sheltered.                                   *)

\* The row of the upload stays, and holds no less.
LEMMA RowStays ==
  ASSUME FInv, UploadsApart, NEW r \in Requests, ObjectShape(r) \/ UploadShape(r),
         NEW u \in Uploads, upload[u] # Absent, ~(DropsUpload(r) /\ mp[r].upload = u)
  PROVE  /\ upload'[u] # Absent /\ upload'[u].obj = upload[u].obj
         /\ upload[u].reserved \in Nat /\ upload'[u].reserved \in Nat
         /\ upload'[u].reserved >= upload[u].reserved
<1> DEFINE v == mp[r].upload
<1>0. upload[u] \in [obj : Object, reserved : Nat] /\ upload[u].reserved \in Nat
  BY UploadRow DEF FInv
<1>1. CASE upload'[u] = upload[u]
  BY <1>0, <1>1
<1>2. CASE AddsPart(r)
  <2>1. upload' = [upload EXCEPT ![v].reserved = @ + req[r].size] /\ req[r].size \in Nat
    BY <1>2, Here DEF AddsPart
  <2>2. CASE u = v
    <3>1. upload'[u] = [upload[u] EXCEPT !.reserved = @ + req[r].size]
      BY <2>1, <2>2 DEF FInv, TypeOK
    <3>2. /\ upload'[u].obj = upload[u].obj
          /\ upload'[u].reserved = upload[u].reserved + req[r].size
          /\ upload'[u] \in [obj : Object, reserved : Nat]
      BY <1>0, <2>1, <3>1
    <3> QED
      BY <1>0, <2>1, <3>2, AbsentUploadAssumption
  <2>3. CASE u # v
    BY <1>0, <2>1, <2>3
  <2> QED
    BY <2>2, <2>3
<1>3. CASE InsertsUpload(r)
  <2>1. At(r, "open") /\ upload' = [upload EXCEPT ![v] = [obj |-> req[r].obj, reserved |-> 0]]
    BY <1>3 DEF InsertsUpload
  <2>2. Working(r) /\ req[r].op = "create"
    BY <2>1, ItsUpload DEF Working, At, Active, Resting, UploadOps, UploadOnlyOps
  <2>3. upload[v] = Absent
    BY <2>2 DEF UploadsApart, ApartAt
  <2> QED
    BY <1>1, <2>1, <2>3
<1>4. CASE DropsUpload(r)
  BY <1>1, <1>4 DEF DropsUpload
<1>5. CASE ~(AddsPart(r) \/ InsertsUpload(r) \/ DropsUpload(r))
  <2>1. upload' = upload
    BY <1>5 DEF ObjectShape, UploadShape, PassesOn, BeginsPut, BeginsCopy, BeginsWriting,
       SkipsKey, FindsRow, Opens, Joins, ReadsSource, StoresPart, Sends, WritesRow,
       BeginsDelete, RemovesRow, ForgetsParts, Assembles, ReadsHead, AllStay
  <2> QED
    BY <1>1, <2>1
<1> QED
  BY <1>2, <1>3, <1>4, <1>5

\* Who becomes the one to end an upload has made the store forget its parts.
LEMMA ComesThrough ==
  ASSUME FInv, NEW r \in Requests, ObjectShape(r) \/ UploadShape(r), Through(r)', ~Through(r)
  PROVE  /\ parts[mp[r].upload] # Absent /\ mp'[r] = mp[r] /\ Working(r)
         /\ req'[r].pc \notin {"difference", "drop"}
         /\ ForgetsParts(r) \/ Assembles(r)
<1>1. /\ Active(r)' /\ req'[r].op \in Enders /\ req'[r].pc \notin {"forget", "assemble"}
  BY DEF Through, Working
<1>2. CASE PassesOn(r)
  <2>1. <<req[r].pc, req'[r].pc>> \in Passes /\ Same(req'[r], req[r])
    BY <1>2 DEF PassesOn
  <2>2. req[r].pc \in {"forget", "assemble"} \/ Through(r)
    BY <1>1, <2>1 DEF Passes, Waiting, Same, Through, Working, UploadOps, UploadOnlyOps, Enders, Active,
       Resting
  <2> QED
    BY <1>1, <2>1, <2>2 DEF Passes, Waiting, Active, Resting
<1>3. CASE ForgetsParts(r) \/ Assembles(r)
  <2>1. parts[mp[r].upload] # Absent /\ mp' = mp /\ req'[r].pc \in {"letgo", "head"}
        /\ req[r].pc \in {"forget", "assemble"}
    BY <1>3 DEF ForgetsParts, Assembles, Assembled, At
  <2>2. req[r].op \in Enders
    BY <2>1, ItsUpload DEF At, Enders
  <2> QED
    BY <1>3, <2>1, <2>2 DEF Working, Active, Resting, UploadOps, UploadOnlyOps, Enders
<1>4. CASE WritesRow(r) \/ ReadsHead(r)
  <2>1. /\ req[r].pc \in {"update", "insert", "head"}
        /\ Same(req'[r], req[r]) \/ Alike(req'[r], req[r])
    BY <1>4 DEF WritesRow, ReadsHead, At
  <2>2. Through(r)
    BY <1>1, <2>1 DEF Same, Alike, Through, Working, UploadOps, UploadOnlyOps, Enders, Active, Resting
  <2> QED
    BY <2>2
<1>5. CASE ~(PassesOn(r) \/ ForgetsParts(r) \/ Assembles(r) \/ WritesRow(r) \/ ReadsHead(r))
  <2>1. ~(Joins(r) \/ DropsUpload(r))
    BY <1>1 DEF Joins, DropsUpload, Active, Resting, Enders
  <2>2. req'[r].op \notin {"abort", "complete"}
    BY <1>5, <2>1, ShapesByOp DEF Completing
  <2> QED
    BY <1>1, <2>2 DEF Enders
<1> QED
  BY <1>2, <1>3, <1>4, <1>5

\* An upload goes on sheltering an object while nobody touches that.
LEMMA ShelterStays ==
  ASSUME FInv, FInv', UploadsApart, NEW r \in Requests, Together(r), Knows(r),
         ObjectShape(r) \/ UploadShape(r), NEW u \in Uploads, NEW o \in Object,
         Shelters(u, o), row[o] = Absent, row'[o] = row[o], blob'[o] = blob[o]
  PROVE  Shelters(u, o)'
<1>1. /\ upload[u] # Absent /\ parts[u] = Absent /\ upload[u].obj = o
      /\ blob[o] # Absent /\ blob[o] <= upload[u].reserved
      /\ \A q \in Requests : On(q, u) /\ Through(q) =>
           Completing(q) /\ req[q].pc \notin {"difference", "drop"}
  BY DEF Shelters
<1>2. ~(DropsUpload(r) /\ mp[r].upload = u)
  <2>1. SUFFICES ASSUME DropsUpload(r), mp[r].upload = u
                 PROVE  FALSE
    OBVIOUS
  <2>2. On(r, u) /\ Through(r) /\ req[r].pc = "drop"
    BY <2>1, ItsUpload DEF DropsUpload, At, On, Through, Working, Active, Resting, Enders, UploadOps,
       UploadOnlyOps
  <2> QED
    BY <1>1, <2>2
<1>3. /\ upload'[u] # Absent /\ upload'[u].obj = o
      /\ upload[u].reserved \in Nat /\ upload'[u].reserved \in Nat
      /\ upload'[u].reserved >= upload[u].reserved
  BY <1>1, <1>2, RowStays
<1>4. blob'[o] # Absent /\ blob'[o] <= upload'[u].reserved
  <2>1. blob[o] \in Nat
    BY <1>1 DEF FInv, TypeOK
  <2> QED
    BY <1>1, <1>3, <2>1
<1>5. parts'[u] = Absent
  <2>1. SUFFICES ASSUME parts'[u] # Absent
                 PROVE  FALSE
    OBVIOUS
  <2>2. Opens(r) /\ u = mp'[r].upload
    BY <1>1, <2>1, PartsReturn
  <2> QED
    BY <1>1, <2>2 DEF Opens
<1>6. ASSUME NEW q \in Requests, On(q, u)', Through(q)'
      PROVE  Completing(q)' /\ req'[q].pc \notin {"difference", "drop"}
  <2>1. CASE q # r
    BY <1>1, <1>6, <2>1, OthersStay DEF Completing
  <2>2. CASE q = r /\ ~Through(r)
    <3>1. parts[mp[r].upload] # Absent /\ mp'[r] = mp[r]
      BY <1>6, <2>2, ComesThrough
    <3> QED
      BY <1>1, <1>6, <2>2, <3>1 DEF On
  <2>3. CASE q = r /\ Through(r)
    <3>1. Steady(r)
      <4>1. Active(r)
        BY <2>3 DEF Through, Working
      <4> QED
        BY <4>1, GoingOn DEF ObjectShape, UploadShape, BeginsPut, BeginsCopy, BeginsDelete, Opens, Joins
    <3>2. On(r, u) /\ Completing(r) /\ req[r].pc \notin {"difference", "drop"}
      BY <1>1, <1>6, <2>3, <3>1 DEF Steady, On, Through
    <3>3. Completing(r)'
      BY <3>1, <3>2 DEF Steady, Completing
    <3>4. req[r].obj = o /\ Active(r)
      BY <1>1, <3>2, ItsUpload DEF UploadsApart, ApartAt, On, Working, Completing
    <3>5. req[r].pc # "account"
      BY <1>1, <3>2, <3>4, Here DEF Knows, CompleteKnows
    <3>6. \/ PassesOn(r) \/ Joins(r) \/ WritesRow(r) \/ DropsUpload(r) \/ Assembles(r) \/ ReadsHead(r)
      BY <3>3, ShapesByOp
    <3>7. Active(r)'
      BY <1>6, <2>3 DEF Through, Working
    <3>8. req'[r].pc \notin {"difference", "drop"}
      <4>1. CASE PassesOn(r)
        <5>1. <<req[r].pc, req'[r].pc>> \in Passes
          BY <4>1 DEF PassesOn
        <5>2. req[r].pc # "letgo"
          BY <3>2, ItsUpload DEF At, Completing
        <5> QED
          BY <3>2, <3>5, <5>1, <5>2 DEF Passes, Waiting
      <4>2. CASE ~PassesOn(r)
        BY <3>4, <3>6, <3>7, <4>2 DEF Joins, WritesRow, DropsUpload, Assembles, ReadsHead, Active, Resting
      <4> QED
        BY <4>1, <4>2
    <3> QED
      BY <2>3, <3>3, <3>8
  <2> QED
    BY <2>1, <2>2, <2>3
<1> QED
  BY <1>3, <1>4, <1>5, <1>6 DEF Shelters

\* An object that a step leaves without a row is sheltered, or on its way to one.
LEMMA OrphansKeptOn ==
  ASSUME FInv, FInv', UploadsApart, UploadsApart', Calm, NEW r \in Requests, Together(r),
         ObjectShape(r) \/ UploadShape(r)
  PROVE  OrphansKept'
<1> DEFINE g == req'[r]
           h == req[r]
<1>0. Knows(r) /\ OrphansKept /\ PartsHeld
  BY DEF Calm, Aware
<1>1. SUFFICES ASSUME NEW o \in Object, row'[o] = Absent, blob'[o] # Absent
               PROVE  \/ \E u \in Uploads : Shelters(u, o)'
                      \/ \E q \in Requests : /\ Writing(q)' /\ req'[q].pc \in Sending
                                             /\ req'[q].obj = o
  BY DEF OrphansKept
<1>2. CASE row'[o] = row[o] /\ blob'[o] = blob[o]
  <2>1. \/ \E u \in Uploads : Shelters(u, o)
        \/ \E q \in Requests : Writing(q) /\ req[q].pc \in Sending /\ req[q].obj = o
    BY <1>0, <1>1, <1>2 DEF OrphansKept
  <2>2. CASE \E u \in Uploads : Shelters(u, o)
    BY <1>0, <1>1, <1>2, <2>2, ShelterStays
  <2>3. ASSUME NEW q \in Requests, Writing(q), req[q].pc \in Sending, req[q].obj = o
        PROVE  Writing(q)' /\ req'[q].pc \in Sending /\ req'[q].obj = o
    <3>1. CASE q # r
      BY <2>3, <3>1, OthersStay DEF Writing
    <3>2. CASE q = r
      <4>1. Active(r)
        BY <2>3, <3>2 DEF Sending, Active, Resting
      <4>2. Steady(r)
        BY <4>1, GoingOn DEF ObjectShape, UploadShape, BeginsPut, BeginsCopy, BeginsDelete, Opens, Joins
      <4>3. Writing(r)'
        BY <2>3, <3>2, <4>2 DEF Steady, Writing
      <4>4. \/ PassesOn(r) \/ BeginsPut(r) \/ BeginsCopy(r) \/ BeginsWriting(r)
            \/ Sends(r) \/ WritesRow(r)
        BY <4>3, ShapesByOp
      <4>5. CASE PassesOn(r)
        <5>1. <<h.pc, g.pc>> \in Passes /\ Same(g, h)
          BY <4>5 DEF PassesOn
        <5>2. h.pc = "update" /\ g.pc = "insert"
          BY <2>3, <3>2, <5>1 DEF Passes, Waiting, Sending
        <5> QED
          BY <2>3, <3>2, <4>3, <5>1, <5>2 DEF Same, Sending
      <4>6. CASE WritesRow(r)
        <5>1. row' = [row EXCEPT ![o] = h.size] /\ h.size \in Nat
          BY <2>3, <3>2, <4>6, Here DEF WritesRow
        <5> QED
          BY <1>1, <5>1, AbsentAssumption DEF FInv, TypeOK
      <4> QED
        BY <2>3, <3>2, <4>1, <4>4, <4>5, <4>6 DEF BeginsPut, BeginsCopy, BeginsWriting, Sends, At, Sending
    <3> QED
      BY <3>1, <3>2
  <2> QED
    BY <2>1, <2>2, <2>3
<1>3. CASE Sends(r)
  <2>1. /\ Writing(r) /\ g.pc = "update" /\ Same(g, h)
        /\ row' = row /\ blob' = [blob EXCEPT ![h.obj] = h.size]
    BY <1>3 DEF Sends
  <2>2. CASE o = h.obj
    BY <2>1, <2>2 DEF Same, Writing, Sending
  <2> QED
    BY <1>2, <2>1, <2>2
<1>4. CASE WritesRow(r)
  <2>1. blob' = blob /\ row' = [row EXCEPT ![h.obj] = h.size] /\ h.size \in Nat
    BY <1>4, Here DEF WritesRow
  <2>2. o # h.obj
    BY <1>1, <2>1, AbsentAssumption DEF FInv, TypeOK
  <2> QED
    BY <1>2, <2>1, <2>2
<1>5. CASE BeginsDelete(r)
  <2>1. row' = row /\ blob' = Erase(g.keys)
    BY <1>5 DEF BeginsDelete
  <2>2. blob'[o] = blob[o]
    BY <1>1, <2>1 DEF Erase
  <2> QED
    BY <1>2, <2>1, <2>2
<1>6. CASE RemovesRow(r)
  <2>1. h.pc = "remove" /\ blob' = blob /\ row' = [row EXCEPT ![h.obj] = Absent]
    BY <1>6 DEF RemovesRow, At
  <2>2. blob[h.obj] = Absent
    BY <1>0, <2>1 DEF Knows, DeleteKnows, DeletePcs
  <2>3. o # h.obj
    BY <1>1, <2>1, <2>2
  <2> QED
    BY <1>2, <2>1, <2>3
<1>7. CASE Assembles(r)
  <2> DEFINE u == mp[r].upload
  <2>1. /\ u \in Uploads /\ h.obj \in Object
        /\ On(r, u) /\ Completing(r) /\ upload[u] # Absent /\ upload[u].obj = h.obj
        /\ mp[r].held = upload[u].reserved
        /\ parts[u] # Absent /\ parts' = [parts EXCEPT ![u] = Absent]
    BY <1>0, <1>7, AssembledHeld
  <2>2. PICK n \in Nat : n <= mp[r].held /\ blob' = [blob EXCEPT ![h.obj] = n]
    BY <1>0, <1>7, AssembledHeld
  <2>3. g.pc = "head" /\ Same(g, h) /\ UNCHANGED <<row, upload, mp>>
    BY <1>7 DEF Assembles
  <2>4. CASE o = h.obj
    <3>1. blob'[o] = n
      BY <2>2, <2>4 DEF FInv, TypeOK
    <3>2. parts'[u] = Absent
      BY <2>1 DEF FInv, TypeOK
    <3>3. PICK v \in Uploads : v = u
      BY <2>1
    <3>4. Completing(r)' /\ On(r, v)' /\ Through(r)'
      BY <2>1, <2>3, <3>3 DEF Completing, Same, On, Working, Active, Resting, Through, Enders
    <3>5. ASSUME NEW q \in Requests, On(q, v)', Through(q)'
          PROVE  Completing(q)' /\ req'[q].pc \notin {"difference", "drop"}
      <4>1. mp'[r].upload = v
        BY <2>3, <3>3
      <4>2. q = r
        BY <3>4, <3>5, <4>1 DEF UploadsApart, ApartAt, On
      <4> QED
        BY <2>3, <3>4, <4>2
    <3>6. upload'[v] = upload[v] /\ blob'[o] # Absent /\ blob'[o] <= upload'[v].reserved
      BY <2>1, <2>2, <2>3, <3>1, <3>3, AbsentAssumption
    <3>7. Shelters(v, o)'
      BY <2>1, <2>4, <3>2, <3>3, <3>5, <3>6 DEF Shelters
    <3> QED
      BY <3>7
  <2> QED
    BY <1>2, <2>2, <2>3, <2>4
<1> QED
  BY <1>2, <1>3, <1>4, <1>5, <1>6, <1>7, QuietShapes

----------------------------------------------------------------------------
(* And the parts stay on their upload's row, or on their way there.        *)

\* Only a part that the store has just got, or that is just entered, is on its way.
LEMMA AddsChange ==
  ASSUME FInv, FInv', NEW r \in Requests, Together(r), NEW u \in Uploads
  PROVE  /\ Total(Adds(u)', Requests) = Total(Adds(u), Requests) + (AddTo(r, u)' - AddTo(r, u))
         /\ AddTo(r, u) \in Nat /\ AddTo(r, u)' \in Nat
         /\ Total(Adds(u), Requests) \in Nat /\ Total(Adds(u)', Requests) \in Nat
<1> DEFINE f == Adds(u)
           h == Adds(u)'
<1>1. \A q \in Requests : f[q] = AddTo(q, u) /\ f[q] \in Nat
  BY PartNumbersAre
<1>2. ASSUME NEW q \in Requests
      PROVE  h[q] = AddTo(q, u)' /\ h[q] \in Nat
  <2>1. h[q] = AddTo(q, u)'
    BY DEF Adds
  <2>2. req'[q].size \in Nat
    BY HereNext
  <2>3. AddTo(q, u)' \in Nat
    BY <2>2 DEF AddTo
  <2> QED
    BY <2>1, <2>3
<1>3. \A q \in Requests \ {r} : h[q] = f[q]
  BY <1>1, <1>2, OthersStay DEF AddTo, At
<1>4. ChangedAt(f, h, r, Requests)
  BY <1>1, <1>2, <1>3 DEF ChangedAt
<1>5. Total(h, Requests) = Total(f, Requests) + (h[r] - f[r])
  <2> HIDE DEF f, h
  <2> QED
    BY <1>4, FiniteAssumption, TotalChange
<1>6. Total(f, Requests) \in Nat /\ Total(h, Requests) \in Nat
  <2> HIDE DEF f, h
  <2> QED
    BY <1>1, <1>2, FiniteAssumption, TotalNat
<1> QED
  BY <1>1, <1>2, <1>5, <1>6

\* Where r adds nothing before or after, its upload's row grows at most.
LEMMA HeldStill ==
  ASSUME FInv, FInv', PartsHeld, NEW r \in Requests, Together(r), NEW u \in Uploads,
         parts'[u] # Absent, parts'[u] = parts[u], OnRow(u) \in Nat, OnRow(u)' \in Nat,
         OnRow(u)' + AddTo(r, u)' >= OnRow(u) + AddTo(r, u)
  PROVE  InParts(u)' <= OnRow(u)' + Total(Adds(u)', Requests)
<1>1. PartBytes(u)' = PartBytes(u)
  BY DEF PartBytes
<1>2. InParts(u)' = InParts(u)
  BY <1>1 DEF InParts
<1>3. InParts(u) \in Nat /\ InParts(u) <= OnRow(u) + Total(Adds(u), Requests)
  BY PartNumbersAre DEF PartsHeld
<1>4. /\ Total(Adds(u)', Requests) = Total(Adds(u), Requests) + (AddTo(r, u)' - AddTo(r, u))
      /\ AddTo(r, u) \in Nat /\ AddTo(r, u)' \in Nat
      /\ Total(Adds(u), Requests) \in Nat /\ Total(Adds(u)', Requests) \in Nat
  BY AddsChange
<1> QED
  BY <1>2, <1>3, <1>4

\* A part grows the parts of its upload by its size at most.
LEMMA PartStored1 ==
  ASSUME FInv, FInv', NEW u \in Uploads, parts[u] # Absent, NEW p \in PartNumbers, NEW n \in Nat,
         parts' = [parts EXCEPT ![u][p] = n]
  PROVE  InParts(u)' <= InParts(u) + n /\ InParts(u) \in Nat /\ InParts(u)' \in Nat
<1> DEFINE f == PartBytes(u)
           h == PartBytes(u)'
<1>1. /\ \A q \in PartNumbers : f[q] \in Nat /\ f[q] = Stored(parts[u][q])
      /\ InParts(u) = Total(f, PartNumbers) /\ InParts(u) \in Nat
  BY PartNumbersAre DEF PartBytes, InParts
<1>2. parts[u] \in [PartNumbers -> Nat \cup {Absent}]
  BY DEF FInv, TypeOK
<1>3. parts'[u] = [parts[u] EXCEPT ![p] = n]
  BY DEF FInv, TypeOK
<1>4. h = [q \in PartNumbers |-> Stored(parts'[u][q])]
  BY DEF PartBytes
<1>5. h[p] = n /\ \A q \in PartNumbers \ {p} : h[q] = f[q]
  BY <1>1, <1>2, <1>3, <1>4, AbsentAssumption DEF Stored
<1>6. ChangedAt(f, h, p, PartNumbers)
  BY <1>1, <1>5 DEF ChangedAt
<1>7. InParts(u)' = Total(h, PartNumbers)
  BY DEF InParts
<1>8. Total(h, PartNumbers) = Total(f, PartNumbers) + (h[p] - f[p]) /\ Total(h, PartNumbers) \in Nat
  <2>1. \A q \in PartNumbers : h[q] \in Nat
    BY <1>1, <1>5
  <2> HIDE DEF f, h
  <2> QED
    BY <1>6, <2>1, UploadsAssumption, TotalChange, TotalNat
<1> QED
  BY <1>1, <1>5, <1>7, <1>8

\* Parts stay on their rows, or on the way.
LEMMA PartsHeldOn ==
  ASSUME FInv, FInv', UploadsApart, PartsHeld, NEW r \in Requests, Together(r), Knows(r), Knows(r)',
         ObjectShape(r) \/ UploadShape(r)
  PROVE  PartsHeld'
<1> DEFINE g == req'[r]
           h == req[r]
           v == mp[r].upload
<1>1. SUFFICES ASSUME NEW u \in Uploads, parts'[u] # Absent
               PROVE  InParts(u)' <= OnRow(u)' + Total(Adds(u)', Requests)
  BY DEF PartsHeld
<1>2. OnRow(u) \in Nat /\ OnRow(u)' \in Nat
  <2>1. OnRow(u) \in Nat
    BY PartNumbersAre
  <2>2. upload'[u] \in [obj : Object, reserved : Nat] \cup {Absent}
    BY DEF FInv, TypeOK
  <2>3. OnRow(u)' = IF upload'[u] = Absent THEN 0 ELSE upload'[u].reserved
    BY DEF OnRow
  <2> QED
    BY <2>1, <2>2, <2>3
<1>3. AddTo(r, u) \in Nat /\ AddTo(r, u)' \in Nat /\ h.size \in Nat
  BY AddsChange, Here
<1>4. CASE AddsPart(r)
  <2>1. /\ h.pc = "add" /\ g.pc = "ok" /\ parts' = parts /\ mp' = mp
        /\ upload[v] # Absent /\ upload' = [upload EXCEPT ![v].reserved = @ + h.size]
    BY <1>4 DEF AddsPart, At
  <2>2. CASE u = v
    <3>1. upload[v] \in [obj : Object, reserved : Nat] /\ upload[v].reserved \in Nat
      BY <2>1, <2>2, UploadRow DEF FInv
    <3>2. upload'[v] = [upload[v] EXCEPT !.reserved = @ + h.size]
      BY <2>1, <2>2 DEF FInv, TypeOK
    <3>3. upload'[v].reserved = upload[v].reserved + h.size
      BY <3>1, <3>2
    <3>4. upload'[v] \in [obj : Object, reserved : Nat]
      BY <1>3, <3>1, <3>2
    <3>5. upload'[v] # Absent
      BY <3>4, AbsentUploadAssumption
    <3>6. OnRow(u)' = upload[v].reserved + h.size /\ OnRow(u) = upload[v].reserved
      BY <2>1, <2>2, <3>3, <3>5 DEF OnRow
    <3>7. AddTo(r, u) = h.size /\ AddTo(r, u)' = 0
      BY <2>1, <2>2 DEF AddTo, At
    <3>8. OnRow(u)' + AddTo(r, u)' >= OnRow(u) + AddTo(r, u)
      BY <1>3, <3>1, <3>6, <3>7
    <3> QED
      BY <1>1, <1>2, <2>1, <3>8, HeldStill
  <2>3. CASE u # v
    <3>1. OnRow(u)' = OnRow(u) /\ AddTo(r, u) = 0 /\ AddTo(r, u)' = 0
      BY <2>1, <2>3 DEF OnRow, AddTo, At
    <3>2. OnRow(u)' + AddTo(r, u)' >= OnRow(u) + AddTo(r, u)
      BY <1>2, <3>1
    <3> QED
      BY <1>1, <1>2, <2>1, <3>2, HeldStill
  <2> QED
    BY <2>2, <2>3
<1>5. CASE StoresPart(r)
  <2>1. /\ h.pc = "admit" /\ g.pc = "add" /\ Same(g, h) /\ UNCHANGED <<row, blob, upload, mp>>
        /\ h.op \in PartOps /\ parts[v] # Absent
        /\ parts' = [parts EXCEPT ![v][mp[r].part] = h.size]
    BY <1>5 DEF StoresPart, At
  <2>2. OnRow(u)' = OnRow(u)
    BY <2>1 DEF OnRow
  <2>3. CASE u = v
    <3>1. mp[r].part \in PartNumbers
      BY <2>1, ItsUpload
    <3>2. InParts(u)' <= InParts(u) + h.size /\ InParts(u) \in Nat /\ InParts(u)' \in Nat
      BY <1>3, <2>1, <2>3, <3>1, PartStored1
    <3>3. InParts(u) <= OnRow(u) + Total(Adds(u), Requests)
      BY <2>1, <2>3 DEF PartsHeld
    <3>4. AddTo(r, u) = 0 /\ AddTo(r, u)' = h.size
      BY <2>1, <2>3 DEF AddTo, At, Same
    <3>5. /\ Total(Adds(u)', Requests) = Total(Adds(u), Requests) + (AddTo(r, u)' - AddTo(r, u))
          /\ Total(Adds(u), Requests) \in Nat /\ Total(Adds(u)', Requests) \in Nat
      BY AddsChange
    <3> QED
      BY <1>2, <1>3, <2>2, <3>2, <3>3, <3>4, <3>5
  <2>4. CASE u # v
    <3>1. parts'[u] = parts[u] /\ AddTo(r, u) = 0 /\ AddTo(r, u)' = 0
      BY <2>1, <2>4 DEF AddTo, At
    <3>2. OnRow(u)' + AddTo(r, u)' >= OnRow(u) + AddTo(r, u)
      BY <1>2, <2>2, <3>1
    <3> QED
      BY <1>1, <1>2, <3>1, <3>2, HeldStill
  <2> QED
    BY <2>3, <2>4
<1>6. CASE ~AddsPart(r) /\ ~StoresPart(r)
  <2>1. AddTo(r, u) = 0 /\ AddTo(r, u)' = 0
    <3>1. ~At(r, "add") /\ ~At(r, "add")'
      BY <1>6 DEF ObjectShape, UploadShape, PassesOn, Passes, Waiting, BeginsPut, BeginsCopy, BeginsWriting,
         SkipsKey, FindsRow, Opens, Joins, ReadsSource, Sends, WritesRow, RowRead,
         BeginsDelete, RemovesRow, InsertsUpload, ForgetsParts, DropsUpload, Assembles, ReadsHead, At,
         Active, Resting
    <3> QED
      BY <3>1 DEF AddTo
  <2>2. CASE Opens(r) /\ u = mp'[r].upload
    <3>1. parts' = [parts EXCEPT ![u] = [p \in PartNumbers |-> Absent]]
      BY <2>2 DEF Opens
    <3>2. parts'[u] = [p \in PartNumbers |-> Absent]
      BY <3>1 DEF FInv, TypeOK
    <3>3. \A p \in PartNumbers : (PartBytes(u)')[p] = 0
      BY <3>2 DEF PartBytes, Stored
    <3>4. InParts(u)' = Total(PartBytes(u)', PartNumbers)
      BY DEF InParts
    <3>5. Total(PartBytes(u)', PartNumbers) = 0
      BY <3>3, UploadsAssumption, TotalZero
    <3>6. Total(Adds(u)', Requests) \in Nat
      BY AddsChange
    <3> QED
      BY <1>2, <3>4, <3>5, <3>6
  <2>3. CASE ~(Opens(r) /\ u = mp'[r].upload)
    <3>1. parts'[u] = parts[u]
      <4>1. CASE Opens(r)
        BY <2>3, <4>1 DEF Opens
      <4>2. CASE ForgetsParts(r) \/ Assembles(r)
        <5>1. parts' = [parts EXCEPT ![v] = Absent]
          BY <4>2 DEF ForgetsParts, Assembles, Assembled
        <5> QED
          BY <1>1, <5>1 DEF FInv, TypeOK
      <4>3. CASE ~(Opens(r) \/ ForgetsParts(r) \/ Assembles(r))
        BY <1>6, <4>3 DEF ObjectShape, UploadShape, PassesOn, BeginsPut, BeginsCopy, BeginsWriting,
           SkipsKey, FindsRow, Joins, ReadsSource, Sends, WritesRow,
           BeginsDelete, RemovesRow, InsertsUpload, DropsUpload, ReadsHead, AllStay
      <4> QED
        BY <4>1, <4>2, <4>3
    <3>2. ~(DropsUpload(r) /\ v = u)
      <4>1. SUFFICES ASSUME DropsUpload(r), v = u
                     PROVE  FALSE
        OBVIOUS
      <4>2. Working(r) /\ Through(r)
        BY <4>1, ItsUpload DEF DropsUpload, At, Through, Working, Active, Resting, Enders, UploadOps,
           UploadOnlyOps
      <4>3. parts[v] = Absent
        BY <4>2 DEF UploadsApart, ApartAt
      <4> QED
        BY <1>1, <3>1, <4>1, <4>3
    <3>3. OnRow(u)' >= OnRow(u)
      <4>1. CASE upload[u] = Absent
        BY <1>2, <4>1 DEF OnRow
      <4>2. CASE upload[u] # Absent
        BY <3>2, <4>2, RowStays DEF OnRow
      <4> QED
        BY <4>1, <4>2
    <3>4. OnRow(u)' + AddTo(r, u)' >= OnRow(u) + AddTo(r, u)
      BY <1>2, <2>1, <3>3
    <3> QED
      BY <1>1, <1>2, <3>1, <3>4, HeldStill
  <2> QED
    BY <2>2, <2>3
<1> QED
  BY <1>4, <1>5, <1>6

----------------------------------------------------------------------------
(* While nothing is lost all that holds at every moment.                   *)

\* At the start.
LEMMA CalmInit ==
  ASSUME Init
  PROVE  Calm
<1>1. /\ \A r \in Requests : req[r] = NoHandler
      /\ \A o \in Object : row[o] = Absent /\ blob[o] = Absent
      /\ \A u \in Uploads : parts[u] = Absent
  BY DEF Init, ObjectsInit
<1>2. \A r \in Requests : ~Active(r) /\ req[r].pc = "idle" /\ ~Writing(r)
  BY <1>1 DEF NoHandler, Active, Resting, Writing, WriteOps
<1>3. KeysApart
  BY <1>2 DEF KeysApart
<1>4. \A r \in Requests : Aware(r)
  BY <1>2 DEF Aware, Plain, Knows, WriteKnows, DeleteKnows, PartKnows, CompleteKnows, DeletePcs
<1>5. RowsFit /\ OrphansKept /\ PartsHeld
  BY <1>1 DEF RowsFit, Fits, OrphansKept, PartsHeld
<1> QED
  BY <1>3, <1>4, <1>5 DEF Calm

\* And from one to the next.
LEMMA CalmStep ==
  ASSUME SerialKeys, FreshKeys, FInv, FInv', UploadsApart, UploadsApart', Calm,
         NEW r \in Requests, Together(r), ObjectShape(r) \/ UploadShape(r)
  PROVE  Calm'
<1>1. KeysApart /\ RowsFit /\ PartsHeld /\ \A q \in Requests : Plain(q) /\ Knows(q)
  BY DEF Calm, Aware
<1>2. KeysApart'
  BY <1>1, KeepsOff, KeysStayApart
<1>3. Knows(r)'
  BY OwnKnows
<1>4. ASSUME NEW q \in Requests
      PROVE  Aware(q)'
  <2>1. CASE q = r
    BY <1>1, <1>3, <2>1, PlainStays DEF Aware
  <2>2. CASE q # r
    <3>1. Knows(q)'
      BY <1>1, <1>2, <2>2, OthersKnow
    <3>2. Plain(q)'
      BY <1>1, <2>2, OthersStay DEF Plain, Active
    <3> QED
      BY <3>1, <3>2 DEF Aware
  <2> QED
    BY <2>1, <2>2
<1>5. RowsFit' /\ OrphansKept' /\ PartsHeld'
  BY <1>1, <1>3, RowsFitOn, OrphansKeptOn, PartsHeldOn
<1> QED
  BY <1>2, <1>4, <1>5 DEF Calm

----------------------------------------------------------------------------
(* What the used and the count columns are still owed, in three ledgers    *)
(* alike: the bytes on a bucket's row, those on its owner's, and the       *)
(* objects.                                                                *)

Ledgers == {"bucket", "account", "count"}

\* The row an object is charged to in a ledger, and the column there.
Place(l, o) == IF l = "account" THEN Owner[BucketOf(o)] ELSE BucketOf(o)

Places(l) == IF l = "account" THEN Users ELSE Buckets

Column(l, x) ==
  IF l = "account" THEN account[x].used
  ELSE IF l = "bucket" THEN bucket[x].used ELSE bucket[x].count

\* What an object's row comes to.
Worth(l, v) == IF v = Absent THEN 0 ELSE IF l = "count" THEN 1 ELSE v

\* What a write adds, what an object comes to, and what of a completed one its parts'
\* hold did not.
Grown(l, h) == IF l = "count" THEN h.new ELSE h.delta
Whole(l, h) == IF l = "count" THEN 1 ELSE h.size
Rest(l, h, m) == IF l = "count" THEN 0 ELSE h.size - m.held

\* The statement on this ledger's row is still to come.
Ahead(l, c) ==
  \/ c.at \in {"settle_bucket", "credit_bucket"}
  \/ l = "account" /\ c.at \in {"commit_user", "settle_user", "credit_user"}

\* What a handler has done to the object rows and not yet to the column.
Owes(l, h, c, m) ==
  IF h.pc \in {"reread", "account"} THEN IF h.op = "complete" THEN Whole(l, h) ELSE Grown(l, h)
  ELSE IF h.pc = "commit" /\ Ahead(l, c) THEN Grown(l, h)
  ELSE IF h.pc = "credit" \/ (h.pc = "credited" /\ Ahead(l, c)) THEN -Whole(l, h)
  ELSE IF h.pc = "difference" THEN IF l = "account" /\ c.at = "commit_user" THEN h.size
                                   ELSE Rest(l, h, m)
  ELSE IF h.pc = "drop" /\ Ahead(l, c) THEN Rest(l, h, m)
  ELSE 0

Owed(l, r) == Owes(l, req[r], call[r], mp[r])

OwedAt(l, x, r) == IF req[r].obj # Nowhere /\ Place(l, req[r].obj) = x THEN Owed(l, r) ELSE 0

\* Each request's and each object's part of a column.
DuesAt(l, x) == [r \in Requests |-> OwedAt(l, x, r)]

WorthAt(l, x) == [o \in Object |-> IF Place(l, o) = x THEN Worth(l, row[o]) ELSE 0]

\* The columns and what they are owed are what the object rows come to.
ChargesOK ==
  \A l \in Ledgers : \A x \in Places(l) :
    Column(l, x) + Total(DuesAt(l, x), Requests) = Total(WorthAt(l, x), Object)

\* The amounts a settle or a credit was called for.
CalledFor(h, c, m) ==
  /\ h.pc = "commit" /\ c.at \in {"settle_bucket", "settle_user"} =>
       c.bytes = h.delta /\ (c.at = "settle_bucket" => c.objects = h.new)
  /\ h.pc = "credited" /\ c.at \in {"credit_bucket", "credit_user"} => c.bytes = h.size
  /\ h.pc = "drop" /\ c.at \in {"settle_bucket", "settle_user"} =>
       c.bytes = h.size - m.held /\ (c.at = "settle_bucket" => c.objects = 0)

AllCalledFor == \A r \in Requests : CalledFor(req[r], call[r], mp[r])

\* There are finitely many objects, each of a bucket and of its owner.
LEMMA ObjectsPlaced ==
  /\ IsFiniteSet(Object) /\ IsFiniteSet(Requests)
  /\ \A o \in Object : o # Nowhere /\ \A l \in Ledgers : Place(l, o) \in Places(l)
<1>1. IsFiniteSet(Object)
  BY FiniteAssumption, FS_Product DEF Object
<1> QED
  BY <1>1, FiniteAssumption, ItsBucket DEF Place, Places, Ledgers

\* The columns are numbers, and so is what an object comes to.
LEMMA ColumnsTyped ==
  ASSUME FInv
  PROVE  /\ \A l \in Ledgers : \A x \in Places(l) : Column(l, x) \in Int
         /\ \A o \in Object : \A l : Worth(l, row[o]) \in Nat
<1>1. \A l \in Ledgers : \A x \in Places(l) : Column(l, x) \in Int
  BY DEF FInv, TypeOK, QuotaTypeOK, BucketColumns, AccountColumns, Ledgers, Places, Column
<1>2. \A o \in Object : \A l : Worth(l, row[o]) \in Nat
  BY DEF FInv, TypeOK, Worth
<1> QED
  BY <1>1, <1>2

\* The same after a step.
LEMMA ColumnsTypedNext ==
  ASSUME FInv'
  PROVE  /\ \A l \in Ledgers : \A x \in Places(l) : Column(l, x)' \in Int
         /\ \A o \in Object : \A l : Worth(l, row'[o]) \in Nat
<1>1. \A l \in Ledgers : \A x \in Places(l) : Column(l, x)' \in Int
  BY DEF FInv, TypeOK, QuotaTypeOK, BucketColumns, AccountColumns, Ledgers, Places, Column
<1>2. \A o \in Object : \A l : Worth(l, row'[o]) \in Nat
  BY DEF FInv, TypeOK, Worth
<1> QED
  BY <1>1, <1>2

\* So is what is owed, before and after.
LEMMA OwesTyped ==
  ASSUME NEW l, NEW h, NEW c, NEW m,
         h.size \in Nat, h.delta \in Int, h.new \in {0, 1}, m.held \in Nat
  PROVE  Owes(l, h, c, m) \in Int
<1>1. Whole(l, h) \in Int /\ -Whole(l, h) \in Int /\ Grown(l, h) \in Int /\ Rest(l, h, m) \in Int
  BY DEF Whole, Grown, Rest
<1> QED
  BY <1>1 DEF Owes

\* What is owed of a request, and of it at a place, is an integer.
LEMMA OwedTyped ==
  ASSUME FInv, NEW r \in Requests
  PROVE  \A l : Owed(l, r) \in Int /\ \A x : OwedAt(l, x, r) \in Int
<1>1. \A l : Owed(l, r) \in Int
  BY Here, OwesTyped DEF Owed
<1> QED
  BY <1>1 DEF OwedAt

\* The same after a step.
LEMMA OwedTypedNext ==
  ASSUME FInv', NEW r \in Requests
  PROVE  \A l : Owed(l, r)' \in Int /\ \A x : OwedAt(l, x, r)' \in Int
<1>1. req'[r].size \in Nat /\ req'[r].delta \in Int /\ req'[r].new \in {0, 1} /\ mp'[r].held \in Nat
  BY DEF FInv, TypeOK, Handler
<1>2. \A l : Owed(l, r)' \in Int
  BY <1>1, OwesTyped DEF Owed
<1> QED
  BY <1>2 DEF OwedAt

\* Where nothing is owed.
NoDues(h, c) ==
  /\ h.pc \notin {"reread", "account", "credit", "difference"}
  /\ h.pc \in {"commit", "credited", "drop"} => c.at \in Ended

\* There nothing is due, and no procedure has an amount to be called with.
LEMMA NothingOwed ==
  ASSUME NEW h, NEW c, NEW m, NoDues(h, c)
  PROVE  (\A l : Owes(l, h, c, m) = 0) /\ CalledFor(h, c, m)
  BY DEF NoDues, Owes, Ahead, Ended, CalledFor

\* What is owed is owed for an object, whose row bears it; and a completion that owes is the
\* one the store let through.
LEMMA OwedBorne ==
  ASSUME FInv, NEW r \in Requests, Aware(r), NEW l \in Ledgers, Owed(l, r) # 0
  PROVE  LET o == req[r].obj IN
         /\ o \in Object /\ Active(r) /\ o \in TouchedBy(req[r])
         /\ Owed(l, r) <= Worth(l, row[o])
         /\ Completing(r) => Through(r)
<1> DEFINE o == req[r].obj
<1>0. /\ Placed(req[r], call[r], mp[r]) /\ req[r].size \in Nat /\ req[r].delta \in Int
      /\ req[r].new \in {0, 1} /\ mp[r].held \in Nat /\ req[r].size # Absent
      /\ Knows(r)
  BY Here, ItsObjects DEF Aware
<1>1. req[r].pc \in {"reread", "account", "commit", "credit", "credited", "difference", "drop"}
  BY DEF Owed, Owes
<1>2. Active(r)
  BY <1>1 DEF Active, Resting
<1>3. o \in Object
  BY <1>1, ItsObjects DEF Resting
<1>4. Worth(l, row[o]) \in Nat
  BY <1>3, ColumnsTyped
<1>5. CASE Writing(r)
  <2>1. req[r].pc \in Written
    BY <1>0, <1>1, <1>5 DEF Placed, OpAt, Writing, WriteOps, DeletePcs, Enders, Written
  <2>2. row[o] = req[r].size /\ req[r].size - req[r].delta >= 0
    BY <1>0, <1>2, <1>5, <2>1 DEF Knows, WriteKnows
  <2>3. Owed(l, r) \in {0, Grown(l, req[r])}
    <3>1. req[r].op # "complete"
      BY <1>5 DEF Writing, WriteOps
    <3> QED
      BY <2>1, <3>1 DEF Owed, Owes, Written
  <2>4. Worth(l, row[o]) = Whole(l, req[r])
    BY <1>0, <2>2 DEF Worth, Whole
  <2>5. Grown(l, req[r]) <= Whole(l, req[r])
    BY <1>0, <2>2 DEF Grown, Whole
  <2>6. o \in TouchedBy(req[r]) /\ ~Completing(r)
    BY <1>2, <1>5, TouchedAt DEF Writing, WriteOps, Completing
  <2> QED
    BY <1>2, <1>3, <1>4, <2>3, <2>4, <2>5, <2>6
<1>6. CASE req[r].pc \in {"credit", "credited"}
  <2>1. o \in req[r].keys
    BY <1>0, <1>6 DEF Knows, DeleteKnows, DeletePcs
  <2>2. o \in TouchedBy(req[r]) /\ ~Completing(r)
    BY <1>0, <1>2, <1>6, <2>1, TouchedAt DEF Placed, OpAt, Completing, DeletePcs
  <2>3. Whole(l, req[r]) \in Nat
    BY <1>0 DEF Whole
  <2>4. Owed(l, r) \in {0, -Whole(l, req[r])}
    BY <1>6 DEF Owed, Owes
  <2> QED
    BY <1>2, <1>3, <1>4, <2>2, <2>3, <2>4
<1>7. CASE Completing(r)
  <2>1. req[r].pc \in {"reread", "account", "difference", "drop"}
    BY <1>0, <1>1, <1>7 DEF Placed, OpAt, Completing, WriteOps, DeletePcs
  <2>2. row[o] = req[r].size
    BY <1>0, <1>2, <1>7, <2>1 DEF Knows, CompleteKnows
  <2>3. Worth(l, row[o]) = Whole(l, req[r])
    BY <1>0, <2>2 DEF Worth, Whole
  <2>4. Owed(l, r) \in {0, Whole(l, req[r]), Rest(l, req[r], mp[r])}
    <3>1. CASE req[r].pc \in {"reread", "account"}
      BY <1>7, <3>1 DEF Owed, Owes, Completing
    <3>2. CASE req[r].pc = "difference" /\ l = "account" /\ call[r].at = "commit_user"
      BY <3>2 DEF Owed, Owes, Whole
    <3>3. CASE req[r].pc = "difference" /\ ~(l = "account" /\ call[r].at = "commit_user")
      BY <3>3 DEF Owed, Owes
    <3>4. CASE req[r].pc = "drop"
      BY <3>4 DEF Owed, Owes
    <3> QED
      BY <2>1, <3>1, <3>2, <3>3, <3>4
  <2>5. Whole(l, req[r]) \in Nat /\ Rest(l, req[r], mp[r]) <= Whole(l, req[r])
        /\ Rest(l, req[r], mp[r]) \in Int
    BY <1>0 DEF Whole, Rest
  <2>6. o \in TouchedBy(req[r])
    BY <1>2, <1>7, TouchedAt
  <2>7. Through(r)
    BY <1>2, <1>7, <2>1, WorkingAt DEF Through, Working, At
  <2> QED
    BY <1>2, <1>3, <2>3, <2>4, <2>5, <2>6, <2>7
<1>8. Writing(r) \/ Completing(r) \/ req[r].pc \in {"credit", "credited"}
  <2>1. req[r].pc = "drop" => call[r].at \in {"release_user", "ok"} \/ Completing(r)
    BY <1>0 DEF Placed, OpAt, CallAt, Enders, Completing
  <2>2. CASE req[r].pc = "drop"
    BY <2>1, <2>2 DEF Owed, Owes, Ahead
  <2>3. CASE req[r].pc # "drop"
    BY <1>0, <1>1, <2>3 DEF Placed, OpAt, Writing, Completing
  <2> QED
    BY <2>2, <2>3
<1> QED
  BY <1>5, <1>6, <1>7, <1>8

\* No two owe for the same object.
LEMMA OwedApart ==
  ASSUME FInv, UploadsApart, KeysApart, NEW p \in Requests, NEW q \in Requests, p # q,
         Aware(p), Aware(q), NEW l \in Ledgers, Owed(l, p) # 0, Owed(l, q) # 0
  PROVE  req[p].obj # req[q].obj
<1>1. /\ Active(p) /\ req[p].obj \in TouchedBy(req[p]) /\ (Completing(p) => Through(p))
      /\ Active(q) /\ req[q].obj \in TouchedBy(req[q]) /\ (Completing(q) => Through(q))
  BY OwedBorne
<1>2. ~(Completing(p) /\ Completing(q) /\ mp[p].upload = mp[q].upload)
  <2> SUFFICES ASSUME Completing(p), Completing(q), mp[p].upload = mp[q].upload
               PROVE  FALSE
    OBVIOUS
  <2>1. Working(p) /\ Through(p) /\ On(q, mp[p].upload) /\ Through(q)
    BY <1>1, WorkingAt DEF On
  <2> QED
    BY <2>1 DEF UploadsApart, ApartAt
<1> QED
  BY <1>1, <1>2 DEF KeysApart

\* So a column covers what one request would take off it.
LEMMA OwedCovered ==
  ASSUME FInv, UploadsApart, KeysApart, \A q \in Requests : Aware(q), ChargesOK,
         NEW r \in Requests, NEW l \in Ledgers, NEW x \in Places(l)
  PROVE  Column(l, x) + OwedAt(l, x, r) >= 0
<1> DEFINE key == [q \in Requests |-> req[q].obj]
           f == DuesAt(l, x)
           g == WorthAt(l, x)
<1>0. /\ \A q \in Requests : key[q] = req[q].obj /\ f[q] = OwedAt(l, x, q) /\ f[q] \in Int
      /\ \A o \in Object : g[o] = (IF Place(l, o) = x THEN Worth(l, row[o]) ELSE 0) /\ g[o] \in Nat
      /\ Column(l, x) \in Int
      /\ Column(l, x) + Total(f, Requests) = Total(g, Object)
  <2>1. \A q \in Requests : f[q] = OwedAt(l, x, q) /\ f[q] \in Int
    BY OwedTyped DEF DuesAt
  <2>2. \A o \in Object : g[o] = (IF Place(l, o) = x THEN Worth(l, row[o]) ELSE 0) /\ g[o] \in Nat
    BY ColumnsTyped DEF WorthAt
  <2> QED
    BY <2>1, <2>2, ColumnsTyped DEF ChargesOK
<1> HIDE DEF key, f, g
<1>1. ASSUME NEW q \in Requests, f[q] # 0
      PROVE  key[q] \in Object /\ f[q] <= g[key[q]] /\ Owed(l, q) # 0
  <2>1. Place(l, req[q].obj) = x /\ f[q] = Owed(l, q) /\ Owed(l, q) # 0
    BY <1>0, <1>1 DEF OwedAt
  <2>2. req[q].obj \in Object /\ Owed(l, q) <= Worth(l, row[req[q].obj])
    BY <2>1, OwedBorne
  <2> QED
    BY <1>0, <2>1, <2>2
<1>2. \A p, q \in Requests : p # q /\ f[p] # 0 /\ f[q] # 0 => key[p] # key[q]
  BY <1>0, <1>1, OwedApart
<1>3. Borne(Requests, Object, key, f, g)
  BY <1>0, <1>1, <1>2 DEF Borne
<1>4. /\ Total(f, Requests) - f[r] <= Total(g, Object)
      /\ Total(f, Requests) \in Int /\ Total(g, Object) \in Int /\ f[r] \in Int
  BY <1>0, <1>3, ObjectsPlaced, TotalSpared
<1> QED
  BY <1>0, <1>4

\* A step that writes no row keeps a column with what it is owed; one that writes a row is
\* owed for.
Paid(l, r) ==
  /\ UNCHANGED row
  /\ \A x \in Places(l) : (Column(l, x) + OwedAt(l, x, r))' = Column(l, x) + OwedAt(l, x, r)

Taken(l, r) ==
  LET o == req[r].obj IN
  /\ \A x \in Places(l) : Column(l, x)' = Column(l, x)
  /\ o \in Object /\ req'[r].obj = o
  /\ \A y \in Object \ {o} : row'[y] = row[y]
  /\ Owed(l, r)' - Worth(l, row'[o]) = Owed(l, r) - Worth(l, row[o])

\* Then the columns and what they are owed stay what the rows come to.
LEMMA ChargesFollow ==
  ASSUME FInv, FInv', NEW r \in Requests, Together(r), ChargesOK, NEW l \in Ledgers,
         Paid(l, r) \/ Taken(l, r), NEW x \in Places(l)
  PROVE  Column(l, x)' + Total(DuesAt(l, x)', Requests) = Total(WorthAt(l, x)', Object)
<1> DEFINE f == DuesAt(l, x)
           h == DuesAt(l, x)'
           s == WorthAt(l, x)
           t == WorthAt(l, x)'
           n == Column(l, x)
           m == Column(l, x)'
           o == req[r].obj
<1>0. /\ IsFiniteSet(Requests) /\ IsFiniteSet(Object) /\ n \in Int /\ m \in Int
      /\ n + Total(f, Requests) = Total(s, Object)
  BY ObjectsPlaced, ColumnsTyped, ColumnsTypedNext DEF ChargesOK
<1>1. /\ \A q \in Requests : /\ f[q] = OwedAt(l, x, q) /\ h[q] = OwedAt(l, x, q)'
                             /\ f[q] \in Int /\ h[q] \in Int
      /\ \A q \in Requests \ {r} : h[q] = f[q]
  <2>1. \A q \in Requests : f[q] = OwedAt(l, x, q) /\ h[q] = OwedAt(l, x, q)'
    BY DEF DuesAt
  <2>2. \A q \in Requests \ {r} : OwedAt(l, x, q)' = OwedAt(l, x, q)
    BY OthersStay DEF OwedAt, Owed
  <2> QED
    BY <2>1, <2>2, OwedTyped, OwedTypedNext
<1>2. \A y \in Object : /\ s[y] = IF Place(l, y) = x THEN Worth(l, row[y]) ELSE 0
                        /\ t[y] = IF Place(l, y) = x THEN Worth(l, row'[y]) ELSE 0
                        /\ s[y] \in Int /\ t[y] \in Int
  BY ColumnsTyped, ColumnsTypedNext DEF WorthAt
<1>3. \/ m + h[r] = n + f[r] /\ \A y \in Object : t[y] = s[y]
      \/ \E y \in Object : /\ m = n /\ h[r] - t[y] = f[r] - s[y]
                           /\ \A z \in Object \ {y} : t[z] = s[z]
  <2>1. CASE Paid(l, r)
    <3>1. m + h[r] = n + f[r] /\ row' = row
      BY <1>1, <2>1 DEF Paid
    <3> QED
      BY <1>2, <3>1
  <2>2. CASE Taken(l, r)
    <3>1. /\ m = n /\ o \in Object /\ req'[r].obj = o /\ o # Nowhere
          /\ \A y \in Object \ {o} : row'[y] = row[y]
          /\ Owed(l, r)' - Worth(l, row'[o]) = Owed(l, r) - Worth(l, row[o])
      BY <2>2, ObjectsPlaced DEF Taken
    <3>2. /\ f[r] = IF Place(l, o) = x THEN Owed(l, r) ELSE 0
          /\ h[r] = IF Place(l, o) = x THEN Owed(l, r)' ELSE 0
      BY <1>1, <3>1 DEF OwedAt
    <3>3. h[r] - t[o] = f[r] - s[o]
      BY <1>2, <3>1, <3>2
    <3>4. \A z \in Object \ {o} : t[z] = s[z]
      BY <1>2, <3>1
    <3> QED
      BY <3>1, <3>3, <3>4
  <2> QED
    BY <2>1, <2>2
<1> HIDE DEF f, h, s, t, n, m
<1>4. Follows(Requests, Object, f, h, s, t, r, n, m)
  BY <1>0, <1>1, <1>2, <1>3 DEF Follows
<1>5. m + Total(h, Requests) = Total(t, Object)
  BY <1>0, <1>4, TotalsFollow
<1> QED
  BY <1>5 DEF h, t, m

----------------------------------------------------------------------------
(* What each step does to the columns and to what they are owed.           *)

\* Every ledger is paid, or every one owed for what is written.
AllPaid(r) == \A l \in Ledgers : Paid(l, r)

AllTaken(r) == \A l \in Ledgers : Taken(l, r)

\* The tables stay, and so do the dues.
LEMMA DuesKept ==
  ASSUME NEW r \in Requests, UNCHANGED <<bucket, account, row>>,
         \A l \in Ledgers : /\ Owed(l, r)' = Owed(l, r)
                            /\ Owed(l, r) = 0 \/ req'[r].obj = req[r].obj
  PROVE  AllPaid(r)
<1> SUFFICES ASSUME NEW l \in Ledgers PROVE Paid(l, r)
  BY DEF AllPaid
<1>1. \A x : OwedAt(l, x, r)' = OwedAt(l, x, r)
  BY DEF OwedAt
<1>2. \A x : Column(l, x)' = Column(l, x)
  BY DEF Column
<1> QED
  BY <1>1, <1>2 DEF Paid

\* The points of a handler where it owes nothing, whatever its call.
DuelessPcs ==
  Resting \cup {"begin", "reserve", "admit", "send", "update", "insert", "release", "abort",
                "find", "remove", "open", "source", "add", "forget", "letgo", "assemble", "head"}

\* The steps that write no object row and call no procedure start there, or at an answer,
\* and end there.
LEMMA QuietObjectSteps ==
  ASSUME FInv, NEW r \in Requests,
         \/ Start(r) \/ CopyBegin(r) \/ RefuseWrite(r) \/ SendWrite(r) \/ AnswerWrite(r)
         \/ FindRow(r) \/ Credited(r)
  PROVE  /\ UNCHANGED <<bucket, account, row>>
         /\ req[r].pc \in DuelessPcs \/ (call[r].at \in Ended /\ req[r].pc \in {"commit", "credited"})
         /\ req'[r].pc \in DuelessPcs
<1> USE DEF DuelessPcs, Resting, At
<1>0. TypeOK /\ req[r] \in AnyHandler /\ Placed(req[r], call[r], mp[r])
  BY Here
<1>1. UNCHANGED <<bucket, account, row>>
  BY DEF Start, StartPut, StartCopy, StartDelete, StartBatch, CopyBegin, RefuseWrite, SendWrite,
       AnswerWrite, FindRow, Credited, Drop, qvars
<1>2. req[r].pc \in DuelessPcs \/ (call[r].at \in Ended /\ req[r].pc \in {"commit", "credited"})
  <2>1. Start(r) => ~Active(r)
    BY ObjectBegun
  <2> QED
    BY <2>1 DEF Active, CopyBegin, RefuseWrite, SendWrite, Admitted, AnswerWrite, FindRow, Credited,
         Ended
<1>3. CASE Start(r)
  BY <1>1, <1>2, <1>3, ObjectBegun
<1>4. CASE CopyBegin(r)
  <2>1. req[r].obj \in Object
    BY <1>0, <1>4, ItsObjects DEF CopyBegin
  <2> QED
    BY <1>0, <1>1, <1>2, <1>4, <2>1, PutBegun DEF CopyBegin
<1>5. CASE RefuseWrite(r) \/ AnswerWrite(r)
  <2>1. PICK pc \in {"ok", "err"} : Goes(r, pc)
    BY <1>5 DEF RefuseWrite, AnswerWrite
  <2>2. pc \in AllPcs
    BY DEF AllPcs
  <2> QED
    BY <1>0, <1>1, <1>2, <2>1, <2>2, GoesOn
<1>6. CASE SendWrite(r)
  <2>1. Goes(r, "update") \/ GiveUp(r)
    BY <1>6 DEF SendWrite
  <2> QED
    BY <1>0, <1>1, <1>2, <2>1, GoesOn, GivesUp DEF AllPcs, WritePcs
<1>7. CASE FindRow(r)
  BY <1>0, <1>1, <1>2, <1>7, RowFound
<1>8. CASE Credited(r)
  <2>1. NextKey(r, req[r], req[r].obj) \/ Goes(r, "err")
    BY <1>8 DEF Credited
  <2> QED
    BY <1>0, <1>1, <1>2, <2>1, GoesOn, KeyDone DEF AllPcs
<1> QED
  BY <1>3, <1>4, <1>5, <1>6, <1>7, <1>8

\* The same of uploads.
LEMMA QuietUploadSteps ==
  ASSUME FInv, NEW r \in Requests, faults' = 0,
         \/ StartUpload(r) \/ InsertUpload(r) \/ ReadSource(r) \/ AddReserved(r) \/ DropUpload(r)
         \/ SendPart(r) \/ AskStore(r)
  PROVE  /\ UNCHANGED <<bucket, account, row>>
         /\ req[r].pc \in DuelessPcs \/ (call[r].at \in Ended /\ req[r].pc = "drop")
         /\ req'[r].pc \in DuelessPcs
<1> USE DEF DuelessPcs, Resting, At
<1>1. CASE StartUpload(r)
  <2>1. PICK u \in Uploads :
          \/ \E o \in Object : StartCreate(r, u, o)
          \/ \E p \in PartNumbers : \/ \E n \in PartSizes : StartPart(r, u, p, n)
                                    \/ \E s \in Object : StartPartCopy(r, u, p, s)
          \/ StartAbort(r, u) \/ StartComplete(r, u)
    BY <1>1 DEF StartUpload
  <2>2. \E op, pc : Begun(r, u, op, pc) /\ pc \in {"open", "reserve", "source", "forget", "assemble"}
    BY <2>1, CreateBegun, PartBegun, EndBegun DEF BegunOnRow
  <2>3. UNCHANGED row
    BY <2>1 DEF StartCreate, StartPart, StartPartCopy, StartAbort, StartComplete
  <2> QED
    BY <2>2, <2>3 DEF Begun, Active, qvars
<1>2. CASE ~StartUpload(r)
  <2>1. UNCHANGED <<bucket, account, row>>
    BY <1>2 DEF InsertUpload, ReadSource, AddReserved, DropUpload, SendPart, AskStore,
         ForgetParts, Assemble, HeadObject, Drop, qvars
  <2>2. req[r].pc \in DuelessPcs \/ (call[r].at \in Ended /\ req[r].pc = "drop")
    BY <1>2 DEF InsertUpload, ReadSource, AddReserved, DropUpload, SendPart, AskStore,
         ForgetParts, Assemble, HeadObject, Admitted, Ended
  <2>3. req'[r].pc \in DuelessPcs
    BY <1>2, UploadMoves DEF AskStore
  <2> QED
    BY <2>1, <2>2, <2>3
<1> QED
  BY <1>1, <1>2

\* They leave the columns as they are, and nothing was owed nor is.
LEMMA QuietPaid ==
  ASSUME FInv, FInv', NEW r \in Requests, faults' = 0,
         \/ Start(r) \/ CopyBegin(r) \/ RefuseWrite(r) \/ SendWrite(r) \/ AnswerWrite(r)
         \/ FindRow(r) \/ Credited(r)
         \/ StartUpload(r) \/ InsertUpload(r) \/ ReadSource(r) \/ AddReserved(r) \/ DropUpload(r)
         \/ SendPart(r) \/ AskStore(r)
  PROVE  AllPaid(r) /\ CalledFor(req'[r], call'[r], mp'[r])
<1>1. /\ UNCHANGED <<bucket, account, row>>
      /\ req[r].pc \in DuelessPcs
         \/ (call[r].at \in Ended /\ req[r].pc \in {"commit", "credited", "drop"})
      /\ req'[r].pc \in DuelessPcs
  BY QuietObjectSteps, QuietUploadSteps
<1>2. NoDues(req[r], call[r]) /\ NoDues(req'[r], call'[r])
  BY <1>1 DEF NoDues, DuelessPcs, Resting
<1>3. (\A l : Owed(l, r) = 0 /\ Owed(l, r)' = 0) /\ CalledFor(req'[r], call'[r], mp'[r])
  BY <1>2, NothingOwed DEF Owed
<1> QED
  BY <1>1, <1>3, DuesKept

\* A write to the object rows is owed for from then on.
LEMMA RowsTaken ==
  ASSUME FInv, FInv', NEW r \in Requests, UNCHANGED mvars, Knows(r), faults' = 0,
         UpdateRow(r) \/ RereadRow(r) \/ InsertRow(r) \/ RemoveRow(r)
  PROVE  AllPaid(r) \/ AllTaken(r)
<1> USE DEF At
<1> DEFINE o == req[r].obj
<1>0. /\ TypeOK /\ Placed(req[r], call[r], mp[r]) /\ live = Buckets
      /\ req[r].size \in Nat /\ req[r].size # Absent /\ req[r].delta \in Int /\ req[r].new \in {0, 1}
      /\ row \in [Object -> Nat \cup {Absent}]
  BY Here, ItsObjects DEF TypeOK
<1>1. /\ req[r].pc \in {"update", "reread", "insert", "remove"} /\ o \in Object
      /\ UNCHANGED <<bucket, account, call, mp>> /\ Active(r)
  <2>1. req[r].pc \in {"update", "reread", "insert", "remove"}
    BY DEF UpdateRow, RereadRow, InsertRow, RemoveRow
  <2> QED
    BY <2>1, ItsObjects DEF UpdateRow, RereadRow, InsertRow, RemoveRow, qvars, mvars, Resting, Active
<1>2. \A l : \A x : Column(l, x)' = Column(l, x)
  BY <1>1 DEF Column
<1>3. row[o] \in Nat \cup {Absent} /\ \A l : Worth(l, row[o]) \in Int
  BY <1>0, <1>1, ColumnsTyped
<1>4. ASSUME Same(req'[r], req[r]), req'[r].pc \in {"reread", "account"},
             row' = [row EXCEPT ![o] = req[r].size], req[r].pc \in {"update", "insert"}
      PROVE  AllTaken(r)
  <2> SUFFICES ASSUME NEW l \in Ledgers PROVE Taken(l, r)
    BY DEF AllTaken
  <2>1. Owed(l, r) = 0
    BY <1>4 DEF Owed, Owes
  <2>2. Owed(l, r)' = IF req[r].op = "complete" THEN Whole(l, req[r]) ELSE Grown(l, req[r])
    BY <1>4 DEF Owed, Owes, Same, Whole, Grown
  <2>3. row'[o] = req[r].size /\ \A y \in Object \ {o} : row'[y] = row[y]
    BY <1>0, <1>1, <1>4
  <2>4. Worth(l, row'[o]) = Whole(l, req[r])
    BY <1>0, <2>3 DEF Worth, Whole
  <2>5. CASE Completing(r)
    <3>1. row[o] = Absent
      BY <1>1, <1>4, <2>5 DEF Knows, CompleteKnows, Sending
    <3>2. Worth(l, row[o]) = 0 /\ Owed(l, r)' = Whole(l, req[r])
      BY <2>2, <2>5, <3>1 DEF Worth, Completing
    <3>3. Whole(l, req[r]) \in Int
      BY <1>0 DEF Whole
    <3> QED
      BY <1>1, <1>2, <1>4, <2>1, <2>3, <2>4, <3>2, <3>3 DEF Taken, Same
  <2>6. CASE ~Completing(r)
    <3>1. Writing(r)
      BY <1>0, <1>4, <2>6 DEF Placed, OpAt, Writing, Completing
    <3>2. /\ req[r].delta = req[r].size - Stored(row[o])
          /\ req[r].new = IF row[o] = Absent THEN 1 ELSE 0
      BY <1>1, <1>4, <3>1 DEF Knows, WriteKnows, Sending
    <3>3. Grown(l, req[r]) = Whole(l, req[r]) - Worth(l, row[o])
      BY <1>0, <1>3, <3>2 DEF Grown, Whole, Worth, Stored
    <3>4. Owed(l, r)' = Grown(l, req[r]) /\ Whole(l, req[r]) \in Int
      BY <1>0, <2>2, <2>6 DEF Completing, Whole
    <3>5. Owed(l, r)' - Worth(l, row'[o]) = Owed(l, r) - Worth(l, row[o])
      BY <1>3, <2>1, <2>4, <3>3, <3>4
    <3> QED
      BY <1>1, <1>2, <1>4, <2>3, <3>5 DEF Taken, Same
  <2> QED
    BY <2>5, <2>6
<1>5. CASE UpdateRow(r)
  <2>1. CASE row[o] # Absent
    BY <1>0, <1>4, <1>5, <2>1, GoesOn DEF UpdateRow, AllPcs, WritePcs
  <2>2. CASE row[o] = Absent
    <3>1. /\ Same(req'[r], req[r]) /\ req'[r].pc = "insert" /\ UNCHANGED row
          /\ req[r].pc = "update"
      BY <1>0, <1>5, <2>2, GoesOn DEF UpdateRow, AllPcs, WritePcs
    <3>2. \A l : Owed(l, r) = 0 /\ Owed(l, r)' = 0
      BY <3>1 DEF Owed, Owes
    <3> QED
      BY <1>1, <3>1, <3>2, DuesKept
  <2> QED
    BY <2>1, <2>2
<1>6. CASE InsertRow(r)
  <2>1. req[r].pc = "insert" /\ row[o] = Absent
    <3>1. req[r].pc = "insert"
      BY <1>6 DEF InsertRow
    <3>2. Writing(r) \/ Completing(r)
      BY <3>1, WorkingAt
    <3> QED
      BY <1>1, <3>1, <3>2 DEF Knows, WriteKnows, CompleteKnows, Sending
  <2>2. BucketOf(o) \in live
    BY <1>0, <1>1, ItsBucket
  <2> QED
    BY <1>0, <1>4, <1>6, <2>1, <2>2, GoesOn DEF InsertRow, AllPcs, WritePcs
<1>7. CASE RereadRow(r)
  <2>1. req[r].pc = "reread" /\ UNCHANGED row
    BY <1>7 DEF RereadRow
  <2>2. Writing(r)
    <3>1. Writing(r) \/ Completing(r)
      BY <2>1, WorkingAt
    <3> QED
      BY <1>1, <2>1, <3>1 DEF Knows, CompleteKnows
  <2>3. row[o] # Absent
    BY <1>0, <1>1, <2>1, <2>2 DEF Knows, WriteKnows, Written
  <2>4. Same(req'[r], req[r]) /\ req'[r].pc = "account"
    BY <1>0, <1>7, <2>3, GoesOn DEF RereadRow, AllPcs, WritePcs
  <2>5. \A l : Owed(l, r)' = Owed(l, r)
    BY <2>1, <2>4 DEF Owed, Owes, Same, Whole, Grown
  <2> QED
    BY <1>1, <2>1, <2>4, <2>5, DuesKept DEF Same
<1>8. CASE RemoveRow(r)
  <2>1. req[r].pc = "remove" /\ row[o] = req[r].size /\ row' = [row EXCEPT ![o] = Absent]
    BY <1>8 DEF RemoveRow, Knows, DeleteKnows, DeletePcs
  <2>2. Same(req'[r], req[r]) /\ req'[r].pc = "credit"
    BY <1>0, <1>8, <2>1, GoesOn DEF RemoveRow, AllPcs, DeletePcs
  <2> SUFFICES ASSUME NEW l \in Ledgers PROVE Taken(l, r)
    BY DEF AllTaken
  <2>3. Owed(l, r) = 0 /\ Owed(l, r)' = -Whole(l, req[r])
    BY <2>1, <2>2 DEF Owed, Owes, Same, Whole
  <2>4. row'[o] = Absent /\ \A y \in Object \ {o} : row'[y] = row[y]
    BY <1>0, <1>1, <2>1
  <2>5. Worth(l, row'[o]) = 0 /\ Worth(l, row[o]) = Whole(l, req[r]) /\ Whole(l, req[r]) \in Int
    BY <1>0, <2>1, <2>4 DEF Worth, Whole
  <2> QED
    BY <1>1, <1>2, <2>2, <2>3, <2>4, <2>5 DEF Taken, Same
<1> QED
  BY <1>5, <1>6, <1>7, <1>8

\* A statement on the bucket's row pays what it moves the row by.
LEMMA BucketPaid ==
  ASSUME FInv, FInv', NEW r \in Requests, req[r].obj \in Object, req'[r].obj = req[r].obj,
         NEW c, bucket' = [bucket EXCEPT ![BucketOf(req[r].obj)] = c],
         UNCHANGED <<account, row>>,
         c.used + Owed("bucket", r)' = bucket[BucketOf(req[r].obj)].used + Owed("bucket", r),
         c.count + Owed("count", r)' = bucket[BucketOf(req[r].obj)].count + Owed("count", r),
         Owed("account", r)' = Owed("account", r)
  PROVE  AllPaid(r)
<1> DEFINE a == BucketOf(req[r].obj)
<1>1. bucket \in [Buckets -> BucketColumns] /\ a \in Buckets /\ req[r].obj # Nowhere
  BY ItsBucket DEF FInv, TypeOK, QuotaTypeOK
<1>2. ASSUME NEW l \in {"bucket", "count"}, NEW x \in Buckets
      PROVE  (Column(l, x) + OwedAt(l, x, r))' = Column(l, x) + OwedAt(l, x, r)
  <2>1. CASE x = a
    <3>1. bucket'[x] = c
      BY <1>1, <2>1
    <3>2. OwedAt(l, x, r) = Owed(l, r) /\ OwedAt(l, x, r)' = Owed(l, r)'
      BY <1>1, <2>1 DEF OwedAt, Place
    <3>3. Column(l, x) = (IF l = "bucket" THEN bucket[a].used ELSE bucket[a].count)
          /\ Column(l, x)' = (IF l = "bucket" THEN c.used ELSE c.count)
      BY <2>1, <3>1 DEF Column
    <3> QED
      BY <3>2, <3>3
  <2>2. CASE x # a
    <3>1. bucket'[x] = bucket[x]
      BY <1>1, <2>2
    <3>2. OwedAt(l, x, r) = 0 /\ OwedAt(l, x, r)' = 0
      BY <2>2 DEF OwedAt, Place
    <3>3. Column(l, x)' = Column(l, x)
      BY <3>1 DEF Column
    <3> QED
      BY <3>2, <3>3
  <2> QED
    BY <2>1, <2>2
<1>3. ASSUME NEW x \in Users
      PROVE  (Column("account", x) + OwedAt("account", x, r))'
               = Column("account", x) + OwedAt("account", x, r)
  BY DEF Column, OwedAt
<1> QED
  BY <1>2, <1>3 DEF AllPaid, Paid, Ledgers, Places

\* And one on the owner's row.
LEMMA AccountPaid ==
  ASSUME FInv, FInv', NEW r \in Requests, req[r].obj \in Object, req'[r].obj = req[r].obj,
         NEW c, account' = [account EXCEPT ![Owner[BucketOf(req[r].obj)]] = c],
         UNCHANGED <<bucket, row>>,
         c.used + Owed("account", r)'
           = account[Owner[BucketOf(req[r].obj)]].used + Owed("account", r),
         Owed("bucket", r)' = Owed("bucket", r), Owed("count", r)' = Owed("count", r)
  PROVE  AllPaid(r)
<1> DEFINE a == Owner[BucketOf(req[r].obj)]
<1>1. account \in [Users -> AccountColumns] /\ a \in Users /\ req[r].obj # Nowhere
  BY ItsBucket DEF FInv, TypeOK, QuotaTypeOK
<1>2. ASSUME NEW x \in Users
      PROVE  (Column("account", x) + OwedAt("account", x, r))'
               = Column("account", x) + OwedAt("account", x, r)
  <2>1. CASE x = a
    <3>1. account'[x] = c
      BY <1>1, <2>1
    <3>2. /\ OwedAt("account", x, r) = Owed("account", r)
          /\ OwedAt("account", x, r)' = Owed("account", r)'
      BY <1>1, <2>1 DEF OwedAt, Place
    <3>3. Column("account", x) = account[a].used /\ Column("account", x)' = c.used
      BY <2>1, <3>1 DEF Column
    <3> QED
      BY <3>2, <3>3
  <2>2. CASE x # a
    <3>1. account'[x] = account[x]
      BY <1>1, <2>2
    <3>2. OwedAt("account", x, r) = 0 /\ OwedAt("account", x, r)' = 0
      BY <2>2 DEF OwedAt, Place
    <3>3. Column("account", x)' = Column("account", x)
      BY <3>1 DEF Column
    <3> QED
      BY <3>2, <3>3
  <2> QED
    BY <2>1, <2>2
<1>3. ASSUME NEW l \in {"bucket", "count"}, NEW x \in Buckets
      PROVE  (Column(l, x) + OwedAt(l, x, r))' = Column(l, x) + OwedAt(l, x, r)
  BY DEF Column, OwedAt
<1> QED
  BY <1>2, <1>3 DEF AllPaid, Paid, Ledgers, Places

\* The rows a request's statements are on, and what the used and count columns of a statement
\* become.
LEMMA RowsOf ==
  ASSUME FInv, NEW r \in Requests, req[r].obj \in Object
  PROVE  LET a == BucketOf(req[r].obj) IN
         /\ a \in Buckets /\ a \in live /\ Owner[a] \in Users
         /\ bucket[a] \in BucketColumns /\ account[Owner[a]] \in AccountColumns
         /\ call \in [Requests -> Call]
  BY Here, ItsBucket DEF QuotaTypeOK

\* What each statement of quota.rs makes of what is used, in a row with room for it.
LEMMA UsedMoves ==
  /\ \A c \in BucketColumns : \A n \in Int :
       /\ Hold(c, n).used = c.used /\ Hold(c, n).count = c.count
       /\ Unhold(c, n).used = c.used /\ Unhold(c, n).count = c.count
       /\ \A d \in Int :
            /\ c.reserved >= n => /\ CommitColumns(c, n, d).used = c.used + n
                                  /\ CommitColumns(c, n, d).count = c.count + d
            /\ c.used + n >= 0 => /\ SettleColumns(c, n, d).used = c.used + n
                                  /\ SettleColumns(c, n, d).count = c.count + d
       /\ c.used >= n /\ c.count >= 1 => /\ CreditColumns(c, n).used = c.used - n
                                         /\ CreditColumns(c, n).count = c.count - 1
  /\ \A c \in AccountColumns : \A n \in Int :
       /\ Hold(c, n).used = c.used
       /\ Unhold(c, n).used = c.used
       /\ c.reserved >= n => Spend(c, n).used = c.used + n
       /\ c.used + n >= 0 => Adjust(c, n).used = c.used + n
<1>1. ASSUME NEW c \in BucketColumns, NEW n \in Int
      PROVE  /\ Hold(c, n).used = c.used /\ Hold(c, n).count = c.count
             /\ Unhold(c, n).used = c.used /\ Unhold(c, n).count = c.count
  BY DEF Hold, Unhold, BucketColumns
<1>2. ASSUME NEW c \in BucketColumns, NEW n \in Int, NEW d \in Int
      PROVE  /\ c.reserved >= n => /\ CommitColumns(c, n, d).used = c.used + n
                                   /\ CommitColumns(c, n, d).count = c.count + d
             /\ c.used + n >= 0 => /\ SettleColumns(c, n, d).used = c.used + n
                                   /\ SettleColumns(c, n, d).count = c.count + d
             /\ c.used >= n /\ c.count >= 1 => /\ CreditColumns(c, n).used = c.used - n
                                               /\ CreditColumns(c, n).count = c.count - 1
  BY DEF CommitColumns, SettleColumns, CreditColumns
<1>3. ASSUME NEW c \in AccountColumns, NEW n \in Int
      PROVE  /\ Hold(c, n).used = c.used
             /\ Unhold(c, n).used = c.used
             /\ c.reserved >= n => Spend(c, n).used = c.used + n
             /\ c.used + n >= 0 => Adjust(c, n).used = c.used + n
  BY DEF Hold, Unhold, Spend, Adjust, AccountColumns
<1> QED
  BY <1>1, <1>2, <1>3

\* What a request reserves, or gives back, is no column's business.
LEMMA ReservingPaid ==
  ASSUME FInv, FInv', NEW r \in Requests, Together(r),
         CallReserve(r) \/ GiveBack(r) \/ LetGo(r)
  PROVE  AllPaid(r) /\ CalledFor(req'[r], call'[r], mp'[r])
<1> USE DEF At
<1> DEFINE a == BucketOf(req[r].obj)
<1>0. /\ TypeOK /\ Placed(req[r], call[r], mp[r]) /\ Placed(req'[r], call'[r], mp'[r])
      /\ req[r].delta \in Int /\ mp[r].held \in Int /\ req[r].obj \in Object
  <2>1. req[r].obj \in Object
    BY ItsObjects DEF CallReserve, GiveBack, LetGo, Resting
  <2> QED
    BY <2>1, Here DEF Together
<1>1. /\ a \in Buckets /\ a \in live /\ bucket[a] \in BucketColumns
      /\ call \in [Requests -> Call]
  BY <1>0, RowsOf
<1>2. PICK n \in Int : Reserve(r, a, n) \/ Release(r, a, n)
  <2>1. CASE CallReserve(r)
    <3>1. Reserve(r, a, req[r].delta)
      BY <1>1, <2>1 DEF CallReserve
    <3> QED
      BY <1>0, <3>1
  <2>2. CASE GiveBack(r)
    <3>1. Release(r, a, req[r].delta)
      BY <1>1, <2>2 DEF GiveBack
    <3> QED
      BY <1>0, <3>1
  <2>3. CASE LetGo(r)
    <3>1. Release(r, a, mp[r].held)
      BY <1>1, <2>3 DEF LetGo
    <3> QED
      BY <1>0, <3>1
  <2> QED
    BY <2>1, <2>2, <2>3
<1>3. \E c : /\ bucket' = [bucket EXCEPT ![a] = c]
             /\ c.used = bucket[a].used /\ c.count = bucket[a].count
  <2>1. /\ Hold(bucket[a], n).used = bucket[a].used /\ Hold(bucket[a], n).count = bucket[a].count
        /\ Unhold(bucket[a], n).used = bucket[a].used
        /\ Unhold(bucket[a], n).count = bucket[a].count
    BY <1>1, UsedMoves
  <2>2. CASE bucket' = bucket
    <3>1. bucket \in [Buckets -> BucketColumns]
      BY <1>0 DEF TypeOK, QuotaTypeOK
    <3>2. bucket' = [bucket EXCEPT ![a] = bucket[a]]
      BY <1>1, <2>2, <3>1
    <3> QED
      BY <3>2
  <2>3. CASE bucket' # bucket
    <3>1. \/ bucket' = [bucket EXCEPT ![a] = Hold(bucket[a], n)]
          \/ bucket' = [bucket EXCEPT ![a] = Unhold(bucket[a], n)]
      BY <1>1, <1>2, <2>3 DEF Reserve, Release, UpdateBucket
    <3> QED
      BY <2>1, <3>1
  <2> QED
    BY <2>2, <2>3
<1>4. UNCHANGED <<account, row>>
  BY <1>2 DEF Reserve, Release, CallReserve, GiveBack, LetGo
<1>5. /\ req[r].pc \in DuelessPcs /\ req'[r].pc \in {"admit", "abort", "drop", "err"}
      /\ req'[r].obj = req[r].obj
      /\ req'[r].pc = "drop" => call'[r].at = "release_user"
  <2>1. CASE CallReserve(r) \/ GiveBack(r)
    <3>1. PICK pc \in {"admit", "abort"} : Goes(r, pc)
      BY <2>1 DEF CallReserve, GiveBack
    <3>2. pc \in AllPcs
      BY DEF AllPcs, WritePcs
    <3> QED
      BY <1>0, <2>1, <3>1, <3>2, GoesOn DEF CallReserve, GiveBack, DuelessPcs, Same
  <2>2. CASE LetGo(r)
    <3>1. Release(r, a, mp[r].held) /\ Goes(r, "drop")
      BY <1>1, <2>2 DEF LetGo
    <3>2. call'[r].at = "release_user"
      BY <1>1, <3>1 DEF Release, Frame
    <3> QED
      BY <1>0, <2>2, <3>1, <3>2, GoesOn DEF LetGo, DuelessPcs, Same, AllPcs, UploadPcs
  <2> QED
    BY <2>1, <2>2
<1>6. \A l : Owed(l, r) = 0 /\ Owed(l, r)' = 0
  <2>1. NoDues(req[r], call[r])
    BY <1>5 DEF NoDues, DuelessPcs, Resting
  <2>2. \A l : Owed(l, r)' = 0
    BY <1>5 DEF Owed, Owes, Ahead
  <2> QED
    BY <2>1, <2>2, NothingOwed DEF Owed
<1>7. CalledFor(req'[r], call'[r], mp'[r])
  BY <1>5 DEF CalledFor
<1>8. AllPaid(r)
  <2>1. PICK c : /\ bucket' = [bucket EXCEPT ![a] = c]
                 /\ c.used = bucket[a].used /\ c.count = bucket[a].count
    BY <1>3
  <2>2. /\ c.used + Owed("bucket", r)' = bucket[a].used + Owed("bucket", r)
        /\ c.count + Owed("count", r)' = bucket[a].count + Owed("count", r)
        /\ Owed("account", r)' = Owed("account", r)
    BY <1>6, <2>1
  <2> QED
    BY <1>0, <1>4, <1>5, <2>1, <2>2, BucketPaid
<1> QED
  BY <1>7, <1>8

\* What is committed goes to the bucket's row at once, and is owed to the owner's.
LEMMA CommitPaid ==
  ASSUME FInv, FInv', NEW r \in Requests, req[r].obj \in Object, Same(req'[r], req[r]),
         UNCHANGED <<row, mp>>,
         NEW n \in Int, NEW d \in {0, 1}, Commit(r, BucketOf(req[r].obj), n, d),
         bucket[BucketOf(req[r].obj)].reserved >= n,
         \/ /\ req[r].op # "complete" /\ n = req[r].delta /\ d = req[r].new
            /\ req[r].pc = "account" /\ req'[r].pc = "commit"
         \/ /\ req[r].op = "complete" /\ n = mp[r].held /\ d = 1
            /\ req[r].pc = "account" /\ req'[r].pc = "difference"
  PROVE  AllPaid(r) /\ CalledFor(req'[r], call'[r], mp'[r])
<1> DEFINE a == BucketOf(req[r].obj)
           c == CommitColumns(bucket[a], n, d)
<1>1. /\ a \in Buckets /\ a \in live /\ bucket[a] \in BucketColumns /\ call \in [Requests -> Call]
      /\ req[r].size \in Nat /\ req[r].delta \in Int /\ mp[r].held \in Nat /\ req[r].new \in {0, 1}
  BY RowsOf, Here
<1>2. bucket' = [bucket EXCEPT ![a] = c] /\ call'[r].at = "commit_user" /\ UNCHANGED account
  BY <1>1 DEF Commit, UpdateBucket, Frame
<1>3. c.used = bucket[a].used + n /\ c.count = bucket[a].count + d
  BY <1>1, UsedMoves
<1>4. bucket[a].used \in Int /\ bucket[a].count \in Int
  BY <1>1 DEF BucketColumns
<1>5. /\ Owed("bucket", r) = Owed("bucket", r)' + n
      /\ Owed("count", r) = Owed("count", r)' + d
      /\ Owed("account", r)' = Owed("account", r)
  BY <1>1, <1>2 DEF Owed, Owes, Ahead, Grown, Whole, Rest, Same
<1>6. Owed("bucket", r)' \in Int /\ Owed("count", r)' \in Int
  BY OwedTypedNext
<1> HIDE DEF a, c
<1>7. /\ c.used + Owed("bucket", r)' = bucket[a].used + Owed("bucket", r)
      /\ c.count + Owed("count", r)' = bucket[a].count + Owed("count", r)
  BY <1>3, <1>4, <1>5, <1>6
<1>8. CalledFor(req'[r], call'[r], mp'[r])
  BY <1>2 DEF CalledFor
<1> QED
  BY <1>2, <1>5, <1>7, <1>8, BucketPaid DEF a, Same

\* What is to be settled or credited stays owed.
LEMMA CallingPaid ==
  ASSUME FInv, FInv', NEW r \in Requests, req[r].obj \in Object, Same(req'[r], req[r]),
         UNCHANGED <<row, mp, bucket, account>>,
         NEW n \in Int, NEW d \in {0, 1},
         \/ /\ Settle(r, BucketOf(req[r].obj), n, d)
            /\ req[r].op # "complete" /\ n = req[r].delta /\ d = req[r].new
            /\ req[r].pc = "account" /\ req'[r].pc = "commit"
         \/ /\ Settle(r, BucketOf(req[r].obj), n, d)
            /\ n = req[r].size - mp[r].held /\ d = 0
            /\ req[r].pc = "difference" /\ call[r].at = "ok" /\ req'[r].pc = "drop"
         \/ /\ Credit(r, BucketOf(req[r].obj), n) /\ n = req[r].size
            /\ req[r].pc = "credit" /\ req'[r].pc = "credited"
  PROVE  AllPaid(r) /\ CalledFor(req'[r], call'[r], mp'[r])
<1> DEFINE a == BucketOf(req[r].obj)
<1>1. /\ a \in Buckets /\ a \in live /\ call \in [Requests -> Call]
      /\ req[r].size \in Nat /\ req[r].delta \in Int /\ mp[r].held \in Nat /\ req[r].new \in {0, 1}
  BY RowsOf, Here
<1>2. /\ Settle(r, a, n, d) =>
           /\ call'[r].at = IF n = 0 /\ d = 0 THEN "ok" ELSE "settle_bucket"
           /\ call'[r].bytes = n /\ call'[r].objects = d
      /\ Credit(r, a, n) => call'[r].at = "credit_bucket" /\ call'[r].bytes = n
  BY <1>1 DEF Settle, Credit, Frame
<1>3. \A l \in Ledgers : Owed(l, r)' = Owed(l, r)
  BY <1>1, <1>2 DEF Owed, Owes, Ahead, Grown, Whole, Rest, Same, Ledgers
<1>4. CalledFor(req'[r], call'[r], mp'[r])
  BY <1>2 DEF CalledFor, Same
<1> QED
  BY <1>3, <1>4, DuesKept DEF Same

\* The statements a write, a delete or a completion begins a procedure with.
LEMMA BeginningPaid ==
  ASSUME FInv, FInv', UploadsApart, HoldsOK, NEW r \in Requests, Together(r), UNCHANGED mvars,
         Account(r) \/ CommitParts(r) \/ SettleDifference(r) \/ CallCredit(r)
  PROVE  AllPaid(r) /\ CalledFor(req'[r], call'[r], mp'[r])
<1> USE DEF At
<1> DEFINE a == BucketOf(req[r].obj)
<1>0. /\ TypeOK /\ Placed(req[r], call[r], mp[r])
      /\ req[r].delta \in Int /\ mp[r].held \in Int /\ req[r].size \in Nat
      /\ req[r].new \in {0, 1} /\ req[r].obj \in Object
      /\ UNCHANGED <<row, mp>>
  <2>1. req[r].obj \in Object
    BY ItsObjects DEF Account, CommitParts, SettleDifference, CallCredit, Resting
  <2> QED
    BY <2>1, Here DEF Account, CommitParts, SettleDifference, CallCredit, mvars
<1>1. a \in Buckets /\ a \in live
  BY <1>0, RowsOf
<1>2. CASE Account(r)
  <2>1. /\ Same(req'[r], req[r]) /\ req[r].pc = "account" /\ req'[r].pc = "commit"
        /\ req[r].op # "complete"
    BY <1>0, <1>2, GoesOn DEF Account, AllPcs, WritePcs, Writing, WriteOps
  <2>2. CASE req[r].delta > 0
    <3>1. Commit(r, a, req[r].delta, req[r].new)
      BY <1>2, <2>2 DEF Account
    <3>2. bucket[a].reserved >= req[r].delta
      <4>1. Held("bucket", r) = req[r].delta
        BY <2>1, <2>2, HeldIs DEF HoldOf, Levels
      <4> QED
        BY <1>0, <4>1, AtHand
    <3> QED
      BY <1>0, <2>1, <3>1, <3>2, CommitPaid
  <2>3. CASE ~(req[r].delta > 0)
    <3>1. Settle(r, a, req[r].delta, req[r].new)
      BY <1>2, <2>3 DEF Account
    <3>2. UNCHANGED <<bucket, account>>
      BY <3>1 DEF Settle
    <3> QED
      BY <1>0, <2>1, <3>1, <3>2, CallingPaid
  <2> QED
    BY <2>2, <2>3
<1>3. CASE CommitParts(r)
  <2>1. Commit(r, a, mp[r].held, 1) /\ Goes(r, "difference") /\ req[r].op = "complete"
    BY <1>1, <1>3 DEF CommitParts
  <2>2. Same(req'[r], req[r]) /\ req[r].pc = "account" /\ req'[r].pc = "difference"
    BY <1>0, <1>3, <2>1, GoesOn DEF CommitParts, AllPcs, UploadPcs
  <2>3. Through(r) /\ ~Spent("bucket", r)
    <3>1. Active(r)
      BY <2>2, WorkingAt DEF WritePcs
    <3> QED
      BY <2>1, <2>2, <3>1, WorkingAt DEF Completing, Spent
  <2>4. bucket[a].reserved >= mp[r].held
    BY <1>0, <2>3, EnderAt
  <2> QED
    BY <1>0, <2>1, <2>2, <2>4, CommitPaid
<1>4. CASE SettleDifference(r)
  <2>1. /\ Settle(r, a, req[r].size - mp[r].held, 0) /\ Goes(r, "drop")
        /\ req[r].pc = "difference" /\ call[r].at = "ok"
    BY <1>4 DEF SettleDifference
  <2>2. Same(req'[r], req[r]) /\ req'[r].pc = "drop"
    BY <1>0, <2>1, GoesOn DEF AllPcs, UploadPcs
  <2>3. UNCHANGED <<bucket, account>> /\ req[r].size - mp[r].held \in Int
    BY <1>0, <2>1 DEF Settle
  <2> QED
    BY <1>0, <2>1, <2>2, <2>3, CallingPaid
<1>5. CASE CallCredit(r)
  <2>1. /\ Credit(r, a, req[r].size) /\ Goes(r, "credited") /\ req[r].pc = "credit"
    BY <1>5 DEF CallCredit
  <2>2. Same(req'[r], req[r]) /\ req'[r].pc = "credited"
    BY <1>0, <2>1, GoesOn DEF AllPcs, DeletePcs
  <2>3. UNCHANGED <<bucket, account>>
    BY <2>1 DEF Credit
  <2> QED
    BY <1>0, <2>1, <2>2, <2>3, CallingPaid
<1> QED
  BY <1>2, <1>3, <1>4, <1>5

\* A statement on the owner's row that only holds or lets go there, where nothing is owed.
LEMMA HoldingPaid ==
  ASSUME FInv, FInv', NEW r \in Requests, UNCHANGED <<req, row>>, req[r].obj \in Object,
         \A l : Owed(l, r) = 0 /\ Owed(l, r)' = 0,
         \/ /\ UNCHANGED account
            /\ \E n \in Int : bucket' = [bucket EXCEPT ![BucketOf(req[r].obj)] =
                                           Unhold(bucket[BucketOf(req[r].obj)], n)]
         \/ /\ UNCHANGED bucket
            /\ \E n \in Int : \E c \in {Hold(account[Owner[BucketOf(req[r].obj)]], n),
                                    Unhold(account[Owner[BucketOf(req[r].obj)]], n),
                                    account[Owner[BucketOf(req[r].obj)]]} :
                 account' = [account EXCEPT ![Owner[BucketOf(req[r].obj)]] = c]
  PROVE  AllPaid(r)
<1> DEFINE a == BucketOf(req[r].obj)
           u == Owner[a]
<1>1. /\ bucket[a] \in BucketColumns /\ account[u] \in AccountColumns
  BY RowsOf
<1>2. \A l : Owed(l, r) = 0 /\ Owed(l, r)' = 0
  OBVIOUS
<1>3. CASE /\ UNCHANGED account
           /\ \E n \in Int : bucket' = [bucket EXCEPT ![a] = Unhold(bucket[a], n)]
  <2>1. PICK n \in Int : bucket' = [bucket EXCEPT ![a] = Unhold(bucket[a], n)]
    BY <1>3
  <2>2. /\ Unhold(bucket[a], n).used = bucket[a].used
        /\ Unhold(bucket[a], n).count = bucket[a].count
    BY <1>1, UsedMoves
  <2>3. /\ Unhold(bucket[a], n).used + Owed("bucket", r)' = bucket[a].used + Owed("bucket", r)
        /\ Unhold(bucket[a], n).count + Owed("count", r)' = bucket[a].count + Owed("count", r)
        /\ Owed("account", r)' = Owed("account", r)
    BY <1>2, <2>2
  <2> QED
    BY <1>3, <2>1, <2>3, BucketPaid
<1>4. CASE /\ UNCHANGED bucket
           /\ \E n \in Int : \E c \in {Hold(account[u], n), Unhold(account[u], n), account[u]} :
                account' = [account EXCEPT ![u] = c]
  <2>1. PICK n \in Int : \E c \in {Hold(account[u], n), Unhold(account[u], n), account[u]} :
               account' = [account EXCEPT ![u] = c]
    BY <1>4
  <2>6. PICK c \in {Hold(account[u], n), Unhold(account[u], n), account[u]} :
               account' = [account EXCEPT ![u] = c]
    BY <2>1
  <2>2. c.used = account[u].used
    BY <1>1, UsedMoves
  <2>3. /\ c.used + Owed("account", r)' = account[u].used + Owed("account", r)
        /\ Owed("bucket", r)' = Owed("bucket", r) /\ Owed("count", r)' = Owed("count", r)
    BY <1>2, <2>2
  <2> QED
    BY <1>4, <2>3, <2>6, AccountPaid
<1> QED
  BY <1>3, <1>4

\* What a column is owed for an object is what its row there is owed.
LEMMA OwedHere ==
  ASSUME FInv, UploadsApart, KeysApart, \A q \in Requests : Aware(q), ChargesOK,
         NEW r \in Requests, req[r].obj \in Object
  PROVE  LET a == BucketOf(req[r].obj) IN
         /\ bucket[a].used + Owed("bucket", r) >= 0
         /\ bucket[a].count + Owed("count", r) >= 0
         /\ account[Owner[a]].used + Owed("account", r) >= 0
<1> DEFINE o == req[r].obj
<1>1. o # Nowhere /\ \A l \in Ledgers : Place(l, o) \in Places(l)
  BY ObjectsPlaced
<1>2. ASSUME NEW l \in Ledgers
      PROVE  Column(l, Place(l, o)) + Owed(l, r) >= 0
  <2>1. OwedAt(l, Place(l, o), r) = Owed(l, r)
    BY <1>1 DEF OwedAt
  <2> QED
    BY <1>1, <2>1, OwedCovered
<1> QED
  BY <1>2 DEF Ledgers, Column, Place

\* What the procedures a request goes on with are owed, and called for.
LEMMA ContinuePaid ==
  ASSUME FInv, FInv', UploadsApart, HoldsOK, KeysApart, \A q \in Requests : Aware(q), ChargesOK,
         NEW r \in Requests, CalledFor(req[r], call[r], mp[r]),
         Continue(r), UNCHANGED ovars, UNCHANGED mvars
  PROVE  AllPaid(r) /\ CalledFor(req'[r], call'[r], mp'[r])
<1> USE DEF At, AtStatement
<1> DEFINE o == req[r].obj
           a == BucketOf(o)
           u == Owner[a]
           h == req[r]
           c == call[r]
           m == mp[r]
<1>0. /\ TypeOK /\ Placed(h, c, m) /\ h.size \in Nat /\ h.delta \in Int /\ h.new \in {0, 1}
      /\ m.held \in Nat /\ UNCHANGED <<req, row, mp>> /\ QuotaTypeOK
      /\ Knows(r)
  BY Here DEF ovars, mvars, Aware
<1>1. h.pc \in Waiting
  <2>1. c.at \notin Ended
    BY DEF Continue, ReserveUser, Unreserve, ReleaseUser, CommitUser, SettleBucket, SettleUser,
           CreditBucket, CreditUser, Ended
  <2> QED
    BY <1>0, <2>1 DEF Placed, CallAt
<1>2. o \in Object
  BY <1>1, ItsObjects DEF Waiting, Resting
<1>3. /\ a \in Buckets /\ a \in live /\ u \in Users
      /\ bucket[a] \in BucketColumns /\ account[u] \in AccountColumns
      /\ c.bucket = a
  BY <1>0, <1>1, <1>2, RowsOf DEF Placed, CallAt
<1>4. /\ <<c.at, call'[r].at>> \in LaterStatement
      /\ call'[r].bytes = c.bytes /\ call'[r].objects = c.objects
  <2>1. /\ <<c.at, call'[r].at>> \in LaterStatement /\ call'[r].bytes = c.bytes
    BY <1>0, <1>3, ContinueTyped
  <2>2. PICK at : Goto(r, at)
    BY DEF Continue, ReserveUser, Unreserve, ReleaseUser, CommitUser, SettleBucket, SettleUser,
           CreditBucket, CreditUser
  <2>3. call'[r].objects = c.objects
    <3>1. call \in [Requests -> Call]
      BY <1>0 DEF QuotaTypeOK
    <3> QED
      BY <2>2, <3>1 DEF Goto, Call
  <2> QED
    BY <2>1, <2>3
<1>5. CalledFor(req'[r], call'[r], mp'[r])
  <2>1. /\ call'[r].at \in {"settle_bucket", "settle_user"} => c.at = "settle_bucket"
        /\ call'[r].at # "settle_bucket"
        /\ call'[r].at \in {"credit_bucket", "credit_user"} => c.at = "credit_bucket"
    BY <1>4 DEF LaterStatement
  <2> QED
    BY <1>0, <1>4, <2>1 DEF CalledFor
<1>6. /\ bucket[a].used \in Int /\ bucket[a].count \in Int /\ account[u].used \in Int
      /\ bucket[a].used + Owed("bucket", r) >= 0
      /\ bucket[a].count + Owed("count", r) >= 0
      /\ account[u].used + Owed("account", r) >= 0
  <2>1. /\ bucket[a].used \in Int /\ bucket[a].count \in Int /\ account[u].used \in Int
    BY <1>3 DEF BucketColumns, AccountColumns
  <2> QED
    BY <1>2, <2>1, OwedHere
<1>7. \A l : Owed(l, r) = Owes(l, h, c, m) /\ Owed(l, r)' = Owes(l, h, call'[r], m)
  BY <1>0 DEF Owed
<1>8. CASE ReserveUser(r) \/ Unreserve(r) \/ ReleaseUser(r)
  <2>1. /\ h.pc \in {"admit", "abort"} \/ (h.pc = "drop" /\ c.at = "release_user")
        /\ h.pc = "drop" => call'[r].at = "ok"
    BY <1>0, <1>1, <1>4, <1>8 DEF ReserveUser, Unreserve, ReleaseUser, Placed, CallAt, Waiting,
                                  LaterStatement
  <2>2. \A l : Owed(l, r) = 0 /\ Owed(l, r)' = 0
    BY <1>7, <2>1 DEF Owes, Ahead
  <2>3. c.bytes \in Int
    BY Here DEF Call
  <2>4. CASE Unreserve(r)
    <3>1. bucket' = [bucket EXCEPT ![a] = Unhold(bucket[a], c.bytes)] /\ UNCHANGED account
      BY <1>3, <2>4 DEF Unreserve, UpdateBucket
    <3> QED
      BY <1>0, <1>2, <1>5, <2>2, <2>3, <3>1, HoldingPaid
  <2>5. CASE ReleaseUser(r) \/ ReserveUser(r)
    <3>1. \E d \in {Hold(account[u], c.bytes), Unhold(account[u], c.bytes), account[u]} :
             account' = [account EXCEPT ![u] = d] /\ UNCHANGED bucket
      <4>1. CASE ReleaseUser(r)
        BY <1>3, <4>1 DEF ReleaseUser, UpdateOwner
      <4>2. CASE ReserveUser(r) /\ account' # account
        BY <1>3, <4>2 DEF ReserveUser, UpdateOwner
      <4>3. CASE ReserveUser(r) /\ account' = account
        <5>1. account = [account EXCEPT ![u] = account[u]]
          BY <1>0 DEF QuotaTypeOK
        <5> QED
          BY <4>3, <5>1 DEF ReserveUser
      <4> QED
        BY <2>5, <4>1, <4>2, <4>3
    <3> QED
      BY <1>0, <1>2, <1>5, <2>2, <2>3, <3>1, HoldingPaid
  <2> QED
    BY <1>8, <2>4, <2>5
<1>9. CASE CommitUser(r)
  <2>1. /\ h.pc \in {"commit", "difference"} /\ c.at = "commit_user" /\ call'[r].at = "ok"
        /\ account' = [account EXCEPT ![u] = Spend(account[u], c.bytes)] /\ UNCHANGED bucket
    BY <1>0, <1>1, <1>3, <1>4, <1>9 DEF CommitUser, UpdateOwner, Placed, CallAt, Waiting,
                                        LaterStatement
  <2>2. /\ c.bytes \in Int /\ account[u].reserved >= c.bytes
        /\ Owed("account", r) = Owed("account", r)' + c.bytes
        /\ Owed("bucket", r)' = Owed("bucket", r) /\ Owed("count", r)' = Owed("count", r)
    <3>1. CASE h.pc = "commit"
      <4>1. h.delta > 0 /\ c.bytes = h.delta
        BY <1>0, <2>1, <3>1 DEF Placed, CallAt
      <4>2. Held("account", r) = h.delta
        BY <2>1, <3>1, <4>1, HeldIs DEF HoldOf, Levels
      <4>3. account[u].reserved >= h.delta
        BY <1>2, <4>2, AtHand
      <4>4. /\ Owed("account", r) = h.delta /\ Owed("account", r)' = 0
            /\ \A l \in {"bucket", "count"} : Owed(l, r) = 0 /\ Owed(l, r)' = 0
        BY <1>7, <2>1, <3>1 DEF Owes, Ahead, Grown
      <4> QED
        BY <1>0, <4>1, <4>3, <4>4
    <3>2. CASE h.pc = "difference"
      <4>1. c.bytes = m.held /\ h.op = "complete"
        BY <1>0, <2>1, <3>2 DEF Placed, CallAt, OpAt
      <4>2. Through(r) /\ ~Spent("account", r)
        <5>1. Active(r)
          BY <3>2 DEF Active, Resting
        <5>2. Through(r)
          BY <3>2, <4>1, <5>1, WorkingAt DEF Through, Working, Completing
        <5> QED
          BY <2>1, <5>2 DEF Spent
      <4>3. account[u].reserved >= m.held
        BY <1>2, <4>2, EnderAt
      <4>4. /\ Owed("account", r) = h.size /\ Owed("account", r)' = h.size - m.held
            /\ \A l \in {"bucket", "count"} : Owed(l, r)' = Owed(l, r)
        BY <1>7, <2>1, <3>2 DEF Owes, Rest
      <4> QED
        BY <1>0, <4>1, <4>3, <4>4
    <3> QED
      BY <2>1, <3>1, <3>2
  <2>3. Spend(account[u], c.bytes).used = account[u].used + c.bytes
    BY <1>3, <2>2, UsedMoves
  <2>4. Owed("account", r)' \in Int
    BY OwedTypedNext
  <2>5. Spend(account[u], c.bytes).used + Owed("account", r)'
          = account[u].used + Owed("account", r)
    BY <1>6, <2>2, <2>3, <2>4
  <2> QED
    BY <1>0, <1>2, <1>5, <2>1, <2>2, <2>5, AccountPaid
<1>10. CASE SettleBucket(r)
  <2> DEFINE n == Owed("bucket", r)
             d == Owed("count", r)
  <2>1. /\ h.pc \in {"commit", "drop"} /\ c.at = "settle_bucket" /\ call'[r].at = "settle_user"
        /\ bucket' = [bucket EXCEPT ![a] = SettleColumns(bucket[a], c.bytes, c.objects)]
        /\ UNCHANGED account
    BY <1>0, <1>1, <1>3, <1>4, <1>10 DEF SettleBucket, UpdateBucket, Placed, CallAt, Waiting,
                                         LaterStatement
  <2>2. /\ c.bytes = n /\ c.objects = d /\ n \in Int /\ d \in Int
        /\ Owed("bucket", r)' = 0 /\ Owed("count", r)' = 0
        /\ Owed("account", r)' = Owed("account", r)
    <3>1. n \in Int /\ d \in Int
      BY OwedTyped
    <3>2. CASE h.pc = "commit"
      BY <1>7, <2>1, <3>1, <3>2 DEF Owes, Ahead, Grown, CalledFor
    <3>3. CASE h.pc = "drop"
      BY <1>7, <2>1, <3>1, <3>3 DEF Owes, Ahead, Rest, CalledFor
    <3> QED
      BY <2>1, <3>2, <3>3
  <2>3. /\ SettleColumns(bucket[a], n, d).used = bucket[a].used + n
        /\ SettleColumns(bucket[a], n, d).count = bucket[a].count + d
    BY <1>3, <1>6, <2>2, UsedMoves
  <2>4. /\ SettleColumns(bucket[a], n, d).used + Owed("bucket", r)'
             = bucket[a].used + Owed("bucket", r)
        /\ SettleColumns(bucket[a], n, d).count + Owed("count", r)'
             = bucket[a].count + Owed("count", r)
    BY <1>6, <2>2, <2>3
  <2> QED
    BY <1>0, <1>2, <1>5, <2>1, <2>2, <2>4, BucketPaid
<1>11. CASE CreditBucket(r)
  <2>1. /\ h.pc = "credited" /\ c.at = "credit_bucket" /\ call'[r].at = "credit_user"
        /\ bucket' = [bucket EXCEPT ![a] = CreditColumns(bucket[a], c.bytes)]
        /\ UNCHANGED account
    BY <1>0, <1>1, <1>3, <1>4, <1>11 DEF CreditBucket, UpdateBucket, Placed, CallAt, Waiting,
                                         LaterStatement
  <2>2. /\ c.bytes = h.size /\ Owed("bucket", r) = -h.size /\ Owed("count", r) = -1
        /\ Owed("bucket", r)' = 0 /\ Owed("count", r)' = 0
        /\ Owed("account", r)' = Owed("account", r)
    BY <1>7, <2>1 DEF Owes, Ahead, Whole, CalledFor
  <2>3. bucket[a].used >= h.size /\ bucket[a].count >= 1
    BY <1>0, <1>6, <2>2
  <2>4. /\ CreditColumns(bucket[a], h.size).used = bucket[a].used - h.size
        /\ CreditColumns(bucket[a], h.size).count = bucket[a].count - 1
    BY <1>0, <1>3, <2>3, UsedMoves
  <2>5. /\ CreditColumns(bucket[a], h.size).used + Owed("bucket", r)'
             = bucket[a].used + Owed("bucket", r)
        /\ CreditColumns(bucket[a], h.size).count + Owed("count", r)'
             = bucket[a].count + Owed("count", r)
    BY <1>0, <1>6, <2>2, <2>4
  <2> QED
    BY <1>0, <1>2, <1>5, <2>1, <2>2, <2>5, BucketPaid
<1>12. CASE SettleUser(r) \/ CreditUser(r)
  <2> DEFINE n == Owed("account", r)
  <2>1. /\ call'[r].at = "ok"
        /\ \/ h.pc \in {"commit", "drop"} /\ c.at = "settle_user"
           \/ h.pc = "credited" /\ c.at = "credit_user"
    BY <1>0, <1>1, <1>4, <1>12 DEF SettleUser, CreditUser, Placed, CallAt, Waiting,
                                   LaterStatement
  <2>2. /\ n \in Int /\ Owed("account", r)' = 0
        /\ \A l \in {"bucket", "count"} : Owed(l, r) = 0 /\ Owed(l, r)' = 0
        /\ n = IF h.pc = "credited" THEN -c.bytes ELSE c.bytes
    <3>1. n \in Int
      BY OwedTyped
    <3>2. CASE h.pc = "commit"
      BY <1>7, <2>1, <3>1, <3>2 DEF Owes, Ahead, Grown, CalledFor
    <3>3. CASE h.pc = "drop"
      BY <1>7, <2>1, <3>1, <3>3 DEF Owes, Ahead, Rest, CalledFor
    <3>4. CASE h.pc = "credited"
      BY <1>7, <2>1, <3>1, <3>4 DEF Owes, Ahead, Whole, CalledFor
    <3> QED
      BY <2>1, <3>2, <3>3, <3>4
  <2>3. account' = [account EXCEPT ![u] = Adjust(account[u], n)] /\ UNCHANGED bucket
    BY <1>3, <1>12, <2>1, <2>2 DEF SettleUser, CreditUser, UpdateOwner
  <2>4. Adjust(account[u], n).used = account[u].used + n
    BY <1>3, <1>6, <2>2, UsedMoves
  <2>5. Adjust(account[u], n).used + Owed("account", r)' = account[u].used + Owed("account", r)
    BY <1>6, <2>2, <2>4
  <2> QED
    BY <1>0, <1>2, <1>5, <2>2, <2>3, <2>5, AccountPaid
<1> QED
  BY <1>8, <1>9, <1>10, <1>11, <1>12 DEF Continue

----------------------------------------------------------------------------
(* So the counters and what they are owed follow the object rows.          *)

\* Every step without fault pays what it moves, or is owed for; and calls for the amounts that
\* are due.
LEMMA ChargesStep ==
  ASSUME FInv, FInv', UploadsApart, HoldsOK, Calm, ChargesOK, AllCalledFor,
         NEW r \in Requests, Together(r), Step(r), faults' = 0
  PROVE  (AllPaid(r) \/ AllTaken(r)) /\ CalledFor(req'[r], call'[r], mp'[r])
<1>1. /\ KeysApart /\ (\A q \in Requests : Aware(q)) /\ Knows(r)
      /\ CalledFor(req[r], call[r], mp[r]) /\ ~Fault
  BY NothingLost DEF Calm, Aware, AllCalledFor
<1>2. ~WriteRowFails(r) /\ ~Crash(r)
  BY <1>1 DEF WriteRowFails, Crash
<1>3. CASE \/ Start(r) \/ CopyBegin(r) \/ RefuseWrite(r) \/ SendWrite(r) \/ AnswerWrite(r)
           \/ FindRow(r) \/ Credited(r)
           \/ StartUpload(r) \/ InsertUpload(r) \/ ReadSource(r) \/ AddReserved(r) \/ DropUpload(r)
           \/ SendPart(r) \/ AskStore(r)
  BY <1>3, QuietPaid
<1>4. CASE /\ UNCHANGED mvars
           /\ UpdateRow(r) \/ RereadRow(r) \/ InsertRow(r) \/ RemoveRow(r)
  <2>1. req'[r].pc \in {"insert", "reread", "account", "credit", "err", "update", "ok", "find",
                        "release"}
    <3>1. TypeOK
      BY DEF FInv
    <3>2. CASE UpdateRow(r) \/ RemoveRow(r)
      BY <3>1, <3>2, GoesOn, KeyDone DEF UpdateRow, RemoveRow, AllPcs, WritePcs, DeletePcs
    <3>3. CASE RereadRow(r) \/ InsertRow(r)
      BY <1>1, <3>1, <3>3, GoesOn, GivesUp, TriesAgain
        DEF RereadRow, InsertRow, InsertFails, AllPcs, WritePcs, At
    <3> QED
      BY <1>4, <3>2, <3>3
  <2>2. CalledFor(req'[r], call'[r], mp'[r])
    BY <2>1 DEF CalledFor
  <2> QED
    BY <1>1, <1>4, <2>2, RowsTaken
<1>5. CASE /\ UNCHANGED mvars
           /\ CallReserve(r) \/ GiveBack(r) \/ Account(r) \/ CallCredit(r)
  BY <1>5, ReservingPaid, BeginningPaid
<1>6. CASE LetGo(r) \/ CommitParts(r) \/ SettleDifference(r)
  <2>1. UNCHANGED mvars
    BY <1>6 DEF LetGo, CommitParts, SettleDifference
  <2> QED
    BY <1>6, <2>1, ReservingPaid, BeginningPaid
<1>7. CASE Continue(r) /\ UNCHANGED ovars /\ UNCHANGED mvars
  BY <1>1, <1>7, ContinuePaid
<1> QED
  BY <1>2, <1>3, <1>4, <1>5, <1>6, <1>7
    DEF Step, ObjectStep, UploadStep, Proceed, ProceedUpload

\* So what is used and what is owed are what the rows come to.
LEMMA ChargesKept ==
  ASSUME FInv, FInv', UploadsApart, HoldsOK, Calm, ChargesOK, AllCalledFor,
         NEW r \in Requests, Together(r), Step(r), faults' = 0
  PROVE  ChargesOK' /\ AllCalledFor'
<1>1. (AllPaid(r) \/ AllTaken(r)) /\ CalledFor(req'[r], call'[r], mp'[r])
  BY ChargesStep
<1>2. \A l \in Ledgers : Paid(l, r) \/ Taken(l, r)
  BY <1>1 DEF AllPaid, AllTaken
<1>3. ChargesOK'
  BY <1>2, ChargesFollow DEF ChargesOK, Places
<1>4. AllCalledFor'
  <2>1. ASSUME NEW q \in Requests PROVE CalledFor(req'[q], call'[q], mp'[q])
    BY <1>1, OthersStay DEF AllCalledFor
  <2> QED
    BY <2>1 DEF AllCalledFor
<1> QED
  BY <1>3, <1>4

\* Nothing is used, counted or owed at the start.
LEMMA ChargesInit ==
  ASSUME Init
  PROVE  ChargesOK /\ AllCalledFor
<1>1. /\ \A r \in Requests : req[r] = NoHandler /\ call[r] = NoCall
      /\ \A o \in Object : row[o] = Absent
      /\ \A b \in Buckets : bucket[b].used = 0 /\ bucket[b].count = 0
      /\ \A u \in Users : account[u].used = 0
  BY DEF Init, ObjectsInit, QuotaInit
<1>2. \A r \in Requests : NoDues(req[r], call[r])
  BY <1>1 DEF NoDues, NoHandler
<1>3. ASSUME NEW l \in Ledgers, NEW x \in Places(l)
      PROVE  Column(l, x) + Total(DuesAt(l, x), Requests) = Total(WorthAt(l, x), Object)
  <2> DEFINE f == DuesAt(l, x)
             g == WorthAt(l, x)
  <2>1. Column(l, x) = 0
    BY <1>1, <1>3 DEF Column, Ledgers, Places
  <2>2. \A r \in Requests : f[r] = 0
    BY <1>2, NothingOwed DEF DuesAt, OwedAt, Owed
  <2>3. \A o \in Object : g[o] = 0
    BY <1>1 DEF WorthAt, Worth
  <2> HIDE DEF f, g
  <2>4. Total(f, Requests) = 0 /\ Total(g, Object) = 0
    BY <2>2, <2>3, ObjectsPlaced, TotalZero
  <2> QED
    BY <2>1, <2>4 DEF f, g
<1> QED
  BY <1>2, <1>3, NothingOwed DEF ChargesOK, AllCalledFor

----------------------------------------------------------------------------
(* The invariant.                                                          *)

\* What holds at every moment, and what holds while nothing is lost.
CovInv == HInv /\ (faults = 0 => Calm /\ ChargesOK /\ AllCalledFor)

\* At the start.
LEMMA CovInvInit ==
  ASSUME Init
  PROVE  CovInv
  BY HInvInit, CalmInit, ChargesInit DEF CovInv

\* One request's step.
LEMMA CovInvStep ==
  ASSUME SerialKeys, FreshKeys, CovInv, NEW r \in Requests, Step(r)
  PROVE  CovInv'
<1>1. HInv /\ HInv' /\ FInv /\ FInv' /\ UploadsApart /\ UploadsApart' /\ HoldsOK
  BY HInvStep DEF CovInv, HInv
<1>2. Together(r)
  BY <1>1, StepTogether
<1>3. ASSUME faults' = 0
      PROVE  Calm' /\ ChargesOK' /\ AllCalledFor'
  <2>1. Calm /\ ChargesOK /\ AllCalledFor
    BY <1>1, <1>3, FaultsGrow DEF CovInv
  <2>2. ObjectShape(r) \/ UploadShape(r)
    BY <1>1, <1>3, <2>1, Shapes DEF Calm, Aware
  <2> QED
    BY <1>1, <1>2, <1>3, <2>1, <2>2, CalmStep, ChargesKept
<1> QED
  BY <1>1, <1>3 DEF CovInv

\* It is inductive, while clients keep off each other's keys and complete onto fresh ones.
LEMMA CovInvKept ==
  ASSUME SerialKeys, FreshKeys, CovInv, [Next]_vars
  PROVE  CovInv'
<1>1. CASE Next
  BY <1>1, NextIsStep, CovInvStep
<1>2. CASE UNCHANGED vars
  <2>1. HInv'
    BY HInvKept DEF CovInv
  <2>2. /\ row' = row /\ blob' = blob /\ req' = req /\ faults' = faults /\ call' = call
        /\ bucket' = bucket /\ account' = account
        /\ upload' = upload /\ parts' = parts /\ mp' = mp
    BY <1>2 DEF vars, mvars, gatewayVars, qvars, ovars
  <2>3. KeysApart' <=> KeysApart
    BY <2>2 DEF KeysApart, Active, Completing, TouchedBy
  <2>4. \A q : Aware(q)' <=> Aware(q)
    BY <2>2 DEF Aware, Plain, Knows, WriteKnows, DeleteKnows, PartKnows, CompleteKnows, Active,
                Writing, Completing
  <2>5. (RowsFit' <=> RowsFit) /\ (OrphansKept' <=> OrphansKept)
    BY <2>2 DEF RowsFit, Fits, Changing, OrphansKept, Shelters, On, Through, Working, Active,
                Writing, Completing, At
  <2>6. PartsHeld' <=> PartsHeld
    <3>1. \A u : /\ InParts(u)' = InParts(u) /\ OnRow(u)' = OnRow(u) /\ Adds(u)' = Adds(u)
      BY <2>2 DEF InParts, PartBytes, OnRow, Adds, AddTo, At
    <3> QED
      BY <2>2, <3>1 DEF PartsHeld
  <2>7. \A l, x : /\ Column(l, x)' = Column(l, x) /\ DuesAt(l, x)' = DuesAt(l, x)
                  /\ WorthAt(l, x)' = WorthAt(l, x)
    BY <2>2 DEF Column, DuesAt, OwedAt, Owed, WorthAt
  <2>8. (ChargesOK' <=> ChargesOK) /\ (AllCalledFor' <=> AllCalledFor)
    BY <2>2, <2>7 DEF ChargesOK, AllCalledFor, Places
  <2>9. Calm' <=> Calm
    BY <2>3, <2>4, <2>5, <2>6 DEF Calm
  <2> QED
    BY <2>1, <2>2, <2>8, <2>9 DEF CovInv
<1> QED
  BY <1>1, <1>2

----------------------------------------------------------------------------
(* The sums of the properties, over all objects.                           *)

\* The sizes of a bucket's objects, of an account's, and its rows.
SizesIn(f, b) == [o \in Object |-> IF BucketOf(o) = b THEN Stored(f[o]) ELSE 0]

SizesOf(f, u) == [o \in Object |-> IF Owner[BucketOf(o)] = u THEN Stored(f[o]) ELSE 0]

RowsIn(b) == [o \in Object |-> IF BucketOf(o) = b /\ row[o] # Absent THEN 1 ELSE 0]

\* What a bucket's objects add up to.
LEMMA SizeInTotal ==
  ASSUME NEW f, \A o \in Object : Stored(f[o]) \in Nat, NEW b
  PROVE  SizeIn(f, b) = Total(SizesIn(f, b), Object)
<1> DEFINE S == ObjectsOf(b)
           s == SizesIn(f, b)
           next(g) == [T \in SUBSET S |-> IF T = {} THEN 0
                        ELSE LET x == CHOOSE x \in T : TRUE IN Stored(f[x]) + g[T \ {x}]]
           iter == CHOOSE g : g = next(g)
<1>1. S \in SUBSET Object /\ IsFiniteSet(S) /\ IsFiniteSet(Object)
  BY ObjectsPlaced, FS_Subset DEF ObjectsOf
<1>2. /\ \A o \in S : s[o] = Stored(f[o]) /\ s[o] \in Int
      /\ \A o \in Object \ S : s[o] = 0
  BY DEF SizesIn, ObjectsOf
<1>3. SizeIn(f, b) = iter[S]
  BY DEF SizeIn, MapThenSumSet, MapThenFoldSet
<1>4. \A g : TakesOneByOne(s, g, S) <=> g = next(g)
  <2> HIDE DEF S, s
  <2> QED
    BY <1>2 DEF TakesOneByOne
<1>5. (\E g : TakesOneByOne(s, g, S)) => TakesOneByOne(s, iter, S)
  <2> HIDE DEF S, s, next
  <2> QED
    BY <1>4
<1> HIDE DEF S, s, iter
<1>6. iter[S] = Total(s, S)
  BY <1>1, <1>2, <1>5, ChosenIsTotal
<1>7. Total(s, S) = Total(s, Object)
  BY <1>1, <1>2, TotalPart
<1> QED
  BY <1>3, <1>6, <1>7 DEF s

\* And an account's.
LEMMA SizeOfTotal ==
  ASSUME NEW f, \A o \in Object : Stored(f[o]) \in Nat, NEW u
  PROVE  MapThenSumSet(LAMBDA b : SizeIn(f, b), BucketsOf(u)) = Total(SizesOf(f, u), Object)
<1> DEFINE S == BucketsOf(u)
           s == [b \in S |-> SizeIn(f, b)]
           next(g) == [T \in SUBSET S |-> IF T = {} THEN 0
                        ELSE LET x == CHOOSE x \in T : TRUE IN SizeIn(f, x) + g[T \ {x}]]
           iter == CHOOSE g : g = next(g)
<1>1. IsFiniteSet(S) /\ IsFiniteSet(Object)
  BY ObjectsPlaced, FiniteAssumption, FS_Subset DEF BucketsOf
<1>2. ASSUME NEW b \in S
      PROVE  s[b] = SizeIn(f, b) /\ s[b] = Total(SizesIn(f, b), Object) /\ s[b] \in Int
  <2> DEFINE t == SizesIn(f, b)
  <2>1. \A o \in Object : t[o] \in Int
    BY DEF SizesIn
  <2>2. s[b] = Total(t, Object)
    BY SizeInTotal
  <2> HIDE DEF t
  <2>3. Total(t, Object) \in Int
    BY <1>1, <2>1, TotalTake
  <2> QED
    BY <2>2, <2>3 DEF t
<1>3. MapThenSumSet(LAMBDA b : SizeIn(f, b), S) = iter[S]
  BY DEF MapThenSumSet, MapThenFoldSet
<1>4. \A g : TakesOneByOne(s, g, S) <=> g = next(g)
  <2>1. \A b \in S : s[b] = SizeIn(f, b) /\ s[b] \in Int
    BY <1>2
  <2> HIDE DEF S, s
  <2> QED
    BY <2>1 DEF TakesOneByOne
<1>5. (\E g : TakesOneByOne(s, g, S)) => TakesOneByOne(s, iter, S)
  <2> HIDE DEF S, s, next
  <2> QED
    BY <1>4
<1>6. iter[S] = Total(s, S)
  <2> HIDE DEF S, s, iter
  <2> QED
    BY <1>1, <1>2, <1>5, ChosenIsTotal
<1>7. Total(s, S) = Total(SizesOf(f, u), Object)
  <2> DEFINE key == [o \in Object |-> BucketOf(o)]
             v == [o \in Object |-> Stored(f[o])]
             w == SizesOf(f, u)
             part == [b \in S |-> SizesIn(f, b)]
  <2>1. \A o \in Object : v[o] \in Int
    OBVIOUS
  <2>2. /\ \A b \in S : s[b] = Total(part[b], Object)
        /\ \A b \in S, o \in Object : part[b][o] = IF key[o] = b THEN v[o] ELSE 0
    <3>1. \A b \in S : part[b] = SizesIn(f, b)
      OBVIOUS
    <3>2. \A b \in S, o \in Object : part[b][o] = IF key[o] = b THEN v[o] ELSE 0
      BY DEF SizesIn
    <3> HIDE DEF part
    <3> QED
      BY <1>2, <3>1, <3>2
  <2>3. \A o \in Object : w[o] = IF key[o] \in S THEN v[o] ELSE 0
    BY DEF SizesOf, BucketsOf, Object, BucketOf
  <2> HIDE DEF S, s, key, v, w, part
  <2>4. Grouped(Object, S, key, v, part, s, w)
    BY <2>1, <2>2, <2>3 DEF Grouped
  <2>5. Total(s, S) = Total(w, Object)
    BY <1>1, <2>4, TotalByKey
  <2> QED
    BY <2>5 DEF w
<1> QED
  BY <1>3, <1>6, <1>7

\* And how many they are.
LEMMA RowsInTotal ==
  ASSUME NEW b
  PROVE  Cardinality({o \in ObjectsOf(b) : row[o] # Absent}) = Total(RowsIn(b), Object)
<1> DEFINE T == {o \in ObjectsOf(b) : row[o] # Absent}
           f == RowsIn(b)
<1>1. T \in SUBSET Object /\ \A o \in Object : f[o] = IF o \in T THEN 1 ELSE 0
  BY DEF RowsIn, ObjectsOf
<1> HIDE DEF T, f
<1>2. Cardinality(T) = Total(f, Object)
  BY <1>1, ObjectsPlaced, TotalOnes
<1> QED
  BY <1>2 DEF T, f

\* Who is at rest owes nothing.
LEMMA RestOwesNothing ==
  ASSUME FInv, NEW r \in Requests, ~Active(r)
  PROVE  \A l : Owed(l, r) = 0
<1>1. req[r].pc \in Resting /\ Placed(req[r], call[r], mp[r])
  BY Here DEF Active
<1>2. NoDues(req[r], call[r])
  BY <1>1 DEF NoDues, Resting
<1> QED
  BY <1>2, NothingOwed DEF Owed

\* So at rest the counters are what the object rows come to.
LEMMA RestCharged ==
  ASSUME CovInv
  PROVE  ChargedAtRest
<1> SUFFICES ASSUME faults = 0, Quiet PROVE Charged
  BY DEF ChargedAtRest
<1>0. /\ FInv /\ ChargesOK
      /\ \A o \in Object : Stored(row[o]) \in Nat
  BY DEF CovInv, HInv, FInv, TypeOK, Stored
<1>1. ASSUME NEW l \in Ledgers, NEW x \in Places(l)
      PROVE  Column(l, x) = Total(WorthAt(l, x), Object)
  <2> DEFINE f == DuesAt(l, x)
  <2>1. \A r \in Requests : f[r] = 0
    BY <1>0, RestOwesNothing DEF Quiet, DuesAt, OwedAt
  <2> HIDE DEF f
  <2>2. Total(f, Requests) = 0
    BY <2>1, ObjectsPlaced, TotalZero
  <2>3. Column(l, x) + Total(f, Requests) = Total(WorthAt(l, x), Object)
    BY <1>0 DEF ChargesOK, f
  <2>4. Column(l, x) \in Int
    BY <1>0, ColumnsTyped
  <2> QED
    BY <2>2, <2>3, <2>4
<1>2. /\ \A b : WorthAt("bucket", b) = SizesIn(row, b) /\ WorthAt("count", b) = RowsIn(b)
      /\ \A u : WorthAt("account", u) = SizesOf(row, u)
  BY DEF WorthAt, SizesIn, SizesOf, RowsIn, Worth, Place, Stored
<1>3. ASSUME NEW b \in Buckets
      PROVE  /\ bucket[b].used = SizeIn(row, b)
             /\ bucket[b].count = Cardinality({o \in ObjectsOf(b) : row[o] # Absent})
  <2>1. /\ bucket[b].used = Total(SizesIn(row, b), Object)
        /\ bucket[b].count = Total(RowsIn(b), Object)
    BY <1>1, <1>2 DEF Ledgers, Places, Column
  <2> QED
    BY <1>0, <2>1, SizeInTotal, RowsInTotal
<1>4. ASSUME NEW u \in Users
      PROVE  account[u].used = MapThenSumSet(LAMBDA b : SizeIn(row, b), BucketsOf(u))
  <2>1. account[u].used = Total(SizesOf(row, u), Object)
    BY <1>1, <1>2 DEF Ledgers, Places, Column
  <2> QED
    BY <1>0, <2>1, SizeOfTotal
<1> QED
  BY <1>3, <1>4 DEF Charged

\* With uploads beside the object verbs, too, the counters are what the object rows come to
\* whenever no request is at work: each part's hold, committed and settled with the object
\* it is completed to, each abort's given back, as long as nothing is lost, clients keep off
\* each other's keys and complete onto keys that are not there yet.
THEOREM MultipartChargedAtRest == SerialKeys /\ FreshKeys => (Spec => []ChargedAtRest)
<1> SUFFICES ASSUME SerialKeys, FreshKeys PROVE Spec => []ChargedAtRest
  OBVIOUS
<1>1. Init => CovInv
  BY CovInvInit
<1>2. CovInv /\ [Next]_vars => CovInv'
  BY CovInvKept
<1>3. CovInv => ChargedAtRest
  BY RestCharged
<1> QED
  BY <1>1, <1>2, <1>3, PTL DEF Spec

----------------------------------------------------------------------------
(* What the store has of a bucket or of an account, objects and parts, is  *)
(* covered by what its counters admit.                                     *)

\* At a level, an upload still holds what came of its parts, and what that is.
StillHolds(l, u, o) ==
  /\ upload[u] # Absent /\ parts[u] = Absent /\ upload[u].obj = o
  /\ blob[o] # Absent /\ blob[o] <= upload[u].reserved
  /\ \A q \in Requests : ~Takes(l, q, u)

Shelter(l, o) == IF \E u \in Uploads : StillHolds(l, u, o) THEN Stored(blob[o]) ELSE 0

\* What an object's row says beyond what the store has, and what is held for that.
Slack(l, o) == Stored(row[o]) - Stored(blob[o]) + Shelter(l, o)

\* A write has its object in the store and not in the row.
Sent(r, o) == Writing(r) /\ req[r].pc \in Sending /\ req[r].obj = o

\* What a handler owes at a level beyond what it holds there; a part's hold is for its part.
Net(l, r) == IF req[r].op \in PartOps THEN 0 ELSE Owed(l, r) - Held(l, r)

\* At both levels it is bytes that are owed, and held at the same places.
LEMMA LevelIs ==
  ASSUME NEW l \in Levels
  PROVE  /\ l \in Ledgers /\ l # "count" /\ Places(l) = Sites(l)
         /\ \A o : Place(l, o) = Site(l, o)
  BY DEF Levels, Ledgers, Places, Sites, Place, Site

\* The store has no more of an object than its row says and an upload holds for it, but
\* where a write is on its way to the row.
LEMMA SlackSound ==
  ASSUME FInv, Calm, NEW l \in Levels, NEW o \in Object
  PROVE  /\ Stored(row[o]) \in Nat /\ Stored(blob[o]) \in Nat /\ Shelter(l, o) \in Nat
         /\ Slack(l, o) \in Int
         /\ Slack(l, o) >= 0 \/ \E r \in Requests : Sent(r, o)
<1>1. Stored(row[o]) \in Nat /\ Stored(blob[o]) \in Nat /\ Stored(Absent) = 0
  BY DEF FInv, TypeOK, Stored
<1>2. Shelter(l, o) \in Nat /\ Slack(l, o) \in Int
  BY <1>1 DEF Shelter, Slack
<1>3. Slack(l, o) >= Stored(row[o]) - Stored(blob[o])
  BY <1>1, <1>2 DEF Slack
<1>4. CASE \E r \in Requests : Changing(r, o)
  <2>1. PICK r \in Requests : Changing(r, o)
    BY <1>4
  <2>2. CASE Writing(r) /\ At(r, "update") /\ req[r].obj = o
    BY <1>1, <1>2, <2>2 DEF Sent, Sending, At
  <2>3. CASE req[r].pc \in DeletePcs /\ o \in req[r].keys
    <3>1. blob[o] = Absent
      BY <2>3 DEF Calm, Aware, Knows, DeleteKnows
    <3> QED
      BY <1>1, <1>2, <1>3, <3>1
  <2> QED
    BY <2>1, <2>2, <2>3 DEF Changing
<1>5. CASE ~\E r \in Requests : Changing(r, o)
  <2>1. Fits(o)
    BY <1>5 DEF Calm, RowsFit
  <2>2. CASE row[o] # Absent \/ blob[o] = Absent
    <3>1. Stored(row[o]) >= Stored(blob[o])
      BY <1>1, <2>1, <2>2 DEF Fits
    <3> QED
      BY <1>1, <1>2, <1>3, <3>1
  <2>3. CASE row[o] = Absent /\ blob[o] # Absent
    <3>1. (\E u \in Uploads : Shelters(u, o)) \/ \E r \in Requests : Sent(r, o)
      BY <2>3 DEF Calm, OrphansKept, Sent
    <3>2. CASE \E u \in Uploads : Shelters(u, o)
      <4>1. \E u \in Uploads : StillHolds(l, u, o)
        BY <3>2 DEF Shelters, StillHolds, Takes, Spent
      <4> QED
        BY <1>1, <1>2, <2>3, <4>1 DEF Shelter, Slack
    <3> QED
      BY <1>1, <1>2, <3>1, <3>2
  <2> QED
    BY <2>2, <2>3
<1> QED
  BY <1>4, <1>5

\* Nobody else is at work on an object on its way to its row.
LEMMA SentAlone ==
  ASSUME FInv, KeysApart, NEW p \in Requests, NEW r \in Requests, NEW o \in Object,
         Active(p), o \in TouchedBy(req[p]), Sent(r, o)
  PROVE  p = r
<1>1. Active(r) /\ ~Completing(r)
  BY DEF Sent, Sending, Active, Resting, Writing, WriteOps, Completing
<1>2. o \in TouchedBy(req[r])
  BY <1>1, TouchedAt DEF Sent
<1> QED
  BY <1>1, <1>2 DEF KeysApart

\* What a write that is on its way to its row holds is what the store has grown by.
LEMMA SentHolds ==
  ASSUME FInv, Calm, NEW l \in Levels, NEW r \in Requests, NEW o \in Object, Sent(r, o)
  PROVE  /\ Net(l, r) = IF req[r].delta > 0 THEN -req[r].delta ELSE 0
         /\ Stored(row[o]) - Stored(blob[o]) = -req[r].delta
         /\ req[r].delta \in Int
<1>0. /\ req[r].delta \in Int /\ req[r].size \in Nat /\ req[r].size # Absent
      /\ Active(r) /\ req[r].obj = o /\ Writing(r)
      /\ req[r].pc \in Sending /\ Stored(row[o]) \in Nat
  BY Here, ItsObjects, SlackSound DEF Sent, Sending, Active, Resting
<1>1. req[r].delta = req[r].size - Stored(row[o]) /\ blob[o] = req[r].size
  BY <1>0 DEF Calm, Aware, Knows, WriteKnows
<1>2. Stored(row[o]) - Stored(blob[o]) = -req[r].delta
  BY <1>0, <1>1 DEF Stored
<1>3. Owed(l, r) = 0
  BY <1>0 DEF Owed, Owes, Sending
<1>4. Held(l, r) = IF req[r].delta > 0 THEN req[r].delta ELSE 0
  BY <1>0, HeldIs DEF HoldOf, Sending
<1>5. req[r].op \notin PartOps
  BY <1>0 DEF Writing, WriteOps, PartOps
<1> QED
  BY <1>0, <1>2, <1>3, <1>4, <1>5 DEF Net

\* Who holds or is owed for an object it writes, deletes or completes.
LEMMA NetWhose ==
  ASSUME FInv, NEW l \in Levels, NEW r \in Requests, Net(l, r) # 0
  PROVE  /\ Active(r) /\ req[r].obj \in Object
         /\ \/ Writing(r)
            \/ Completing(r) /\ Held(l, r) = 0
                 /\ req[r].pc \in {"reread", "account", "difference", "drop"}
            \/ req[r].pc \in {"credit", "credited"} /\ Held(l, r) = 0
<1>0. /\ Placed(req[r], call[r], mp[r]) /\ req[r].op \notin PartOps
      /\ Held(l, r) = HoldOf(l, req[r], call[r])
      /\ Owed(l, r) # 0 \/ Held(l, r) # 0
      /\ req[r].op \in AllOps
  <2>1. Held(l, r) \in Nat /\ Held(l, r) = HoldOf(l, req[r], call[r])
    BY HeldIs DEF Levels
  <2> QED
    BY <2>1, Here, ItsObjects DEF Net
<1>1. CASE Held(l, r) # 0
  <2>1. req[r].pc \in {"update", "insert", "reread", "account", "release", "add", "admit",
                      "commit", "abort"}
    BY <1>0, <1>1 DEF HoldOf
  <2>2. req[r].op \notin UploadOps \ PartOps
    BY <1>0, <1>1, EndersHoldNothing
  <2>3. Writing(r)
    BY <1>0, <2>1, <2>2 DEF Placed, OpAt, Writing, UploadOps
  <2>4. Active(r) /\ req[r].obj \in Object
    BY <2>1, ItsObjects DEF Active, Resting
  <2> QED
    BY <2>3, <2>4
<1>2. CASE Held(l, r) = 0
  <2>1. Owed(l, r) # 0
    BY <1>0, <1>2
  <2>2. req[r].pc \in {"reread", "account", "commit", "credit", "credited", "difference", "drop"}
    BY <2>1 DEF Owed, Owes
  <2>3. Active(r) /\ req[r].obj \in Object
    BY <2>2, ItsObjects DEF Active, Resting
  <2>4. CASE req[r].pc = "drop"
    <3>1. call[r].at \notin {"release_user", "ok"}
      BY <2>1, <2>4 DEF Owed, Owes, Ahead
    <3>2. Completing(r)
      BY <1>0, <2>4, <3>1 DEF Placed, OpAt, CallAt, Enders, Completing
    <3> QED
      BY <1>2, <2>3, <2>4, <3>2
  <2>5. CASE req[r].pc # "drop"
    BY <1>0, <1>2, <2>2, <2>3, <2>5 DEF Placed, OpAt, Writing, Completing
  <2> QED
    BY <2>4, <2>5
<1> QED
  BY <1>1, <1>2

\* What a handler owes beyond what it holds, the slack of its object bears.
LEMMA NetBorne ==
  ASSUME FInv, UploadsApart, Calm, NEW l \in Levels, NEW r \in Requests
  PROVE  /\ Net(l, r) \in Int
         /\ Net(l, r) # 0 =>
              /\ req[r].obj \in Object /\ Active(r) /\ req[r].obj \in TouchedBy(req[r])
              /\ Completing(r) => Through(r)
              /\ Net(l, r) <= Slack(l, req[r].obj)
<1> DEFINE o == req[r].obj
           n == req[r].delta
<1>0. /\ Placed(req[r], call[r], mp[r]) /\ req[r].size \in Nat /\ n \in Int
      /\ req[r].size # Absent /\ mp[r].held \in Nat
      /\ Held(l, r) = HoldOf(l, req[r], call[r]) /\ Held(l, r) \in Nat
      /\ Owed(l, r) \in Int /\ Knows(r)
  <2>1. /\ Held(l, r) = HoldOf(l, req[r], call[r])
        /\ Held(l, r) \in Nat
    BY HeldIs DEF Levels
  <2> QED
    BY <2>1, Here, ItsObjects, OwedTyped DEF Calm, Aware
<1>1. Net(l, r) \in Int
  BY <1>0 DEF Net
<1> SUFFICES ASSUME Net(l, r) # 0
             PROVE  /\ o \in Object /\ Active(r) /\ o \in TouchedBy(req[r])
                    /\ Completing(r) => Through(r)
                    /\ Net(l, r) <= Slack(l, o)
  BY <1>1
<1>2. /\ Active(r) /\ o \in Object
      /\ Net(l, r) = Owed(l, r) - Held(l, r)
  BY NetWhose DEF Net
<1>3. /\ Stored(row[o]) \in Nat /\ Stored(blob[o]) \in Nat /\ Shelter(l, o) \in Nat
      /\ Slack(l, o) \in Int
  BY <1>2, SlackSound
<1>4. ASSUME o \in TouchedBy(req[r]), ~Sent(r, o)
      PROVE  Slack(l, o) >= 0
  <2>1. \A q \in Requests : ~Sent(q, o)
    BY <1>2, <1>4, SentAlone DEF Calm
  <2> QED
    BY <1>2, <2>1, SlackSound
<1>5. CASE Writing(r)
  <2>1. o \in TouchedBy(req[r]) /\ ~Completing(r)
    BY <1>2, <1>5, TouchedAt DEF Writing, WriteOps, Completing
  <2>2. CASE Sent(r, o)
    <3>1. /\ Net(l, r) = IF n > 0 THEN -n ELSE 0
          /\ Stored(row[o]) - Stored(blob[o]) = -n
      BY <1>2, <2>2, SentHolds
    <3>2. Net(l, r) <= Slack(l, o)
      BY <1>0, <1>3, <3>1 DEF Slack
    <3> QED
      BY <1>2, <2>1, <3>2
  <2>3. CASE ~Sent(r, o)
    <3>1. Slack(l, o) >= 0
      BY <1>4, <2>1, <2>3
    <3>2. Owed(l, r) <= Held(l, r)
      <4>1. CASE req[r].pc \in {"reread", "account"}
        <5>1. Owed(l, r) = n
          BY <1>5, <4>1, LevelIs DEF Owed, Owes, Grown, Writing, WriteOps
        <5> QED
          BY <1>0, <4>1, <5>1 DEF HoldOf
      <4>2. CASE req[r].pc = "commit"
        <5>1. n > 0 => Owed(l, r) = 0 \/ Held(l, r) = n
          BY <1>0, <4>2 DEF Owed, Owes, Ahead, Placed, CallAt, HoldOf, Levels
        <5>2. Owed(l, r) \in {0, n}
          BY <4>2, LevelIs DEF Owed, Owes, Grown
        <5> QED
          BY <1>0, <5>1, <5>2
      <4>3. CASE req[r].pc \notin {"reread", "account", "commit"}
        <5>1. req[r].pc \notin {"credit", "credited", "difference", "drop"}
          BY <1>0, <1>5 DEF Placed, OpAt, Writing, WriteOps, DeletePcs, Enders
        <5>2. Owed(l, r) = 0
          BY <4>3, <5>1 DEF Owed, Owes
        <5> QED
          BY <1>0, <5>2
      <4> QED
        BY <4>1, <4>2, <4>3
    <3> QED
      BY <1>0, <1>2, <1>3, <2>1, <3>1, <3>2
  <2> QED
    BY <2>2, <2>3
<1>6. CASE req[r].pc \in {"credit", "credited"} /\ Held(l, r) = 0
  <2>1. o \in req[r].keys
    BY <1>0, <1>6 DEF Knows, DeleteKnows, DeletePcs
  <2>2. o \in TouchedBy(req[r]) /\ ~Completing(r) /\ ~Sent(r, o)
    BY <1>0, <1>2, <1>6, <2>1, TouchedAt DEF Placed, OpAt, Completing, DeletePcs, Sent, Sending
  <2>3. Owed(l, r) \in {0, -req[r].size}
    BY <1>6, LevelIs DEF Owed, Owes, Whole
  <2>4. Slack(l, o) >= 0
    BY <1>4, <2>2
  <2> QED
    BY <1>0, <1>2, <1>3, <1>6, <2>2, <2>3, <2>4
<1>7. CASE /\ Completing(r) /\ Held(l, r) = 0
           /\ req[r].pc \in {"reread", "account", "difference", "drop"}
  <2> DEFINE u == mp[r].upload
             m == mp[r].held
  <2>1. o \in TouchedBy(req[r])
    BY <1>2, <1>7, TouchedAt
  <2>2. Through(r) /\ On(r, u) /\ u \in Uploads
    <3>1. Through(r)
      BY <1>2, <1>7, WorkingAt DEF Through, Working, At
    <3> QED
      BY <3>1, ItsUpload DEF Through, Working, On
  <2>3. /\ req[r].pc # "reread"
        /\ blob[o] # Absent /\ blob[o] <= m /\ blob[o] = req[r].size /\ row[o] = req[r].size
    BY <1>0, <1>2, <1>7 DEF Knows, CompleteKnows
  <2>4. CASE ~Spent(l, r)
    <3>1. /\ upload[u] # Absent /\ parts[u] = Absent /\ upload[u].obj = o
          /\ m = upload[u].reserved
          /\ \A q \in Requests : On(q, u) /\ Through(q) => q = r
      BY <2>2 DEF UploadsApart, ApartAt, Through, Working, Enders, UploadOnlyOps
    <3>2. StillHolds(l, u, o)
      BY <2>3, <2>4, <3>1 DEF StillHolds, Takes
    <3>3. Shelter(l, o) = Stored(blob[o])
      BY <2>2, <3>2 DEF Shelter
    <3>4. Owed(l, r) = req[r].size
      <4>1. \/ req[r].pc = "account"
            \/ l = "account" /\ req[r].pc = "difference" /\ call[r].at = "commit_user"
        BY <1>0, <1>7, <2>3, <2>4 DEF Spent, Placed, CallAt, Completing, Levels
      <4> QED
        BY <1>7, <4>1, LevelIs DEF Owed, Owes, Whole, Completing
    <3>5. Stored(row[o]) = req[r].size
      BY <1>0, <2>3 DEF Stored
    <3> QED
      BY <1>0, <1>2, <1>3, <1>7, <2>1, <2>2, <3>3, <3>4, <3>5 DEF Slack
  <2>5. CASE Spent(l, r)
    <3>1. Owed(l, r) \in {0, req[r].size - m}
      BY <2>5, LevelIs DEF Owed, Owes, Rest, Spent
    <3>2. Slack(l, o) >= 0
      BY <1>4, <2>1, <2>5 DEF Sent, Sending, Spent
    <3> QED
      BY <1>0, <1>2, <1>3, <1>7, <2>1, <2>2, <2>3, <3>1, <3>2
  <2> QED
    BY <2>4, <2>5
<1> QED
  BY <1>5, <1>6, <1>7, NetWhose

\* No two do so for the same object.
LEMMA NetApart ==
  ASSUME FInv, UploadsApart, Calm, NEW l \in Levels,
         NEW p \in Requests, NEW q \in Requests, p # q,
         Net(l, p) # 0, Net(l, q) # 0
  PROVE  req[p].obj # req[q].obj
<1>1. /\ Active(p) /\ req[p].obj \in TouchedBy(req[p]) /\ (Completing(p) => Through(p))
      /\ Active(q) /\ req[q].obj \in TouchedBy(req[q]) /\ (Completing(q) => Through(q))
  BY NetBorne
<1>2. ~(Completing(p) /\ Completing(q) /\ mp[p].upload = mp[q].upload)
  <2> SUFFICES ASSUME Completing(p), Completing(q), mp[p].upload = mp[q].upload
               PROVE  FALSE
    OBVIOUS
  <2>1. Working(p) /\ Through(p) /\ On(q, mp[p].upload) /\ Through(q)
    BY <1>1, WorkingAt DEF On
  <2> QED
    BY <2>1 DEF UploadsApart, ApartAt
<1> QED
  BY <1>1, <1>2 DEF Calm, KeysApart

\* At one bucket or account, for each request and each object.
NetAt(l, x, r) == IF req[r].obj # Nowhere /\ Place(l, req[r].obj) = x THEN Net(l, r) ELSE 0
Nets(l, x) == [r \in Requests |-> NetAt(l, x, r)]
Slacks(l, x) == [o \in Object |-> IF Place(l, o) = x THEN Slack(l, o) ELSE 0]

\* So the slack of its objects bears what is owed there beyond what is held.
LEMMA SlackBears ==
  ASSUME FInv, UploadsApart, Calm, NEW l \in Levels, NEW x
  PROVE  /\ Total(Nets(l, x), Requests) <= Total(Slacks(l, x), Object)
         /\ \A r \in Requests : NetAt(l, x, r) \in Int
         /\ \A o \in Object : Slack(l, o) \in Int
<1> DEFINE key == [q \in Requests |-> req[q].obj]
           f == Nets(l, x)
           g == Slacks(l, x)
<1>0. /\ \A q \in Requests : /\ key[q] = req[q].obj /\ f[q] = NetAt(l, x, q)
                             /\ NetAt(l, x, q) \in Int
      /\ \A o \in Object : /\ g[o] = IF Place(l, o) = x THEN Slack(l, o) ELSE 0
                           /\ Slack(l, o) \in Int
  <2>1. \A q \in Requests : NetAt(l, x, q) \in Int
    BY NetBorne DEF NetAt
  <2>2. \A o \in Object : Slack(l, o) \in Int
    BY SlackSound
  <2> QED
    BY <2>1, <2>2 DEF Nets, Slacks
<1> HIDE DEF key, f, g
<1>1. ASSUME NEW q \in Requests, f[q] # 0
      PROVE  key[q] \in Object /\ f[q] <= g[key[q]] /\ Net(l, q) # 0
  <2>1. Place(l, req[q].obj) = x /\ f[q] = Net(l, q) /\ Net(l, q) # 0
    BY <1>0, <1>1 DEF NetAt
  <2>2. req[q].obj \in Object /\ Net(l, q) <= Slack(l, req[q].obj)
    BY <2>1, NetBorne
  <2> QED
    BY <1>0, <2>1, <2>2
<1>2. \A p, q \in Requests : p # q /\ f[p] # 0 /\ f[q] # 0 => key[p] # key[q]
  BY <1>0, <1>1, NetApart
<1>3. ASSUME NEW o \in Object, \A q \in Requests : key[q] = o => f[q] = 0
      PROVE  g[o] >= 0
  <2>1. CASE Place(l, o) # x
    BY <1>0, <2>1
  <2>2. CASE Place(l, o) = x /\ \E r \in Requests : Sent(r, o)
    <3>1. PICK r \in Requests : Sent(r, o)
      BY <2>2
    <3>2. req[r].obj = o /\ o # Nowhere
      BY <3>1, ObjectsPlaced DEF Sent
    <3>3. Net(l, r) = 0
      BY <1>0, <1>3, <2>2, <3>2 DEF NetAt
    <3>4. /\ Stored(row[o]) - Stored(blob[o]) >= 0
      BY <3>1, <3>3, SentHolds
    <3>5. Slack(l, o) >= 0
      BY <3>4, SlackSound DEF Slack
    <3> QED
      BY <1>0, <2>2, <3>5
  <2>3. CASE Place(l, o) = x /\ ~\E r \in Requests : Sent(r, o)
    BY <1>0, <2>3, SlackSound
  <2> QED
    BY <2>1, <2>2, <2>3
<1>4. Borne(Requests, Object, key, f, g)
  BY <1>0, <1>1, <1>2, <1>3 DEF Borne
<1>5. Total(f, Requests) <= Total(g, Object)
  BY <1>4, ObjectsPlaced, TotalBorne
<1> QED
  BY <1>0, <1>5 DEF f, g

\* The bytes of parts on their way to their upload's row, there, by request and by upload.
AddIn(l, x, r) == IF At(r, "add") /\ Place(l, req[r].obj) = x THEN req[r].size ELSE 0
AddsBy(l, x) == [r \in Requests |-> AddIn(l, x, r)]
HasRow(l, x, u) == upload[u] # Absent /\ Place(l, upload[u].obj) = x
AddsOn(l, x) == [u \in Uploads |-> IF HasRow(l, x, u) THEN Total(Adds(u), Requests) ELSE 0]

\* They add up to the same.
LEMMA AddsAlike ==
  ASSUME FInv, UploadsApart, NEW l \in Levels, NEW x
  PROVE  /\ Total(AddsOn(l, x), Uploads) = Total(AddsBy(l, x), Requests)
         /\ \A r \in Requests : AddIn(l, x, r) \in Nat
         /\ \A u \in Uploads : AddsOn(l, x)[u] \in Nat
<1> DEFINE K == {u \in Uploads : HasRow(l, x, u)}
           key == [r \in Requests |-> mp[r].upload]
           f == [r \in Requests |-> IF At(r, "add") THEN req[r].size ELSE 0]
           part == [u \in K |-> Adds(u)]
           h == AddsBy(l, x)
           s == AddsOn(l, x)
<1>1. IsFiniteSet(K) /\ IsFiniteSet(Uploads) /\ IsFiniteSet(Requests) /\ K \in SUBSET Uploads
  BY UploadsAssumption, ObjectsPlaced, FS_Subset
<1>2. ASSUME NEW r \in Requests
      PROVE  f[r] \in Nat /\ AddIn(l, x, r) \in Nat /\ h[r] = IF key[r] \in K THEN f[r] ELSE 0
  <2>1. f[r] \in Nat /\ AddIn(l, x, r) \in Nat
    BY Here DEF AddIn
  <2>2. At(r, "add") => (mp[r].upload \in K <=> Place(l, req[r].obj) = x)
    <3> SUFFICES ASSUME At(r, "add") PROVE mp[r].upload \in K <=> Place(l, req[r].obj) = x
      OBVIOUS
    <3>1. /\ req[r].op \in PartOps /\ mp[r].upload \in Uploads
      BY ItsUpload DEF UploadOps, PartOps, UploadOnlyOps
    <3>2. Working(r)
      BY <3>1 DEF Working, Active, At, Resting, UploadOps, PartOps, UploadOnlyOps
    <3>3. upload[mp[r].upload] # Absent /\ req[r].obj = upload[mp[r].upload].obj
      BY <3>1, <3>2 DEF UploadsApart, ApartAt, PartOps
    <3> QED
      BY <3>1, <3>3 DEF HasRow
  <2> QED
    BY <2>1, <2>2 DEF AddsBy, AddIn
<1>3. ASSUME NEW u \in Uploads
      PROVE  /\ s[u] \in Nat
             /\ u \in K => s[u] = Total(Adds(u), Requests)
             /\ u \notin K => s[u] = 0
             /\ \A r \in Requests : Adds(u)[r] = IF key[r] = u THEN f[r] ELSE 0
  <2>1. Total(Adds(u), Requests) \in Nat /\ \A r \in Requests : Adds(u)[r] = AddTo(r, u)
    BY PartNumbersAre
  <2> QED
    BY <2>1 DEF AddsOn, AddTo
<1>4. \A u \in K : part[u] = Adds(u) /\ u \in Uploads
  BY <1>1
<1> HIDE DEF K, key, f, part, h, s
<1>5. Grouped(Requests, K, key, f, part, s, h)
  BY <1>1, <1>2, <1>3, <1>4 DEF Grouped
<1>6. Total(s, K) = Total(h, Requests)
  BY <1>1, <1>5, TotalByKey
<1>7. Total(s, K) = Total(s, Uploads)
  BY <1>1, <1>3, TotalPart
<1> QED
  BY <1>2, <1>3, <1>6, <1>7 DEF h, s

\* What an upload keeps on a row of quota.rs, or has on the way there, beyond its parts.
PartsIn(l, x) == [u \in Uploads |-> IF HasRow(l, x, u) /\ parts[u] # Absent THEN InParts(u) ELSE 0]
Spare(l, x, u) == Kept("exact", l, x, u) + AddsOn(l, x)[u] - PartsIn(l, x)[u]
SparesIn(l, x) == [u \in Uploads |-> Spare(l, x, u)]
SheltersIn(l, x) == [o \in Object |-> IF Place(l, o) = x THEN Shelter(l, o) ELSE 0]

\* That is never negative, and no less than the object it was assembled to.
LEMMA SpareSound ==
  ASSUME FInv, UploadsApart, Calm, NEW l \in Levels, NEW x, NEW u \in Uploads
  PROVE  /\ Spare(l, x, u) \in Nat
         /\ Kept("exact", l, x, u) \in Nat /\ AddsOn(l, x)[u] \in Nat
         /\ PartsIn(l, x)[u] \in Nat
         /\ \A o \in Object : StillHolds(l, u, o) /\ Place(l, o) = x => Stored(blob[o]) <= Spare(l, x, u)
<1> DEFINE k == Kept("exact", l, x, u)
           a == AddsOn(l, x)[u]
           p == PartsIn(l, x)[u]
<1>1. k \in Nat /\ a \in Nat /\ p \in Nat
  BY AddsAlike, Typed, PartNumbersAre DEF PartsIn
<1>2. parts[u] # Absent => \A r \in Requests : ~Takes(l, r, u)
  BY DEF Takes, On, UploadsApart, ApartAt, Through
<1>3. k + a >= p
  <2>1. CASE HasRow(l, x, u) /\ parts[u] # Absent
    <3>1. k = OnRow(u)
      BY <1>2, <2>1, LevelIs DEF Kept, Keeps, HasRow, OnRow
    <3>2. InParts(u) <= OnRow(u) + Total(Adds(u), Requests)
      BY <2>1 DEF Calm, PartsHeld
    <3>3. a = Total(Adds(u), Requests) /\ p = InParts(u)
      BY <2>1 DEF AddsOn, PartsIn
    <3> QED
      BY <3>1, <3>2, <3>3
  <2>2. CASE ~(HasRow(l, x, u) /\ parts[u] # Absent)
    <3>1. p = 0
      BY <2>2 DEF PartsIn
    <3> QED
      BY <1>1, <3>1
  <2> QED
    BY <2>1, <2>2
<1>4. ASSUME NEW o \in Object, StillHolds(l, u, o), Place(l, o) = x
      PROVE  Stored(blob[o]) <= k + a - p
  <2>1. /\ upload[u] # Absent /\ upload[u].obj = o /\ parts[u] = Absent
        /\ blob[o] # Absent /\ blob[o] <= upload[u].reserved
        /\ \A q \in Requests : ~Takes(l, q, u)
    BY <1>4 DEF StillHolds
  <2>3. k = upload[u].reserved
    BY <1>4, <2>1, LevelIs DEF Kept, Keeps
  <2>4. p = 0
    BY <2>1 DEF PartsIn
  <2>5. Stored(blob[o]) = blob[o] /\ blob[o] \in Nat
    BY <2>1 DEF FInv, TypeOK, Stored
  <2> QED
    BY <1>1, <2>1, <2>3, <2>4, <2>5
<1> QED
  BY <1>1, <1>3, <1>4 DEF Spare

\* So what is sheltered and what parts come to, the uploads and their parts on the way bear.
LEMMA SheltersBorne ==
  ASSUME FInv, UploadsApart, Calm, NEW l \in Levels, NEW x
  PROVE  Total(SheltersIn(l, x), Object) <= Total(SparesIn(l, x), Uploads)
<1> DEFINE key == [o \in Object |-> CHOOSE u \in Uploads : StillHolds(l, u, o)]
           f == SheltersIn(l, x)
           g == SparesIn(l, x)
<1>1. ASSUME NEW o \in Object
      PROVE  f[o] \in Int /\ (f[o] # 0 => key[o] \in Uploads /\ StillHolds(l, key[o], o)
                                            /\ f[o] <= g[key[o]])
  <2>1. f[o] \in Int
    BY SlackSound DEF SheltersIn
  <2>2. ASSUME f[o] # 0
        PROVE  key[o] \in Uploads /\ StillHolds(l, key[o], o) /\ f[o] <= g[key[o]]
    <3>1. Place(l, o) = x /\ f[o] = Stored(blob[o]) /\ \E u \in Uploads : StillHolds(l, u, o)
      BY <2>2 DEF SheltersIn, Shelter
    <3>2. key[o] \in Uploads /\ StillHolds(l, key[o], o)
      BY <3>1
    <3>3. g[key[o]] = Spare(l, x, key[o])
      BY <3>2 DEF SparesIn
    <3> HIDE DEF key, f, g
    <3>4. Stored(blob[o]) <= Spare(l, x, key[o])
      BY <3>1, <3>2, SpareSound
    <3> QED
      BY <3>1, <3>2, <3>3, <3>4
  <2> QED
    BY <2>1, <2>2
<1>2. \A u \in Uploads : g[u] \in Nat
  BY SpareSound DEF SparesIn
<1> HIDE DEF key, f, g
<1>3. \A o, p \in Object : o # p /\ f[o] # 0 /\ f[p] # 0 => key[o] # key[p]
  BY <1>1 DEF StillHolds
<1>4. Borne(Object, Uploads, key, f, g)
  BY <1>1, <1>2, <1>3 DEF Borne
<1>5. Total(f, Object) <= Total(g, Uploads)
  BY <1>4, UploadsAssumption, ObjectsPlaced, TotalBorne
<1> QED
  BY <1>5 DEF f, g

\* What the store has of the parts of an upload that has its row.
StoredParts(u) ==
  IF parts[u] = Absent \/ upload[u] = Absent THEN 0
  ELSE MapThenSumSet(LAMBDA p : Stored(parts[u][p]), PartNumbers)

\* As a sum over the parts.
LEMMA StoredPartsIs ==
  ASSUME FInv, NEW u \in Uploads, upload[u] # Absent, parts[u] # Absent
  PROVE  StoredParts(u) = InParts(u)
<1> DEFINE S == PartNumbers
           s == PartBytes(u)
           next(g) == [T \in SUBSET S |-> IF T = {} THEN 0
                        ELSE LET x == CHOOSE x \in T : TRUE IN Stored(parts[u][x]) + g[T \ {x}]]
           iter == CHOOSE g : g = next(g)
<1>1. IsFiniteSet(S)
  BY UploadsAssumption
<1>2. \A p \in S : s[p] = Stored(parts[u][p]) /\ s[p] \in Int
  BY PartNumbersAre DEF PartBytes
<1>3. StoredParts(u) = iter[S]
  BY DEF StoredParts, MapThenSumSet, MapThenFoldSet
<1>4. \A g : TakesOneByOne(s, g, S) <=> g = next(g)
  <2> HIDE DEF s
  <2> QED
    BY <1>2 DEF TakesOneByOne
<1>5. (\E g : TakesOneByOne(s, g, S)) => TakesOneByOne(s, iter, S)
  <2> HIDE DEF s, next
  <2> QED
    BY <1>4
<1> HIDE DEF s, iter
<1>6. iter[S] = Total(s, S)
  BY <1>1, <1>2, <1>5, ChosenIsTotal
<1> QED
  BY <1>3, <1>6 DEF s, InParts

\* And over the uploads of a bucket or of an account.
LEMMA StoredPartsSum ==
  ASSUME FInv, NEW l \in Levels, NEW x, NEW S, S = {u \in Uploads : HasRow(l, x, u)}
  PROVE  MapThenSumSet(StoredParts, S) = Total(PartsIn(l, x), Uploads)
<1> DEFINE f == PartsIn(l, x)
           next(g) == [T \in SUBSET S |-> IF T = {} THEN 0
                        ELSE LET e == CHOOSE e \in T : TRUE IN StoredParts(e) + g[T \ {e}]]
           iter == CHOOSE g : g = next(g)
<1>1. /\ IsFiniteSet(S) /\ IsFiniteSet(Uploads) /\ S \in SUBSET Uploads
      /\ \A u \in Uploads : u \in S <=> HasRow(l, x, u)
  BY UploadsAssumption, FS_Subset
<1>2. /\ \A u \in S : f[u] = StoredParts(u) /\ f[u] \in Int
      /\ \A u \in Uploads \ S : f[u] = 0
  <2>1. ASSUME NEW u \in S
        PROVE  f[u] = StoredParts(u) /\ f[u] \in Int
    <3>1. CASE parts[u] # Absent
      <4>1. StoredParts(u) = InParts(u) /\ InParts(u) \in Nat
        BY <1>1, <3>1, StoredPartsIs, PartNumbersAre DEF HasRow
      <4> QED
        BY <1>1, <3>1, <4>1 DEF PartsIn
    <3>2. CASE parts[u] = Absent
      BY <1>1, <3>2 DEF PartsIn, StoredParts
    <3> QED
      BY <3>1, <3>2
  <2>2. \A u \in Uploads \ S : f[u] = 0
    BY <1>1 DEF PartsIn
  <2> QED
    BY <2>1, <2>2
<1>3. MapThenSumSet(StoredParts, S) = iter[S]
  BY DEF MapThenSumSet, MapThenFoldSet
<1>4. \A g : TakesOneByOne(f, g, S) <=> g = next(g)
  <2> HIDE DEF f
  <2>1. \A T \in SUBSET S : T # {} => LET e == CHOOSE e \in T : TRUE IN f[e] = StoredParts(e)
    BY <1>2
  <2> QED
    BY <2>1 DEF TakesOneByOne
<1>5. (\E g : TakesOneByOne(f, g, S)) => TakesOneByOne(f, iter, S)
  <2> HIDE DEF f, next
  <2> QED
    BY <1>4
<1> HIDE DEF f, iter
<1>6. iter[S] = Total(f, S)
  BY <1>1, <1>2, <1>5, ChosenIsTotal
<1>7. Total(f, S) = Total(f, Uploads)
  BY <1>1, <1>2, TotalPart
<1> QED
  BY <1>3, <1>6, <1>7 DEF f

\* What a request owes at a bucket or an account, and what a part is about to move to its
\* upload's row, its holds there bear, but for what its object's slack does.
LEMMA DuesBorne ==
  ASSUME FInv, UploadsApart, Calm, NEW l \in Levels, NEW x, NEW r \in Requests
  PROVE  /\ OwedAt(l, x, r) + AddIn(l, x, r) <= NetAt(l, x, r) + HeldAt(l, x, r)
         /\ OwedAt(l, x, r) \in Int /\ HeldAt(l, x, r) \in Nat
<1> DEFINE o == req[r].obj
<1>0. /\ Placed(req[r], call[r], mp[r]) /\ req[r].size \in Nat /\ req[r].delta \in Int
      /\ Held(l, r) = HoldOf(l, req[r], call[r]) /\ Held(l, r) \in Nat
      /\ Owed(l, r) \in Int /\ OwedAt(l, x, r) \in Int
      /\ AddIn(l, x, r) \in Nat /\ NetAt(l, x, r) \in Int
  <2>1. /\ Held(l, r) = HoldOf(l, req[r], call[r])
        /\ Held(l, r) \in Nat
    BY HeldIs DEF Levels
  <2> QED
    BY <2>1, Here, OwedTyped, AddsAlike, SlackBears
<1>1. At(r, "add") => o # Nowhere /\ req[r].op \in PartOps
  BY ItsObjects, ItsUpload, ObjectsPlaced DEF At, Resting
<1>2. CASE o # Nowhere /\ Place(l, o) = x
  <2>1. /\ OwedAt(l, x, r) = Owed(l, r)
        /\ HeldAt(l, x, r) = Held(l, r)
        /\ NetAt(l, x, r) = Net(l, r)
    BY <1>2, LevelIs DEF OwedAt, HeldAt, NetAt
  <2>2. CASE req[r].op \in PartOps
    <3>1. Net(l, r) = 0
      BY <2>2 DEF Net
    <3>2. Owed(l, r) = 0
      <4>1. req[r].pc \notin {"reread", "account", "commit", "credit", "credited", "difference", "drop"}
        BY <1>0, <2>2 DEF Placed, OpAt, WriteOps, PartOps, DeletePcs, Enders
      <4> QED
        BY <4>1 DEF Owed, Owes
    <3>3. AddIn(l, x, r) <= Held(l, r)
      <4>1. At(r, "add") => req[r].delta = req[r].size
        BY <1>0, <2>2 DEF Placed, SubjectOf, At
      <4> QED
        BY <1>0, <4>1 DEF AddIn, HoldOf, At
    <3> QED
      BY <1>0, <2>1, <3>1, <3>2, <3>3
  <2>3. CASE req[r].op \notin PartOps
    <3>1. AddIn(l, x, r) = 0 /\ Net(l, r) = Owed(l, r) - Held(l, r)
      BY <1>1, <2>3 DEF Net, AddIn
    <3> QED
      BY <1>0, <2>1, <3>1
  <2> QED
    BY <2>2, <2>3
<1>3. CASE ~(o # Nowhere /\ Place(l, o) = x)
  <2>1. /\ OwedAt(l, x, r) = 0 /\ HeldAt(l, x, r) = 0 /\ NetAt(l, x, r) = 0
        /\ AddIn(l, x, r) = 0
    BY <1>1, <1>3, LevelIs DEF OwedAt, HeldAt, NetAt, AddIn
  <2> QED
    BY <2>1
<1> QED
  BY <1>0, <1>2, <1>3 DEF HeldAt

\* The sizes the store has, at a bucket or an account.
BlobsAt(l, x) == [o \in Object |-> IF Place(l, o) = x THEN Stored(blob[o]) ELSE 0]

\* Altogether: the counters, less what is owed and with what is held, cover the store.
LEMMA LevelBorne ==
  ASSUME CovInv, faults = 0, NEW l \in Levels, NEW x \in Sites(l)
  PROVE  /\ Total(BlobsAt(l, x), Object) + Total(PartsIn(l, x), Uploads) \in Int
         /\ Total(BlobsAt(l, x), Object) + Total(PartsIn(l, x), Uploads)
              <= Column(l, x) + Reserved(l, x)
<1> DEFINE rows == WorthAt(l, x)
           blobs == BlobsAt(l, x)
           slack == Slacks(l, x)
           shel == SheltersIn(l, x)
           due == DuesAt(l, x)
           held == Holds(l, x)
           net == Nets(l, x)
           add == AddsBy(l, x)
           kept == Keepings("exact", l, x)
           way == AddsOn(l, x)
           in == PartsIn(l, x)
           spare == SparesIn(l, x)
<1>0. /\ FInv /\ UploadsApart /\ HoldsOK /\ Calm /\ ChargesOK
      /\ IsFiniteSet(Requests) /\ IsFiniteSet(Object) /\ IsFiniteSet(Uploads)
      /\ Column(l, x) \in Int /\ Reserved(l, x) \in Int
  <2>1. FInv /\ UploadsApart /\ HoldsOK /\ Calm /\ ChargesOK
    BY DEF CovInv, HInv
  <2> QED
    BY <2>1, ObjectsPlaced, UploadsAssumption, LevelIs, ColumnsTyped, Typed
<1>1. /\ Column(l, x) + Total(due, Requests) = Total(rows, Object)
      /\ Reserved(l, x) = Total(held, Requests) + Total(kept, Uploads)
      /\ Total(net, Requests) <= Total(slack, Object)
      /\ Total(shel, Object) <= Total(spare, Uploads)
      /\ Total(way, Uploads) = Total(add, Requests)
  <2>1. Column(l, x) + Total(due, Requests) = Total(rows, Object)
    BY <1>0, LevelIs DEF ChargesOK
  <2>2. Reserved(l, x) = Total(held, Requests) + Total(kept, Uploads)
    <3>1. "exact" \in Kinds /\ Counts("exact")
      BY DEF Kinds, Counts
    <3>2. Bears("exact", Reserved(l, x), Total(held, Requests) + Total(kept, Uploads))
      BY <1>0, <3>1 DEF HoldsOK
    <3> QED
      BY <3>2 DEF Bears
  <2>3. Total(net, Requests) <= Total(slack, Object)
    BY <1>0, SlackBears
  <2>4. Total(shel, Object) <= Total(spare, Uploads)
    BY <1>0, SheltersBorne
  <2>5. Total(way, Uploads) = Total(add, Requests)
    BY <1>0, AddsAlike
  <2> QED
    BY <2>1, <2>2, <2>3, <2>4, <2>5
<1>2. \A q \in Requests : /\ due[q] \in Int /\ held[q] \in Int /\ net[q] \in Int /\ add[q] \in Int
                          /\ due[q] + add[q] <= net[q] + held[q]
  <2>1. \A q \in Requests :
          /\ OwedAt(l, x, q) + AddIn(l, x, q) <= NetAt(l, x, q) + HeldAt(l, x, q)
          /\ OwedAt(l, x, q) \in Int /\ HeldAt(l, x, q) \in Nat
          /\ AddIn(l, x, q) \in Nat /\ NetAt(l, x, q) \in Int
    BY <1>0, DuesBorne, AddsAlike, SlackBears
  <2> QED
    BY <2>1 DEF DuesAt, Holds, Nets, AddsBy
<1>3. \A o \in Object : /\ rows[o] \in Int /\ blobs[o] \in Int /\ slack[o] \in Int
                        /\ shel[o] \in Int /\ rows[o] + shel[o] = slack[o] + blobs[o]
  <2>1. \A o \in Object : /\ Stored(row[o]) \in Nat /\ Stored(blob[o]) \in Nat
                          /\ Shelter(l, o) \in Nat /\ Slack(l, o) \in Int
    BY <1>0, SlackSound
  <2>2. \A o \in Object : rows[o] = IF Place(l, o) = x THEN Stored(row[o]) ELSE 0
    BY LevelIs DEF WorthAt, Worth, Stored
  <2> HIDE DEF rows
  <2> QED
    BY <2>1, <2>2 DEF BlobsAt, Slacks, SheltersIn, Slack
<1>4. \A u \in Uploads : /\ kept[u] \in Int /\ way[u] \in Int /\ in[u] \in Int /\ spare[u] \in Int
                         /\ spare[u] + in[u] = kept[u] + way[u]
  <2>1. \A u \in Uploads : /\ Kept("exact", l, x, u) \in Nat /\ way[u] \in Nat
                           /\ in[u] \in Nat /\ Spare(l, x, u) \in Nat
    BY <1>0, SpareSound
  <2>2. \A u \in Uploads : /\ kept[u] = Kept("exact", l, x, u)
                           /\ spare[u] = Spare(l, x, u)
                           /\ Spare(l, x, u) = Kept("exact", l, x, u) + way[u] - in[u]
    BY DEF Keepings, SparesIn, Spare
  <2> HIDE DEF kept, way, in, spare
  <2> QED
    BY <2>1, <2>2
<1> HIDE DEF rows, blobs, slack, shel, due, held, net, add, kept, way, in, spare
<1>5. ASSUME NEW f, NEW S, IsFiniteSet(S), \A e \in S : f[e] \in Int
      PROVE  Total(f, S) \in Int
  BY <1>5, TotalTake
<1>6. Total(due, Requests) + Total(add, Requests) <= Total(net, Requests) + Total(held, Requests)
  <2> DEFINE e == [q \in Requests |-> due[q] + add[q]]
             h == [q \in Requests |-> net[q] + held[q]]
  <2>1. \A q \in Requests : /\ e[q] \in Int /\ h[q] \in Int /\ e[q] <= h[q]
                            /\ e[q] = due[q] + add[q] /\ h[q] = net[q] + held[q]
    BY <1>2
  <2> HIDE DEF e, h
  <2>2. Total(e, Requests) = Total(due, Requests) + Total(add, Requests)
    BY <1>0, <1>2, <2>1, TotalPlus
  <2>3. Total(h, Requests) = Total(net, Requests) + Total(held, Requests)
    BY <1>0, <1>2, <2>1, TotalPlus
  <2>4. Total(e, Requests) <= Total(h, Requests)
    BY <1>0, <2>1, TotalMono
  <2> QED
    BY <2>2, <2>3, <2>4
<1>7. Total(rows, Object) + Total(shel, Object) = Total(slack, Object) + Total(blobs, Object)
  <2> DEFINE e == [o \in Object |-> rows[o] + shel[o]]
  <2>1. \A o \in Object : e[o] = rows[o] + shel[o] /\ e[o] = slack[o] + blobs[o]
    BY <1>3
  <2> HIDE DEF e
  <2>2. Total(e, Object) = Total(rows, Object) + Total(shel, Object)
    BY <1>0, <1>3, <2>1, TotalPlus
  <2>3. Total(e, Object) = Total(slack, Object) + Total(blobs, Object)
    BY <1>0, <1>3, <2>1, TotalPlus
  <2> QED
    BY <2>2, <2>3
<1>8. Total(spare, Uploads) + Total(in, Uploads) = Total(kept, Uploads) + Total(way, Uploads)
  <2> DEFINE e == [u \in Uploads |-> spare[u] + in[u]]
  <2>1. \A u \in Uploads : e[u] = spare[u] + in[u] /\ e[u] = kept[u] + way[u]
    BY <1>4
  <2> HIDE DEF e
  <2>2. Total(e, Uploads) = Total(spare, Uploads) + Total(in, Uploads)
    BY <1>0, <1>4, <2>1, TotalPlus
  <2>3. Total(e, Uploads) = Total(kept, Uploads) + Total(way, Uploads)
    BY <1>0, <1>4, <2>1, TotalPlus
  <2> QED
    BY <2>2, <2>3
<1>9. /\ Total(rows, Object) \in Int /\ Total(shel, Object) \in Int /\ Total(slack, Object) \in Int
      /\ Total(blobs, Object) \in Int /\ Total(due, Requests) \in Int /\ Total(add, Requests) \in Int
      /\ Total(net, Requests) \in Int /\ Total(held, Requests) \in Int
      /\ Total(spare, Uploads) \in Int /\ Total(in, Uploads) \in Int
      /\ Total(kept, Uploads) \in Int
  <2>1. /\ Total(rows, Object) \in Int /\ Total(shel, Object) \in Int
        /\ Total(slack, Object) \in Int /\ Total(blobs, Object) \in Int
    BY <1>0, <1>3, <1>5
  <2>2. /\ Total(due, Requests) \in Int /\ Total(add, Requests) \in Int
        /\ Total(net, Requests) \in Int /\ Total(held, Requests) \in Int
    BY <1>0, <1>2, <1>5
  <2>3. /\ Total(spare, Uploads) \in Int /\ Total(in, Uploads) \in Int
        /\ Total(kept, Uploads) \in Int
    BY <1>0, <1>4, <1>5
  <2> QED
    BY <2>1, <2>2, <2>3
<1>10. Total(blobs, Object) + Total(in, Uploads) <= Column(l, x) + Reserved(l, x)
  BY <1>0, <1>1, <1>6, <1>7, <1>8, <1>9
<1> QED
  BY <1>9, <1>10 DEF blobs, in

\* What the store has of a bucket and of an account: objects, and parts of open uploads.
Stock(b) == SizeIn(blob, b) + MapThenSumSet(StoredParts, Open(b))

StockOf(u) ==
  MapThenSumSet(LAMBDA b : SizeIn(blob, b), BucketsOf(u))
    + MapThenSumSet(StoredParts, OpenAny(BucketsOf(u)))

\* So what the store has of buckets and of accounts is within what their counters admit.
LEMMA StoreBorne ==
  ASSUME CovInv, faults = 0
  PROVE  /\ \A b \in Buckets : Stock(b) \in Int /\ Stock(b) <= Load(bucket[b])
         /\ \A u \in Users : StockOf(u) \in Int /\ StockOf(u) <= Load(account[u])
<1>0. FInv /\ \A o \in Object : Stored(blob[o]) \in Nat
  BY DEF CovInv, HInv, FInv, TypeOK, Stored
<1>1. ASSUME NEW b \in Buckets
      PROVE  Stock(b) \in Int /\ Stock(b) <= Load(bucket[b])
  <2>1. "bucket" \in Levels /\ b \in Sites("bucket")
    BY DEF Levels, Sites
  <2>2. BlobsAt("bucket", b) = SizesIn(blob, b)
    BY DEF BlobsAt, SizesIn, Place
  <2>3. Open(b) = {v \in Uploads : HasRow("bucket", b, v)}
    BY DEF Open, HasRow, Place
  <2>4. MapThenSumSet(StoredParts, Open(b)) = Total(PartsIn("bucket", b), Uploads)
    BY <1>0, <2>1, <2>3, StoredPartsSum
  <2>5. SizeIn(blob, b) = Total(BlobsAt("bucket", b), Object)
    BY <1>0, <2>2, SizeInTotal
  <2> QED
    BY <2>1, <2>4, <2>5, LevelBorne DEF Column, Reserved, Load, Stock
<1>2. ASSUME NEW u \in Users
      PROVE  StockOf(u) \in Int /\ StockOf(u) <= Load(account[u])
  <2>1. "account" \in Levels /\ u \in Sites("account")
    BY DEF Levels, Sites
  <2>2. BlobsAt("account", u) = SizesOf(blob, u)
    BY DEF BlobsAt, SizesOf, Place
  <2>3. OpenAny(BucketsOf(u)) = {v \in Uploads : HasRow("account", u, v)}
    <3>1. \A v \in Uploads : upload[v] # Absent => BucketOf(upload[v].obj) \in Buckets
      BY <1>0, UploadRow, ItsBucket DEF FInv
    <3> QED
      BY <3>1 DEF OpenAny, Open, BucketsOf, HasRow, Place
  <2>4. MapThenSumSet(StoredParts, OpenAny(BucketsOf(u))) = Total(PartsIn("account", u), Uploads)
    BY <1>0, <2>1, <2>3, StoredPartsSum
  <2>5. MapThenSumSet(LAMBDA b : SizeIn(blob, b), BucketsOf(u))
          = Total(BlobsAt("account", u), Object)
    <3>1. MapThenSumSet(LAMBDA b : SizeIn(blob, b), BucketsOf(u)) = Total(SizesOf(blob, u), Object)
      BY <1>0, SizeOfTotal
    <3> QED
      BY <2>2, <3>1
  <2> QED
    BY <2>1, <2>4, <2>5, LevelBorne DEF Column, Reserved, Load, StockOf
<1> QED
  BY <1>1, <1>2

\* While nothing is lost, clients keep off each other's keys and complete onto fresh ones,
\* what the store has of uploads and objects is no more than what the counters admit: the
\* parts before their upload ends, and the object made of them before it has its row.
THEOREM MultipartPartsCovered == SerialKeys /\ FreshKeys => (Spec => []PartsCovered)
<1> SUFFICES ASSUME SerialKeys, FreshKeys PROVE Spec => []PartsCovered
  OBVIOUS
<1>1. Init => CovInv
  BY CovInvInit
<1>2. CovInv /\ [Next]_vars => CovInv'
  BY CovInvKept
<1>3. CovInv => PartsCovered
  <2> SUFFICES ASSUME CovInv PROVE PartsCovered
    OBVIOUS
  <2> QED
    BY StoreBorne DEF PartsCovered, StoredParts, Stock, StockOf
<1> QED
  BY <1>1, <1>2, <1>3, PTL DEF Spec

----------------------------------------------------------------------------
(* What a step makes of the rows of quota.rs, and so that no counter goes  *)
(* negative and, while nothing is lost, no row over its limit.             *)

\* What a statement of a request may make of a bucket's row, and of an owner's, when the
\* amounts it settles are in S and so is what it credits, negated.
BucketChange(S, c, d) ==
  \/ d = c
  \/ \E n \in Nat : HasRoom(c, n) /\ d = Hold(c, n)
  \/ \E n \in Nat : d = Unhold(c, n)
  \/ \E n \in Nat, k \in {0, 1} : d = CommitColumns(c, n, k)
  \/ \E n \in S, k \in {0, 1} : d = SettleColumns(c, n, k)
  \/ \E n \in S : d = CreditColumns(c, -n)

AccountChange(S, c, d) ==
  \/ d = c
  \/ \E n \in Nat : HasRoom(c, n) /\ d = Hold(c, n)
  \/ \E n \in Nat : d = Unhold(c, n)
  \/ \E n \in Nat : d = Spend(c, n)
  \/ \E n \in S : d = Adjust(c, n)

RowsChange(S) ==
  /\ \A b \in Buckets : BucketChange(S, bucket[b], bucket'[b])
  /\ \A u \in Users : AccountChange(S, account[u], account'[u])

\* What a request is about to settle or to credit is such an amount.
Settles(S, r) ==
  /\ call[r].at \in Settling => call[r].bytes \in S
  /\ call[r].at \in {"credit_bucket", "credit_user"} => -call[r].bytes \in S

\* The statements of one request are on one bucket's row, or on its owner's.
LEMMA OneRow ==
  ASSUME FInv, NEW S, NEW a \in Buckets, NEW c,
         \/ /\ bucket' = [bucket EXCEPT ![a] = c] /\ UNCHANGED account
            /\ BucketChange(S, bucket[a], c)
         \/ /\ account' = [account EXCEPT ![Owner[a]] = c] /\ UNCHANGED bucket
            /\ AccountChange(S, account[Owner[a]], c)
         \/ UNCHANGED <<bucket, account>>
  PROVE  RowsChange(S)
<1>1. /\ bucket \in [Buckets -> BucketColumns] /\ account \in [Users -> AccountColumns]
      /\ Owner[a] \in Users
  BY OwnerAssumption DEF FInv, TypeOK, QuotaTypeOK
<1>2. \A d : BucketChange(S, d, d) /\ AccountChange(S, d, d)
  BY DEF BucketChange, AccountChange
<1>3. CASE /\ bucket' = [bucket EXCEPT ![a] = c] /\ UNCHANGED account
           /\ BucketChange(S, bucket[a], c)
  <2>1. ASSUME NEW b \in Buckets PROVE BucketChange(S, bucket[b], bucket'[b])
    <3>1. bucket'[b] = IF b = a THEN c ELSE bucket[b]
      BY <1>1, <1>3
    <3> QED
      BY <1>2, <1>3, <3>1
  <2> QED
    BY <1>2, <1>3, <2>1 DEF RowsChange
<1>4. CASE /\ account' = [account EXCEPT ![Owner[a]] = c] /\ UNCHANGED bucket
           /\ AccountChange(S, account[Owner[a]], c)
  <2>1. ASSUME NEW u \in Users PROVE AccountChange(S, account[u], account'[u])
    <3>1. account'[u] = IF u = Owner[a] THEN c ELSE account[u]
      BY <1>1, <1>4
    <3> QED
      BY <1>2, <1>4, <3>1
  <2> QED
    BY <1>2, <1>4, <2>1 DEF RowsChange
<1>5. CASE UNCHANGED <<bucket, account>>
  BY <1>2, <1>5 DEF RowsChange
<1> QED
  BY <1>3, <1>4, <1>5

\* The steps that change no row of quota.rs.
LEMMA QuietRows ==
  ASSUME NEW r \in Requests,
         \/ Start(r) \/ CopyBegin(r) \/ RefuseWrite(r) \/ SendWrite(r) \/ AnswerWrite(r)
         \/ UpdateRow(r) \/ RereadRow(r) \/ InsertRow(r) \/ WriteRowFails(r)
         \/ FindRow(r) \/ RemoveRow(r) \/ Credited(r) \/ Crash(r)
         \/ StartUpload(r) \/ InsertUpload(r) \/ ReadSource(r) \/ AddReserved(r) \/ DropUpload(r)
         \/ SendPart(r) \/ AskStore(r) \/ CallCredit(r) \/ SettleDifference(r)
  PROVE  UNCHANGED <<bucket, account>>
<1>1. CASE Start(r) \/ CopyBegin(r) \/ RefuseWrite(r) \/ SendWrite(r) \/ AnswerWrite(r)
  BY <1>1 DEF Start, StartPut, StartCopy, StartDelete, StartBatch, CopyBegin, RefuseWrite,
              SendWrite, AnswerWrite, Drop, qvars
<1>2. CASE UpdateRow(r) \/ RereadRow(r) \/ InsertRow(r) \/ WriteRowFails(r) \/ FindRow(r)
           \/ RemoveRow(r) \/ Credited(r) \/ Crash(r) \/ CallCredit(r)
  BY <1>2 DEF UpdateRow, RereadRow, InsertRow, WriteRowFails, FindRow, RemoveRow, Credited,
              Crash, CallCredit, Credit, Drop, qvars
<1>3. CASE StartUpload(r) \/ InsertUpload(r) \/ ReadSource(r) \/ AddReserved(r) \/ DropUpload(r)
  BY <1>3 DEF StartUpload, StartCreate, StartPart, StartPartCopy, StartAbort, StartComplete,
              InsertUpload, ReadSource, AddReserved, DropUpload, Drop, qvars
<1>4. CASE SendPart(r) \/ AskStore(r) \/ SettleDifference(r)
  BY <1>4 DEF SendPart, AskStore, ForgetParts, Assemble, HeadObject, SettleDifference, Settle, qvars
<1> QED
  BY <1>1, <1>2, <1>3, <1>4

\* The statements that begin a procedure.
LEMMA BeginningRows ==
  ASSUME FInv, NEW r \in Requests, NEW S,
         CallReserve(r) \/ GiveBack(r) \/ Account(r) \/ LetGo(r) \/ CommitParts(r)
  PROVE  RowsChange(S)
<1> USE DEF At
<1> DEFINE a == BucketOf(req[r].obj)
<1>0. /\ Placed(req[r], call[r], mp[r]) /\ req[r].delta \in Int /\ mp[r].held \in Nat
      /\ req[r].new \in {0, 1} /\ req[r].obj \in Object
  <2>1. req[r].obj \in Object
    BY ItsObjects DEF CallReserve, GiveBack, Account, LetGo, CommitParts, Resting
  <2> QED
    BY <2>1, Here
<1>1. a \in Buckets /\ a \in live
  BY <1>0, RowsOf
<1>2. \/ \E n \in Nat, k \in {0, 1} : Reserve(r, a, n) \/ Release(r, a, n) \/ Commit(r, a, n, k)
      \/ UNCHANGED <<bucket, account>>
  <2>1. CASE CallReserve(r)
    <3>1. Reserve(r, a, req[r].delta) /\ req[r].delta >= 0
      BY <1>0, <1>1, <2>1 DEF CallReserve, Placed, SubjectOf
    <3> QED
      BY <1>0, <3>1
  <2>2. CASE GiveBack(r)
    <3>1. Release(r, a, req[r].delta) /\ req[r].delta > 0
      BY <1>0, <1>1, <2>2 DEF GiveBack, Placed, SubjectOf
    <3> QED
      BY <1>0, <3>1
  <2>3. CASE Account(r)
    <3>1. CASE req[r].delta > 0
      <4>1. Commit(r, a, req[r].delta, req[r].new)
        BY <2>3, <3>1 DEF Account
      <4> QED
        BY <1>0, <3>1, <4>1
    <3>2. CASE ~(req[r].delta > 0)
      BY <2>3, <3>2 DEF Account, Settle
    <3> QED
      BY <3>1, <3>2
  <2>4. CASE LetGo(r) \/ CommitParts(r)
    BY <1>0, <1>1, <2>4 DEF LetGo, CommitParts
  <2> QED
    BY <2>1, <2>2, <2>3, <2>4
<1>3. ASSUME NEW n \in Nat, NEW k \in {0, 1},
             Reserve(r, a, n) \/ Release(r, a, n) \/ Commit(r, a, n, k)
      PROVE  RowsChange(S)
  <2>1. CASE Reserve(r, a, n)
    <3>1. CASE HasRoom(bucket[a], n)
      <4>1. /\ bucket' = [bucket EXCEPT ![a] = Hold(bucket[a], n)] /\ UNCHANGED account
            /\ BucketChange(S, bucket[a], Hold(bucket[a], n))
        BY <1>1, <2>1, <3>1 DEF Reserve, UpdateBucket, BucketChange
      <4> QED
        BY <1>1, <4>1, OneRow
    <3>2. CASE ~HasRoom(bucket[a], n)
      <4>1. UNCHANGED <<bucket, account>>
        BY <2>1, <3>2 DEF Reserve
      <4> QED
        BY <1>1, <4>1, OneRow
    <3> QED
      BY <3>1, <3>2
  <2>2. CASE Release(r, a, n)
    <3>1. /\ bucket' = [bucket EXCEPT ![a] = Unhold(bucket[a], n)] /\ UNCHANGED account
          /\ BucketChange(S, bucket[a], Unhold(bucket[a], n))
      BY <1>1, <2>2 DEF Release, UpdateBucket, BucketChange
    <3> QED
      BY <1>1, <3>1, OneRow
  <2>3. CASE Commit(r, a, n, k)
    <3>1. /\ bucket' = [bucket EXCEPT ![a] = CommitColumns(bucket[a], n, k)] /\ UNCHANGED account
          /\ BucketChange(S, bucket[a], CommitColumns(bucket[a], n, k))
      BY <1>1, <2>3 DEF Commit, UpdateBucket, BucketChange
    <3> QED
      BY <1>1, <3>1, OneRow
  <2> QED
    BY <1>3, <2>1, <2>2, <2>3
<1>4. CASE UNCHANGED <<bucket, account>>
  BY <1>1, <1>4, OneRow
<1> QED
  BY <1>2, <1>3, <1>4

\* The statements a procedure goes on with.
LEMMA ContinueRows ==
  ASSUME FInv, NEW r \in Requests, NEW S \in SUBSET Int, Settles(S, r), Continue(r)
  PROVE  RowsChange(S)
<1> USE DEF AtStatement
<1> DEFINE h == req[r]
           c == call[r]
           m == mp[r]
           a == BucketOf(h.obj)
           u == Owner[a]
<1>0. /\ Placed(h, c, m) /\ c \in Call /\ h.delta \in Int /\ m.held \in Nat
  BY Here
<1>1. h.pc \in Waiting
  <2>1. c.at \notin Ended
    BY DEF Continue, ReserveUser, Unreserve, ReleaseUser, CommitUser, SettleBucket, SettleUser,
           CreditBucket, CreditUser, Ended
  <2> QED
    BY <1>0, <2>1 DEF Placed, CallAt
<1>2. h.obj \in Object
  BY <1>1, ItsObjects DEF Waiting, Resting
<1>3. /\ a \in Buckets /\ a \in live /\ c.bucket = a /\ c.bytes \in Int /\ c.objects \in {0, 1}
  BY <1>0, <1>1, <1>2, RowsOf DEF Placed, CallAt, Call
<1>4. c.at \in {"reserve_user", "unreserve", "release_user", "commit_user"} => c.bytes \in Nat
  BY <1>0, <1>1, <1>3 DEF Placed, CallAt, Waiting
<1>5. CASE ReserveUser(r)
  <2>1. CASE HasRoom(account[u], c.bytes)
    <3>1. /\ account' = [account EXCEPT ![u] = Hold(account[u], c.bytes)] /\ UNCHANGED bucket
          /\ AccountChange(S, account[u], Hold(account[u], c.bytes))
      BY <1>3, <1>4, <1>5, <2>1 DEF ReserveUser, UpdateOwner, AccountChange
    <3> QED
      BY <1>3, <3>1, OneRow
  <2>2. CASE ~HasRoom(account[u], c.bytes)
    <3>1. UNCHANGED <<bucket, account>>
      BY <1>3, <1>5, <2>2 DEF ReserveUser
    <3> QED
      BY <1>3, <3>1, OneRow
  <2> QED
    BY <2>1, <2>2
<1>6. CASE Unreserve(r)
  <2>1. /\ bucket' = [bucket EXCEPT ![a] = Unhold(bucket[a], c.bytes)] /\ UNCHANGED account
        /\ BucketChange(S, bucket[a], Unhold(bucket[a], c.bytes))
    BY <1>3, <1>4, <1>6 DEF Unreserve, UpdateBucket, BucketChange
  <2> QED
    BY <1>3, <2>1, OneRow
<1>7. CASE ReleaseUser(r)
  <2>1. /\ account' = [account EXCEPT ![u] = Unhold(account[u], c.bytes)] /\ UNCHANGED bucket
        /\ AccountChange(S, account[u], Unhold(account[u], c.bytes))
    BY <1>3, <1>4, <1>7 DEF ReleaseUser, UpdateOwner, AccountChange
  <2> QED
    BY <1>3, <2>1, OneRow
<1>8. CASE CommitUser(r)
  <2>1. /\ account' = [account EXCEPT ![u] = Spend(account[u], c.bytes)] /\ UNCHANGED bucket
        /\ AccountChange(S, account[u], Spend(account[u], c.bytes))
    BY <1>3, <1>4, <1>8 DEF CommitUser, UpdateOwner, AccountChange
  <2> QED
    BY <1>3, <2>1, OneRow
<1>9. CASE SettleBucket(r)
  <2>1. /\ bucket' = [bucket EXCEPT ![a] = SettleColumns(bucket[a], c.bytes, c.objects)]
        /\ UNCHANGED account
        /\ BucketChange(S, bucket[a], SettleColumns(bucket[a], c.bytes, c.objects))
    BY <1>3, <1>9 DEF SettleBucket, UpdateBucket, BucketChange, Settles, Settling
  <2> QED
    BY <1>3, <2>1, OneRow
<1>10. CASE CreditBucket(r)
  <2>1. -c.bytes \in S /\ c.bytes = -(-c.bytes)
    BY <1>3, <1>10 DEF CreditBucket, Settles
  <2>2. BucketChange(S, bucket[a], CreditColumns(bucket[a], c.bytes))
    BY <2>1 DEF BucketChange
  <2>3. bucket' = [bucket EXCEPT ![a] = CreditColumns(bucket[a], c.bytes)] /\ UNCHANGED account
    BY <1>3, <1>10 DEF CreditBucket, UpdateBucket
  <2> QED
    BY <1>3, <2>2, <2>3, OneRow
<1>11. CASE SettleUser(r) \/ CreditUser(r)
  <2>1. PICK n \in S : account' = [account EXCEPT ![u] = Adjust(account[u], n)] /\ UNCHANGED bucket
    BY <1>3, <1>11 DEF SettleUser, CreditUser, UpdateOwner, Settles, Settling
  <2>2. AccountChange(S, account[u], Adjust(account[u], n))
    BY DEF AccountChange
  <2> QED
    BY <1>3, <2>1, <2>2, OneRow
<1> QED
  BY <1>5, <1>6, <1>7, <1>8, <1>9, <1>10, <1>11 DEF Continue

\* Every step, faults included, changes rows by a statement of quota.rs.
LEMMA RowsStep ==
  ASSUME FInv, NEW r \in Requests, NEW S \in SUBSET Int, Settles(S, r), Step(r)
  PROVE  RowsChange(S)
<1>1. CASE UNCHANGED <<bucket, account>>
  BY <1>1 DEF RowsChange, BucketChange, AccountChange
<1>2. CASE CallReserve(r) \/ GiveBack(r) \/ Account(r) \/ LetGo(r) \/ CommitParts(r)
  BY <1>2, BeginningRows
<1>3. CASE Continue(r)
  BY <1>3, ContinueRows
<1>4. CASE \/ Start(r) \/ CopyBegin(r) \/ RefuseWrite(r) \/ SendWrite(r) \/ AnswerWrite(r)
           \/ UpdateRow(r) \/ RereadRow(r) \/ InsertRow(r) \/ WriteRowFails(r)
           \/ FindRow(r) \/ RemoveRow(r) \/ Credited(r) \/ Crash(r)
           \/ StartUpload(r) \/ InsertUpload(r) \/ ReadSource(r) \/ AddReserved(r)
           \/ DropUpload(r) \/ SendPart(r) \/ AskStore(r) \/ CallCredit(r) \/ SettleDifference(r)
  BY <1>1, <1>4, QuietRows
<1> QED
  BY <1>2, <1>3, <1>4 DEF Step, ObjectStep, UploadStep, Proceed, ProceedUpload

----------------------------------------------------------------------------
(* Uploads call quota.rs as anybody may.                                   *)

\* The open protocol, with every amount: a complete's settle may grow.
EveryAmount == CountCap < 0 /\ Bytes = Nat /\ Deltas = Int

\* The steps in which no procedure begins or goes on.
LEMMA NoProcedure ==
  ASSUME FInv, NEW r \in Requests,
         \/ Start(r) \/ CopyBegin(r) \/ RefuseWrite(r) \/ SendWrite(r) \/ AnswerWrite(r)
         \/ UpdateRow(r) \/ RereadRow(r) \/ InsertRow(r) \/ WriteRowFails(r)
         \/ FindRow(r) \/ RemoveRow(r) \/ Credited(r) \/ Crash(r)
         \/ StartUpload(r) \/ InsertUpload(r) \/ ReadSource(r) \/ AddReserved(r) \/ DropUpload(r)
         \/ SendPart(r) \/ AskStore(r)
  PROVE  UNCHANGED qvars \/ Drop(r)
<1>1. CASE Start(r) \/ CopyBegin(r) \/ RefuseWrite(r) \/ SendWrite(r) \/ AnswerWrite(r)
  BY <1>1 DEF Start, StartPut, StartCopy, StartDelete, StartBatch, CopyBegin, RefuseWrite,
              SendWrite, AnswerWrite
<1>2. CASE UpdateRow(r) \/ RereadRow(r) \/ InsertRow(r) \/ WriteRowFails(r) \/ FindRow(r)
           \/ RemoveRow(r) \/ Credited(r)
  BY <1>2 DEF UpdateRow, RereadRow, InsertRow, WriteRowFails, FindRow, RemoveRow, Credited
<1>3. CASE Crash(r)
  <2>1. call' = [call EXCEPT ![r] = NoCall] /\ UNCHANGED <<live, bucket, account>>
    BY <1>3 DEF Crash
  <2>2. call[r] = NoCall => call' = call
    BY <2>1, Here DEF QuotaTypeOK
  <2> QED
    BY <2>1, <2>2 DEF Drop, qvars
<1>4. CASE StartUpload(r) \/ InsertUpload(r) \/ ReadSource(r) \/ AddReserved(r) \/ DropUpload(r)
  BY <1>4 DEF StartUpload, StartCreate, StartPart, StartPartCopy, StartAbort, StartComplete,
              InsertUpload, ReadSource, AddReserved, DropUpload
<1>5. CASE SendPart(r) \/ AskStore(r)
  BY <1>5 DEF SendPart, AskStore, ForgetParts, Assemble, HeadObject
<1> QED
  BY <1>1, <1>2, <1>3, <1>4, <1>5

\* The steps in which one begins: its bucket is one of ours, and its amount a number.
LEMMA ProcedureBegins ==
  ASSUME EveryAmount, FInv, NEW r \in Requests,
         \/ CallReserve(r) \/ GiveBack(r) \/ Account(r) \/ CallCredit(r)
         \/ LetGo(r) \/ CommitParts(r) \/ SettleDifference(r)
  PROVE  CallQuota(r) \/ UNCHANGED qvars
<1> USE DEF At
<1> DEFINE b == BucketOf(req[r].obj)
<1>1. /\ Placed(req[r], call[r], mp[r]) /\ req[r].delta \in Int /\ mp[r].held \in Nat
      /\ req[r].new \in {0, 1} /\ req[r].size \in Nat /\ req[r].obj \in Object
  <2>1. req[r].obj \in Object
    BY ItsObjects DEF CallReserve, GiveBack, Account, CallCredit, LetGo, CommitParts,
                      SettleDifference, Resting
  <2> QED
    BY <2>1, Here
<1>2. b \in Buckets /\ b \in live /\ Countable(b)
  BY <1>1, RowsOf DEF EveryAmount, Countable
<1>3. ASSUME NEW n \in Nat, NEW d \in {0, 1},
             Reserve(r, b, n) \/ Release(r, b, n) \/ Credit(r, b, n) \/ Commit(r, b, n, d)
      PROVE  CallQuota(r)
  BY <1>2, <1>3 DEF CallQuota, EveryAmount
<1>4. ASSUME NEW n \in Int, NEW d \in {0, 1}, Settle(r, b, n, d) PROVE CallQuota(r)
  BY <1>2, <1>4 DEF CallQuota, EveryAmount
<1>5. CASE CallReserve(r) \/ GiveBack(r)
  <2>1. req[r].delta \in Nat
    BY <1>1, <1>5 DEF CallReserve, GiveBack, Placed, SubjectOf
  <2>2. Reserve(r, b, req[r].delta) \/ Release(r, b, req[r].delta)
    BY <1>5 DEF CallReserve, GiveBack
  <2> QED
    BY <1>3, <2>1, <2>2
<1>6. CASE Account(r)
  <2>1. CASE req[r].delta > 0
    <3>1. Commit(r, b, req[r].delta, req[r].new) /\ req[r].delta \in Nat
      BY <1>1, <1>6, <2>1 DEF Account
    <3> QED
      BY <1>1, <1>3, <3>1
  <2>2. CASE ~(req[r].delta > 0)
    <3>1. Settle(r, b, req[r].delta, req[r].new)
      BY <1>6, <2>2 DEF Account
    <3> QED
      BY <1>1, <1>4, <3>1
  <2> QED
    BY <2>1, <2>2
<1>7. CASE CallCredit(r)
  <2>1. Credit(r, b, req[r].size)
    BY <1>7 DEF CallCredit
  <2> QED
    BY <1>1, <1>3, <2>1
<1>8. CASE LetGo(r) \/ CommitParts(r)
  <2>1. Release(r, b, mp[r].held) \/ Commit(r, b, mp[r].held, 1)
    BY <1>2, <1>8 DEF LetGo, CommitParts
  <2> QED
    BY <1>1, <1>3, <2>1
<1>9. CASE SettleDifference(r)
  <2>1. Settle(r, b, req[r].size - mp[r].held, 0) /\ req[r].size - mp[r].held \in Int
    BY <1>1, <1>9 DEF SettleDifference
  <2> QED
    BY <1>4, <2>1
<1> QED
  BY <1>5, <1>6, <1>7, <1>8, <1>9

\* Uploads, parts, their ends and the object verbs beside them implement the open protocol of
\* quota.rs without reconciles, faults included: the procedures cannot tell a hold that is a
\* request's from one that is an upload's, and need not.  As a complete settles what it
\* likes, this alone bounds no row: see MultipartWithinQuota.
THEOREM MultipartImplementsAdmission == EveryAmount => (Spec => AdmissionSpec)
<1> SUFFICES ASSUME EveryAmount PROVE Spec => AdmissionSpec
  OBVIOUS
<1>1. Init => FInv /\ QuotaInit
  BY FInvInit DEF Init, ObjectsInit
<1>2. FInv /\ [Next]_vars => FInv' /\ [RequestNext]_qvars
  <2> SUFFICES ASSUME FInv, [Next]_vars PROVE FInv' /\ [RequestNext]_qvars
    OBVIOUS
  <2>1. FInv'
    BY FInvKept
  <2>2. ASSUME NEW r \in Requests, Step(r) PROVE [RequestNext]_qvars
    <3>1. CallQuota(r) \/ Continue(r) \/ Drop(r) \/ UNCHANGED qvars
      <4>1. CASE \/ CallReserve(r) \/ GiveBack(r) \/ Account(r) \/ CallCredit(r)
                 \/ LetGo(r) \/ CommitParts(r) \/ SettleDifference(r)
        BY <4>1, ProcedureBegins
      <4>2. CASE \/ Start(r) \/ CopyBegin(r) \/ RefuseWrite(r) \/ SendWrite(r) \/ AnswerWrite(r)
                 \/ UpdateRow(r) \/ RereadRow(r) \/ InsertRow(r) \/ WriteRowFails(r)
                 \/ FindRow(r) \/ RemoveRow(r) \/ Credited(r) \/ Crash(r)
                 \/ StartUpload(r) \/ InsertUpload(r) \/ ReadSource(r) \/ AddReserved(r)
                 \/ DropUpload(r) \/ SendPart(r) \/ AskStore(r)
        BY <4>2, NoProcedure
      <4> QED
        BY <2>2, <4>1, <4>2 DEF Step, ObjectStep, UploadStep, Proceed, ProceedUpload
    <3> QED
      BY <3>1 DEF RequestNext
  <2>3. CASE UNCHANGED vars
    BY <2>1, <2>3 DEF vars, gatewayVars
  <2>4. CASE Next
    <3>1. PICK r \in Requests : Step(r)
      BY <2>4, NextIsStep
    <3> QED
      BY <2>1, <2>2, <3>1
  <2> QED
    BY <2>3, <2>4
<1> QED
  BY <1>1, <1>2, PTL DEF Spec, AdmissionSpec

----------------------------------------------------------------------------
(* No counter goes negative.                                               *)

\* No such change takes a row below zero, whatever is settled.
LEMMA ChangeNonNegative ==
  /\ \A c \in BucketColumns : \A d :
       NonNegativeRow(c) /\ BucketChange(Int, c, d) => NonNegativeRow(d)
  /\ \A c \in AccountColumns : \A d :
       NonNegativeColumns(c) /\ AccountChange(Int, c, d) => NonNegativeColumns(d)
<1>1. ASSUME NEW c \in BucketColumns, NEW d, NonNegativeRow(c), BucketChange(Int, c, d)
      PROVE  NonNegativeRow(d)
  <2>1. ASSUME NEW n \in Nat, NEW k \in {0, 1}
        PROVE  /\ NonNegativeRow(Hold(c, n)) /\ NonNegativeRow(Unhold(c, n))
               /\ NonNegativeRow(CommitColumns(c, n, k))
    BY <1>1, BucketNonNegative
  <2>2. ASSUME NEW n \in Int, NEW k \in {0, 1} PROVE NonNegativeRow(SettleColumns(c, n, k))
    BY <1>1, BucketNonNegative
  <2>3. ASSUME NEW n \in Int PROVE NonNegativeRow(CreditColumns(c, -n))
    BY <1>1 DEF CreditColumns, NonNegativeRow, NonNegativeColumns, BucketColumns
  <2> QED
    BY <1>1, <2>1, <2>2, <2>3 DEF BucketChange
<1>2. ASSUME NEW c \in AccountColumns, NEW d, NonNegativeColumns(c), AccountChange(Int, c, d)
      PROVE  NonNegativeColumns(d)
  <2>1. ASSUME NEW n \in Nat
        PROVE  /\ NonNegativeColumns(Hold(c, n)) /\ NonNegativeColumns(Unhold(c, n))
               /\ NonNegativeColumns(Spend(c, n))
    BY <1>2, AccountNonNegative
  <2>2. ASSUME NEW n \in Int PROVE NonNegativeColumns(Adjust(c, n))
    BY <1>2, AccountNonNegative
  <2> QED
    BY <1>2, <2>1, <2>2 DEF AccountChange
<1> QED
  BY <1>1, <1>2

\* So the invariant of the types carries the signs of the counters.
LEMMA NonNegativeKept ==
  ASSUME FInv, NonNegative, [Next]_vars
  PROVE  NonNegative'
<1>1. ASSUME NEW r \in Requests, Step(r)
      PROVE  NonNegative'
  <2>1. Settles(Int, r)
    BY Here DEF Settles, Call
  <2>2. RowsChange(Int)
    BY <1>1, <2>1, RowsStep
  <2>3. /\ \A b \in Buckets : bucket[b] \in BucketColumns /\ NonNegativeRow(bucket[b])
        /\ \A u \in Users : account[u] \in AccountColumns /\ NonNegativeColumns(account[u])
    BY DEF FInv, TypeOK, QuotaTypeOK, NonNegative, NonNegativeRow, NonNegativeColumns
  <2>4. /\ \A b \in Buckets : NonNegativeRow(bucket'[b])
        /\ \A u \in Users : NonNegativeColumns(account'[u])
    BY <2>2, <2>3, ChangeNonNegative DEF RowsChange
  <2> QED
    BY <2>4 DEF NonNegative, NonNegativeRow, NonNegativeColumns
<1>2. CASE UNCHANGED vars
  BY <1>2 DEF vars, gatewayVars, qvars, NonNegative
<1> QED
  BY <1>1, <1>2, NextIsStep

\* With uploads beside the object verbs no counter of any row goes negative either, whatever
\* is lost, however many requests end an upload at once and whatever a complete settles:
\* the CHECK constraints of the migrations are never needed.
THEOREM MultipartNonNegative == Spec => []NonNegative
<1>1. Init => FInv /\ NonNegative
  BY FInvInit DEF Init, ObjectsInit, QuotaInit, NonNegative
<1>2. FInv /\ NonNegative /\ [Next]_vars => FInv' /\ NonNegative'
  BY FInvKept, NonNegativeKept
<1> QED
  BY <1>1, <1>2, PTL DEF Spec

----------------------------------------------------------------------------
(* No row goes over its limit.                                             *)

\* A settle or a credit that takes nothing more.
Shrinkage == {n \in Int : n <= 0}

\* While nothing is lost a write settles less than it had, and a complete no more than its
\* parts reserved: it was assembled from them.
LEMMA SettlesLess ==
  ASSUME FInv, Calm, AllCalledFor, NEW r \in Requests
  PROVE  Settles(Shrinkage, r)
<1> DEFINE h == req[r]
           c == call[r]
           m == mp[r]
<1>1. /\ Placed(h, c, m) /\ c \in Call /\ h \in AnyHandler
      /\ h.size \in Nat /\ h.delta \in Int /\ m.held \in Nat
  BY Here
<1>2. CompleteKnows(r) /\ CalledFor(h, c, m)
  BY DEF Calm, Aware, Knows, AllCalledFor
<1>3. c.at \in Settling => h.pc = "commit" \/ (h.pc = "drop" /\ h.op # "abort")
  BY <1>1 DEF Placed, CallAt, Waiting, Ended, Settling
<1>4. ASSUME c.at \in Settling PROVE c.bytes \in Shrinkage
  <2>1. CASE h.pc = "commit"
    <3>1. c.bytes = h.delta /\ ~(h.delta > 0)
      BY <1>1, <1>2, <1>4, <2>1 DEF Placed, CallAt, CalledFor, Settling
    <3> QED
      BY <1>1, <3>1 DEF Shrinkage
  <2>2. CASE h.pc = "drop" /\ h.op # "abort"
    <3>1. h.op = "complete" /\ Active(r)
      BY <1>1, <2>2 DEF Placed, OpAt, Enders, Active, Resting
    <3>2. h.size <= m.held
      BY <1>2, <2>2, <3>1 DEF CompleteKnows, Completing
    <3>3. c.bytes = h.size - m.held
      BY <1>2, <1>4, <2>2 DEF CalledFor, Settling
    <3> QED
      BY <1>1, <3>2, <3>3 DEF Shrinkage
  <2> QED
    BY <1>3, <1>4, <2>1, <2>2
<1>5. ASSUME c.at \in {"credit_bucket", "credit_user"} PROVE -c.bytes \in Shrinkage
  <2>1. h.pc = "credited"
    BY <1>1, <1>5 DEF Placed, CallAt, Waiting, Ended
  <2>2. c.bytes = h.size
    BY <1>2, <1>5, <2>1 DEF CalledFor
  <2> QED
    BY <1>1, <2>2 DEF Shrinkage
<1> QED
  BY <1>4, <1>5 DEF Settles

\* No such change takes a row over its limit.
LEMMA ChangeWithin ==
  /\ \A c \in BucketColumns : \A d : Within(c) /\ BucketChange(Shrinkage, c, d) => Within(d)
  /\ \A c \in AccountColumns : \A d : Within(c) /\ AccountChange(Shrinkage, c, d) => Within(d)
<1> USE DEF Within, Load
<1>1. ASSUME NEW c \in BucketColumns, NEW d, Within(c), BucketChange(Shrinkage, c, d)
      PROVE  Within(d)
  <2> USE DEF BucketColumns
  <2>1. ASSUME NEW n \in Nat
        PROVE  /\ HasRoom(c, n) => Within(Hold(c, n))
               /\ Within(Unhold(c, n))
    BY <1>1 DEF HasRoom, Hold, Unhold
  <2>2. ASSUME NEW n \in Nat, NEW k \in {0, 1} PROVE Within(CommitColumns(c, n, k))
    BY <1>1 DEF CommitColumns
  <2>3. ASSUME NEW n \in Shrinkage, NEW k \in {0, 1} PROVE Within(SettleColumns(c, n, k))
    BY <1>1 DEF SettleColumns, Shrinkage
  <2>4. ASSUME NEW n \in Shrinkage PROVE Within(CreditColumns(c, -n))
    BY <1>1 DEF CreditColumns, Shrinkage
  <2> QED
    BY <1>1, <2>1, <2>2, <2>3, <2>4 DEF BucketChange
<1>2. ASSUME NEW c \in AccountColumns, NEW d, Within(c), AccountChange(Shrinkage, c, d)
      PROVE  Within(d)
  <2> USE DEF AccountColumns
  <2>1. ASSUME NEW n \in Nat
        PROVE  /\ HasRoom(c, n) => Within(Hold(c, n))
               /\ Within(Unhold(c, n)) /\ Within(Spend(c, n))
    BY <1>2 DEF HasRoom, Hold, Unhold, Spend
  <2>2. ASSUME NEW n \in Shrinkage PROVE Within(Adjust(c, n))
    BY <1>2 DEF Adjust, Shrinkage
  <2> QED
    BY <1>2, <2>1, <2>2 DEF AccountChange
<1> QED
  BY <1>1, <1>2

\* At the start nothing is charged.
LEMMA QuotaKeptInit ==
  ASSUME Init
  PROVE  QuotaKept
<1>1. \A b \in Buckets : /\ bucket[b].max \in Nat /\ bucket[b].used = 0
                         /\ bucket[b].reserved = 0
  BY MaxAssumption DEF Init, ObjectsInit, QuotaInit
<1>2. \A u \in Users : /\ account[u].max \in Nat /\ account[u].used = 0
                       /\ account[u].reserved = 0
  BY MaxAssumption DEF Init, ObjectsInit, QuotaInit
<1> QED
  BY <1>1, <1>2 DEF QuotaKept, WithinQuota, Within, Load

\* And no step takes a row over its limit.
LEMMA QuotaKeptOn ==
  ASSUME CovInv, QuotaKept, [Next]_vars
  PROVE  QuotaKept'
<1>0. FInv
  BY DEF CovInv, HInv
<1>1. ASSUME NEW r \in Requests, Step(r), faults' = 0
      PROVE  WithinQuota'
  <2>1. faults = 0
    BY <1>0, <1>1, FaultsGrow
  <2>2. WithinQuota /\ Settles(Shrinkage, r)
    BY <1>0, <2>1, SettlesLess DEF CovInv, QuotaKept
  <2>3. RowsChange(Shrinkage)
    BY <1>0, <1>1, <2>2, RowsStep DEF Shrinkage
  <2>4. /\ \A b \in Buckets : bucket[b] \in BucketColumns
        /\ \A u \in Users : account[u] \in AccountColumns
    BY <1>0 DEF FInv, TypeOK, QuotaTypeOK
  <2>5. /\ \A b \in Buckets : Within(bucket'[b])
        /\ \A u \in Users : Within(account'[u])
    BY <2>2, <2>3, <2>4, ChangeWithin DEF RowsChange, WithinQuota
  <2> QED
    BY <2>5 DEF WithinQuota, Within, Load
<1>2. CASE Next
  BY <1>1, <1>2, NextIsStep DEF QuotaKept
<1>3. CASE UNCHANGED vars
  BY <1>3 DEF vars, gatewayVars, qvars, ovars, QuotaKept, WithinQuota, Within, Load
<1> QED
  BY <1>2, <1>3

\* While nothing is lost no bucket and no account is taken over its limit by uploads
\* either, though the settle of a complete is not checked against it.
THEOREM MultipartWithinQuota == SerialKeys /\ FreshKeys => (Spec => []QuotaKept)
<1> SUFFICES ASSUME SerialKeys, FreshKeys PROVE Spec => []QuotaKept
  OBVIOUS
<1>1. Init => CovInv /\ QuotaKept
  BY CovInvInit, QuotaKeptInit
<1>2. CovInv /\ QuotaKept /\ [Next]_vars => CovInv' /\ QuotaKept'
  BY CovInvKept, QuotaKeptOn
<1> QED
  BY <1>1, <1>2, PTL DEF Spec

\* What the store has, parts of open uploads included, stays within the quota.
StockWithinQuota ==
  faults = 0 =>
    /\ \A b \in Buckets : bucket[b].max = 0 \/ Stock(b) <= bucket[b].max
    /\ \A u \in Users : account[u].max = 0 \/ StockOf(u) <= account[u].max

\* So nothing is stored beyond a limit, of a bucket or of an account, however the parts of
\* uploads, their ends and the writes of objects interleave.
COROLLARY MultipartStoreWithinQuota ==
  SerialKeys /\ FreshKeys => (Spec => []StockWithinQuota)
<1> SUFFICES ASSUME SerialKeys, FreshKeys PROVE Spec => []StockWithinQuota
  OBVIOUS
<1>1. Init => CovInv /\ QuotaKept
  BY CovInvInit, QuotaKeptInit
<1>2. CovInv /\ QuotaKept /\ [Next]_vars => CovInv' /\ QuotaKept'
  BY CovInvKept, QuotaKeptOn
<1>3. CovInv /\ QuotaKept => StockWithinQuota
  <2> SUFFICES ASSUME CovInv, QuotaKept, faults = 0
               PROVE  /\ \A b \in Buckets : bucket[b].max = 0 \/ Stock(b) <= bucket[b].max
                      /\ \A u \in Users : account[u].max = 0 \/ StockOf(u) <= account[u].max
    BY DEF StockWithinQuota
  <2>1. /\ \A b \in Buckets : bucket[b].max \in Int /\ Load(bucket[b]) \in Int
        /\ \A u \in Users : account[u].max \in Int /\ Load(account[u]) \in Int
    BY DEF CovInv, HInv, FInv, TypeOK, QuotaTypeOK, BucketColumns, AccountColumns, Load
  <2>2. /\ \A b \in Buckets : bucket[b].max = 0 \/ Load(bucket[b]) <= bucket[b].max
        /\ \A u \in Users : account[u].max = 0 \/ Load(account[u]) <= account[u].max
    BY DEF QuotaKept, WithinQuota, Within
  <2>3. /\ \A b \in Buckets : Stock(b) \in Int /\ Stock(b) <= Load(bucket[b])
        /\ \A u \in Users : StockOf(u) \in Int /\ StockOf(u) <= Load(account[u])
    BY StoreBorne
  <2> QED
    BY <2>1, <2>2, <2>3
<1> QED
  BY <1>1, <1>2, <1>3, PTL DEF Spec
=============================================================================
