--------------------------- MODULE Console_proofs ---------------------------
(***************************************************************************)
(* Proofs about access keys and accounts under every interleaving of the   *)
(* console's calls and the S3 requests (module Gateway).                   *)
(***************************************************************************)
EXTENDS Gateway, FiniteSetTheorems, TLAPS

\* A call is a record of the seven fields Idle has.
Fields == {"op", "pc", "me", "on", "arg", "row", "seen"}

CallsShaped == DOMAIN call = Calls /\ \A c \in Calls : DOMAIN call[c] = Fields

\* The step is one of c's alone.
Alone(c) == CallsShaped' /\ \A d \in Calls : d # c => call'[d] = call[d]

KeyOps == {"create key", "revoke key", "patch key", "rotate key"}
AccountOps == {"setup", "create user", "set role", "issue password", "remove user",
               "change password"}
BucketOps == {"create pool", "configure pool", "remove pool", "create bucket", "set limit",
              "remove bucket"}

\* c ends the step as a call on a key, or over.
KeyOp(c) == call'[c].op \in KeyOps \cup {"none"}

----------------------------------------------------------------------------

\* A statement that leaves its call's row and what it saw.
LEMMA PutRow ==
  ASSUME CallsShaped, NEW c \in Calls, NEW pc, NEW row, NEW seen,
         call' = [call EXCEPT ![c].pc = pc, ![c].row = row, ![c].seen = seen]
  PROVE  Alone(c) /\ call'[c].op = call[c].op
BY DEF CallsShaped, Fields, Alone

\* So with less of it.
LEMMA PutSeen ==
  ASSUME CallsShaped, NEW c \in Calls, NEW pc, NEW seen,
         call' = [call EXCEPT ![c].pc = pc, ![c].seen = seen]
  PROVE  Alone(c) /\ call'[c].op = call[c].op
BY DEF CallsShaped, Fields, Alone

LEMMA PutLoaded ==
  ASSUME CallsShaped, NEW c \in Calls, NEW pc, NEW row,
         call' = [call EXCEPT ![c].pc = pc, ![c].row = row]
  PROVE  Alone(c) /\ call'[c].op = call[c].op
BY DEF CallsShaped, Fields, Alone

LEMMA AdvanceAlone ==
  ASSUME CallsShaped, NEW c \in Calls, NEW pc, Advance(c, pc)
  PROVE  Alone(c) /\ call'[c].op = call[c].op
BY DEF Advance, CallsShaped, Fields, Alone

\* A call that ends, and one that begins.
LEMMA EndAlone ==
  ASSUME CallsShaped, NEW c \in Calls, End(c)
  PROVE  Alone(c) /\ call'[c].op = "none"
BY DEF End, Ended, Idle, CallsShaped, Fields, Alone

LEMMA BeginAlone ==
  ASSUME CallsShaped, NEW c \in Calls, NEW admitted, NEW Ops, NEW op \in Ops, NEW pc, NEW me, NEW on, NEW arg,
         Begin(c, admitted, op, pc, me, on, arg)
  PROVE  Alone(c) /\ call'[c].op \in Ops \cup {"none"}
<1>1. CASE ~admitted
  BY <1>1 DEF Begin, Ended, Idle, CallsShaped, Fields, Alone
<1>2. CASE admitted
  <2> DEFINE new == [Idle EXCEPT !.op = op, !.pc = pc, !.me = me, !.on = on, !.arg = arg]
  <2>1. call' = [call EXCEPT ![c] = new]
    BY <1>2 DEF Begin
  <2>2. DOMAIN new = Fields /\ new.op = op
    BY DEF Idle, Fields
  <2> HIDE DEF new
  <2>3. QED
    BY <2>1, <2>2 DEF CallsShaped, Alone
<1>3. QED
  BY <1>1, <1>2

LEMMA LoadAlone ==
  ASSUME CallsShaped, NEW c \in Calls, NEW Ops, NEW op \in Ops, NEW pc, Load(c, op, pc)
  PROVE  Alone(c) /\ call'[c].op \in Ops \cup {"none"}
<1>1. CASE End(c)
  BY <1>1, EndAlone
<1>2. CASE ~End(c)
  <2> DEFINE row == user[call[c].on]
  <2>1. call[c].op = op /\ call' = [call EXCEPT ![c].pc = pc, ![c].row = row]
    BY <1>2 DEF Load, At
  <2> HIDE DEF row
  <2>2. QED
    BY <2>1, PutLoaded
<1>3. QED
  BY <1>1, <1>2

LEMMA CountAlone ==
  ASSUME CallsShaped, NEW c \in Calls, NEW Ops, NEW op \in Ops, NEW pc, CountAdmins(c, op, pc)
  PROVE  Alone(c) /\ call'[c].op \in Ops \cup {"none"}
BY EndAlone, PutSeen DEF CountAdmins, At

\* What an account step does to the calls: c's own record, and never to that
\* of a call on a key or a bucket.
LEMMA AccountCalls ==
  ASSUME CallsShaped, NEW c \in Calls, AccountStep(c)
  PROVE  Alone(c) /\ call'[c].op \notin KeyOps \cup BucketOps
<1>0. /\ "setup" \in AccountOps /\ "create user" \in AccountOps /\ "set role" \in AccountOps
      /\ "issue password" \in AccountOps /\ "remove user" \in AccountOps
      /\ "change password" \in AccountOps
  BY DEF AccountOps
<1> SUFFICES Alone(c) /\ call'[c].op \in AccountOps \cup {"none"}
  BY DEF AccountOps, KeyOps, BucketOps
<1>1. CASE \E u \in Users : SetupAsk(c, u)
  BY <1>0, <1>1, BeginAlone DEF SetupAsk
<1>2. CASE SetupFind(c)
  BY <1>0, <1>2, EndAlone, AdvanceAlone DEF SetupFind, At
<1>3. CASE SetupInsert(c) \/ CreateUserInsert(c)
  BY <1>0, <1>3, EndAlone DEF SetupInsert, CreateUserInsert
<1>4. CASE \E me, u \in Users, role \in Roles : CreateUser(c, me, u, role)
  BY <1>0, <1>4, BeginAlone DEF CreateUser
<1>5. CASE CreateUserFind(c)
  BY <1>0, <1>5, EndAlone, AdvanceAlone DEF CreateUserFind, At
<1>6. CASE \E me, u \in Users, role \in Roles : SetRole(c, me, u, role)
  BY <1>0, <1>6, BeginAlone DEF SetRole
<1>7. CASE SetRoleLoad(c)
  BY <1>0, <1>7, LoadAlone DEF SetRoleLoad
<1>8. CASE CountAdmins(c, "set role", "write") \/ CountAdmins(c, "remove user", "take")
  BY <1>0, <1>8, CountAlone
<1>9. CASE SetRoleWrite(c) \/ IssuePasswordWrite(c) \/ ChangePasswordWrite(c)
  BY <1>0, <1>9, EndAlone DEF SetRoleWrite, IssuePasswordWrite, ChangePasswordWrite, Update
<1>10. CASE \E me, u \in Users : IssuePassword(c, me, u) \/ RemoveUser(c, me, u)
  BY <1>0, <1>10, BeginAlone DEF IssuePassword, RemoveUser
<1>11. CASE Load(c, "issue password", "write")
  BY <1>0, <1>11, LoadAlone
<1>12. CASE RemoveUserLoad(c)
  <2>1. CASE End(c)
    BY <2>1, EndAlone
  <2>2. CASE ~End(c)
    <3> DEFINE row == user[call[c].on]
               pc == IF row.role = "admin" THEN "count" ELSE "take"
    <3>1. call[c].op = "remove user" /\ call' = [call EXCEPT ![c].row = row, ![c].pc = pc]
      BY <1>0, <1>12, <2>2 DEF RemoveUserLoad, At
    <3> HIDE DEF row, pc
    <3>2. Alone(c) /\ call'[c].op = call[c].op
      BY <3>1 DEF CallsShaped, Fields, Alone
    <3>3. QED
      BY <1>0, <3>1, <3>2
  <2>3. QED
    BY <2>1, <2>2
<1>13. CASE \E me \in Users : ChangePassword(c, me)
  BY <1>0, <1>13, BeginAlone DEF ChangePassword
<1>14. QED
  BY <1>1, <1>2, <1>3, <1>4, <1>5, <1>6, <1>7, <1>8, <1>9, <1>10, <1>11, <1>12, <1>13
     DEF AccountStep

LEMMA LoadBucketCalls ==
  ASSUME CallsShaped, NEW c \in Calls, NEW op, NEW pc, op \in BucketOps, LoadBucket(c, op, pc)
  PROVE  Alone(c) /\ call'[c].op \in BucketOps \cup {"none"}
<1>1. CASE End(c)
  BY <1>1, EndAlone
<1>2. CASE ~End(c)
  <2> DEFINE row == bucket[call[c].on]
             seen == RowsOf({call[c].on}) \cap settled
  <2>1. call[c].op = op /\ call' = [call EXCEPT ![c].pc = pc, ![c].row = row, ![c].seen = seen]
    BY <1>2 DEF LoadBucket, At
  <2> HIDE DEF row, seen
  <2>2. QED
    BY <2>1, PutRow
<1>3. QED
  BY <1>1, <1>2

LEMMA TakeBucketsCalls ==
  ASSUME CallsShaped, NEW c \in Calls, TakeBuckets(c)
  PROVE  /\ Alone(c)
         /\ call[c].op = "remove user" /\ call[c].pc = "take"
         /\ call'[c].op = "remove user" /\ call'[c].row = call[c].row /\ call'[c].seen = call[c].seen
<1> DEFINE arg == [taken |-> Owned(call[c].on), there |-> Owned(call[c].on)]
<1>1. /\ call[c].op = "remove user" /\ call[c].pc = "take"
      /\ call' = [call EXCEPT ![c].pc = "drop", ![c].arg = arg]
  BY DEF TakeBuckets, At
<1> HIDE DEF arg
<1>2. QED
  BY <1>1 DEF CallsShaped, Fields, Alone

LEMMA CountForPoolCalls ==
  ASSUME CallsShaped, NEW c \in Calls, CountForPool(c)
  PROVE  Alone(c) /\ (call'[c].op = "remove pool" \/ call'[c].op = "none")
<1>1. CASE End(c)
  BY <1>1, EndAlone
<1>2. CASE ~End(c)
  <2>1. /\ call[c].op = "remove pool"
        /\ call' = [call EXCEPT ![c].pc = "drop", ![c].seen = {}]
    BY <1>2 DEF CountForPool, At
  <2>2. QED
    BY <2>1 DEF CallsShaped, Fields, Alone
<1>3. QED
  BY <1>1, <1>2

LEMMA FindPoolCalls ==
  ASSUME CallsShaped, NEW c \in Calls, NEW from, NEW to, FindPool(c, from, to)
  PROVE  Alone(c) /\ (call'[c].op = "create bucket" \/ call'[c].op = "none")
<1>1. CASE End(c)
  BY <1>1, EndAlone
<1>2. CASE ~End(c)
  <2>1. /\ call[c].op = "create bucket"
        /\ call' = [call EXCEPT ![c].pc = to, ![c].seen = TRUE]
    BY <1>2 DEF FindPool, At
  <2>2. QED
    BY <2>1 DEF CallsShaped, Fields, Alone
<1>3. QED
  BY <1>1, <1>2

\* So for a step on pools and buckets.
LEMMA BucketCalls ==
  ASSUME CallsShaped, NEW c \in Calls, BucketStep(c)
  PROVE  Alone(c) /\ (call'[c].op \in BucketOps \cup {"none"} \/ TakeBuckets(c))
<1>0. ASSUME NEW op \in BucketOps, NEW pc, LoadBucket(c, op, pc)
      PROVE  Alone(c) /\ call'[c].op \in BucketOps \cup {"none"}
  BY <1>0, LoadBucketCalls
<1>a. /\ "create pool" \in BucketOps /\ "configure pool" \in BucketOps /\ "remove pool" \in BucketOps
      /\ "create bucket" \in BucketOps /\ "set limit" \in BucketOps /\ "remove bucket" \in BucketOps
  BY DEF BucketOps
<1>1. CASE \E me \in Users : CreatePool(c, me)
  BY <1>a, <1>1, BeginAlone DEF CreatePool, BeginPool
<1>2. CASE \E me \in Users, p \in Pools : ConfigurePool(c, me, p) \/ RemovePool(c, me, p)
  BY <1>a, <1>2, BeginAlone DEF ConfigurePool, RemovePool, BeginPool
<1>3. CASE CreatePoolInsert(c) \/ ConfigurePoolWrite(c) \/ DropPool(c)
  BY <1>a, <1>3, EndAlone DEF CreatePoolInsert, ConfigurePoolWrite, DropPool
<1>4. CASE LoadPool(c, "configure pool", "write") \/ LoadPool(c, "remove pool", "count")
  BY <1>a, <1>4, EndAlone, AdvanceAlone DEF LoadPool, At
<1>5. CASE CountForPool(c)
  BY <1>a, <1>5, CountForPoolCalls
<1>6. CASE \E me \in Users, p \in Pools, b \in Buckets : CreateBucket(c, me, p, NameOf[b])
  BY <1>a, <1>6, BeginAlone DEF CreateBucket, BeginBucket
<1>7. CASE FindPool(c, "find", "find again") \/ FindPool(c, "find again", "insert")
  BY <1>a, <1>7, FindPoolCalls
<1>8. CASE CreateBucketInsert(c) \/ SetLimitWrite(c) \/ RemoveBucketDrop(c)
  BY <1>a, <1>8, EndAlone DEF CreateBucketInsert, SetLimitWrite, RemoveBucketDrop
<1>9. CASE \E me \in Users, b \in Buckets, max \in Limits : SetLimit(c, me, b, max)
  BY <1>a, <1>9, BeginAlone DEF SetLimit, BeginBucket
<1>10. CASE LoadBucket(c, "set limit", "write") \/ LoadBucket(c, "remove bucket", "drop")
  BY <1>a, <1>0, <1>10
<1>11. CASE \E me \in Users, b \in Buckets : RemoveBucket(c, me, b)
  BY <1>a, <1>11, BeginAlone DEF RemoveBucket, BeginBucket
<1>12. CASE TakeBuckets(c)
  BY <1>12, TakeBucketsCalls
<1>13. QED
  BY <1>1, <1>2, <1>3, <1>4, <1>5, <1>6, <1>7, <1>8, <1>9, <1>10, <1>11, <1>12 DEF BucketStep

LEMMA DropCalls ==
  ASSUME CallsShaped, NEW c \in Calls, DropUser(c)
  PROVE  Alone(c) /\ call'[c] = Ended
BY DEF DropUser, CallsShaped, Fields, Alone, Idle, Ended, End

----------------------------------------------------------------------------
(* The rows of keys. *)

\* What a call on a key has in hand.
KeyCall(c) ==
  LET d == call[c] IN
  /\ d.op = "create key" => d.arg \in Key /\ d.arg.status = "active" /\ d.arg.from = None
  /\ d.op \in {"revoke key", "patch key", "rotate key"} => d.on \in Keys
  /\ d.op = "patch key" => d.arg \in Patches
  /\ d.op = "patch key" /\ d.pc \in {"permissions", "prefixes", "expires", "status"} =>
       d.arg[d.pc] # None
  /\ d.op = "rotate key" /\ d.pc # "load" => d.row \in Key

KeyRows0 == key \in [Keys -> Key \cup {None, Gone}]

KeyInv == CallsShaped /\ KeyRows0 /\ \A c \in Calls : KeyCall(c)

\* A part that is next is one the body has.
LEMMA NextPartHas ==
  ASSUME NEW patch, NEW part, PartsAfter(patch, part) # {}
  PROVE  /\ NextPart(patch, part) \in {"permissions", "prefixes", "label", "expires", "status"}
         /\ patch[NextPart(patch, part)] # None
<1> DEFINE S == PartsAfter(patch, part)
<1>1. S \subseteq 1..5 /\ \A i \in S : patch[Parts[i]] # None
  BY DEF PartsAfter, Parts
<1>2. \E i \in S : \A j \in S : i <= j
  <2>1. CASE 1 \in S
    BY <2>1, <1>1
  <2>2. CASE 1 \notin S /\ 2 \in S
    BY <2>2, <1>1
  <2>3. CASE 1 \notin S /\ 2 \notin S /\ 3 \in S
    BY <2>3, <1>1
  <2>4. CASE 1 \notin S /\ 2 \notin S /\ 3 \notin S /\ 4 \in S
    BY <2>4, <1>1
  <2>5. CASE 1 \notin S /\ 2 \notin S /\ 3 \notin S /\ 4 \notin S
    BY <2>5, <1>1
  <2>6. QED
    BY <2>1, <2>2, <2>3, <2>4, <2>5
<1>3. PICK i \in S : NextPart(patch, part) = Parts[i]
  BY <1>2 DEF NextPart
<1>4. QED
  BY <1>1, <1>3 DEF Parts

\* Going on with a PATCH keeps its argument and ends at a part it has.
LEMMA ProceedCalls ==
  ASSUME CallsShaped, NEW c \in Calls, call[c].op = "patch key", KeyCall(c), NEW part,
         Proceed(c, part)
  PROVE  Alone(c) /\ KeyOp(c) /\ KeyCall(c)' /\ (call'[c].op = "patch key" => call'[c].pc # "load")
<1>1. CASE End(c)
  BY <1>1 DEF End, Ended, Idle, CallsShaped, Fields, Alone, KeyCall, KeyOp, KeyOps
<1>2. CASE ~End(c)
  <2> DEFINE pc == NextPart(call[c].arg, part)
  <2>1. call' = [call EXCEPT ![c].pc = pc, ![c].seen = None]
    BY <1>2 DEF Proceed
  <2>2. pc \in {"permissions", "prefixes", "label", "expires", "status"} /\ call[c].arg[pc] # None
    BY <1>2, NextPartHas DEF Proceed
  <2> HIDE DEF pc
  <2>3. Alone(c) /\ call'[c] = [call[c] EXCEPT !.pc = pc, !.seen = None]
    BY <2>1 DEF CallsShaped, Fields, Alone
  <2>4. /\ call'[c].op = "patch key" /\ call'[c].pc = pc
        /\ call'[c].on = call[c].on /\ call'[c].arg = call[c].arg
    BY <2>3 DEF CallsShaped, Fields
  <2>5. QED
    BY <2>2, <2>3, <2>4 DEF KeyCall, KeyOp, KeyOps
<1>3. QED
  BY <1>1, <1>2

\* A read into the row of a rotation.
LEMMA PutPart ==
  ASSUME CallsShaped, NEW c \in Calls, NEW pc, NEW row,
         call' = [call EXCEPT ![c].pc = pc, ![c].row = row]
  PROVE  /\ Alone(c)
         /\ call'[c].op = call[c].op /\ call'[c].pc = pc /\ call'[c].row = row
         /\ call'[c].on = call[c].on /\ call'[c].arg = call[c].arg
BY DEF CallsShaped, Fields, Alone

LEMMA EndCalls ==
  ASSUME CallsShaped, NEW c \in Calls, End(c)
  PROVE  Alone(c) /\ KeyOp(c) /\ KeyCall(c)' /\ call'[c] = Ended /\ call'[c].op = "none"
BY DEF End, Ended, Idle, CallsShaped, Fields, Alone, KeyCall, KeyOp, KeyOps

\* The fields of a key's row.
LEMMA KeyFields ==
  ASSUME NEW row \in Key
  PROVE  /\ row.owner \in Users /\ row.status \in {"active", "disabled", "revoked"}
         /\ row.expires \in Nat /\ row.acts \in SUBSET Actions
         /\ row.prefixes \in SUBSET (Prefixes \X (Calls \cup {None}))
         /\ row.from \in Keys \cup {None}
         /\ \A x \in {"active", "disabled", "revoked"} : [row EXCEPT !.status = x] \in Key
         /\ \A x \in Nat : [row EXCEPT !.expires = x] \in Key
         /\ \A x \in SUBSET Actions : [row EXCEPT !.acts = x] \in Key
         /\ \A x \in SUBSET (Prefixes \X (Calls \cup {None})) : [row EXCEPT !.prefixes = x] \in Key
BY DEF Key

\* An UPDATE of one key's row keeps the rows typed.
LEMMA UpdateKey ==
  ASSUME KeyRows0, NEW k \in Keys, NEW row \in Key, key' = [key EXCEPT ![k] = row]
  PROVE  KeyRows0'
BY DEF KeyRows0

LEMMA SetStatusTyped ==
  ASSUME KeyRows0, NEW k \in Keys, NEW status \in {"active", "disabled"}, key' = SetStatus(k, status)
  PROVE  KeyRows0'
<1>1. CASE Issued(k) /\ key[k].status # "revoked"
  <2>1. key[k] \in Key
    BY <1>1 DEF Issued, KeyRows0
  <2>2. [key[k] EXCEPT !.status = status] \in Key
    BY <2>1, KeyFields
  <2>3. key' = [key EXCEPT ![k] = [key[k] EXCEPT !.status = status]]
    BY <1>1 DEF SetStatus
  <2>4. QED
    BY <2>2, <2>3, UpdateKey
<1>2. CASE ~(Issued(k) /\ key[k].status # "revoked")
  BY <1>2 DEF SetStatus, KeyRows0
<1>3. QED
  BY <1>1, <1>2

\* A call on a key as it begins.
LEMMA BeginKeyCalls ==
  ASSUME CallsShaped, KeyRows0, NEW c \in Calls, NEW me, NEW op \in KeyOps, NEW pc, NEW k, NEW arg,
         BeginKey(c, me, op, pc, k, arg),
         op = "create key" => arg \in Key /\ arg.status = "active" /\ arg.from = None,
         op \in {"revoke key", "patch key", "rotate key"} => k \in Keys /\ pc = "load",
         op = "patch key" => arg \in Patches
  PROVE  Alone(c) /\ KeyOp(c) /\ KeyCall(c)' /\ KeyRows0' /\ UNCHANGED key
<1>1. KeyRows0' /\ UNCHANGED key
  BY DEF BeginKey, KeyRows0
<1>2. CASE ~Caller(me)
  BY <1>1, <1>2 DEF BeginKey, Begin, Idle, Ended, CallsShaped, Fields, Alone, KeyCall, KeyOp, KeyOps
<1>3. CASE Caller(me)
  <2> DEFINE new == [Idle EXCEPT !.op = op, !.pc = pc, !.me = me, !.on = k, !.arg = arg]
  <2>1. call' = [call EXCEPT ![c] = new]
    BY <1>3 DEF BeginKey, Begin
  <2>2. /\ DOMAIN new = Fields
        /\ new.op = op /\ new.pc = pc /\ new.on = k /\ new.arg = arg
    BY DEF Idle, Fields
  <2> HIDE DEF new
  <2>3. Alone(c) /\ call'[c] = new
    BY <2>1, <2>2 DEF CallsShaped, Alone
  <2>4. QED
    BY <1>1, <2>2, <2>3 DEF KeyCall, KeyOp, KeyOps
<1>4. QED
  BY <1>2, <1>3

\* Loading a key's row.
LEMMA LoadKeyCalls ==
  ASSUME KeyInv, NEW c \in Calls, NEW op \in {"revoke key", "rotate key"}, NEW pc,
         LoadKey(c, op, pc)
  PROVE  Alone(c) /\ KeyOp(c) /\ KeyCall(c)' /\ KeyRows0'
<1>1. KeyRows0'
  BY DEF LoadKey, KeyInv, KeyRows0
<1>2. CASE End(c)
  BY <1>1, <1>2, EndCalls DEF KeyInv
<1>3. CASE ~End(c)
  <2> DEFINE row == key[call[c].on]
  <2>1. call[c].op = op /\ Issued(call[c].on) /\ call' = [call EXCEPT ![c].pc = pc, ![c].row = row]
    BY <1>3 DEF LoadKey, At
  <2>2. call[c].on \in Keys /\ row \in Key
    BY <2>1 DEF KeyInv, KeyCall, KeyRows0, Issued
  <2> HIDE DEF row
  <2>3. /\ Alone(c)
        /\ call'[c].op = call[c].op /\ call'[c].row = row /\ call'[c].on = call[c].on
    BY <2>1 DEF KeyInv, CallsShaped, Fields, Alone
  <2>4. QED
    BY <1>1, <2>1, <2>2, <2>3 DEF KeyCall, KeyOp, KeyOps
<1>4. QED
  BY <1>2, <1>3

\* An INSERT into a free slot.
LEMMA InsertCalls ==
  ASSUME KeyInv, NEW c \in Calls, NEW row \in Key, Insert(c, row)
  PROVE  Alone(c) /\ KeyOp(c) /\ KeyCall(c)' /\ KeyRows0'
<1>1. Alone(c) /\ KeyOp(c) /\ KeyCall(c)'
  BY EndCalls DEF Insert, KeyInv
<1>2. KeyRows0'
  <2>1. PICK k \in Keys : key' = [key EXCEPT ![k] = row] \/ key' = key
    BY DEF Insert
  <2>2. CASE key' = key
    BY <2>2 DEF KeyInv, KeyRows0
  <2>3. CASE key' = [key EXCEPT ![k] = row]
    BY <2>3, UpdateKey DEF KeyInv
  <2>4. QED
    BY <2>1, <2>2, <2>3
<1>3. QED
  BY <1>1, <1>2

\* The DELETE of a policy write: only what it saw is new.
LEMMA PatchDeleteCalls ==
  ASSUME KeyInv, NEW c \in Calls, NEW part, NEW old, PatchDelete(c, part, old)
  PROVE  Alone(c) /\ KeyOp(c) /\ KeyCall(c)' /\ KeyRows0'
<1> DEFINE seen == IF Issued(call[c].on) THEN old ELSE {}
<1>1. call[c].op = "patch key" /\ call' = [call EXCEPT ![c].seen = seen]
  BY DEF PatchDelete, At
<1> HIDE DEF seen
<1>2. /\ Alone(c)
      /\ call'[c].op = "patch key" /\ call'[c].pc = call[c].pc
      /\ call'[c].on = call[c].on /\ call'[c].arg = call[c].arg
  BY <1>1 DEF KeyInv, CallsShaped, Fields, Alone
<1>3. KeyRows0'
  BY DEF PatchDelete, KeyInv, KeyRows0
<1>4. QED
  BY <1>1, <1>2, <1>3 DEF KeyInv, KeyCall, KeyOp, KeyOps

\* What a rotation makes of the row it read.
LEMMA HeirTyped ==
  ASSUME KeyInv, NEW c \in Calls, call[c].op = "rotate key", call[c].pc # "load"
  PROVE  /\ Heir(c) \in Key /\ Heir(c).status = "active"
         /\ Heir(c).acts = call[c].row.acts
         /\ Heir(c).prefixes = {p[1] : p \in call[c].row.prefixes} \X {c}
<1> DEFINE row == call[c].row
           old == {p[1] : p \in row.prefixes}
<1>1. row \in Key /\ call[c].on \in Keys
  BY DEF KeyInv, KeyCall, KeyOp, KeyOps
<1>2. old \in SUBSET Prefixes
  <2>1. \A p \in row.prefixes : p[1] \in Prefixes
    BY <1>1, KeyFields
  <2>2. QED
    BY <2>1
<1>3. Heir(c) = [row EXCEPT !.status = "active", !.from = call[c].on, !.prefixes = old \X {c}]
  BY DEF Heir
<1> HIDE DEF row, old
<1>4. old \X {c} \in SUBSET (Prefixes \X (Calls \cup {None}))
  BY <1>2
<1>5. QED
  BY <1>1, <1>3, <1>4 DEF Key, row, old

\* A statement that writes the row of the key it is about and then goes on with
\* the PATCH.
LEMMA PatchWrite ==
  ASSUME KeyInv, NEW c \in Calls, NEW part, call[c].op = "patch key", NEW k \in Keys,
         NEW row \in Key, key' = [key EXCEPT ![k] = row], Proceed(c, part)
  PROVE  Alone(c) /\ KeyOp(c) /\ KeyCall(c)' /\ KeyRows0'
<1>1. Alone(c) /\ KeyOp(c) /\ KeyCall(c)'
  BY ProceedCalls DEF KeyInv
<1>2. KeyRows0'
  BY UpdateKey DEF KeyInv
<1>3. QED
  BY <1>1, <1>2

LEMMA EndKeepsRows ==
  ASSUME KeyInv, NEW c \in Calls, End(c), UNCHANGED key
  PROVE  Alone(c) /\ KeyOp(c) /\ KeyCall(c)' /\ KeyRows0'
BY EndCalls DEF KeyInv, KeyRows0

\* What a call may write to the rows.  A new row: the one asked for, or the heir
\* of a rotation.
Inserts(c) ==
  \E k \in Keys, row \in Key :
    /\ key[k] = None /\ key' = [key EXCEPT ![k] = row] /\ row.status = "active"
    /\ At(c, "rotate key", "insert") => row = Heir(c)

\* A change of a row that there is, other than of its prefixes: its status stays
\* what it was, or becomes revoked, or was not.
Changes ==
  \E k \in Keys, row \in Key :
    /\ key[k] \in Key /\ key' = [key EXCEPT ![k] = row] /\ row.prefixes = key[k].prefixes
    /\ row.status = key[k].status \/ row.status = "revoked" \/ key[k].status # "revoked"

\* set_prefixes.
Confines(c) ==
  \E row \in Key :
    LET k == call[c].on IN
    /\ At(c, "patch key", "prefixes") /\ call[c].seen # None
    /\ k \in Keys /\ key[k] \in Key /\ key' = [key EXCEPT ![k] = row] /\ row.status = key[k].status
    /\ row.prefixes = (key[k].prefixes \ call[c].seen) \cup (call[c].arg.prefixes \X {c})

\* A rotation that inserts does nothing else.
Writes(c) == Inserts(c) \/ (~At(c, "rotate key", "insert") /\ (Changes \/ Confines(c))) \/ UNCHANGED key

Kept(c) == Alone(c) /\ KeyOp(c) /\ KeyCall(c)' /\ KeyRows0'

LEMMA PatchPermissionsKeeps ==
  ASSUME KeyInv, NEW c \in Calls, PatchPermissions(c)
  PROVE  Kept(c) /\ Writes(c)
<1> DEFINE k == call[c].on
           acts == (key[k].acts \ call[c].seen) \cup call[c].arg.permissions
<1>1. CASE End(c) /\ UNCHANGED key
  BY <1>1, EndKeepsRows DEF Kept, Writes
<1>2. CASE ~(End(c) /\ UNCHANGED key)
  <2>1. /\ call[c].op = "patch key" /\ call[c].pc = "permissions" /\ Issued(k)
        /\ key' = [key EXCEPT ![k].acts = acts]
        /\ Proceed(c, "permissions")
    BY <1>2 DEF PatchPermissions, At
  <2>2. k \in Keys /\ key[k] \in Key /\ call[c].arg \in Patches /\ call[c].arg["permissions"] # None
    BY <2>1 DEF KeyInv, KeyCall, KeyRows0, Issued
  <2>3. acts \in SUBSET Actions
    <3>1. call[c].arg.permissions \in SUBSET Actions
      BY <2>2, PatchesAssumption
    <3>2. key[k].acts \in SUBSET Actions
      BY <2>2, KeyFields
    <3>3. QED
      BY <3>1, <3>2
  <2> HIDE DEF acts
  <2> DEFINE row == [key[k] EXCEPT !.acts = acts]
  <2>4. row \in Key /\ row.prefixes = key[k].prefixes /\ row.status = key[k].status
    BY <2>2, <2>3 DEF Key
  <2> HIDE DEF k
  <2>5. key' = [key EXCEPT ![k] = row]
    BY <2>1
  <2> HIDE DEF row
  <2>6. Kept(c)
    BY <2>1, <2>2, <2>4, <2>5, PatchWrite DEF Kept
  <2>7. Writes(c)
    BY <2>1, <2>2, <2>4, <2>5 DEF Writes, Changes, At
  <2>8. QED
    BY <2>6, <2>7
<1>3. QED
  BY <1>1, <1>2

LEMMA PatchPrefixesKeeps ==
  ASSUME KeyInv, NEW c \in Calls, PatchPrefixes(c)
  PROVE  Kept(c) /\ Writes(c)
<1> DEFINE k == call[c].on
           prefixes == (key[k].prefixes \ call[c].seen) \cup (call[c].arg.prefixes \X {c})
<1>1. CASE End(c) /\ UNCHANGED key
  BY <1>1, EndKeepsRows DEF Kept, Writes
<1>2. CASE ~(End(c) /\ UNCHANGED key)
  <2>1. /\ call[c].op = "patch key" /\ call[c].pc = "prefixes" /\ Issued(k) /\ call[c].seen # None
        /\ key' = [key EXCEPT ![k].prefixes = prefixes]
        /\ Proceed(c, "prefixes")
    BY <1>2 DEF PatchPrefixes, At
  <2>2. k \in Keys /\ key[k] \in Key /\ call[c].arg \in Patches /\ call[c].arg["prefixes"] # None
    BY <2>1 DEF KeyInv, KeyCall, KeyRows0, Issued
  <2>3. prefixes \in SUBSET (Prefixes \X (Calls \cup {None}))
    <3>1. call[c].arg.prefixes \in SUBSET Prefixes
      BY <2>2, PatchesAssumption
    <3>2. key[k].prefixes \in SUBSET (Prefixes \X (Calls \cup {None}))
      BY <2>2, KeyFields
    <3>3. call[c].arg.prefixes \X {c} \in SUBSET (Prefixes \X (Calls \cup {None}))
      BY <3>1
    <3>4. QED
      BY <3>2, <3>3
  <2>a. prefixes = (key[k].prefixes \ call[c].seen) \cup (call[c].arg.prefixes \X {c})
    OBVIOUS
  <2> HIDE DEF prefixes
  <2> DEFINE row == [key[k] EXCEPT !.prefixes = prefixes]
  <2>4. row \in Key /\ row.prefixes = prefixes /\ row.status = key[k].status
    BY <2>2, <2>3 DEF Key
  <2>b. k = call[c].on
    OBVIOUS
  <2> HIDE DEF k
  <2>5. key' = [key EXCEPT ![k] = row]
    BY <2>1
  <2> HIDE DEF row
  <2>6. Kept(c)
    BY <2>1, <2>2, <2>4, <2>5, PatchWrite DEF Kept
  <2>7. Confines(c) /\ ~At(c, "rotate key", "insert")
    BY <2>1, <2>2, <2>4, <2>5, <2>a, <2>b DEF Confines, At
  <2>8. QED
    BY <2>6, <2>7 DEF Writes
<1>3. QED
  BY <1>1, <1>2

LEMMA PatchExpiresKeeps ==
  ASSUME KeyInv, NEW c \in Calls, PatchExpires(c)
  PROVE  Kept(c) /\ Writes(c)
<1> DEFINE k == call[c].on
           expires == call[c].arg.expires
<1>1. CASE End(c) /\ UNCHANGED key
  BY <1>1, EndKeepsRows DEF Kept, Writes
<1>2. CASE ~(End(c) /\ UNCHANGED key)
  <2>1. /\ call[c].op = "patch key" /\ call[c].pc = "expires" /\ Issued(k)
        /\ key' = [key EXCEPT ![k].expires = expires]
        /\ Proceed(c, "expires")
    BY <1>2 DEF PatchExpires, At
  <2>2. k \in Keys /\ key[k] \in Key /\ call[c].arg \in Patches /\ call[c].arg["expires"] # None
    BY <2>1 DEF KeyInv, KeyCall, KeyRows0, Issued
  <2>3. expires \in Nat
    BY <2>2, PatchesAssumption
  <2> DEFINE row == [key[k] EXCEPT !.expires = expires]
  <2>4. row \in Key /\ row.prefixes = key[k].prefixes /\ row.status = key[k].status
    BY <2>2, <2>3 DEF Key
  <2> HIDE DEF k, expires
  <2>5. key' = [key EXCEPT ![k] = row]
    BY <2>1
  <2> HIDE DEF row
  <2>6. Kept(c)
    BY <2>1, <2>2, <2>4, <2>5, PatchWrite DEF Kept
  <2>7. Writes(c)
    BY <2>1, <2>2, <2>4, <2>5 DEF Writes, Changes, At
  <2>8. QED
    BY <2>6, <2>7
<1>3. QED
  BY <1>1, <1>2

\* An UPDATE of the status of a row.
LEMMA SetStatusChanges ==
  ASSUME KeyRows0, NEW k \in Keys, NEW status \in {"active", "disabled"}, key' = SetStatus(k, status)
  PROVE  Changes \/ UNCHANGED key
<1>1. CASE Issued(k) /\ key[k].status # "revoked"
  <2> DEFINE row == [key[k] EXCEPT !.status = status]
  <2>1. key[k] \in Key
    BY <1>1 DEF Issued, KeyRows0
  <2>2. row \in Key /\ row.prefixes = key[k].prefixes
    BY <2>1 DEF Key
  <2>3. key' = [key EXCEPT ![k] = row]
    BY <1>1 DEF SetStatus
  <2> HIDE DEF row
  <2>4. QED
    BY <1>1, <2>1, <2>2, <2>3 DEF Changes
<1>2. QED
  BY <1>1 DEF SetStatus

LEMMA PatchStatusKeeps ==
  ASSUME KeyInv, NEW c \in Calls, PatchStatus(c)
  PROVE  Kept(c) /\ Writes(c)
<1>1. Alone(c) /\ KeyOp(c) /\ KeyCall(c)'
  BY EndCalls DEF PatchStatus, KeyInv
<1>2. /\ call[c].op = "patch key" /\ call[c].pc = "status"
      /\ key' = SetStatus(call[c].on, call[c].arg.status)
  BY DEF PatchStatus, At
<1>3. call[c].on \in Keys /\ call[c].arg \in Patches /\ call[c].arg["status"] # None
  BY <1>2 DEF KeyInv, KeyCall, KeyOp, KeyOps
<1>4. call[c].arg.status \in {"active", "disabled"}
  BY <1>3, PatchesAssumption
<1>5. KeyRows0' /\ (Changes \/ UNCHANGED key)
  BY <1>2, <1>3, <1>4, SetStatusTyped, SetStatusChanges DEF KeyInv
<1>6. QED
  BY <1>1, <1>2, <1>5 DEF Kept, Writes, At

LEMMA RevokeKeyWriteKeeps ==
  ASSUME KeyInv, NEW c \in Calls, RevokeKeyWrite(c)
  PROVE  Kept(c) /\ Writes(c)
<1> DEFINE k == call[c].on
<1>1. Alone(c) /\ KeyOp(c) /\ KeyCall(c)'
  BY EndCalls DEF RevokeKeyWrite, KeyInv
<1>2. call[c].op = "revoke key" /\ k \in Keys
  BY DEF RevokeKeyWrite, At, KeyInv, KeyCall
<1>3. CASE Issued(k)
  <2>1. key[k] \in Key
    BY <1>2, <1>3 DEF KeyInv, KeyRows0, Issued
  <2> DEFINE row == [key[k] EXCEPT !.status = "revoked"]
  <2>2. row \in Key /\ row.prefixes = key[k].prefixes /\ row.status = "revoked"
    BY <2>1 DEF Key
  <2>3. key' = [key EXCEPT ![k] = row]
    BY <1>3 DEF RevokeKeyWrite
  <2> HIDE DEF row, k
  <2>4. KeyRows0'
    BY <1>2, <2>2, <2>3, UpdateKey DEF KeyInv
  <2>5. Changes
    BY <1>2, <2>1, <2>2, <2>3 DEF Changes
  <2>6. QED
    BY <1>1, <1>2, <2>4, <2>5 DEF Kept, Writes, At
<1>4. CASE ~Issued(k)
  BY <1>1, <1>4 DEF RevokeKeyWrite, KeyInv, KeyRows0, Kept, Writes
<1>5. QED
  BY <1>3, <1>4

\* The reads of a rotation.
LEMMA RotateReads ==
  ASSUME KeyInv, NEW c \in Calls, RotatePermissions(c) \/ RotatePrefixes(c)
  PROVE  Alone(c) /\ KeyOp(c) /\ KeyCall(c)' /\ KeyRows0'
<1> DEFINE k == call[c].on
           row == call[c].row
<1>1. /\ call[c].op = "rotate key" /\ call[c].pc \in {"permissions", "prefixes"}
      /\ UNCHANGED key
  BY DEF RotatePermissions, RotatePrefixes, At
<1>2. k \in Keys /\ row \in Key /\ (Issued(k) => key[k] \in Key) /\ KeyRows0'
  BY <1>1 DEF KeyInv, KeyCall, KeyRows0, Issued
<1>3. CASE End(c)
  BY <1>1, <1>3, EndKeepsRows
<1>4. CASE RotatePermissions(c) /\ ~End(c)
  <2> DEFINE acts == IF Issued(k) THEN key[k].acts ELSE {}
  <2>1. call' = [call EXCEPT ![c].pc = "prefixes", ![c].row.acts = acts]
    BY <1>4 DEF RotatePermissions
  <2>2. [row EXCEPT !.acts = acts] \in Key
    BY <1>2, KeyFields
  <2> HIDE DEF acts
  <2>3. /\ Alone(c)
        /\ call'[c].op = "rotate key" /\ call'[c].on = k /\ call'[c].row = [row EXCEPT !.acts = acts]
    BY <1>1, <2>1 DEF KeyInv, CallsShaped, Fields, Alone
  <2>4. QED
    BY <1>2, <2>2, <2>3 DEF KeyCall, KeyOp, KeyOps
<1>5. CASE RotatePrefixes(c)
  <2> DEFINE prefixes == IF Issued(k) THEN key[k].prefixes ELSE {}
  <2>1. call' = [call EXCEPT ![c].pc = "disable", ![c].row.prefixes = prefixes]
    BY <1>5 DEF RotatePrefixes
  <2>2. [row EXCEPT !.prefixes = prefixes] \in Key
    BY <1>2, KeyFields
  <2> HIDE DEF prefixes
  <2>3. /\ Alone(c)
        /\ call'[c].op = "rotate key" /\ call'[c].on = k
        /\ call'[c].row = [row EXCEPT !.prefixes = prefixes]
    BY <1>1, <2>1 DEF KeyInv, CallsShaped, Fields, Alone
  <2>4. QED
    BY <1>2, <2>2, <2>3 DEF KeyCall, KeyOp, KeyOps
<1>6. QED
  BY <1>3, <1>4, <1>5

LEMMA RotateDisableKeeps ==
  ASSUME KeyInv, NEW c \in Calls, RotateDisable(c)
  PROVE  Kept(c) /\ Writes(c)
<1>1. /\ call[c].op = "rotate key" /\ call[c].pc = "disable" /\ key' = SetStatus(call[c].on, "disabled")
      /\ End(c) \/ Advance(c, "insert")
  BY DEF RotateDisable, At
<1>2. call[c].on \in Keys /\ call[c].row \in Key
  BY <1>1 DEF KeyInv, KeyCall, KeyOp, KeyOps
<1>3. KeyRows0' /\ Writes(c)
  BY <1>1, <1>2, SetStatusTyped, SetStatusChanges DEF KeyInv, Writes, At
<1>4. CASE End(c)
  BY <1>3, <1>4, EndCalls DEF KeyInv, Kept
<1>5. CASE Advance(c, "insert")
  <2>1. /\ Alone(c)
        /\ call'[c].op = "rotate key" /\ call'[c].on = call[c].on /\ call'[c].row = call[c].row
    BY <1>1, <1>5 DEF Advance, KeyInv, CallsShaped, Fields, Alone
  <2>2. QED
    BY <1>2, <1>3, <2>1 DEF KeyCall, Kept, KeyOp, KeyOps
<1>6. QED
  BY <1>1, <1>4, <1>5

\* What a step on keys does to the calls and to the keys' rows.
LEMMA KeyStepKeeps ==
  ASSUME KeyInv, NEW c \in Calls, KeyStep(c)
  PROVE  Kept(c) /\ Writes(c)
<1> CallsShaped /\ KeyRows0 /\ KeyCall(c)
  BY DEF KeyInv
<1>1. ASSUME NEW me \in Users, NEW acts \in Grants, NEW scoping \in Scopings, NEW expires \in Expiries,
             CreateKey(c, me, acts, scoping, expires)
      PROVE  Kept(c) /\ Writes(c)
  <2> DEFINE row == [owner |-> me, status |-> "active", expires |-> expires, acts |-> acts,
                     prefixes |-> scoping \X {c}, from |-> None]
  <2>1. row \in Key /\ row.status = "active" /\ row.from = None
    <3>1. scoping \X {c} \in SUBSET (Prefixes \X (Calls \cup {None}))
      BY ScopingsAssumption
    <3>2. QED
      BY <3>1, GrantsAssumption, ExpiriesAssumption DEF Key
  <2>2. BeginKey(c, me, "create key", "insert", None, row)
    BY <1>1 DEF CreateKey
  <2> HIDE DEF row
  <2>3. QED
    BY <2>1, <2>2, BeginKeyCalls DEF Kept, Writes, KeyOps
<1>2. CASE CreateKeyInsert(c)
  <2>1. /\ call[c].op = "create key" /\ call[c].arg \in Key /\ call[c].arg.status = "active"
        /\ Insert(c, call[c].arg)
    BY <1>2 DEF CreateKeyInsert, At, KeyCall
  <2>2. Writes(c)
    BY <2>1 DEF Insert, Writes, Inserts, At
  <2>3. QED
    BY <2>1, <2>2, InsertCalls DEF Kept
<1>3. CASE \E me \in Users, k \in Keys : RevokeKey(c, me, k)
  BY <1>3, BeginKeyCalls DEF RevokeKey, Kept, Writes, KeyOps
<1>4. CASE LoadKey(c, "revoke key", "write")
  BY <1>4, LoadKeyCalls DEF LoadKey, Kept, Writes
<1>5. CASE RevokeKeyWrite(c)
  BY <1>5, RevokeKeyWriteKeeps
<1>6. CASE \E me \in Users, k \in Keys, patch \in Patches : PatchKey(c, me, k, patch)
  BY <1>6, BeginKeyCalls DEF PatchKey, Kept, Writes, KeyOps
<1>7. CASE PatchKeyLoad(c)
  <2>1. call[c].op = "patch key" /\ UNCHANGED key /\ (Proceed(c, "load") \/ End(c))
    BY <1>7 DEF PatchKeyLoad, At
  <2>2. KeyRows0'
    BY <2>1 DEF KeyRows0
  <2>3. QED
    BY <2>1, <2>2, ProceedCalls, EndCalls DEF Kept, Writes
<1>8. CASE PatchPermissionsDelete(c)
  BY <1>8, PatchDeleteCalls DEF PatchPermissionsDelete, PatchDelete, Kept, Writes
<1>9. CASE PatchPermissions(c)
  BY <1>9, PatchPermissionsKeeps
<1>10. CASE PatchPrefixesDelete(c)
  BY <1>10, PatchDeleteCalls DEF PatchPrefixesDelete, PatchDelete, Kept, Writes
<1>11. CASE PatchPrefixes(c)
  BY <1>11, PatchPrefixesKeeps
<1>12. CASE PatchLabel(c)
  <2>1. call[c].op = "patch key" /\ UNCHANGED key /\ (Proceed(c, "label") \/ End(c))
    BY <1>12 DEF PatchLabel, At
  <2>2. KeyRows0'
    BY <2>1 DEF KeyRows0
  <2>3. QED
    BY <2>1, <2>2, ProceedCalls, EndCalls DEF Kept, Writes
<1>13. CASE PatchExpires(c)
  BY <1>13, PatchExpiresKeeps
<1>14. CASE PatchStatus(c)
  BY <1>14, PatchStatusKeeps
<1>15. CASE \E me \in Users, k \in Keys : RotateKey(c, me, k)
  BY <1>15, BeginKeyCalls DEF RotateKey, Kept, Writes, KeyOps
<1>16. CASE LoadKey(c, "rotate key", "permissions")
  BY <1>16, LoadKeyCalls DEF LoadKey, Kept, Writes
<1>17. CASE RotatePermissions(c) \/ RotatePrefixes(c)
  BY <1>17, RotateReads DEF RotatePermissions, RotatePrefixes, Kept, Writes
<1>18. CASE RotateDisable(c)
  BY <1>18, RotateDisableKeeps
<1>19. CASE RotateInsert(c)
  <2>1. call[c].op = "rotate key" /\ call[c].pc # "load" /\ Insert(c, Heir(c))
    BY <1>19 DEF RotateInsert, At
  <2>2. Heir(c) \in Key /\ Heir(c).status = "active"
    BY <2>1, HeirTyped
  <2>3. Writes(c)
    BY <2>1, <2>2 DEF Insert, Writes, Inserts
  <2>4. QED
    BY <2>1, <2>2, <2>3, InsertCalls DEF Kept
<1>20. QED
  BY <1>1, <1>2, <1>3, <1>4, <1>5, <1>6, <1>7, <1>8, <1>9, <1>10, <1>11, <1>12, <1>13, <1>14,
     <1>15, <1>16, <1>17, <1>18, <1>19 DEF KeyStep

----------------------------------------------------------------------------
(* The steps of the whole. *)

\* A request leaves the console's rows but for a bucket's counters and its
\* objects.
LEMMA RequestLeaves ==
  ASSUME NEW r \in Requests, RequestStep(r)
  PROVE  UNCHANGED <<user, call, pool, key, clock>>
<1> USE DEF ConsoleRows, KeyRows, Reads
<1>1. CASE \E w \in Wires : Arrive(r, w)
  BY <1>1 DEF Arrive
<1>2. CASE Authenticate(r) \/ ReadOwner(r) \/ ReadBucket(r) \/ ReadPool(r) \/ ReadAction(r) \/ ReadScope(r)
  BY <1>2 DEF Authenticate, ReadOwner, ReadBucket, ReadPool, ReadAction, ReadScope
<1>3. CASE ReadSource(r) \/ ReadSourceAction(r) \/ ReadSourceScope(r) \/ ReadSourceRow(r)
  BY <1>3 DEF ReadSource, ReadSourceAction, ReadSourceScope, ReadSourceRow
<1>4. CASE (\E name \in Names : DecideKey(r, name)) \/ DecidedKeys(r) \/ Dispatched(r)
  BY <1>4 DEF DecideKey, DecidedKeys, Dispatched
<1>5. CASE Reserve(r) \/ WriteRow(r) \/ Commit(r)
  BY <1>5 DEF Reserve, WriteRow, Commit
<1>6. CASE (\E name \in Names : DeleteRow(r, name)) \/ Credit(r) \/ DeletedAll(r)
  BY <1>6 DEF DeleteRow, Credit, DeletedAll
<1>7. CASE RecordAudit(r)
  BY <1>7 DEF RecordAudit
<1>8. QED
  BY <1>1, <1>2, <1>3, <1>4, <1>5, <1>6, <1>7 DEF RequestStep

\* Only a call writes the accounts, the calls and the keys: one call on one key,
\* or one that takes an account away with its keys.
KeyMove(c) ==
  \/ KeyInv /\ KeyStep(c)
  \/ Alone(c) /\ call'[c].op \notin KeyOps /\ UNCHANGED key
  \/ Alone(c) /\ call'[c] = Ended /\ At(c, "remove user", "drop") /\ CascadeKeys(call[c].on)

LEMMA NextMoves ==
  ASSUME KeyInv, GatewayNext
  PROVE  (\E c \in Calls : KeyMove(c)) \/ UNCHANGED <<call, key>>
<1>1. CASE \E r \in Requests : RequestStep(r)
  BY <1>1, RequestLeaves
<1>2. CASE WriteAudit
  BY <1>2 DEF WriteAudit, ConsoleRows
<1>3. CASE Tick
  BY <1>3 DEF Tick
<1>4. ASSUME NEW c \in Calls, ConsoleStep(c)
      PROVE  KeyMove(c)
  <2>1. CASE AccountStep(c) /\ UNCHANGED <<Data, KeyRows>>
    BY <2>1, AccountCalls DEF KeyMove, KeyInv, KeyRows
  <2>2. CASE BucketStep(c) /\ UNCHANGED KeyRows
    <3>1. Alone(c) /\ call'[c].op \notin KeyOps
      BY <2>2, BucketCalls, TakeBucketsCalls DEF KeyInv, KeyOps, BucketOps
    <3>2. QED
      BY <2>2, <3>1 DEF KeyMove, KeyRows
  <2>3. CASE KeyStep(c)
    BY <2>3 DEF KeyMove
  <2>4. CASE DropUser(c) /\ CascadeKeys(call[c].on)
    BY <2>4, DropCalls DEF KeyMove, KeyInv, DropUser
  <2>5. QED
    BY <1>4, <2>1, <2>2, <2>3, <2>4 DEF ConsoleStep
<1>5. QED
  BY <1>1, <1>2, <1>3, <1>4 DEF GatewayNext

LEMMA CascadeTyped ==
  ASSUME KeyRows0, NEW u, CascadeKeys(u)
  PROVE  KeyRows0'
BY DEF CascadeKeys, KeyRows0

LEMMA KeyMoveKeeps ==
  ASSUME KeyInv, NEW c \in Calls, KeyMove(c)
  PROVE  KeyInv'
<1>1. Alone(c) /\ KeyCall(c)' /\ KeyRows0'
  <2>1. CASE KeyStep(c)
    BY <2>1, KeyStepKeeps DEF Kept
  <2>2. CASE Alone(c) /\ call'[c].op \notin KeyOps /\ UNCHANGED key
    BY <2>2 DEF KeyInv, KeyRows0, KeyCall, KeyOps
  <2>3. CASE Alone(c) /\ call'[c] = Ended /\ CascadeKeys(call[c].on)
    <3>1. KeyRows0'
      BY <2>3, CascadeTyped DEF KeyInv
    <3>2. KeyCall(c)'
      BY <2>3 DEF KeyCall, Ended, Idle
    <3>3. QED
      BY <2>3, <3>1, <3>2
  <2>4. QED
    BY <2>1, <2>2, <2>3 DEF KeyMove
<1>2. ASSUME NEW d \in Calls
      PROVE  KeyCall(d)'
  <2>1. CASE d = c
    BY <1>1, <2>1
  <2>2. CASE d # c
    BY <1>1, <2>2 DEF Alone, KeyInv, KeyCall
  <2>3. QED
    BY <2>1, <2>2
<1>3. QED
  BY <1>1, <1>2 DEF KeyInv, Alone

\* The rows of access keys stay what they should be, and what a call on a key
\* has in hand stays fit to be written (models/access_keys.rs): the inductive
\* invariant of the theorems below.
THEOREM KeysTyped == GatewaySpec => []KeyInv
<1>1. GatewayInit => KeyInv
  <2> SUFFICES ASSUME GatewayInit PROVE KeyInv
    OBVIOUS
  <2>1. KeyRows0
    BY DatabasesAssumption DEF GatewayInit, KeyRows0
  <2>2. CallsShaped
    BY DEF GatewayInit, CallsShaped, Idle, Ended, Fields
  <2>3. \A c \in Calls : KeyCall(c)
    <3>1. \A c \in Calls : call[c].op = "none"
      BY DEF GatewayInit, Idle, Ended
    <3>2. QED
      BY <3>1 DEF KeyCall
  <2>4. QED
    BY <2>1, <2>2, <2>3 DEF KeyInv
<1>2. KeyInv /\ [GatewayNext]_gvars => KeyInv'
  <2> SUFFICES ASSUME KeyInv, [GatewayNext]_gvars PROVE KeyInv'
    OBVIOUS
  <2>1. CASE \E c \in Calls : KeyMove(c)
    BY <2>1, KeyMoveKeeps
  <2>2. CASE UNCHANGED <<call, key>>
    BY <2>2 DEF KeyInv, CallsShaped, KeyRows0, KeyCall
  <2>3. QED
    BY <2>1, <2>2, NextMoves DEF gvars
<1>3. QED
  BY <1>1, <1>2, PTL DEF GatewaySpec

----------------------------------------------------------------------------
(* Keys live as module KeyLife says. *)

Lived == [k \in Keys |-> LifeOf(k)]

\* A row that is written is a key's.
LEMMA WrittenLife ==
  ASSUME KeyRows0, NEW k \in Keys, NEW row \in Key, key' = [key EXCEPT ![k] = row]
  PROVE  Lived' = [Lived EXCEPT ![k] = row.status]
<1>1. row # None /\ row # Gone
  BY KeyAssumption
<1>2. \A j \in Keys : key'[j] = IF j = k THEN row ELSE key[j]
  BY DEF KeyRows0
<1>3. \A j \in Keys : LifeOf(j)' = IF j = k THEN row.status ELSE LifeOf(j)
  BY <1>1, <1>2 DEF LifeOf
<1>4. QED
  BY <1>3 DEF Lived

LEMMA MoveLife ==
  ASSUME KeyInv, NEW c \in Calls, KeyMove(c)
  PROVE  [Life!LifeNext]_Lived
<1>1. CASE UNCHANGED key
  BY <1>1 DEF Lived, LifeOf
<1>2. CASE Inserts(c)
  <2>1. PICK k \in Keys, row \in Key :
          key[k] = None /\ key' = [key EXCEPT ![k] = row] /\ row.status = "active"
    BY <1>2 DEF Inserts
  <2>2. Lived' = [Lived EXCEPT ![k] = "active"] /\ Lived[k] = "none"
    BY <2>1, WrittenLife DEF KeyInv, Lived, LifeOf
  <2>3. Life!Issue(k)
    BY <2>2 DEF Life!Issue, Life!Move, Lived
  <2>4. QED
    BY <2>3 DEF Life!LifeNext
<1>3. ASSUME NEW k \in Keys, NEW row \in Key, key[k] \in Key, key' = [key EXCEPT ![k] = row],
             row.status = key[k].status \/ row.status = "revoked" \/ key[k].status # "revoked"
      PROVE  Life!LifeNext
  <2>1. /\ row.status \in {"active", "disabled", "revoked"}
        /\ key[k].status \in {"active", "disabled", "revoked"}
    BY <1>3, KeyFields
  <2>2. Lived' = [Lived EXCEPT ![k] = row.status] /\ Lived[k] = key[k].status
    BY <1>3, WrittenLife, KeyAssumption DEF KeyInv, Lived, LifeOf
  <2>3. CASE row.status = "revoked"
    <3>1. Life!Revoke(k)
      BY <2>1, <2>2, <2>3 DEF Life!Revoke, Life!Move, Lived
    <3>2. QED
      BY <3>1 DEF Life!LifeNext
  <2>4. CASE row.status = "active"
    <3>1. Life!Enable(k)
      BY <1>3, <2>1, <2>2, <2>4 DEF Life!Enable, Life!Move, Lived
    <3>2. QED
      BY <3>1 DEF Life!LifeNext
  <2>5. CASE row.status = "disabled"
    <3>1. Life!Disable(k)
      BY <1>3, <2>1, <2>2, <2>5 DEF Life!Disable, Life!Move, Lived
    <3>2. QED
      BY <3>1 DEF Life!LifeNext
  <2>6. QED
    BY <2>1, <2>3, <2>4, <2>5
<1>4. CASE Changes
  BY <1>3, <1>4 DEF Changes
<1>5. CASE Confines(c)
  BY <1>3, <1>5 DEF Confines
<1>6. CASE CascadeKeys(call[c].on)
  <2> DEFINE ks == {k \in Keys : Issued(k) /\ key[k].owner = call[c].on}
  <2>1. \A k \in ks : Lived[k] # "none"
    <3>1. ASSUME NEW k \in ks PROVE Lived[k] # "none"
      <4>1. key[k] \in Key
        BY <3>1 DEF KeyInv, KeyRows0, Issued
      <4>2. key[k].status # "none" /\ Lived[k] = key[k].status
        BY <4>1, KeyFields, KeyAssumption DEF Lived, LifeOf
      <4>3. QED
        BY <4>2
    <3>2. QED
      BY <3>1
  <2>2. Lived' = [k \in Keys |-> IF k \in ks THEN "gone" ELSE Lived[k]]
    <3>1. \A k \in Keys : key'[k] = IF k \in ks THEN Gone ELSE key[k]
      BY <1>6 DEF CascadeKeys
    <3>2. \A k \in Keys : LifeOf(k)' = IF k \in ks THEN "gone" ELSE LifeOf(k)
      BY <3>1, RowsAssumption DEF LifeOf
    <3>3. QED
      BY <3>2 DEF Lived
  <2> HIDE DEF ks
  <2>3. Life!Forget(ks)
    BY <2>1, <2>2 DEF Life!Forget, Lived
  <2>4. ks \in SUBSET Keys
    BY DEF ks
  <2>5. QED
    BY <2>3, <2>4 DEF Life!LifeNext
<1>7. QED
  BY <1>1, <1>2, <1>4, <1>5, <1>6, KeyStepKeeps DEF KeyMove, Writes

\* Whatever calls and requests run at once, every key is issued, disabled and
\* enabled, revoked for good, and forgotten with its account, as KeyLife says:
\* "a revoked key is never brought back" (models/access_keys.rs:336).
THEOREM KeysLiveAsPromised == GatewaySpec => LivesAsPromised
<1>1. GatewayInit => Life!LifeInit
  <2> SUFFICES ASSUME GatewayInit PROVE Life!LifeInit
    OBVIOUS
  <2>1. KeyRows0
    BY DatabasesAssumption DEF GatewayInit, KeyRows0
  <2>2. \A k \in Keys : LifeOf(k) \in Life!Lives
    BY <2>1, KeyFields DEF LifeOf, Life!Lives, KeyRows0
  <2>3. QED
    BY <2>2 DEF Life!LifeInit
<1>2. KeyInv /\ [GatewayNext]_gvars => [Life!LifeNext]_Lived
  <2> SUFFICES ASSUME KeyInv, [GatewayNext]_gvars PROVE [Life!LifeNext]_Lived
    OBVIOUS
  <2>1. CASE \E c \in Calls : KeyMove(c)
    BY <2>1, MoveLife
  <2>2. CASE UNCHANGED <<call, key>>
    BY <2>2 DEF Lived, LifeOf
  <2>3. QED
    BY <2>1, <2>2, NextMoves DEF gvars
<1>3. QED
  BY <1>1, <1>2, KeysTyped, PTL DEF GatewaySpec, LivesAsPromised, Life!LifeSpec, Lived

----------------------------------------------------------------------------
(* Action properties of the keys. *)

\* A rotation's insert changes no key's row but to what the rotation read.
LEMMA HeirMove ==
  ASSUME KeyInv, NEW c \in Calls, NEW k \in Keys, NEW mover \in Calls, KeyMove(mover),
         At(c, "rotate key", "insert"), call'[c].pc = "ended", key'[k] # key[k]
  PROVE  /\ key'[k] = Heir(c) /\ key[k] = None
<1>1. mover = c
  <2>1. call'[c] # call[c]
    BY DEF At
  <2>2. Alone(mover)
    BY KeyStepKeeps DEF KeyMove, Kept
  <2>3. QED
    BY <2>1, <2>2 DEF Alone
<1>2. KeyStep(c)
  BY <1>1 DEF KeyMove, At
<1>3. Inserts(c)
  BY <1>2, KeyStepKeeps DEF Writes
<1>4. PICK j \in Keys, row \in Key : key[j] = None /\ key' = [key EXCEPT ![j] = row] /\ row = Heir(c)
  BY <1>3 DEF Inserts
<1>5. QED
  BY <1>4 DEF KeyInv, KeyRows0

\* A rotation hands the policy of the key it replaces on, unless that policy
\* was changed after the rotation had read it (models/access_keys.rs, rotate).
THEOREM HeirsKeepPolicy == GatewaySpec => HeirKeepsPolicy
<1> DEFINE Kind(c, k) ==
      (At(c, "rotate key", "insert") /\ call'[c].pc = "ended" /\ key'[k] # key[k]) =>
         LET source == call[c].on IN
         Issued(source) =>
           \/ /\ key'[k].acts = key[source].acts
              /\ {p[1] : p \in key'[k].prefixes} = Scope(source)
           \/ key[source].acts # call[c].row.acts
           \/ key[source].prefixes # call[c].row.prefixes
<1>1. KeyInv /\ [GatewayNext]_gvars => [\A c \in Calls, k \in Keys : Kind(c, k)]_<<key, call>>
  <2> SUFFICES ASSUME KeyInv, [GatewayNext]_gvars, ~UNCHANGED <<key, call>>,
                      NEW c \in Calls, NEW k \in Keys
               PROVE  Kind(c, k)
    OBVIOUS
  <2>1. PICK mover \in Calls : KeyMove(mover)
    BY NextMoves DEF gvars
  <2> SUFFICES ASSUME At(c, "rotate key", "insert"), call'[c].pc = "ended", key'[k] # key[k],
                      key[call[c].on].acts = call[c].row.acts,
                      key[call[c].on].prefixes = call[c].row.prefixes
               PROVE  /\ key'[k].acts = key[call[c].on].acts
                      /\ {p[1] : p \in key'[k].prefixes} = Scope(call[c].on)
    OBVIOUS
  <2>2. key'[k] = Heir(c)
    BY <2>1, HeirMove
  <2>3. /\ Heir(c).acts = call[c].row.acts
        /\ Heir(c).prefixes = {p[1] : p \in call[c].row.prefixes} \X {c}
    BY HeirTyped DEF At
  <2> DEFINE old == {p[1] : p \in call[c].row.prefixes}
  <2>4. {p[1] : p \in old \X {c}} = old
    <3> HIDE DEF old
    <3>1. \A x \in old : <<x, c>> \in old \X {c} /\ <<x, c>>[1] = x
      OBVIOUS
    <3>2. \A p \in old \X {c} : p[1] \in old
      OBVIOUS
    <3>3. QED
      BY <3>1, <3>2
  <2>5. QED
    BY <2>2, <2>3, <2>4 DEF Scope
<1>2. QED
  BY <1>1, KeysTyped, PTL DEF GatewaySpec, HeirKeepsPolicy

\* A key that is confined to prefixes is never for a moment without any, which
\* would make it good for the whole bucket, unless a call asked for that
\* (models/access_keys.rs, set_prefixes).
THEOREM KeysStayConfined == GatewaySpec => NeverUnconfined
<1> DEFINE Freed(k) == Issued(k) /\ key[k].prefixes # {} /\ key'[k] # Gone /\ key'[k].prefixes = {}
           Asked(c, k) == call[c].on = k /\ At(c, "patch key", "prefixes")
                          /\ call[c].arg.prefixes = {} /\ call[c].seen # None
<1>1. KeyInv /\ [GatewayNext]_gvars => [\A k \in Keys : Freed(k) => \E c \in Calls : Asked(c, k)]_key
  <2> SUFFICES ASSUME KeyInv, [GatewayNext]_gvars, key' # key, NEW k \in Keys, Freed(k)
               PROVE  \E c \in Calls : Asked(c, k)
    OBVIOUS
  <2>1. PICK c \in Calls : KeyMove(c)
    BY NextMoves DEF gvars
  <2>2. key \in [Keys -> Key \cup {None, Gone}] /\ key'[k] # key[k]
    BY DEF KeyInv, KeyRows0
  <2>3. CASE Inserts(c)
    BY <2>2, <2>3 DEF Inserts, Issued
  <2>4. CASE Changes
    <3>1. PICK j \in Keys, row \in Key : key' = [key EXCEPT ![j] = row] /\ row.prefixes = key[j].prefixes
      BY <2>4 DEF Changes
    <3>2. QED
      BY <2>2, <3>1
  <2>5. CASE Confines(c)
    <3>1. PICK row \in Key :
            /\ At(c, "patch key", "prefixes") /\ call[c].seen # None
            /\ key' = [key EXCEPT ![call[c].on] = row]
            /\ row.prefixes = (key[call[c].on].prefixes \ call[c].seen) \cup (call[c].arg.prefixes \X {c})
      BY <2>5 DEF Confines
    <3>2. call[c].on = k /\ key'[k] = row
      BY <2>2, <3>1
    <3>3. call[c].arg.prefixes \X {c} = {}
      BY <3>1, <3>2
    <3>4. call[c].arg.prefixes = {}
      <4>1. call[c].arg \in Patches /\ call[c].arg["prefixes"] # None
        BY <3>1 DEF KeyInv, KeyCall, At
      <4>2. call[c].arg.prefixes \in SUBSET Prefixes
        BY <4>1, PatchesAssumption
      <4>3. \A x \in call[c].arg.prefixes : <<x, c>> \in call[c].arg.prefixes \X {c}
        OBVIOUS
      <4>4. QED
        BY <3>3, <4>2, <4>3
    <3>5. QED
      BY <3>1, <3>2, <3>4
  <2>6. CASE CascadeKeys(call[c].on)
    BY <2>2, <2>6 DEF CascadeKeys
  <2>7. QED
    BY <2>1, <2>3, <2>4, <2>5, <2>6, KeyStepKeeps DEF KeyMove, Writes
<1>2. QED
  BY <1>1, KeysTyped, PTL DEF GatewaySpec, NeverUnconfined

----------------------------------------------------------------------------
(* Accounts. *)

UserRows == user \in [Users -> Account \cup {None, Gone}]

\* The row that is written is an account's, and one that takes an admin away
\* counted several.
AdminCall(c) ==
  LET d == call[c] IN
  /\ d.op \in {"set role", "create user"} => d.arg \in Roles
  /\ (d.op = "set role" /\ d.pc = "write" /\ d.row.role = "admin" /\ d.arg # "admin") =>
       ~(Cardinality(d.seen) <= 1)
  /\ (d.op = "remove user" /\ d.pc \in {"take", "drop"} /\ d.row.role = "admin") =>
       ~(Cardinality(d.seen) <= 1)

AdminInv == CallsShaped /\ UserRows /\ \A c \in Calls : AdminCall(c)

\* A call that begins.
LEMMA BeginAdmin ==
  ASSUME CallsShaped, NEW c \in Calls, NEW admitted, NEW op, NEW pc, NEW me, NEW on, NEW arg,
         Begin(c, admitted, op, pc, me, on, arg),
         op \in {"set role", "create user"} => arg \in Roles,
         op = "set role" => pc # "write", op = "remove user" => pc \notin {"take", "drop"}
  PROVE  AdminCall(c)' /\ UNCHANGED user
<1>1. CASE ~admitted
  BY <1>1 DEF Begin, Idle, Ended, CallsShaped, AdminCall
<1>2. CASE admitted
  <2> DEFINE new == [Idle EXCEPT !.op = op, !.pc = pc, !.me = me, !.on = on, !.arg = arg]
  <2>1. call' = [call EXCEPT ![c] = new]
    BY <1>2 DEF Begin
  <2>2. new.op = op /\ new.pc = pc /\ new.arg = arg
    BY DEF Idle
  <2> HIDE DEF new
  <2>3. call'[c] = new
    BY <2>1 DEF CallsShaped
  <2>4. UNCHANGED user
    BY DEF Begin
  <2>5. QED
    BY <2>2, <2>3, <2>4 DEF AdminCall
<1>3. QED
  BY <1>1, <1>2

LEMMA EndAdmin ==
  ASSUME CallsShaped, NEW c \in Calls, End(c)
  PROVE  AdminCall(c)'
BY DEF End, Ended, Idle, CallsShaped, AdminCall

\* One that goes on.
LEMMA PutAdmin ==
  ASSUME CallsShaped, NEW c \in Calls, NEW pc, NEW row, NEW seen,
         call' = [call EXCEPT ![c].pc = pc, ![c].row = row, ![c].seen = seen]
  PROVE  /\ call'[c].op = call[c].op /\ call'[c].arg = call[c].arg
         /\ call'[c].pc = pc /\ call'[c].row = row /\ call'[c].seen = seen
BY DEF CallsShaped, Fields

\* A row that is written: the admins are the same but for it.
LEMMA WriteUser ==
  ASSUME UserRows, NEW u, NEW row \in Account, user' = [user EXCEPT ![u] = row]
  PROVE  /\ UserRows'
         /\ \A v \in Admins : v # u \/ row.role = "admin" => v \in Admins'
<1>1. row # None /\ row # Gone
  BY AccountAssumption
<1>2. \A v \in Users : user'[v] = IF v = u THEN row ELSE user[v]
  BY DEF UserRows
<1>3. QED
  BY <1>1, <1>2 DEF UserRows, Admins, Present

\* An UPDATE that leaves the role leaves the admins.
LEMMA UpdateTemporary ==
  ASSUME UserRows, NEW c \in Calls, NEW temporary \in BOOLEAN,
         Update(c, [user[call[c].on] EXCEPT !.temporary = temporary])
  PROVE  UserRows' /\ Admins \subseteq Admins'
<1> DEFINE u == call[c].on
           row == [user[u] EXCEPT !.temporary = temporary]
<1>1. CASE ~Present(u)
  BY <1>1 DEF Update, UserRows, Admins, Present
<1>2. CASE Present(u) /\ u \in Users
  <2>1. user[u] \in Account
    BY <1>2 DEF Present, UserRows
  <2>2. row \in Account /\ row.role = user[u].role
    BY <2>1 DEF Account
  <2>3. user' = [user EXCEPT ![u] = row]
    BY <1>2 DEF Update
  <2> HIDE DEF u, row
  <2>4. \A v \in Admins : v # u \/ row.role = "admin"
    BY <2>2 DEF Admins
  <2>5. QED
    BY <2>2, <2>3, <2>4, WriteUser
<1>3. CASE Present(u) /\ u \notin Users
  <2>1. user' = user
    BY <1>3 DEF Update, UserRows
  <2>2. QED
    BY <2>1 DEF UserRows, Admins, Present
<1>4. QED
  BY <1>1, <1>2, <1>3

\* An INSERT where there was nothing adds to the admins.
LEMMA InsertUser ==
  ASSUME UserRows, NEW u, NEW row \in Account,
         user' = IF user[u] = None THEN [user EXCEPT ![u] = row] ELSE user
  PROVE  UserRows' /\ Admins \subseteq Admins'
<1>1. CASE user[u] = None
  <2>1. u \notin Admins
    BY <1>1 DEF Admins, Present
  <2>2. QED
    BY <1>1, <2>1, WriteUser
<1>2. CASE user[u] # None
  BY <1>2 DEF UserRows, Admins, Present
<1>3. QED
  BY <1>1, <1>2

\* Loading the row that is to change: an admin who is not to stay one is counted
\* next.
LEMMA SetRoleLoadAdmin ==
  ASSUME AdminInv, NEW c \in Calls, SetRoleLoad(c)
  PROVE  AdminCall(c)' /\ UNCHANGED user
<1> DEFINE u == call[c].on
           row == user[u]
           pc == IF user[u] # None /\ user[u] # Gone /\ user[u].role = "admin" /\ call[c].arg # "admin"
                   THEN "count" ELSE "write"
<1>1. UNCHANGED user /\ call[c].op = "set role" /\ call[c].arg \in Roles
  BY DEF SetRoleLoad, Load, At, AdminInv, AdminCall
<1>2. CASE ~Present(u)
  BY <1>1, <1>2, EndAdmin DEF SetRoleLoad, Load, AdminInv
<1>3. CASE Present(u)
  <2>1. call' = [call EXCEPT ![c].pc = pc, ![c].row = row]
    BY <1>3 DEF SetRoleLoad, Load
  <2>2. pc = "write" => row.role # "admin" \/ call[c].arg = "admin"
    BY <1>3 DEF Present
  <2> HIDE DEF pc, row
  <2>3. /\ call'[c].op = "set role" /\ call'[c].arg = call[c].arg
        /\ call'[c].pc = pc /\ call'[c].row = row
    BY <1>1, <2>1 DEF AdminInv, CallsShaped, Fields
  <2>4. QED
    BY <1>1, <2>2, <2>3 DEF AdminCall
<1>4. QED
  BY <1>2, <1>3

\* admin_count: what goes on has seen several.
LEMMA CountAdminsAdmin ==
  ASSUME AdminInv, NEW c \in Calls,
         NEW op \in {"set role", "remove user"}, NEW pc \in {"write", "take"}, CountAdmins(c, op, pc)
  PROVE  AdminCall(c)' /\ UNCHANGED user
<1>1. UNCHANGED user /\ call[c].op = op /\ (op = "set role" => call[c].arg \in Roles)
  BY DEF CountAdmins, At, AdminInv, AdminCall
<1>2. CASE Cardinality(Admins) <= 1
  BY <1>1, <1>2, EndAdmin DEF CountAdmins, AdminInv
<1>3. CASE ~(Cardinality(Admins) <= 1)
  <2> DEFINE seen == Admins
  <2>1. call' = [call EXCEPT ![c].pc = pc, ![c].seen = seen]
    BY <1>3 DEF CountAdmins
  <2>2. ~(Cardinality(seen) <= 1)
    BY <1>3
  <2> HIDE DEF seen
  <2>4. call'[c].op = op /\ call'[c].arg = call[c].arg /\ call'[c].seen = seen
    BY <1>1, <2>1 DEF AdminInv, CallsShaped, Fields
  <2>5. QED
    BY <1>1, <2>2, <2>4 DEF AdminCall
<1>4. QED
  BY <1>2, <1>3

LEMMA RemoveUserLoadAdmin ==
  ASSUME AdminInv, NEW c \in Calls, RemoveUserLoad(c)
  PROVE  AdminCall(c)' /\ UNCHANGED user
<1> DEFINE row == user[call[c].on]
           pc == IF user[call[c].on].role = "admin" THEN "count" ELSE "take"
<1>1. UNCHANGED user /\ call[c].op = "remove user"
  BY DEF RemoveUserLoad, At
<1>2. CASE End(c)
  BY <1>1, <1>2, EndAdmin DEF AdminInv
<1>3. CASE ~End(c)
  <2>1. call' = [call EXCEPT ![c].row = row, ![c].pc = pc]
    BY <1>3 DEF RemoveUserLoad
  <2>2. pc \in {"take", "drop"} => row.role # "admin"
    OBVIOUS
  <2> HIDE DEF pc, row
  <2>3. call'[c].op = "remove user" /\ call'[c].pc = pc /\ call'[c].row = row
    BY <1>1, <2>1 DEF AdminInv, CallsShaped, Fields
  <2>4. QED
    BY <1>1, <2>2, <2>3 DEF AdminCall
<1>4. QED
  BY <1>2, <1>3

\* Loading the row a password is issued for, or a step on to the insert.
LEMMA OtherAdmin ==
  ASSUME AdminInv, NEW c \in Calls,
         Load(c, "issue password", "write") \/ SetupFind(c) \/ CreateUserFind(c)
  PROVE  AdminCall(c)' /\ UNCHANGED user
<1>1. UNCHANGED user /\ call[c].op \in {"issue password", "setup", "create user"} /\ AdminCall(c)
  BY DEF Load, SetupFind, CreateUserFind, At, AdminInv
<1>2. CASE End(c)
  BY <1>1, <1>2, EndAdmin DEF AdminInv
<1>3. CASE ~End(c)
  <2>1. call'[c].op = call[c].op /\ call'[c].arg = call[c].arg
    <3> DEFINE row == user[call[c].on]
    <3>1. call' = [call EXCEPT ![c].pc = "write", ![c].row = row] \/ Advance(c, "insert")
      BY <1>3 DEF Load, SetupFind, CreateUserFind
    <3> HIDE DEF row
    <3>2. QED
      BY <3>1 DEF Advance, AdminInv, CallsShaped, Fields
  <2>2. QED
    BY <1>1, <2>1 DEF AdminCall
<1>4. QED
  BY <1>2, <1>3

\* A role that is written.
LEMMA SetRoleWriteUsers ==
  ASSUME AdminInv, NEW c \in Calls, SetRoleWrite(c)
  PROVE  UserRows' /\ \A v \in Admins : v # call[c].on \/ call[c].arg = "admin" => v \in Admins'
<1> DEFINE u == call[c].on
           row == [user[u] EXCEPT !.role = call[c].arg]
<1>1. UserRows /\ call[c].arg \in Roles
  BY DEF AdminInv, AdminCall, SetRoleWrite, At
<1>2. CASE ~Present(u) \/ u \notin Users
  <2>1. user' = user
    BY <1>1, <1>2 DEF SetRoleWrite, Update, UserRows
  <2>2. QED
    BY <1>1, <2>1 DEF UserRows, Admins, Present
<1>3. CASE Present(u) /\ u \in Users
  <2>1. row \in Account /\ row.role = call[c].arg
    BY <1>1, <1>3 DEF Present, UserRows, Account
  <2>2. user' = [user EXCEPT ![u] = row]
    BY <1>3 DEF SetRoleWrite, Update
  <2> HIDE DEF row
  <2>3. QED
    BY <1>1, <2>1, <2>2, WriteUser
<1>4. QED
  BY <1>2, <1>3

\* An account step keeps all that, and takes an admin away only by writing a role.
LEMMA AccountUsers ==
  ASSUME AdminInv, NEW c \in Calls, AccountStep(c)
  PROVE  /\ AdminCall(c)' /\ UserRows'
         /\ Admins \subseteq Admins' \/ SetRoleWrite(c)
<1> DEFINE Fine == AdminCall(c)' /\ UserRows' /\ (Admins \subseteq Admins' \/ SetRoleWrite(c))
<1> CallsShaped /\ UserRows
  BY DEF AdminInv
<1>1. ASSUME AdminCall(c)', UNCHANGED user PROVE Fine
  BY <1>1 DEF UserRows, Admins, Present
<1>2. ASSUME NEW row \in Account, End(c),
             user' = IF user[call[c].on] = None THEN [user EXCEPT ![call[c].on] = row] ELSE user
      PROVE  Fine
  BY <1>2, InsertUser, EndAdmin
<1>3. ASSUME NEW t \in BOOLEAN, Update(c, [user[call[c].on] EXCEPT !.temporary = t]) PROVE Fine
  BY <1>3, UpdateTemporary, EndAdmin DEF Update
<1>4. CASE (\E u \in Users : SetupAsk(c, u)) \/ (\E me, u \in Users : IssuePassword(c, me, u))
             \/ (\E me, u \in Users : RemoveUser(c, me, u)) \/ (\E me \in Users : ChangePassword(c, me))
  BY <1>1, <1>4, BeginAdmin DEF SetupAsk, IssuePassword, RemoveUser, ChangePassword
<1>5. CASE \E me, u \in Users, role \in Roles : CreateUser(c, me, u, role) \/ SetRole(c, me, u, role)
  BY <1>1, <1>5, BeginAdmin DEF CreateUser, SetRole
<1>6. CASE SetupFind(c) \/ CreateUserFind(c) \/ Load(c, "issue password", "write")
  BY <1>1, <1>6, OtherAdmin
<1>7. CASE SetRoleLoad(c) \/ RemoveUserLoad(c)
  BY <1>1, <1>7, SetRoleLoadAdmin, RemoveUserLoadAdmin
<1>8. CASE CountAdmins(c, "set role", "write") \/ CountAdmins(c, "remove user", "take")
  BY <1>1, <1>8, CountAdminsAdmin
<1>9. CASE SetupInsert(c)
  <2>1. [role |-> "admin", temporary |-> FALSE] \in Account
    BY DEF Account, Roles
  <2>2. QED
    BY <1>2, <1>9, <2>1 DEF SetupInsert
<1>10. CASE CreateUserInsert(c)
  <2>1. [role |-> call[c].arg, temporary |-> TRUE] \in Account
    BY <1>10 DEF Account, CreateUserInsert, At, AdminInv, AdminCall
  <2>2. QED
    BY <1>2, <1>10, <2>1 DEF CreateUserInsert
<1>11. CASE SetRoleWrite(c)
  BY <1>11, SetRoleWriteUsers, EndAdmin DEF SetRoleWrite, Update
<1>12. CASE IssuePasswordWrite(c) \/ ChangePasswordWrite(c)
  BY <1>3, <1>12 DEF IssuePasswordWrite, ChangePasswordWrite
<1>13. QED
  BY <1>4, <1>5, <1>6, <1>7, <1>8, <1>9, <1>10, <1>11, <1>12 DEF AccountStep

----------------------------------------------------------------------------
(* The other steps leave the accounts alone. *)

LEMMA BucketUsers ==
  ASSUME NEW c \in Calls, BucketStep(c)
  PROVE  UNCHANGED user
<1> USE DEF Begin, BeginPool, BeginBucket, Console
<1>1. CASE (\E me \in Users : CreatePool(c, me))
             \/ \E me \in Users, p \in Pools : ConfigurePool(c, me, p) \/ RemovePool(c, me, p)
  BY <1>1 DEF CreatePool, ConfigurePool, RemovePool
<1>2. CASE CreatePoolInsert(c) \/ ConfigurePoolWrite(c) \/ CountForPool(c) \/ DropPool(c)
             \/ LoadPool(c, "configure pool", "write") \/ LoadPool(c, "remove pool", "count")
  BY <1>2 DEF CreatePoolInsert, ConfigurePoolWrite, CountForPool, DropPool, LoadPool
<1>3. CASE \E me \in Users, p \in Pools, b \in Buckets : CreateBucket(c, me, p, NameOf[b])
  BY <1>3 DEF CreateBucket
<1>4. CASE FindPool(c, "find", "find again") \/ FindPool(c, "find again", "insert")
             \/ CreateBucketInsert(c)
  BY <1>4 DEF FindPool, CreateBucketInsert
<1>5. CASE (\E me \in Users, b \in Buckets, max \in Limits : SetLimit(c, me, b, max))
             \/ \E me \in Users, b \in Buckets : RemoveBucket(c, me, b)
  BY <1>5 DEF SetLimit, RemoveBucket
<1>6. CASE LoadBucket(c, "set limit", "write") \/ LoadBucket(c, "remove bucket", "drop")
             \/ SetLimitWrite(c) \/ RemoveBucketDrop(c) \/ TakeBuckets(c)
  BY <1>6 DEF LoadBucket, SetLimitWrite, RemoveBucketDrop, TakeBuckets
<1>7. QED
  BY <1>1, <1>2, <1>3, <1>4, <1>5, <1>6 DEF BucketStep

LEMMA KeyUsers ==
  ASSUME NEW c \in Calls, KeyStep(c)
  PROVE  UNCHANGED user
<1> USE DEF Begin, BeginKey, KeyFrame
<1>1. CASE \E me \in Users, acts \in Grants, scoping \in Scopings, expires \in Expiries :
             CreateKey(c, me, acts, scoping, expires)
  BY <1>1 DEF CreateKey
<1>2. CASE (\E me \in Users, k \in Keys : RevokeKey(c, me, k) \/ RotateKey(c, me, k))
             \/ \E me \in Users, k \in Keys, patch \in Patches : PatchKey(c, me, k, patch)
  BY <1>2 DEF RevokeKey, RotateKey, PatchKey
<1>3. CASE CreateKeyInsert(c) \/ RevokeKeyWrite(c) \/ LoadKey(c, "revoke key", "write")
             \/ LoadKey(c, "rotate key", "permissions")
  BY <1>3 DEF CreateKeyInsert, RevokeKeyWrite, LoadKey
<1>4. CASE PatchKeyLoad(c) \/ PatchPermissionsDelete(c) \/ PatchPermissions(c)
             \/ PatchPrefixesDelete(c) \/ PatchPrefixes(c)
  BY <1>4 DEF PatchKeyLoad, PatchPermissionsDelete, PatchPermissions, PatchPrefixesDelete,
              PatchPrefixes, PatchDelete
<1>5. CASE PatchLabel(c) \/ PatchExpires(c) \/ PatchStatus(c)
  BY <1>5 DEF PatchLabel, PatchExpires, PatchStatus
<1>6. CASE RotatePermissions(c) \/ RotatePrefixes(c) \/ RotateDisable(c) \/ RotateInsert(c)
  BY <1>6 DEF RotatePermissions, RotatePrefixes, RotateDisable, RotateInsert
<1>7. QED
  BY <1>1, <1>2, <1>3, <1>4, <1>5, <1>6 DEF KeyStep

----------------------------------------------------------------------------
(* The last admin. *)

\* The inductive invariant.
PlaneInv == KeyInv /\ UserRows /\ \A c \in Calls : AdminCall(c)

\* What a step does to the accounts: nothing, a role that is written, or an
\* account that is removed.
UserMove(c) ==
  /\ Alone(c) /\ AdminCall(c)' /\ UserRows'
  /\ \/ Admins \subseteq Admins'
     \/ SetRoleWrite(c)
     \/ DropUser(c)

LEMMA DropUserRows ==
  ASSUME UserRows, NEW c \in Calls, DropUser(c)
  PROVE  UserRows' /\ \A v \in Admins : v # call[c].on => v \in Admins'
BY DEF DropUser, UserRows, Admins, Present

LEMMA NextUsers ==
  ASSUME PlaneInv, GatewayNext
  PROVE  (\E c \in Calls : UserMove(c)) \/ UNCHANGED <<user, call>>
<1>1. CASE \E r \in Requests : RequestStep(r)
  BY <1>1, RequestLeaves
<1>2. CASE WriteAudit
  BY <1>2 DEF WriteAudit, ConsoleRows
<1>3. CASE Tick
  BY <1>3 DEF Tick
<1>4. ASSUME NEW c \in Calls, ConsoleStep(c)
      PROVE  UserMove(c)
  <2> KeyInv /\ CallsShaped /\ UserRows /\ AdminInv /\ AdminCall(c)
    BY DEF PlaneInv, KeyInv, AdminInv
  <2>1. ASSUME Alone(c), UNCHANGED user, AdminCall(c)' PROVE UserMove(c)
    BY <2>1 DEF UserMove, UserRows, Admins, Present
  <2>2. CASE AccountStep(c)
    BY <2>2, AccountCalls, AccountUsers DEF UserMove
  <2>3. CASE BucketStep(c)
    <3>1. Alone(c) /\ UNCHANGED user
      BY <2>3, BucketCalls, BucketUsers
    <3>2. CASE TakeBuckets(c)
      BY <2>1, <3>1, <3>2, TakeBucketsCalls DEF AdminCall
    <3>3. CASE call'[c].op \in BucketOps \cup {"none"}
      BY <2>1, <3>1, <3>3 DEF AdminCall, BucketOps
    <3>4. QED
      BY <2>3, <3>2, <3>3, BucketCalls
  <2>4. CASE KeyStep(c)
    <3>1. Alone(c) /\ UNCHANGED user /\ call'[c].op \in KeyOps \cup {"none"}
      BY <2>4, KeyStepKeeps, KeyUsers DEF Kept, KeyOp
    <3>2. QED
      BY <2>1, <3>1 DEF AdminCall, KeyOps
  <2>5. CASE DropUser(c)
    <3>1. AdminCall(c)'
      BY <2>5, EndAdmin DEF DropUser
    <3>2. QED
      BY <2>5, <3>1, DropCalls, DropUserRows DEF UserMove
  <2>6. QED
    BY <1>4, <2>2, <2>3, <2>4, <2>5 DEF ConsoleStep
<1>5. QED
  BY <1>1, <1>2, <1>3, <1>4 DEF GatewayNext

\* An administrator who is taken away was one of several when they were counted,
\* whatever other calls do: the invariant under the next theorem.
THEOREM AdminsCounted == GatewaySpec => []PlaneInv
<1>1. GatewayInit => UserRows /\ \A c \in Calls : AdminCall(c)
  <2> SUFFICES ASSUME GatewayInit PROVE UserRows /\ \A c \in Calls : AdminCall(c)
    OBVIOUS
  <2>1. UserRows
    BY DatabasesAssumption DEF GatewayInit, UserRows
  <2>2. \A c \in Calls : call[c].op = "none"
    BY DEF GatewayInit, Idle, Ended
  <2>3. QED
    BY <2>1, <2>2 DEF AdminCall
<1>2. PlaneInv /\ KeyInv' /\ [GatewayNext]_gvars => PlaneInv'
  <2> SUFFICES ASSUME PlaneInv, KeyInv', [GatewayNext]_gvars PROVE PlaneInv'
    OBVIOUS
  <2>1. CASE \E c \in Calls : UserMove(c)
    <3>1. PICK c \in Calls : UserMove(c)
      BY <2>1
    <3>2. ASSUME NEW d \in Calls PROVE AdminCall(d)'
      BY <3>1 DEF UserMove, Alone, PlaneInv, AdminCall
    <3>3. QED
      BY <3>1, <3>2 DEF PlaneInv, UserMove
  <2>2. CASE UNCHANGED <<user, call>>
    BY <2>2 DEF PlaneInv, UserRows, AdminCall
  <2>3. QED
    BY <2>1, <2>2, NextUsers DEF gvars
<1>3. QED
  BY <1>1, <1>2, KeysTyped, PTL DEF GatewaySpec, PlaneInv

\* The last admin is demoted or removed only by a call that decided on what is
\* no longer true: "so the last one cannot be demoted or deleted"
\* (models/users.rs:387) holds of calls that do not overlap.
THEOREM LastAdminTheorem == GatewaySpec => LastAdminLostOnlyByRace
<1> DEFINE Blind(c) == /\ At(c, "set role", "write") \/ At(c, "remove user", "drop")
                       /\ call'[c].pc = "ended"
                       /\ call[c].row.role # "admin" \/ call[c].seen # Admins
<1>1. PlaneInv /\ [GatewayNext]_gvars =>
        [(Admins # {} /\ Admins' = {}) => \E c \in Calls : Blind(c)]_<<user, call>>
  <2> SUFFICES ASSUME PlaneInv, [GatewayNext]_gvars, ~UNCHANGED <<user, call>>,
                      Admins # {}, Admins' = {}
               PROVE  \E c \in Calls : Blind(c)
    OBVIOUS
  <2>1. PICK c \in Calls : UserMove(c)
    BY NextUsers DEF gvars
  <2>2. SetRoleWrite(c) \/ DropUser(c)
    BY <2>1 DEF UserMove
  <2>3. At(c, "set role", "write") \/ At(c, "remove user", "drop")
    BY <2>2 DEF SetRoleWrite, DropUser
  <2>4. call'[c].pc = "ended"
    BY <2>2 DEF SetRoleWrite, Update, DropUser, End, Ended, Idle, PlaneInv, KeyInv, CallsShaped
  <2>5. Admins = {call[c].on} /\ (At(c, "set role", "write") => call[c].arg # "admin")
    <3>1. CASE SetRoleWrite(c)
      <4>1. \A v \in Admins : ~(v # call[c].on \/ call[c].arg = "admin")
        BY <3>1, SetRoleWriteUsers DEF PlaneInv, KeyInv, AdminInv
      <4>2. QED
        BY <4>1
    <3>2. CASE DropUser(c)
      <4>1. \A v \in Admins : v = call[c].on
        BY <3>2, DropUserRows DEF PlaneInv
      <4>2. QED
        BY <3>2, <4>1 DEF DropUser, At
    <3>3. QED
      BY <2>2, <3>1, <3>2
  <2>6. Cardinality(Admins) <= 1
    <3>1. Cardinality({call[c].on}) = 1
      BY FS_Singleton
    <3>2. 1 <= 1
      OBVIOUS
    <3>3. QED
      BY <2>5, <3>1, <3>2
  <2>7. call[c].row.role # "admin" \/ call[c].seen # Admins
    BY <2>3, <2>5, <2>6 DEF PlaneInv, AdminCall, At
  <2>8. QED
    BY <2>3, <2>4, <2>7
<1>2. QED
  BY <1>1, AdminsCounted, PTL DEF GatewaySpec, LastAdminLostOnlyByRace
=============================================================================
