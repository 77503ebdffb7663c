----------------------------- MODULE AccessKeys -----------------------------
(***************************************************************************)
(* Access keys (models/access_keys.rs) and the console calls on them       *)
(* (controllers/api.rs).  A key's policy is in tables of its own, and a    *)
(* key without prefixes is good for the whole bucket.  The three policy    *)
(* writes of a key are read-committed transactions.                        *)
(***************************************************************************)
EXTENDS Accounts

CONSTANTS
  Keys,        \* access key rows
  Actions,     \* ACTIONS
  Grants,      \* the sets of actions clients ask for
  Prefixes,    \* prefixes; each is the set of the object keys it authorises
  Scopings,    \* the sets of prefixes clients ask for
  Expiries,    \* the expiries clients ask for; 0 is none
  Patches,     \* the bodies of a PATCH on a key; None is a part left out
  MaxClock     \* bound on the clock

ASSUME GrantsAssumption == Grants \subseteq SUBSET Actions
ASSUME ScopingsAssumption == Scopings \subseteq SUBSET Prefixes
ASSUME ExpiriesAssumption == Expiries \subseteq Nat
\* What validate_actions, validate_prefixes and set_status let through.
ASSUME PatchesAssumption ==
  \A patch \in Patches :
    /\ patch.permissions \in (SUBSET Actions) \cup {None}
    /\ patch.prefixes \in (SUBSET Prefixes) \cup {None}
    /\ patch.expires \in Nat \cup {None}
    /\ patch.status \in {"active", "disabled", None}
ASSUME MaxClockAssumption == MaxClock \in Nat

VARIABLES
  key,     \* the rows of access_keys with their policy
  clock

\* A prefix row is known by the call that wrote it too: equal prefixes of two
\* calls are two rows.  from is history: the key this one was rotated from.
Key == [owner : Users, status : {"active", "disabled", "revoked"}, expires : Nat,
        acts : SUBSET Actions, prefixes : SUBSET (Prefixes \X (Calls \cup {None})),
        from : Keys \cup {None}]

ASSUME KeyAssumption == None \notin Key /\ Gone \notin Key

Issued(k) == key[k] \notin {None, Gone}
Expired(expires) == expires # 0 /\ expires <= clock

\* find_by_access_key_id: one that is disabled, revoked or lapsed reads as absent.
Usable(k) == Issued(k) /\ key[k].status = "active" /\ ~Expired(key[k].expires)

\* prefixes: the text of the rows.
Scope(k) == {p[1] : p \in key[k].prefixes}

\* allows_key, of what prefixes returned.
Within(scope, name) == scope = {} \/ \E p \in scope : name \in p

KeyFrame == <<user, clock>>

BeginKey(c, me, op, pc, k, arg) ==
  Begin(c, Caller(me), op, pc, me, k, arg) /\ UNCHANGED <<key, clock>>

\* load: find_by_pid_for_user.
LoadKey(c, op, pc) ==
  /\ At(c, op, "load")
  /\ IF Issued(call[c].on) /\ key[call[c].on].owner = call[c].me
       THEN call' = [call EXCEPT ![c].pc = pc, ![c].row = key[call[c].on]]
       ELSE End(c)
  /\ UNCHANGED <<key, KeyFrame>>

----------------------------------------------------------------------------
(* create_key and revoke *)

\* create_key: the row and its policy in one transaction.  A lapsed expiry is
\* refused, and an account that is gone fails the insert.
Insert(c, row) ==
  /\ \E k \in Keys :
       /\ key[k] = None
       /\ key' = IF Present(row.owner) /\ ~Expired(row.expires) THEN [key EXCEPT ![k] = row] ELSE key
  /\ End(c)

CreateKey(c, me, acts, scoping, expires) ==
  BeginKey(c, me, "create key", "insert", None,
           [owner |-> me, status |-> "active", expires |-> expires, acts |-> acts,
            prefixes |-> scoping \X {c}, from |-> None])

CreateKeyInsert(c) ==
  /\ At(c, "create key", "insert")
  /\ Insert(c, call[c].arg)
  /\ UNCHANGED KeyFrame

RevokeKey(c, me, k) == BeginKey(c, me, "revoke key", "load", k, None)

RevokeKeyWrite(c) ==
  /\ At(c, "revoke key", "write")
  /\ key' = IF Issued(call[c].on) THEN [key EXCEPT ![call[c].on].status = "revoked"] ELSE key
  /\ End(c)
  /\ UNCHANGED KeyFrame

----------------------------------------------------------------------------
(* update_key: the parts of the body one after another, each a statement or a *)
(* transaction that stays when a later part is refused.                       *)

Parts == <<"permissions", "prefixes", "label", "expires", "status">>

PartsAfter(patch, part) ==
  {i \in DOMAIN Parts : patch[Parts[i]] # None /\ \A j \in DOMAIN Parts : Parts[j] = part => i > j}

NextPart(patch, part) ==
  Parts[CHOOSE i \in PartsAfter(patch, part) : \A j \in PartsAfter(patch, part) : i <= j]

\* On to the next part the body has, or no more.
Proceed(c, part) ==
  IF PartsAfter(call[c].arg, part) = {} THEN End(c)
  ELSE call' = [call EXCEPT ![c].pc = NextPart(call[c].arg, part), ![c].seen = None]

PatchKey(c, me, k, patch) == BeginKey(c, me, "patch key", "load", k, patch)

PatchKeyLoad(c) ==
  /\ At(c, "patch key", "load")
  /\ IF Issued(call[c].on) /\ key[call[c].on].owner = call[c].me THEN Proceed(c, "load") ELSE End(c)
  /\ UNCHANGED <<key, KeyFrame>>

\* set_permissions, set_prefixes: the DELETE catches the rows there are, and the
\* commit puts the new ones beside what has come since.
PatchDelete(c, part, rows) ==
  /\ At(c, "patch key", part) /\ call[c].seen = None
  /\ call' = [call EXCEPT ![c].seen = IF Issued(call[c].on) THEN rows ELSE {}]
  /\ UNCHANGED <<key, KeyFrame>>

PatchPermissionsDelete(c) == PatchDelete(c, "permissions", key[call[c].on].acts)

\* An action is unique in a key's policy, so a row that has come since may
\* refuse the new ones.
PatchPermissions(c) ==
  LET k == call[c].on
      left == key[k].acts \ call[c].seen
  IN
  /\ At(c, "patch key", "permissions") /\ call[c].seen # None
  /\ IF Issued(k) /\ left \cap call[c].arg.permissions = {}
       THEN /\ key' = [key EXCEPT ![k].acts = left \cup call[c].arg.permissions]
            /\ Proceed(c, "permissions")
       ELSE End(c) /\ UNCHANGED key
  /\ UNCHANGED KeyFrame

\* Mutant of PatchPrefixesDelete: no transaction.
PatchPrefixesDeleteAtOnce(c) ==
  /\ At(c, "patch key", "prefixes") /\ call[c].seen = None
  /\ call' = [call EXCEPT ![c].seen = {}]
  /\ key' = IF Issued(call[c].on) THEN [key EXCEPT ![call[c].on].prefixes = {}] ELSE key
  /\ UNCHANGED KeyFrame

PatchPrefixesDelete(c) == PatchDelete(c, "prefixes", key[call[c].on].prefixes)

PatchPrefixes(c) ==
  LET k == call[c].on IN
  /\ At(c, "patch key", "prefixes") /\ call[c].seen # None
  /\ IF Issued(k)
       THEN /\ key' = [key EXCEPT ![k].prefixes =
                         (@ \ call[c].seen) \cup (call[c].arg.prefixes \X {c})]
            /\ Proceed(c, "prefixes")
       ELSE End(c) /\ UNCHANGED key
  /\ UNCHANGED KeyFrame

\* A label that is none of LABELS is refused here, after the policy was written.
PatchLabel(c) ==
  /\ At(c, "patch key", "label")
  /\ IF Issued(call[c].on) /\ call[c].arg.label # "unknown" THEN Proceed(c, "label") ELSE End(c)
  /\ UNCHANGED <<key, KeyFrame>>

PatchExpires(c) ==
  /\ At(c, "patch key", "expires")
  /\ IF Issued(call[c].on)
       THEN /\ key' = [key EXCEPT ![call[c].on].expires = call[c].arg.expires]
            /\ Proceed(c, "expires")
       ELSE End(c) /\ UNCHANGED key
  /\ UNCHANGED KeyFrame

\* Mutant of SetStatus: the check is left to the row that was loaded.
SetStatusLoaded(k, status) == IF Issued(k) THEN [key EXCEPT ![k].status = status] ELSE key

\* The UPDATE of set_status and of rotate: never of a revoked key.
SetStatus(k, status) ==
  IF Issued(k) /\ key[k].status # "revoked" THEN [key EXCEPT ![k].status = status] ELSE key

PatchStatus(c) ==
  /\ At(c, "patch key", "status")
  /\ key' = SetStatus(call[c].on, call[c].arg.status)
  /\ End(c)
  /\ UNCHANGED KeyFrame

----------------------------------------------------------------------------
(* rotate *)

RotateKey(c, me, k) == BeginKey(c, me, "rotate key", "load", k, None)

RotatePermissions(c) ==
  /\ At(c, "rotate key", "permissions")
  /\ IF Expired(call[c].row.expires)
       THEN End(c)
       ELSE call' = [call EXCEPT ![c].pc = "prefixes",
                       ![c].row.acts = IF Issued(call[c].on) THEN key[call[c].on].acts ELSE {}]
  /\ UNCHANGED <<key, KeyFrame>>

RotatePrefixes(c) ==
  /\ At(c, "rotate key", "prefixes")
  /\ call' = [call EXCEPT ![c].pc = "disable",
                ![c].row.prefixes = IF Issued(call[c].on) THEN key[call[c].on].prefixes ELSE {}]
  /\ UNCHANGED <<key, KeyFrame>>

\* The old key is disabled before there is a new one.
RotateDisable(c) ==
  LET k == call[c].on IN
  /\ At(c, "rotate key", "disable")
  /\ key' = SetStatus(k, "disabled")
  /\ IF Issued(k) /\ key[k].status # "revoked" THEN Advance(c, "insert") ELSE End(c)
  /\ UNCHANGED KeyFrame

\* Mutant of Heir: the prefixes are forgotten.
HeirUnscoped(c) ==
  [call[c].row EXCEPT !.status = "active", !.from = call[c].on, !.prefixes = {}]

\* The replacement: what was read of the old key.
Heir(c) ==
  [call[c].row EXCEPT !.status = "active", !.from = call[c].on,
                      !.prefixes = {p[1] : p \in @} \X {c}]

RotateInsert(c) ==
  /\ At(c, "rotate key", "insert")
  /\ Insert(c, Heir(c))
  /\ UNCHANGED KeyFrame

----------------------------------------------------------------------------

\* The keys of an account go with it.
CascadeKeys(u) ==
  /\ key' = [k \in Keys |-> IF Issued(k) /\ key[k].owner = u THEN Gone ELSE key[k]]
  /\ UNCHANGED clock

\* The calls on keys.
KeyStep(c) ==
  \/ \E me \in Users, acts \in Grants, scoping \in Scopings, expires \in Expiries :
       CreateKey(c, me, acts, scoping, expires)
  \/ CreateKeyInsert(c)
  \/ \E me \in Users, k \in Keys : RevokeKey(c, me, k)
  \/ LoadKey(c, "revoke key", "write") \/ RevokeKeyWrite(c)
  \/ \E me \in Users, k \in Keys, patch \in Patches : PatchKey(c, me, k, patch)
  \/ PatchKeyLoad(c) \/ PatchPermissionsDelete(c) \/ PatchPermissions(c)
  \/ PatchPrefixesDelete(c) \/ PatchPrefixes(c)
  \/ PatchLabel(c) \/ PatchExpires(c) \/ PatchStatus(c)
  \/ \E me \in Users, k \in Keys : RotateKey(c, me, k)
  \/ LoadKey(c, "rotate key", "permissions")
  \/ RotatePermissions(c) \/ RotatePrefixes(c) \/ RotateDisable(c) \/ RotateInsert(c)

Tick ==
  /\ clock < MaxClock
  /\ clock' = clock + 1
  /\ UNCHANGED <<user, call, key>>

----------------------------------------------------------------------------
(* Properties. *)

LifeOf(k) == IF key[k] = None THEN "none" ELSE IF key[k] = Gone THEN "gone" ELSE key[k].status

Life == INSTANCE KeyLife WITH life <- [k \in Keys |-> LifeOf(k)]

\* Keys live as KeyLife says, whatever calls run at once: "a revoked key is
\* never brought back" (models/access_keys.rs:336), by a PATCH that loaded it
\* before the revoke or by a rotation either.
LivesAsPromised == Life!LifeSpec

\* A replacement comes with the policy its source has, or the source's policy
\* was changed after the rotation had read it.
HeirKeepsPolicy ==
  [][\A c \in Calls, k \in Keys :
       (At(c, "rotate key", "insert") /\ call'[c].pc = "ended" /\ key'[k] # key[k]) =>
         LET source == call[c].on IN
         Issued(source) =>
           \/ /\ key'[k].acts = key[source].acts
              /\ {p[1] : p \in key'[k].prefixes} = Scope(source)
           \/ key[source].acts # call[c].row.acts
           \/ key[source].prefixes # call[c].row.prefixes]_<<key, call>>

\* A key that is confined to prefixes is never seen without any, which would
\* be the whole bucket, unless a call asks for that.
NeverUnconfined ==
  [][\A k \in Keys :
       (Issued(k) /\ key[k].prefixes # {} /\ key'[k] # Gone /\ key'[k].prefixes = {}) =>
         \E c \in Calls : call[c].on = k /\ At(c, "patch key", "prefixes")
                          /\ call[c].arg.prefixes = {} /\ call[c].seen # None]_key
=============================================================================
