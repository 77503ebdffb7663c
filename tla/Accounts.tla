----------------------------- MODULE Accounts ------------------------------
(***************************************************************************)
(* Accounts (models/users.rs) and the console calls on them                *)
(* (controllers/admin.rs, auth.rs, api.rs).  A console call is one HTTP    *)
(* request: an extractor reads the caller's row, and the handler then runs *)
(* one statement per step, between the statements of other calls.  What a  *)
(* statement read stays in the call's record and may be out of date when   *)
(* it is used.                                                             *)
(***************************************************************************)
EXTENDS Integers, FiniteSets, Rows

CONSTANTS
  Users,   \* account rows; an id is used for one account only
  Calls    \* console calls; each is made at most once

ASSUME UsersFinite == IsFiniteSet(Users)
ASSUME UsersAssumption == None \notin Users

VARIABLES
  user,    \* the rows of users
  call     \* the console calls

Roles == {"admin", "user"}

\* temporary is must_change_password: the password is one an admin issued.
Account == [role : Roles, temporary : BOOLEAN]

ASSUME AccountAssumption == None \notin Account /\ Gone \notin Account

Present(u) == user[u] \notin {None, Gone}
Admins == {u \in Users : Present(u) /\ user[u].role = "admin"}

\* A call: what it does, its next statement, who makes it, the row it is about
\* and its argument, the row it loaded, and what it counted or captured.
Idle == [op |-> "none", pc |-> "idle", me |-> None, on |-> None, arg |-> None,
         row |-> None, seen |-> None]
Ended == [Idle EXCEPT !.pc = "ended"]

At(c, op, pc) == call[c].op = op /\ call[c].pc = pc
End(c) == call' = [call EXCEPT ![c] = Ended]
Advance(c, pc) == call' = [call EXCEPT ![c].pc = pc]

----------------------------------------------------------------------------
(* The extractors. *)

\* RawCaller: the account still exists.  Only changing one's password takes it.
RawCaller(me) == Present(me)

\* Caller: not while the password is a temporary one.
Caller(me) == RawCaller(me) /\ ~user[me].temporary

AdminCaller(me) == Caller(me) /\ user[me].role = "admin"

\* The extractor's read.  A refusal ends the call.
Begin(c, admitted, op, pc, me, on, arg) ==
  /\ call[c] = Idle
  /\ call' = [call EXCEPT ![c] =
       IF admitted THEN [Idle EXCEPT !.op = op, !.pc = pc, !.me = me, !.on = on, !.arg = arg]
                   ELSE Ended]
  /\ UNCHANGED user

\* load: find_by_pid.
Load(c, op, pc) ==
  /\ At(c, op, "load")
  /\ IF Present(call[c].on)
       THEN call' = [call EXCEPT ![c].pc = pc, ![c].row = user[call[c].on]]
       ELSE End(c)
  /\ UNCHANGED user

\* An UPDATE by id, of the columns that were set.  A row that is gone fails it.
Update(c, row) ==
  /\ user' = IF Present(call[c].on) THEN [user EXCEPT ![call[c].on] = row] ELSE user
  /\ End(c)

----------------------------------------------------------------------------
(* First-run setup: setup_admin, then create_first_admin's transaction. *)

SetupAsk(c, u) ==
  Begin(c, \A v \in Users : ~Present(v), "setup", "find", None, u, None)

\* The transaction looks again.  It locks nothing, so a second setup that looks
\* before this one commits does not see it.
SetupFind(c) ==
  /\ At(c, "setup", "find")
  /\ IF \E v \in Users : Present(v) THEN End(c) ELSE Advance(c, "insert")
  /\ UNCHANGED user

SetupInsert(c) ==
  /\ At(c, "setup", "insert")
  /\ user' = IF user[call[c].on] = None
               THEN [user EXCEPT ![call[c].on] = [role |-> "admin", temporary |-> FALSE]]
               ELSE user
  /\ End(c)

----------------------------------------------------------------------------
(* admin.rs *)

CreateUser(c, me, u, role) ==
  Begin(c, AdminCaller(me), "create user", "find", me, u, role)

\* The row's id stands for its email too.
CreateUserFind(c) ==
  /\ At(c, "create user", "find")
  /\ IF user[call[c].on] # None THEN End(c) ELSE Advance(c, "insert")
  /\ UNCHANGED user

CreateUserInsert(c) ==
  /\ At(c, "create user", "insert")
  /\ user' = IF user[call[c].on] = None
               THEN [user EXCEPT ![call[c].on] = [role |-> call[c].arg, temporary |-> TRUE]]
               ELSE user
  /\ End(c)

SetRole(c, me, u, role) ==
  Begin(c, AdminCaller(me), "set role", "load", me, u, role)

\* Only a loaded admin who is to become something else is counted.
SetRoleLoad(c) ==
  Load(c, "set role", IF user[call[c].on] # None /\ user[call[c].on] # Gone
                         /\ user[call[c].on].role = "admin" /\ call[c].arg # "admin"
                      THEN "count" ELSE "write")

\* Mutant of CountAdmins: the number is not looked at.
CountAdminsBlind(c, op, pc) ==
  /\ At(c, op, "count")
  /\ call' = [call EXCEPT ![c].pc = pc, ![c].seen = Admins]
  /\ UNCHANGED user

\* admin_count, and the refusal to leave none.
CountAdmins(c, op, pc) ==
  /\ At(c, op, "count")
  /\ IF Cardinality(Admins) <= 1
       THEN End(c)
       ELSE call' = [call EXCEPT ![c].pc = pc, ![c].seen = Admins]
  /\ UNCHANGED user

SetRoleWrite(c) ==
  /\ At(c, "set role", "write")
  /\ Update(c, [user[call[c].on] EXCEPT !.role = call[c].arg])

IssuePassword(c, me, u) ==
  Begin(c, AdminCaller(me), "issue password", "load", me, u, None)

IssuePasswordWrite(c) ==
  /\ At(c, "issue password", "write")
  /\ Update(c, [user[call[c].on] EXCEPT !.temporary = TRUE])

RemoveUser(c, me, u) ==
  Begin(c, AdminCaller(me), "remove user", "load", me, u, None)

\* An admin does not remove themselves, and the last admin is not removed.
RemoveUserLoad(c) ==
  /\ At(c, "remove user", "load")
  /\ IF ~Present(call[c].on) \/ call[c].on = call[c].me
       THEN End(c)
       ELSE call' = [call EXCEPT ![c].row = user[call[c].on],
                                 ![c].pc = IF user[call[c].on].role = "admin" THEN "count" ELSE "take"]
  /\ UNCHANGED user

\* The DELETE of the row and the commit of delete_with_owned_data.
DropUser(c) ==
  /\ At(c, "remove user", "drop")
  /\ user' = IF Present(call[c].on) THEN [user EXCEPT ![call[c].on] = Gone] ELSE user
  /\ End(c)

----------------------------------------------------------------------------
(* api.rs: change_password.  The caller knows the password on the row the     *)
(* extractor read, and the write comes after the new one has been hashed.     *)

ChangePassword(c, me) ==
  Begin(c, RawCaller(me), "change password", "write", me, me, None)

ChangePasswordWrite(c) ==
  /\ At(c, "change password", "write")
  /\ Update(c, [user[call[c].on] EXCEPT !.temporary = FALSE])

----------------------------------------------------------------------------

\* The calls on accounts, but for removing one: what it takes with it is the
\* business of the modules that hold it.
AccountStep(c) ==
  \/ \E u \in Users : SetupAsk(c, u)
  \/ SetupFind(c) \/ SetupInsert(c)
  \/ \E me, u \in Users, role \in Roles : CreateUser(c, me, u, role)
  \/ CreateUserFind(c) \/ CreateUserInsert(c)
  \/ \E me, u \in Users, role \in Roles : SetRole(c, me, u, role)
  \/ SetRoleLoad(c) \/ CountAdmins(c, "set role", "write") \/ SetRoleWrite(c)
  \/ \E me, u \in Users : IssuePassword(c, me, u)
  \/ Load(c, "issue password", "write") \/ IssuePasswordWrite(c)
  \/ \E me, u \in Users : RemoveUser(c, me, u)
  \/ RemoveUserLoad(c) \/ CountAdmins(c, "remove user", "take")
  \/ \E me \in Users : ChangePassword(c, me)
  \/ ChangePasswordWrite(c)

----------------------------------------------------------------------------
(* Properties. *)

\* A call that takes the last admin away decided on what is no longer true: the
\* row was not an admin's when it was loaded, or there were other admins when
\* they were counted.  "so the last one cannot be demoted or deleted"
\* (models/users.rs:387) is what happens when no two such calls overlap.
LastAdminLostOnlyByRace ==
  [][(Admins # {} /\ Admins' = {}) =>
       \E c \in Calls : /\ At(c, "set role", "write") \/ At(c, "remove user", "drop")
                        /\ call'[c].pc = "ended"
                        /\ call[c].row.role # "admin" \/ call[c].seen # Admins]_<<user, call>>
=============================================================================
