------------------------------ MODULE KeyLife ------------------------------
(***************************************************************************)
(* What an access key may become: the promise of set_status and revoke     *)
(* (models/access_keys.rs), that a revoked key never comes back.           *)
(***************************************************************************)
CONSTANT Keys

VARIABLE life

Lives == {"none", "active", "disabled", "revoked", "gone"}

LifeInit == life \in [Keys -> Lives]

Move(k, from, to) == life[k] \in from /\ life' = [life EXCEPT ![k] = to]

Issue(k) == Move(k, {"none"}, "active")
Disable(k) == Move(k, {"active", "disabled"}, "disabled")
Enable(k) == Move(k, {"active", "disabled"}, "active")
Revoke(k) == Move(k, {"active", "disabled", "revoked"}, "revoked")

\* The keys of an account go with it.
Forget(ks) ==
  /\ \A k \in ks : life[k] # "none"
  /\ life' = [k \in Keys |-> IF k \in ks THEN "gone" ELSE life[k]]

LifeNext ==
  \/ \E k \in Keys : Issue(k) \/ Disable(k) \/ Enable(k) \/ Revoke(k)
  \/ \E ks \in SUBSET Keys : Forget(ks)

LifeSpec == LifeInit /\ [][LifeNext]_life
=============================================================================
